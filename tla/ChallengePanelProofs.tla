------------------------ MODULE ChallengePanelProofs ------------------------
(***************************************************************************)
(* Proofs about ChallengePanel, for every number of mounts and of pending  *)
(* functions, every time limit and every window: its types, and that a     *)
(* panel that says "Checking..." has a health-check loop.                  *)
(***************************************************************************)
EXTENDS ChallengePanel, TLAPS

Details == [started : BOOLEAN, url : {"none", "text", "url"}, time : Int,
            starting : BOOLEAN, stopping : BOOLEAN, submitting : BOOLEAN,
            checking : BOOLEAN, healthy : BOOLEAN]
Refs == [running : BOOLEAN, abort : BOOLEAN, stop : BOOLEAN, end : Int]

-----------------------------------------------------------------------------
(* Types.                                                                  *)

LEMMA InitTyped == PanelInit => PanelTypeOK
<1> SUFFICES ASSUME PanelInit PROVE PanelTypeOK
  OBVIOUS
<1>1. NoJob \in Job
  BY DEF NoJob, Job, Op, At, Answer, Phase
<1>2. FreshUi \in Details
  BY DEF FreshUi, Details
<1>3. FreshRef \in Refs
  BY DEF FreshRef, Refs, None
<1>4. entry \in [phase : Phase, left : 0..Life]
  BY PanelAssumption DEF PanelInit, Phase
<1> QED
  BY <1>1, <1>2, <1>3, <1>4 DEF PanelInit, PanelTypeOK, Details, Refs, None

LEMMA JobTyped ==
    ASSUME PanelTypeOK, NEW s \in Pending, NEW t \in Job, Become(s, t)
    PROVE  job' \in [Pending -> Job] /\ job'[s] = t /\ \A u \in Pending : u # s => job'[u] = job[u]
  BY DEF PanelTypeOK, Become

LEMMA NoJobTyped == NoJob \in Job /\ NoJob.op = "none"
  BY DEF NoJob, Job, Op, At, Answer, Phase

LEMMA NewTyped ==
    ASSUME NEW op \in Op, NEW m \in Mount \cup {NoMount}, NEW at \in At
    PROVE  /\ New(op, m, at) \in Job
           /\ New(op, m, at).op = op /\ New(op, m, at).by = m /\ New(op, m, at).at = at
<1>1. NoJob \in Job
  BY NoJobTyped
<1>2. New(op, m, at) \in Job
  BY <1>1 DEF New, Job
<1>3. New(op, m, at).op = op /\ New(op, m, at).by = m /\ New(op, m, at).at = at
  BY <1>1 DEF New, Job
<1> QED
  BY <1>2, <1>3

LEMMA ResumeTyped ==
    ASSUME PanelTypeOK, NEW s \in Pending, NEW at \in At, Resume(s, at)
    PROVE  /\ job' \in [Pending -> Job]
           /\ job'[s].op = job[s].op /\ job'[s].by = job[s].by /\ job'[s].at = at
           /\ \A u \in Pending : u # s => job'[u] = job[u]
<1>1. job[s] \in Job
  BY DEF PanelTypeOK
<1>2. /\ [job[s] EXCEPT !.at = at, !.ans = ""] \in Job
      /\ [job[s] EXCEPT !.at = at, !.ans = ""].op = job[s].op
      /\ [job[s] EXCEPT !.at = at, !.ans = ""].by = job[s].by
      /\ [job[s] EXCEPT !.at = at, !.ans = ""].at = at
  BY <1>1 DEF Job, Answer
<1> QED
  BY <1>2, JobTyped DEF Resume

LEMMA AnsweredTyped ==
    ASSUME PanelTypeOK, NEW s \in Pending, NEW ans \in Answer, NEW left \in Int,
           Answered(s, ans, left)
    PROVE  /\ job' \in [Pending -> Job]
           /\ job'[s].op = job[s].op /\ job'[s].by = job[s].by /\ job'[s].at = "answered"
           /\ \A u \in Pending : u # s => job'[u] = job[u]
<1>1. job[s] \in Job
  BY DEF PanelTypeOK
<1>2. job' = [job EXCEPT ![s] = [job[s] EXCEPT !.at = "answered", !.ans = ans, !.left = left]]
  BY DEF Answered, PanelTypeOK
<1>3. /\ [job[s] EXCEPT !.at = "answered", !.ans = ans, !.left = left] \in Job
      /\ [job[s] EXCEPT !.at = "answered", !.ans = ans, !.left = left].op = job[s].op
      /\ [job[s] EXCEPT !.at = "answered", !.ans = ans, !.left = left].by = job[s].by
      /\ [job[s] EXCEPT !.at = "answered", !.ans = ans, !.left = left].at = "answered"
  BY <1>1 DEF Job, At
<1> QED
  BY <1>2, <1>3, JobTyped DEF Become

LEMMA ShowTyped ==
    ASSUME PanelTypeOK, NEW m, NEW u \in Details, Show(m, u)
    PROVE  detail' \in Details
  BY DEF PanelTypeOK, Show, Details

LEMMA RenderTyped ==
    ASSUME PanelTypeOK, NEW m, NEW u \in Details, NEW r, m \in Mount => r \in Refs, Render(m, u, r)
    PROVE  /\ detail' \in Details /\ ref' \in [Mount -> Refs]
           /\ detail'.checking = IF m = mounted THEN u.checking ELSE detail.checking
           /\ m \in Mount => ref'[m].running = r.running /\ ref'[m].abort = r.abort
           /\ \A n \in Mount : n # m => ref'[n] = ref[n]
<1>1. detail' \in Details
  BY ShowTyped DEF Render
<1>2. detail'.checking = IF m = mounted THEN u.checking ELSE detail.checking
  BY DEF Render, Show
<1>3. ref \in [Mount -> Refs]
  BY DEF PanelTypeOK, Refs
<1>4. CASE m \notin Mount
  <2>1. ref' = ref
    BY <1>3, <1>4 DEF Render
  <2> QED
    BY <1>1, <1>2, <1>3, <1>4, <2>1
<1>5. CASE m \in Mount
  <2>1. PICK e \in Int : ref' = [ref EXCEPT ![m] = IF m = mounted THEN [r EXCEPT !.end = e] ELSE r]
    <3>1. EndOf(u, r.end) \in Int
      BY <1>5 DEF EndOf, Details, Refs
    <3> QED
      BY <3>1 DEF Render
  <2>2. [r EXCEPT !.end = e] \in Refs /\ [r EXCEPT !.end = e].running = r.running
        /\ [r EXCEPT !.end = e].abort = r.abort
    BY <1>5 DEF Refs
  <2> QED
    BY <1>1, <1>2, <1>3, <1>5, <2>1, <2>2
<1> QED
  BY <1>4, <1>5

\* What the handlers show.
LEMMA ViewsTyped ==
    ASSUME NEW u \in Details
    PROVE  /\ ClearedPanel(u) \in Details /\ ClearedPanel(u).checking = u.checking
           /\ Checking(u) \in Details /\ Checking(u).checking = TRUE
           /\ NotChecking(u) \in Details /\ NotChecking(u).checking = FALSE
           /\ \A b \in BOOLEAN : /\ [u EXCEPT !.checking = b] \in Details
                                 /\ [u EXCEPT !.checking = b].checking = b
<1>1. ClearedPanel(u) \in Details /\ ClearedPanel(u).checking = u.checking
  <2> DEFINE v == [u EXCEPT !.started = FALSE, !.url = "none"]
  <2>1. v \in Details /\ v.checking = u.checking
    BY DEF Details
  <2>2. ClearedPanel(u) = [v EXCEPT !.time = 0, !.healthy = FALSE]
    BY DEF ClearedPanel
  <2> HIDE DEF v
  <2>3. [v EXCEPT !.time = 0, !.healthy = FALSE] \in Details
    <3>1. ASSUME NEW x \in Details PROVE [x EXCEPT !.time = 0] \in Details
      BY DEF Details
    <3>2. ASSUME NEW x \in Details PROVE [x EXCEPT !.healthy = FALSE] \in Details
      BY DEF Details
    <3> DEFINE w == [v EXCEPT !.time = 0]
    <3>3. w \in Details
      BY <2>1, <3>1
    <3>4. [v EXCEPT !.time = 0, !.healthy = FALSE] = [w EXCEPT !.healthy = FALSE]
      OBVIOUS
    <3> HIDE DEF w
    <3> QED
      BY <3>2, <3>3, <3>4
  <2>4. [v EXCEPT !.time = 0, !.healthy = FALSE].checking = v.checking
    BY <2>1 DEF Details
  <2> QED
    BY <2>1, <2>2, <2>3, <2>4
<1>2. Checking(u) \in Details /\ Checking(u).checking = TRUE
  BY DEF Checking, Details
<1>3. NotChecking(u) \in Details /\ NotChecking(u).checking = FALSE
  BY DEF NotChecking, Details
<1>4. \A b \in BOOLEAN : /\ [u EXCEPT !.checking = b] \in Details
                         /\ [u EXCEPT !.checking = b].checking = b
  BY DEF Details
<1> QED
  BY <1>1, <1>2, <1>3, <1>4

-----------------------------------------------------------------------------
(* The invariant.                                                          *)

\* A loop that has set healthCheckRunningRef is there, and has not been told to stop.
RunningHasLoop ==
    \A m \in Mount : ref[m].running =>
        ~ref[m].abort /\ \E s \in LoopOf(m) : job[s].at # "armed"

\* A panel that is checking has a loop that has yet to start, which forgets an abort,
\* or one and no abort.
CheckingHasLoop ==
    mounted # NoMount /\ detail.checking =>
        \/ \E s \in LoopOf(mounted) : job[s].at = "armed"
        \/ ~ref[mounted].abort /\ LoopOf(mounted) # {}

PanelInv == PanelTypeOK /\ RunningHasLoop /\ CheckingHasLoop

\* A step that keeps every loop as far along as it was.
LoopsKept == \A u \in Pending : job[u].op = "loop" =>
                 /\ job'[u].op = "loop" /\ job'[u].by = job[u].by
                 /\ job'[u].at = "armed" <=> job[u].at = "armed"
RefsKept == \A m \in Mount : ref'[m].running = ref[m].running /\ ref'[m].abort = ref[m].abort

LEMMA QuietStep ==
    ASSUME PanelInv, LoopsKept, RefsKept, UNCHANGED mounted,
           mounted # NoMount /\ detail'.checking => detail.checking
    PROVE  RunningHasLoop' /\ CheckingHasLoop'
<1>1. \A m : \A u \in LoopOf(m) : /\ u \in LoopOf(m)'
                                  /\ job'[u].at = "armed" <=> job[u].at = "armed"
  BY DEF LoopOf, LoopsKept
<1>2. RunningHasLoop'
  BY <1>1 DEF PanelInv, RunningHasLoop, RefsKept
<1>3. CheckingHasLoop'
  <2> SUFFICES ASSUME mounted # NoMount, detail'.checking
               PROVE  \/ \E s \in LoopOf(mounted)' : job'[s].at = "armed"
                      \/ ~ref'[mounted].abort /\ LoopOf(mounted)' # {}
    BY DEF CheckingHasLoop, LoopOf
  <2>1. mounted \in Mount
    BY DEF PanelInv, PanelTypeOK
  <2> QED
    BY <1>1, <2>1 DEF PanelInv, CheckingHasLoop, RefsKept
<1> QED
  BY <1>2, <1>3

\* The ways in which a job that is no loop goes on.
LEMMA DoneQuiet ==
    ASSUME PanelTypeOK, NEW s \in Pending, job[s].op # "loop", Done(s)
    PROVE  job' \in [Pending -> Job] /\ LoopsKept
  BY NoJobTyped, JobTyped DEF Done, LoopsKept

LEMMA NewQuiet ==
    ASSUME PanelTypeOK, NEW s \in Pending, job[s].op # "loop",
           NEW op \in Op, NEW m \in Mount \cup {NoMount}, NEW at \in At, Become(s, New(op, m, at))
    PROVE  /\ job' \in [Pending -> Job] /\ LoopsKept
           /\ job'[s].op = op /\ job'[s].by = m /\ job'[s].at = at
<1>1. /\ New(op, m, at) \in Job
      /\ New(op, m, at).op = op /\ New(op, m, at).by = m /\ New(op, m, at).at = at
  BY NewTyped
<1> QED
  BY <1>1, JobTyped DEF LoopsKept

LEMMA ResumeQuiet ==
    ASSUME PanelTypeOK, NEW s \in Pending, NEW at \in At \ {"armed"}, Resume(s, at),
           job[s].op # "loop" \/ job[s].at # "armed"
    PROVE  job' \in [Pending -> Job] /\ LoopsKept
  BY ResumeTyped DEF LoopsKept

\* A step of job and of what the properties do not see.
LEMMA SameViewQuiet ==
    ASSUME PanelInv, LoopsKept, job' \in [Pending -> Job], UNCHANGED <<mounted, detail, ref>>,
           entry' \in [phase : Phase, left : 0..Life],
           saved' \in Int, stored' \in Int, armed' \in Int, cool' \in Int
    PROVE  PanelInv'
<1>1. PanelTypeOK'
  BY DEF PanelInv, PanelTypeOK
<1>2. RefsKept
  BY DEF RefsKept
<1>3. RunningHasLoop' /\ CheckingHasLoop'
  BY <1>2, QuietStep
<1> QED
  BY <1>1, <1>3 DEF PanelInv

LEMMA Typed ==
    ASSUME PanelTypeOK
    PROVE  /\ detail \in Details /\ ref \in [Mount -> Refs]
           /\ entry \in [phase : Phase, left : 0..Life]
           /\ mounted \in Mount \cup {NoMount} /\ job \in [Pending -> Job]
           /\ saved \in Int /\ stored \in Int /\ armed \in Int /\ cool \in Int
  BY DEF PanelTypeOK, Details, Refs

LEMMA TypedNext ==
    ASSUME detail' \in Details, ref' \in [Mount -> Refs],
           entry' \in [phase : Phase, left : 0..Life],
           mounted' \in Mount \cup {NoMount}, job' \in [Pending -> Job],
           saved' \in Int, stored' \in Int, armed' \in Int, cool' \in Int
    PROVE  PanelTypeOK'
  BY DEF PanelTypeOK, Details, Refs

-----------------------------------------------------------------------------
(* The steps that leave the loops alone.                                   *)

\* A handler that shows u, ends, and leaves what the loops of its mount have set.
LEMMA ShownQuiet ==
    ASSUME PanelInv, NEW s \in Pending, job[s].op # "loop", Done(s), UNCHANGED mounted,
           NEW m, NEW u \in Details, NEW r, m \in Mount => r \in Refs, Render(m, u, r),
           u.checking => detail.checking,
           m \in Mount => r.running = ref[m].running /\ r.abort = ref[m].abort,
           entry' \in [phase : Phase, left : 0..Life],
           saved' \in Int, stored' \in Int, armed' \in Int, cool' \in Int
    PROVE  PanelInv'
<1>1. job' \in [Pending -> Job] /\ LoopsKept
  BY DoneQuiet DEF PanelInv
<1>2. /\ detail' \in Details /\ ref' \in [Mount -> Refs]
      /\ detail'.checking = IF m = mounted THEN u.checking ELSE detail.checking
      /\ m \in Mount => ref'[m].running = r.running /\ ref'[m].abort = r.abort
      /\ \A n \in Mount : n # m => ref'[n] = ref[n]
  BY RenderTyped DEF PanelInv
<1>3. RefsKept
  BY <1>2 DEF RefsKept
<1>4. RunningHasLoop' /\ CheckingHasLoop'
  BY <1>1, <1>2, <1>3, QuietStep
<1>5. PanelTypeOK'
  BY <1>1, <1>2, Typed, TypedNext DEF PanelInv
<1> QED
  BY <1>4, <1>5 DEF PanelInv

LEMMA ServerKept ==
    ASSUME PanelInv, NEW s \in Pending, Serve(s) \/ Lose(s)
    PROVE  PanelInv'
<1>1. /\ entry \in [phase : Phase, left : 0..Life] /\ job \in [Pending -> Job]
      /\ saved \in Int /\ stored \in Int /\ armed \in Int /\ cool \in Int
  BY Typed DEF PanelInv
<1>2. UNCHANGED <<mounted, detail, ref, saved, stored, armed, cool>>
  BY DEF Serve, Lose
<1>3. job[s].at \in {"sent", "answered"}
  BY DEF Serve, ServeStatus, ServeCheck, ServeStart, ServeStop, ServeFlag, AskedPanel, Lose
<1>4. entry' \in [phase : Phase, left : 0..Life]
  BY <1>1, PanelAssumption
  DEF Serve, ServeStatus, ServeCheck, ServeStart, ServeStop, ServeFlag, Lose, Phase
<1>5. \E ans \in Answer, left \in Int : Answered(s, ans, left)
  <2>1. entry.phase \in Answer /\ entry.left \in Int /\ Life \in Int
    <3>1. entry.phase \in Phase /\ entry.left \in 0..Life /\ Life \in Nat
      BY <1>1, PanelAssumption
    <3>2. entry.phase \in Answer
      BY <3>1 DEF Answer
    <3>3. entry.left \in Int
      BY <3>1
    <3> QED
      BY <3>1, <3>2, <3>3
  <2>2. {"error", "ok", "no", "wrong", "deploying"} \subseteq Answer
    BY DEF Answer, Phase
  <2>3. CASE ServeStatus(s)
    BY <2>1, <2>2, <2>3 DEF ServeStatus, Reply
  <2>4. CASE ServeCheck(s)
    BY <2>1, <2>2, <2>4 DEF ServeCheck, Reply
  <2>5. CASE ServeStart(s)
    BY <2>1, <2>2, <2>5 DEF ServeStart, Reply
  <2>6. CASE ServeStop(s)
    BY <2>2, <2>6 DEF ServeStop, Reply
  <2>7. CASE ServeFlag(s)
    BY <2>2, <2>7 DEF ServeFlag, Reply
  <2>8. CASE Lose(s)
    BY <2>2, <2>8 DEF Lose
  <2> QED
    BY <2>3, <2>4, <2>5, <2>6, <2>7, <2>8 DEF Serve
<1>6. job' \in [Pending -> Job] /\ LoopsKept
  BY <1>3, <1>5, AnsweredTyped DEF LoopsKept, PanelInv
<1> QED
  BY <1>1, <1>2, <1>4, <1>6, SameViewQuiet

\* The clicks, the dialog and the timers.
LEMMA ClicksKept ==
    ASSUME PanelInv, NEW s \in Pending,
           \/ StopClick(s) \/ StopCancel(s) \/ TimeoutFires(s) \/ GlobalCheck(s) \/ FlagHeard(s)
    PROVE  PanelInv'
<1>1. /\ entry \in [phase : Phase, left : 0..Life] /\ job \in [Pending -> Job]
      /\ mounted \in Mount \cup {NoMount}
      /\ saved \in Int /\ stored \in Int /\ armed \in Int /\ cool \in Int
  BY Typed DEF PanelInv
<1>2. UNCHANGED <<entry, mounted, detail, ref>> /\ saved' \in Int /\ stored' \in Int
  BY <1>1 DEF StopClick, StopCancel, TimeoutFires, GlobalCheck, FlagHeard
<1>3. armed' \in Int
  BY <1>1 DEF StopClick, StopCancel, TimeoutFires, GlobalCheck, FlagHeard, None
<1>4. cool' \in Int
  BY <1>1, PanelAssumption DEF StopClick, StopCancel, TimeoutFires, GlobalCheck, FlagHeard,
     FlagCorrect, FlagWrong, FlagOther
<1>5. job' \in [Pending -> Job] /\ LoopsKept
  <2>1. PanelTypeOK
    BY DEF PanelInv
  <2>2. CASE StopClick(s)
    <3>1. job[s].op # "loop" /\ "stop" \in Op /\ "dialog" \in At
      BY <2>2 DEF StopClick, FreeForMount, Free, Op, At
    <3> QED
      BY <1>1, <2>1, <2>2, <3>1, NewQuiet DEF StopClick
  <2>3. CASE StopCancel(s)
    BY <2>1, <2>3, DoneQuiet DEF StopCancel
  <2>4. CASE TimeoutFires(s) \/ GlobalCheck(s)
    <3>1. job[s].op # "loop" /\ "auto" \in Op /\ "sent" \in At
      BY <2>4 DEF TimeoutFires, GlobalCheck, Free, Op, At
    <3>2. Become(s, New("auto", NoMount, "sent"))
      BY <2>4 DEF TimeoutFires, GlobalCheck
    <3> QED
      BY <2>1, <3>1, <3>2, NewQuiet
  <2>5. CASE FlagHeard(s)
    <3>1. job[s] \in Job /\ job[s].op = "flag"
      BY <1>1, <2>5 DEF FlagHeard, Heard
    <3>2. [job[s] EXCEPT !.at = "popup"] \in Job /\ [job[s] EXCEPT !.at = "popup"].op = "flag"
      BY <3>1 DEF Job, At
    <3>3. Become(s, [job[s] EXCEPT !.at = "popup"])
      BY <2>5 DEF FlagHeard, Become
    <3> QED
      BY <2>1, <3>1, <3>2, <3>3, JobTyped DEF LoopsKept
  <2> QED
    BY <2>2, <2>3, <2>4, <2>5
<1> QED
  BY <1>1, <1>2, <1>3, <1>4, <1>5, SameViewQuiet

\* What is shown of a click: the checking is not touched.
LEMMA ShowsKept ==
    ASSUME PanelInv, NEW s \in Pending,
           StartClick(s) \/ handleSubmitFlag(s) \/ StopConfirm(s) \/ FlagClosed(s)
    PROVE  PanelInv'
<1>1. /\ entry \in [phase : Phase, left : 0..Life] /\ job \in [Pending -> Job]
      /\ mounted \in Mount \cup {NoMount} /\ detail \in Details /\ ref \in [Mount -> Refs]
      /\ saved \in Int /\ stored \in Int /\ armed \in Int /\ cool \in Int /\ PanelTypeOK
  BY Typed DEF PanelInv
<1>2. UNCHANGED <<entry, mounted, saved, cool>> /\ stored' \in Int /\ armed' \in Int
  BY <1>1 DEF StartClick, handleSubmitFlag, StopConfirm, FlagClosed, StopTimer, None
<1>3. detail' \in Details /\ detail'.checking = detail.checking
  <2>1. CASE StartClick(s) \/ handleSubmitFlag(s)
    BY <1>1, <2>1 DEF StartClick, handleSubmitFlag, Details
  <2>2. CASE StopConfirm(s)
    BY <1>1, <2>2 DEF StopConfirm, Show, Details
  <2>3. CASE FlagClosed(s)
    <3>1. PICK u \in {detail, ClearedPanel(detail)} : Show(job[s].by, [u EXCEPT !.submitting = FALSE])
      BY <2>3 DEF FlagClosed
    <3>2. u \in Details /\ u.checking = detail.checking
      <4>1. ClearedPanel(detail) \in Details /\ ClearedPanel(detail).checking = detail.checking
        BY <1>1, ViewsTyped
      <4>2. CASE u = detail
        BY <1>1, <4>2
      <4>3. CASE u = ClearedPanel(detail)
        BY <4>1, <4>3
      <4> QED
        BY <4>2, <4>3
    <3>3. /\ [u EXCEPT !.submitting = FALSE] \in Details
          /\ [u EXCEPT !.submitting = FALSE].checking = detail.checking
      BY <3>2 DEF Details
    <3> QED
      BY <1>1, <3>1, <3>3 DEF Show
  <2> QED
    BY <2>1, <2>2, <2>3
<1>4. ref' \in [Mount -> Refs] /\ RefsKept
  <2>1. CASE UNCHANGED ref
    BY <1>1, <2>1 DEF RefsKept
  <2>2. CASE StopConfirm(s)
    <3>1. \A m \in Mount : ref[m] \in Refs
      BY <1>1
    <3>2. \A m \in Mount : /\ [ref[m] EXCEPT !.stop = TRUE] \in Refs
                           /\ [ref[m] EXCEPT !.stop = TRUE].running = ref[m].running
                           /\ [ref[m] EXCEPT !.stop = TRUE].abort = ref[m].abort
      BY <3>1 DEF Refs
    <3>3. PICK m : ref' = [ref EXCEPT ![m] = [ref[m] EXCEPT !.stop = TRUE]]
      BY <1>1, <2>2 DEF StopConfirm
    <3>4. ref' = [n \in Mount |-> IF n = m THEN [ref[m] EXCEPT !.stop = TRUE] ELSE ref[n]]
      BY <1>1, <3>3
    <3> QED
      BY <3>1, <3>2, <3>4 DEF RefsKept
  <2> QED
    BY <2>1, <2>2 DEF StartClick, handleSubmitFlag, FlagClosed
<1>5. job' \in [Pending -> Job] /\ LoopsKept
  <2>1. CASE StartClick(s)
    <3>1. job[s].op # "loop" /\ "start" \in Op /\ "sent" \in At
      BY <2>1 DEF StartClick, FreeForMount, Free, Op, At
    <3> QED
      BY <1>1, <2>1, <3>1, NewQuiet DEF StartClick
  <2>2. CASE handleSubmitFlag(s)
    <3> DEFINE t == [New("flag", mounted, "sent")
                       EXCEPT !.saw = detail.started /\ detail.url # "none"]
    <3>1. "flag" \in Op /\ "sent" \in At
      BY DEF Op, At
    <3>2. New("flag", mounted, "sent") \in Job /\ New("flag", mounted, "sent").op = "flag"
      <4>1. \A op \in Op, m \in Mount \cup {NoMount}, at \in At :
                New(op, m, at) \in Job /\ New(op, m, at).op = op
        BY NewTyped
      <4> QED
        BY <1>1, <3>1, <4>1
    <3>3. t \in Job /\ t.op = "flag"
      BY <3>2 DEF Job
    <3>4. job[s].op # "loop" /\ Become(s, t)
      BY <2>2 DEF handleSubmitFlag, Free
    <3> HIDE DEF t
    <3> QED
      BY <1>1, <3>3, <3>4, JobTyped DEF LoopsKept
  <2>3. CASE StopConfirm(s)
    <3>1. "sent" \in At \ {"armed"}
      BY DEF At
    <3> QED
      BY <1>1, <2>3, <3>1, ResumeQuiet DEF StopConfirm
  <2>4. CASE FlagClosed(s)
    BY <1>1, <2>4, DoneQuiet DEF FlagClosed
  <2> QED
    BY <2>1, <2>2, <2>3, <2>4
<1>6. RunningHasLoop' /\ CheckingHasLoop'
  BY <1>2, <1>3, <1>4, <1>5, QuietStep
<1> QED
  BY <1>1, <1>2, <1>3, <1>4, <1>5, <1>6, TypedNext DEF PanelInv

\* The refs of a stop.
LEMMA RefsTyped ==
    ASSUME NEW r \in Refs
    PROVE  /\ \A b \in BOOLEAN : /\ [r EXCEPT !.stop = b] \in Refs
                                 /\ [r EXCEPT !.stop = b].running = r.running
                                 /\ [r EXCEPT !.stop = b].abort = r.abort
           /\ \A e \in Int : /\ [r EXCEPT !.end = e] \in Refs
                             /\ [r EXCEPT !.end = e].running = r.running
                             /\ [r EXCEPT !.end = e].abort = r.abort
           /\ [r EXCEPT !.stop = FALSE, !.end = None] \in Refs
           /\ [r EXCEPT !.stop = FALSE, !.end = None].running = r.running
           /\ [r EXCEPT !.stop = FALSE, !.end = None].abort = r.abort
           /\ [r EXCEPT !.running = FALSE] \in Refs
           /\ [r EXCEPT !.running = FALSE].running = FALSE
<1>1. \A b \in BOOLEAN : /\ [r EXCEPT !.stop = b] \in Refs
                         /\ [r EXCEPT !.stop = b].running = r.running
                         /\ [r EXCEPT !.stop = b].abort = r.abort
  BY DEF Refs
<1>2. \A e \in Int : /\ [r EXCEPT !.end = e] \in Refs
                     /\ [r EXCEPT !.end = e].running = r.running
                     /\ [r EXCEPT !.end = e].abort = r.abort
  BY DEF Refs
<1>3. /\ [r EXCEPT !.stop = FALSE, !.end = None] \in Refs
      /\ [r EXCEPT !.stop = FALSE, !.end = None].running = r.running
      /\ [r EXCEPT !.stop = FALSE, !.end = None].abort = r.abort
  <2> DEFINE w == [r EXCEPT !.stop = FALSE]
  <2>1. w \in Refs /\ w.running = r.running /\ w.abort = r.abort
    BY <1>1
  <2>2. [r EXCEPT !.stop = FALSE, !.end = None] = [w EXCEPT !.end = None]
    OBVIOUS
  <2>3. ASSUME NEW x \in Refs
        PROVE  /\ [x EXCEPT !.end = None] \in Refs
               /\ [x EXCEPT !.end = None].running = x.running
               /\ [x EXCEPT !.end = None].abort = x.abort
    BY DEF Refs, None
  <2> HIDE DEF w
  <2> QED
    BY <2>1, <2>2, <2>3
<1>4. [r EXCEPT !.running = FALSE] \in Refs /\ [r EXCEPT !.running = FALSE].running = FALSE
  BY DEF Refs
<1> QED
  BY <1>1, <1>2, <1>3, <1>4

LEMMA StopKept ==
    ASSUME PanelInv, NEW s \in Pending, handleStopChallenge(s)
    PROVE  PanelInv'
<1> DEFINE m == job[s].by
<1>1. /\ entry \in [phase : Phase, left : 0..Life]
      /\ detail \in Details /\ ref \in [Mount -> Refs]
      /\ saved \in Int /\ stored \in Int /\ armed \in Int /\ cool \in Int
  BY Typed DEF PanelInv
<1>2. job[s].op # "loop" /\ Done(s) /\ UNCHANGED <<entry, mounted, saved, cool>>
  BY DEF handleStopChallenge, Heard
<1>3. CASE StopDone(s, m)
  <2> DEFINE u == [ClearedPanel(detail) EXCEPT !.stopping = FALSE]
             r == [ref[m] EXCEPT !.stop = FALSE, !.end = None]
  <2>1. u \in Details /\ u.checking = detail.checking
    <3>1. ClearedPanel(detail) \in Details /\ ClearedPanel(detail).checking = detail.checking
      BY <1>1, ViewsTyped
    <3> QED
      BY <3>1 DEF Details
  <2>2. m \in Mount => r \in Refs /\ r.running = ref[m].running /\ r.abort = ref[m].abort
    BY <1>1, RefsTyped
  <2>3. Render(m, u, r) /\ stored' \in Int /\ armed' \in Int
    BY <1>3 DEF StopDone, StopTimer, None
  <2> HIDE DEF u, r, m
  <2> QED
    BY <1>1, <1>2, <2>1, <2>2, <2>3, ShownQuiet
<1>4. CASE StopRefused(s, m)
  <2> DEFINE u == [detail EXCEPT !.stopping = FALSE]
             r == [ref[m] EXCEPT !.stop = FALSE]
  <2>1. u \in Details /\ u.checking = detail.checking
    BY <1>1 DEF Details
  <2>2. m \in Mount => r \in Refs /\ r.running = ref[m].running /\ r.abort = ref[m].abort
    BY <1>1, RefsTyped
  <2>3. Render(m, u, r) /\ stored' \in Int /\ armed' \in Int
    BY <1>1, <1>4 DEF StopRefused
  <2> HIDE DEF u, r, m
  <2> QED
    BY <1>1, <1>2, <2>1, <2>2, <2>3, ShownQuiet
<1> QED
  BY <1>3, <1>4 DEF handleStopChallenge

\* The stops that nobody asked for.
LEMMA AutoKept ==
    ASSUME PanelInv, NEW s \in Pending, autoStopChallengeOnTimeout(s) \/ autoStopChallenge(s)
    PROVE  PanelInv'
<1>1. /\ entry \in [phase : Phase, left : 0..Life] /\ job \in [Pending -> Job]
      /\ mounted \in Mount \cup {NoMount} /\ detail \in Details /\ ref \in [Mount -> Refs]
      /\ saved \in Int /\ stored \in Int /\ armed \in Int /\ cool \in Int /\ PanelTypeOK
  BY Typed DEF PanelInv
<1>2. /\ Done(s) /\ UNCHANGED <<entry, mounted, saved, cool>>
      /\ stored' \in Int /\ armed' \in Int /\ job[s].op # "loop"
  BY <1>1 DEF autoStopChallengeOnTimeout, autoStopChallenge, StopTimer, None, Heard
<1>3. job' \in [Pending -> Job] /\ LoopsKept
  BY <1>1, <1>2, DoneQuiet
<1>4. \/ UNCHANGED ref
      \/ \E m : ref' = [ref EXCEPT ![m].stop = FALSE]
      \/ \E m : ref' = [ref EXCEPT ![m].end = None]
  BY DEF autoStopChallengeOnTimeout, autoStopChallenge, AutoStopped
<1>5. ref' \in [Mount -> Refs] /\ RefsKept
  <2>1. CASE UNCHANGED ref
    BY <1>1, <2>1 DEF RefsKept
  <2>2. ASSUME NEW m, ref' = [ref EXCEPT ![m].stop = FALSE]
        PROVE  ref' \in [Mount -> Refs] /\ RefsKept
    <3>1. ref' = [n \in Mount |-> IF n = m THEN [ref[n] EXCEPT !.stop = FALSE] ELSE ref[n]]
      BY <1>1, <2>2
    <3>2. \A n \in Mount : ref[n] \in Refs
      BY <1>1
    <3> QED
      BY <3>1, <3>2, RefsTyped DEF RefsKept
  <2>3. ASSUME NEW m, ref' = [ref EXCEPT ![m].end = None]
        PROVE  ref' \in [Mount -> Refs] /\ RefsKept
    <3>1. ref' = [n \in Mount |-> IF n = m THEN [ref[n] EXCEPT !.end = None] ELSE ref[n]]
      BY <1>1, <2>3
    <3>2. \A n \in Mount : ref[n] \in Refs
      BY <1>1
    <3>3. None \in Int
      BY DEF None
    <3> QED
      BY <3>1, <3>2, <3>3, RefsTyped DEF RefsKept
  <2> QED
    BY <1>4, <2>1, <2>2, <2>3
<1>6. detail' \in Details /\ (detail'.checking => detail.checking)
  <2>1. CASE detail' = [ClearedPanel(detail) EXCEPT !.checking = FALSE]
    <3>1. ClearedPanel(detail) \in Details
      BY <1>1, ViewsTyped
    <3>2. detail' \in Details /\ detail'.checking = FALSE
      BY <2>1, <3>1, ViewsTyped
    <3> QED
      BY <3>2
  <2>2. CASE UNCHANGED detail
    BY <1>1, <2>2
  <2> QED
    BY <2>1, <2>2 DEF autoStopChallengeOnTimeout, autoStopChallenge, AutoStopped
<1>7. RunningHasLoop' /\ CheckingHasLoop'
  BY <1>2, <1>3, <1>5, <1>6, QuietStep
<1> QED
  BY <1>1, <1>2, <1>3, <1>5, <1>6, <1>7, TypedNext DEF PanelInv

\* The deployment and the clock go on.
LEMMA ClockKept ==
    ASSUME PanelInv, EntryChanges \/ Tick
    PROVE  PanelInv'
<1>1. /\ entry \in [phase : Phase, left : 0..Life] /\ job \in [Pending -> Job]
      /\ mounted \in Mount \cup {NoMount} /\ detail \in Details /\ ref \in [Mount -> Refs]
      /\ saved \in Int /\ stored \in Int /\ armed \in Int /\ cool \in Int /\ PanelTypeOK
  BY Typed DEF PanelInv
<1>2. UNCHANGED <<mounted, detail, job>> /\ LoopsKept
  BY DEF EntryChanges, Tick, LoopsKept
<1>3. entry' \in [phase : Phase, left : 0..Life]
  <2>1. Life \in Nat
    BY PanelAssumption
  <2>2. CASE EntryChanges
    BY <2>1, <2>2 DEF EntryChanges, Phase
  <2>3. CASE Tick
    <3>1. Less(entry.left) \in 0..Life
      BY <1>1, <2>1 DEF Less
    <3>2. entry' = [entry EXCEPT !.left = Less(entry.left)]
      BY <2>3 DEF Tick
    <3> QED
      BY <1>1, <3>1, <3>2
  <2> QED
    BY <2>2, <2>3
<1>4. ref' \in [Mount -> Refs] /\ RefsKept
  <2>1. CASE UNCHANGED ref
    BY <1>1, <2>1 DEF RefsKept
  <2>2. CASE Tick
    <3>1. \A m \in Mount : ref[m] \in Refs /\ Less(ref[m].end) \in Int
      BY <1>1 DEF Refs, Less
    <3>2. \A m \in Mount : ref'[m] = [ref[m] EXCEPT !.end = Less(ref[m].end)]
      BY <2>2 DEF Tick
    <3>3. ref' = [m \in Mount |-> [ref[m] EXCEPT !.end = Less(ref[m].end)]]
      BY <2>2 DEF Tick
    <3> QED
      BY <3>1, <3>2, <3>3, RefsTyped DEF RefsKept
  <2> QED
    BY <2>1, <2>2 DEF EntryChanges
<1>5. saved' \in Int /\ stored' \in Int /\ armed' \in Int /\ cool' \in Int
  BY <1>1 DEF EntryChanges, Tick, Less
<1>6. RunningHasLoop' /\ CheckingHasLoop'
  BY <1>2, <1>4, QuietStep
<1> QED
  BY <1>1, <1>2, <1>3, <1>4, <1>5, <1>6, TypedNext DEF PanelInv

-----------------------------------------------------------------------------
(* What the status makes of the panel.                                     *)

\* A status that takes a health check up again: the loop of its mount runs, or one
\* is armed in place of the status.
LEMMA ResumedKept ==
    ASSUME PanelInv, NEW s \in Pending, job[s].op # "loop", UNCHANGED <<entry, mounted, cool>>,
           ArmLoop(s, job[s].by), NEW u \in Details, Render(job[s].by, u, ref[job[s].by]),
           saved' \in Int, stored' \in Int, armed' \in Int
    PROVE  PanelInv'
<1> DEFINE m == job[s].by
<1>1. /\ entry \in [phase : Phase, left : 0..Life] /\ job \in [Pending -> Job]
      /\ mounted \in Mount \cup {NoMount} /\ detail \in Details /\ ref \in [Mount -> Refs]
      /\ cool \in Int /\ PanelTypeOK
  BY Typed DEF PanelInv
<1>2. m \in Mount \cup {NoMount} /\ m = job[s].by
  BY <1>1 DEF Job
<1> HIDE DEF m
<1>3. "loop" \in Op /\ "armed" \in At
  BY DEF Op, At
<1>4. m \in Mount => ref[m] \in Refs
  BY <1>1
<1>5. /\ detail' \in Details /\ ref' \in [Mount -> Refs]
      /\ detail'.checking = IF m = mounted THEN u.checking ELSE detail.checking
      /\ m \in Mount => ref'[m].running = ref[m].running /\ ref'[m].abort = ref[m].abort
      /\ \A n \in Mount : n # m => ref'[n] = ref[n]
  <2>1. PICK r : r = ref[m]
    OBVIOUS
  <2>2. Render(m, u, r) /\ (m \in Mount => r \in Refs)
    BY <1>2, <1>4, <2>1
  <2>3. /\ detail' \in Details /\ ref' \in [Mount -> Refs]
        /\ detail'.checking = IF m = mounted THEN u.checking ELSE detail.checking
        /\ m \in Mount => ref'[m].running = r.running /\ ref'[m].abort = r.abort
        /\ \A n \in Mount : n # m => ref'[n] = ref[n]
    BY <1>1, <2>2, RenderTyped
  <2> QED
    BY <2>1, <2>3
<1>6. RefsKept
  BY <1>5 DEF RefsKept
<1>7. /\ job' \in [Pending -> Job] /\ LoopsKept
      /\ ref[m].running \/ (job'[s].op = "loop" /\ job'[s].by = m /\ job'[s].at = "armed")
  <2>1. CASE ref[m].running
    <3>1. Done(s)
      BY <1>2, <2>1 DEF ArmLoop
    <3> QED
      BY <1>1, <2>1, <3>1, DoneQuiet
  <2>2. CASE ~ref[m].running
    <3>1. Become(s, New("loop", m, "armed"))
      BY <1>2, <2>2 DEF ArmLoop
    <3> QED
      BY <1>1, <1>2, <1>3, <3>1, NewQuiet
  <2> QED
    BY <2>1, <2>2
<1>8. PanelTypeOK'
  BY <1>1, <1>5, <1>7, TypedNext
<1>9. RunningHasLoop' /\ CheckingHasLoop'
  <2>1. CASE m # mounted
    BY <1>5, <1>6, <1>7, <2>1, QuietStep
  <2>2. CASE m = mounted
    <3>1. \A n : \A v \in LoopOf(n) : /\ v \in LoopOf(n)'
                                      /\ job'[v].at = "armed" <=> job[v].at = "armed"
      BY <1>7 DEF LoopOf, LoopsKept
    <3>2. RunningHasLoop'
      BY <1>6, <3>1 DEF PanelInv, RunningHasLoop, RefsKept
    <3>3. CheckingHasLoop'
      <4> SUFFICES ASSUME mounted # NoMount
                   PROVE  \/ \E v \in LoopOf(mounted)' : job'[v].at = "armed"
                          \/ ~ref'[mounted].abort /\ LoopOf(mounted)' # {}
        BY DEF CheckingHasLoop, LoopOf
      <4>1. mounted \in Mount
        BY <1>1
      <4>2. CASE ref[m].running
        BY <1>6, <2>2, <3>1, <4>1, <4>2 DEF PanelInv, RunningHasLoop, RefsKept
      <4>3. CASE ~ref[m].running
        BY <1>7, <2>2, <4>3 DEF LoopOf
      <4> QED
        BY <4>2, <4>3
    <3> QED
      BY <3>2, <3>3
  <2> QED
    BY <2>1, <2>2
<1> QED
  BY <1>8, <1>9 DEF PanelInv

LEMMA StatusKept ==
    ASSUME PanelInv, NEW s \in Pending, fetchChallengeStatus(s)
    PROVE  PanelInv'
<1> DEFINE m == job[s].by
<1>1. /\ entry \in [phase : Phase, left : 0..Life] /\ job \in [Pending -> Job]
      /\ detail \in Details /\ ref \in [Mount -> Refs]
      /\ saved \in Int /\ stored \in Int /\ armed \in Int /\ cool \in Int /\ PanelTypeOK
  BY Typed DEF PanelInv
<1>2. job[s].op # "loop" /\ UNCHANGED <<entry, mounted, cool>>
  BY DEF fetchChallengeStatus, Heard
<1>3. saved' \in Int /\ stored' \in Int /\ armed' \in Int
  <2>1. job[s].left \in Int
    BY <1>1 DEF Job
  <2> QED
    BY <1>1, <2>1 DEF fetchChallengeStatus, StatusDeleting, StatusRunning, StatusDeploying,
       StatusNone, StatusFailed, StopTimer, StartTimer, None
<1>4. m \in Mount => ref[m] \in Refs /\ ref[m].running = ref[m].running /\ ref[m].abort = ref[m].abort
  BY <1>1
<1>5. ASSUME NEW u \in Details, u.checking => detail.checking, Render(m, u, ref[m]), Done(s)
      PROVE  PanelInv'
  <2> HIDE DEF m
  <2> QED
    BY <1>1, <1>2, <1>3, <1>4, <1>5, ShownQuiet
<1>6. ASSUME NEW u \in Details, Render(m, u, ref[m]), ArmLoop(s, m)
      PROVE  PanelInv'
  BY <1>2, <1>3, <1>6, ResumedKept
<1>7. CASE StatusDeleting(s, m)
  <2>1. [ClearedPanel(detail) EXCEPT !.checking = FALSE] \in Details
        /\ [ClearedPanel(detail) EXCEPT !.checking = FALSE].checking = FALSE
    BY <1>1, ViewsTyped
  <2> QED
    BY <1>5, <1>7, <2>1 DEF StatusDeleting
<1>8. ASSUME NEW v \in Details, NEW h \in BOOLEAN
      PROVE  /\ [NotChecking(v) EXCEPT !.healthy = h] \in Details
             /\ [NotChecking(v) EXCEPT !.healthy = h].checking = FALSE
             /\ Checking(v) \in Details
             /\ NotChecking(v) \in Details /\ NotChecking(v).checking = FALSE
             /\ ClearedPanel(v) \in Details
  <2>1. NotChecking(v) \in Details /\ NotChecking(v).checking = FALSE
    BY ViewsTyped
  <2>2. \A w \in Details : /\ [w EXCEPT !.healthy = h] \in Details
                           /\ [w EXCEPT !.healthy = h].checking = w.checking
    BY DEF Details
  <2> QED
    BY <2>1, <2>2, ViewsTyped
<1>9. ASSUME NEW b \in BOOLEAN, NEW url \in {"none", "url"}, NEW left \in Int
      PROVE  /\ [detail EXCEPT !.started = b, !.url = url, !.time = left] \in Details
             /\ [detail EXCEPT !.started = b, !.url = url, !.time = left].checking
                   = detail.checking
  <2> DEFINE v == [detail EXCEPT !.started = b, !.url = url]
  <2>1. v \in Details /\ v.checking = detail.checking
    BY <1>1 DEF Details
  <2>2. [detail EXCEPT !.started = b, !.url = url, !.time = left] = [v EXCEPT !.time = left]
    OBVIOUS
  <2>3. \A w \in Details : [w EXCEPT !.time = left] \in Details
                           /\ [w EXCEPT !.time = left].checking = w.checking
    BY DEF Details
  <2> HIDE DEF v
  <2> QED
    BY <2>1, <2>2, <2>3
<1>10. CASE StatusRunning(s, m)
  <2> DEFINE u == [detail EXCEPT !.started = TRUE, !.url = "url", !.time = job[s].left]
  <2>1. u \in Details
    <3>1. job[s].left \in Int
      BY <1>1 DEF Job
    <3> QED
      BY <1>9, <3>1
  <2>2. \/ Render(m, [NotChecking(u) EXCEPT !.healthy = TRUE], ref[m]) /\ Done(s)
        \/ Render(m, Checking(u), ref[m]) /\ ArmLoop(s, m)
        \/ Render(m, [NotChecking(u) EXCEPT !.healthy = FALSE], ref[m]) /\ Done(s)
    BY <1>10 DEF StatusRunning
  <2> HIDE DEF u, m
  <2> QED
    BY <1>5, <1>6, <1>8, <2>1, <2>2
<1>11. CASE StatusDeploying(s, m)
  <2> DEFINE zero == 0
             u == [detail EXCEPT !.started = TRUE, !.url = "none", !.time = zero]
  <2>0. zero \in Int /\ zero = 0
    OBVIOUS
  <2> HIDE DEF zero
  <2>1. u \in Details /\ u.checking = detail.checking /\ [u EXCEPT !.started = FALSE] \in Details
    <3>1. u \in Details /\ u.checking = detail.checking
      BY <1>9, <2>0
    <3> HIDE DEF u
    <3> QED
      BY <3>1 DEF Details
  <2>2. \/ Render(m, u, ref[m]) /\ Done(s)
        \/ Render(m, Checking([u EXCEPT !.started = FALSE]), ref[m]) /\ ArmLoop(s, m)
        \/ Render(m, NotChecking(ClearedPanel(u)), ref[m]) /\ Done(s)
    BY <1>11, <2>0 DEF StatusDeploying
  <2> HIDE DEF u, m
  <2>3. /\ Checking([u EXCEPT !.started = FALSE]) \in Details
        /\ NotChecking(ClearedPanel(u)) \in Details /\ NotChecking(ClearedPanel(u)).checking = FALSE
    BY <1>8, <2>1
  <2> QED
    BY <1>5, <1>6, <2>1, <2>2, <2>3
<1>12. CASE StatusNone(s, m)
  <2> DEFINE zero == 0
             u == [detail EXCEPT !.started = FALSE, !.url = "none", !.time = zero]
  <2>0. zero \in Int /\ zero = 0
    OBVIOUS
  <2> HIDE DEF zero
  <2>1. u \in Details
    BY <1>9, <2>0
  <2>2. \/ Render(m, Checking(u), ref[m]) /\ ArmLoop(s, m)
        \/ Render(m, [NotChecking(u) EXCEPT !.healthy = FALSE], ref[m]) /\ Done(s)
    BY <1>12, <2>0 DEF StatusNone
  <2> HIDE DEF u, m
  <2> QED
    BY <1>5, <1>6, <1>8, <2>1, <2>2
<1>13. CASE StatusFailed(s)
  <2>1. job' \in [Pending -> Job] /\ LoopsKept
    BY <1>1, <1>2, <1>13, DoneQuiet DEF StatusFailed
  <2> QED
    BY <1>1, <1>2, <1>3, <1>13, <2>1, SameViewQuiet DEF StatusFailed
<1> QED
  BY <1>7, <1>10, <1>11, <1>12, <1>13 DEF fetchChallengeStatus

-----------------------------------------------------------------------------
(* The loops begin.                                                        *)

LEMMA LoopRefTyped ==
    ASSUME NEW r \in Refs, r.running => ~r.abort
    PROVE  /\ LoopRef(r) \in Refs
           /\ LoopRef(r).running = TRUE /\ LoopRef(r).abort = FALSE
<1>1. CASE r.running
  BY <1>1 DEF LoopRef, Refs
<1>2. CASE ~r.running
  <2>1. LoopRef(r) = [r EXCEPT !.running = TRUE, !.abort = FALSE]
    BY <1>2 DEF LoopRef
  <2>2. [r EXCEPT !.running = TRUE, !.abort = FALSE] \in Refs
    BY DEF Refs
  <2>3. /\ [r EXCEPT !.running = TRUE, !.abort = FALSE].running = TRUE
        /\ [r EXCEPT !.running = TRUE, !.abort = FALSE].abort = FALSE
    BY DEF Refs
  <2> QED
    BY <2>1, <2>2, <2>3
<1> QED
  BY <1>1, <1>2

\* A loop of mount m starts, or one that has started is left alone: the job s, which
\* was no started loop, is the only one that changes.
LEMMA StartLoopKept ==
    ASSUME PanelInv, NEW s \in Pending, NEW m \in Mount \cup {NoMount}, StartLoop(s, m),
           job[s].op = "loop" => job[s].by = m /\ job[s].at = "armed",
           UNCHANGED mounted, m # mounted => UNCHANGED detail,
           m \in Mount => ref'[m].running /\ ~ref'[m].abort,
           \A n \in Mount : n # m => ref'[n] = ref[n]
    PROVE  job' \in [Pending -> Job] /\ RunningHasLoop' /\ CheckingHasLoop'
<1>1. PanelTypeOK /\ mounted \in Mount \cup {NoMount} /\ job \in [Pending -> Job]
  BY Typed DEF PanelInv
<1>2. /\ job' \in [Pending -> Job] /\ \A u \in Pending : u # s => job'[u] = job[u]
      /\ ref[m].running \/ (job'[s].op = "loop" /\ job'[s].by = m /\ job'[s].at = "sent")
  <2>1. CASE ref[m].running
    <3>1. Become(s, NoJob)
      BY <2>1 DEF StartLoop, Done
    <3> QED
      BY <1>1, <2>1, <3>1, NoJobTyped, JobTyped
  <2>2. CASE ~ref[m].running
    <3>1. Become(s, New("loop", m, "sent")) /\ "loop" \in Op /\ "sent" \in At
      BY <2>2 DEF StartLoop, Op, At
    <3>2. /\ New("loop", m, "sent") \in Job
          /\ New("loop", m, "sent").op = "loop" /\ New("loop", m, "sent").by = m
          /\ New("loop", m, "sent").at = "sent"
      BY <3>1, NewTyped
    <3> QED
      BY <1>1, <3>1, <3>2, JobTyped
  <2> QED
    BY <2>1, <2>2
<1>3. \A n \in Mount \cup {NoMount} : n # m =>
          \A u \in LoopOf(n) : u \in LoopOf(n)' /\ job'[u] = job[u]
  BY <1>2 DEF LoopOf
<1>4. m \in Mount => \E u \in LoopOf(m)' : job'[u].at # "armed"
  <2>1. SUFFICES ASSUME m \in Mount PROVE \E u \in LoopOf(m)' : job'[u].at # "armed"
    OBVIOUS
  <2>2. CASE ref[m].running
    <3>1. PICK u \in LoopOf(m) : job[u].at # "armed"
      BY <2>1, <2>2 DEF PanelInv, RunningHasLoop
    <3>2. u # s
      BY <3>1 DEF LoopOf
    <3> QED
      BY <1>2, <3>1, <3>2 DEF LoopOf
  <2>3. CASE ~ref[m].running
    BY <1>2, <2>3 DEF LoopOf
  <2> QED
    BY <2>2, <2>3
<1>5. RunningHasLoop'
  <2> SUFFICES ASSUME NEW n \in Mount, ref'[n].running
               PROVE  ~ref'[n].abort /\ \E u \in LoopOf(n)' : job'[u].at # "armed"
    BY DEF RunningHasLoop, LoopOf
  <2>1. CASE n = m
    BY <1>4, <2>1
  <2>2. CASE n # m
    BY <1>3, <2>2 DEF PanelInv, RunningHasLoop
  <2> QED
    BY <2>1, <2>2
<1>6. CheckingHasLoop'
  <2> SUFFICES ASSUME mounted # NoMount, detail'.checking
               PROVE  \/ \E u \in LoopOf(mounted)' : job'[u].at = "armed"
                      \/ ~ref'[mounted].abort /\ LoopOf(mounted)' # {}
    BY DEF CheckingHasLoop, LoopOf
  <2>1. mounted \in Mount
    BY <1>1
  <2>2. CASE mounted = m
    BY <1>4, <2>1, <2>2
  <2>3. CASE mounted # m
    BY <1>3, <2>1, <2>3 DEF PanelInv, CheckingHasLoop
  <2> QED
    BY <2>2, <2>3
<1> QED
  BY <1>2, <1>5, <1>6

LEMMA StartKept ==
    ASSUME PanelInv, NEW s \in Pending, handleStartChallenge(s)
    PROVE  PanelInv'
<1> DEFINE m == job[s].by
<1>1. /\ entry \in [phase : Phase, left : 0..Life] /\ job \in [Pending -> Job]
      /\ mounted \in Mount \cup {NoMount}
      /\ detail \in Details /\ ref \in [Mount -> Refs]
      /\ saved \in Int /\ stored \in Int /\ armed \in Int /\ cool \in Int /\ PanelTypeOK
  BY Typed DEF PanelInv
<1>2. job[s].op # "loop" /\ UNCHANGED <<entry, mounted, stored, armed, cool>> /\ saved' \in Int
  BY DEF handleStartChallenge, Heard, StartAccepted, StartRefused, None
<1>3. m \in Mount \cup {NoMount} /\ (m \in Mount => ref[m] \in Refs)
  BY <1>1 DEF Job
<1>4. CASE StartRefused(s, m)
  <2>1. [detail EXCEPT !.starting = FALSE] \in Details
        /\ [detail EXCEPT !.starting = FALSE].checking = detail.checking
    BY <1>1 DEF Details
  <2>2. Render(m, [detail EXCEPT !.starting = FALSE], ref[m]) /\ Done(s)
    BY <1>4 DEF StartRefused
  <2> HIDE DEF m
  <2> QED
    BY <1>1, <1>2, <1>3, <2>1, <2>2, ShownQuiet
<1>5. CASE StartAccepted(s, m)
  <2>1. PICK url \in {"url", "text"} :
           Render(m, [detail EXCEPT !.started = TRUE, !.starting = FALSE, !.url = url,
                                    !.checking = TRUE], LoopRef(ref[m])) /\ StartLoop(s, m)
    BY <1>5 DEF StartAccepted
  <2> DEFINE u == [detail EXCEPT !.started = TRUE, !.starting = FALSE, !.url = url,
                                 !.checking = TRUE]
             v == [detail EXCEPT !.started = TRUE, !.starting = FALSE]
  <2>2. u \in Details
    <3>1. v \in Details
      BY <1>1 DEF Details
    <3>2. u = [v EXCEPT !.url = url, !.checking = TRUE]
      OBVIOUS
    <3> HIDE DEF v
    <3>3. [v EXCEPT !.url = url, !.checking = TRUE] \in Details
      BY <3>1 DEF Details
    <3> QED
      BY <3>2, <3>3
  <2> HIDE DEF u, v, m
  <2>3. m \in Mount => /\ LoopRef(ref[m]) \in Refs
                       /\ LoopRef(ref[m]).running = TRUE /\ LoopRef(ref[m]).abort = FALSE
    BY <1>3, LoopRefTyped DEF PanelInv, RunningHasLoop
  <2>4. Render(m, u, LoopRef(ref[m]))
    BY <2>1 DEF u
  <2>5. /\ detail' \in Details /\ ref' \in [Mount -> Refs]
        /\ m \in Mount => ref'[m].running = LoopRef(ref[m]).running
                          /\ ref'[m].abort = LoopRef(ref[m]).abort
        /\ \A n \in Mount : n # m => ref'[n] = ref[n]
    BY <1>1, <2>2, <2>3, <2>4, RenderTyped
  <2>6. m # mounted => UNCHANGED detail
    BY <2>4 DEF Render, Show
  <2>7. job' \in [Pending -> Job] /\ RunningHasLoop' /\ CheckingHasLoop'
    BY <1>2, <1>3, <2>1, <2>3, <2>5, <2>6, StartLoopKept
  <2> QED
    BY <1>1, <1>2, <2>5, <2>7, TypedNext DEF PanelInv
<1> QED
  BY <1>4, <1>5 DEF handleStartChallenge

LEMMA ArmedKept ==
    ASSUME PanelInv, NEW s \in Pending, LoopArmed(s)
    PROVE  PanelInv'
<1> DEFINE m == job[s].by
<1>1. /\ entry \in [phase : Phase, left : 0..Life] /\ job \in [Pending -> Job]
      /\ mounted \in Mount \cup {NoMount}
      /\ detail \in Details /\ ref \in [Mount -> Refs]
      /\ saved \in Int /\ stored \in Int /\ armed \in Int /\ cool \in Int
  BY Typed DEF PanelInv
<1>2. m \in Mount \cup {NoMount} /\ (m \in Mount => ref[m] \in Refs)
  BY <1>1 DEF Job
<1>3. /\ ref' = [ref EXCEPT ![m] = LoopRef(ref[m])] /\ StartLoop(s, m)
      /\ UNCHANGED <<entry, mounted, detail, saved, stored, armed, cool>>
      /\ job[s].by = m /\ job[s].at = "armed"
  BY DEF LoopArmed
<1> HIDE DEF m
<1>4. m \in Mount => /\ LoopRef(ref[m]) \in Refs
                     /\ LoopRef(ref[m]).running = TRUE /\ LoopRef(ref[m]).abort = FALSE
  BY <1>2, LoopRefTyped DEF PanelInv, RunningHasLoop
<1>5. /\ ref' \in [Mount -> Refs]
      /\ m \in Mount => ref'[m].running /\ ~ref'[m].abort
      /\ \A n \in Mount : n # m => ref'[n] = ref[n]
  <2>1. ref' = [n \in Mount |-> IF n = m THEN LoopRef(ref[m]) ELSE ref[n]]
    BY <1>1, <1>3
  <2>2. m \in Mount => ref'[m] = LoopRef(ref[m])
    BY <2>1
  <2>3. ref' \in [Mount -> Refs]
    BY <1>1, <1>4, <2>1
  <2> QED
    BY <1>4, <2>1, <2>2, <2>3
<1>6. job' \in [Pending -> Job] /\ RunningHasLoop' /\ CheckingHasLoop'
  BY <1>2, <1>3, <1>5, StartLoopKept
<1> QED
  BY <1>1, <1>3, <1>5, <1>6, TypedNext DEF PanelInv

-----------------------------------------------------------------------------
(* The loops go on and end.                                                *)

\* The loop s of mount m ends: its mount no longer says that it runs, and the panel no
\* longer checks, unless the loop had been aborted.
LEMMA LoopOverKept ==
    ASSUME PanelInv, NEW s \in Pending, NEW m \in Mount \cup {NoMount},
           job[s].op = "loop", job[s].by = m, job[s].at # "armed",
           job' \in [Pending -> Job], job'[s].op # "loop",
           \A u \in Pending : u # s => job'[u] = job[u],
           UNCHANGED mounted, mounted # NoMount /\ detail'.checking => detail.checking,
           m \in Mount => ~ref'[m].running,
           \A n \in Mount : n # m => ref'[n] = ref[n],
           m = mounted => ~detail'.checking \/ ref[m].abort
    PROVE  RunningHasLoop' /\ CheckingHasLoop'
<1>1. mounted \in Mount \cup {NoMount}
  BY Typed DEF PanelInv
<1>2. \A n \in Mount : n # m => \A u \in LoopOf(n) : u \in LoopOf(n)' /\ job'[u] = job[u]
  BY DEF LoopOf
<1>3. RunningHasLoop'
  <2> SUFFICES ASSUME NEW n \in Mount, ref'[n].running
               PROVE  ~ref'[n].abort /\ \E u \in LoopOf(n)' : job'[u].at # "armed"
    BY DEF RunningHasLoop, LoopOf
  <2>1. n # m
    OBVIOUS
  <2> QED
    BY <1>2, <2>1 DEF PanelInv, RunningHasLoop
<1>4. CheckingHasLoop'
  <2> SUFFICES ASSUME mounted # NoMount, detail'.checking
               PROVE  \/ \E u \in LoopOf(mounted)' : job'[u].at = "armed"
                      \/ ~ref'[mounted].abort /\ LoopOf(mounted)' # {}
    BY DEF CheckingHasLoop, LoopOf
  <2>1. mounted \in Mount
    BY <1>1
  <2>2. CASE mounted = m
    <3>1. PICK u \in LoopOf(m) : job[u].at = "armed"
      BY <2>2 DEF PanelInv, CheckingHasLoop
    <3>2. u # s /\ u \in LoopOf(m)'
      BY <3>1 DEF LoopOf
    <3>3. job'[u] = job[u]
      BY <3>1, <3>2 DEF LoopOf
    <3> QED
      BY <2>2, <3>1, <3>2, <3>3
  <2>3. CASE mounted # m
    BY <1>2, <2>1, <2>3 DEF PanelInv, CheckingHasLoop
  <2> QED
    BY <2>2, <2>3
<1> QED
  BY <1>3, <1>4

\* An abort ends the loop: nothing runs then, and what checks is about to start.
LEMMA LoopNextKept ==
    ASSUME PanelInv, NEW s \in Pending, job[s].op = "loop", job[s].at # "armed",
           NEW at \in At \ {"armed"}, LoopNext(s, job[s].by, at),
           UNCHANGED <<entry, mounted, detail, saved, stored, armed, cool>>
    PROVE  PanelInv'
<1> DEFINE m == job[s].by
<1>1. /\ entry \in [phase : Phase, left : 0..Life] /\ job \in [Pending -> Job]
      /\ mounted \in Mount \cup {NoMount}
      /\ detail \in Details /\ ref \in [Mount -> Refs]
      /\ saved \in Int /\ stored \in Int /\ armed \in Int /\ cool \in Int /\ PanelTypeOK
  BY Typed DEF PanelInv
<1>2. m \in Mount \cup {NoMount} /\ job[s].by = m /\ LoopNext(s, m, at)
  BY <1>1 DEF Job
<1> HIDE DEF m
<1>3. CASE ref[m].abort
  <2>1. Done(s) /\ ref' = [ref EXCEPT ![m].running = FALSE]
    BY <1>2, <1>3 DEF LoopNext
  <2>2. /\ job' \in [Pending -> Job] /\ job'[s].op # "loop"
        /\ \A u \in Pending : u # s => job'[u] = job[u]
    BY <1>1, <2>1, NoJobTyped, JobTyped DEF Done
  <2>3. /\ ref' \in [Mount -> Refs]
        /\ m \in Mount => ~ref'[m].running
        /\ \A n \in Mount : n # m => ref'[n] = ref[n]
    <3>1. CASE m \in Mount
      <4>1. [ref[m] EXCEPT !.running = FALSE] \in Refs
            /\ [ref[m] EXCEPT !.running = FALSE].running = FALSE
        BY <1>1, <3>1 DEF Refs
      <4>2. ref' = [n \in Mount |-> IF n = m THEN [ref[m] EXCEPT !.running = FALSE] ELSE ref[n]]
        BY <1>1, <2>1
      <4> QED
        BY <1>1, <3>1, <4>1, <4>2
    <3>2. CASE m \notin Mount
      <4>1. ref' = ref
        BY <1>1, <2>1, <3>2
      <4> QED
        BY <1>1, <3>2, <4>1
    <3> QED
      BY <3>1, <3>2
  <2>4. RunningHasLoop' /\ CheckingHasLoop'
    BY <1>2, <1>3, <2>2, <2>3, LoopOverKept
  <2> QED
    BY <1>1, <2>2, <2>3, <2>4, TypedNext DEF PanelInv
<1>4. CASE ~ref[m].abort
  <2>1. Resume(s, at) /\ UNCHANGED ref
    BY <1>2, <1>4 DEF LoopNext
  <2>2. job' \in [Pending -> Job] /\ LoopsKept
    BY <1>1, <2>1, ResumeQuiet
  <2> QED
    BY <1>1, <2>1, <2>2, SameViewQuiet
<1> QED
  BY <1>3, <1>4

LEMMA AsksKept ==
    ASSUME PanelInv, NEW s \in Pending, LoopAsks(s)
    PROVE  PanelInv'
<1>1. /\ job[s].op = "loop" /\ job[s].at # "armed" /\ LoopNext(s, job[s].by, "sent")
      /\ UNCHANGED <<entry, mounted, detail, saved, stored, armed, cool>>
  BY DEF LoopAsks
<1>2. "sent" \in At \ {"armed"}
  BY DEF At
<1> QED
  BY <1>1, <1>2, LoopNextKept

\* A loop that shows u and ends, on its own or as a background stop.
LEMMA LoopShownKept ==
    ASSUME PanelInv, NEW s \in Pending, job[s].op = "loop", job[s].at # "armed",
           NEW u \in Details, ~u.checking, UNCHANGED <<entry, mounted, cool>>,
           Render(job[s].by, u, [ref[job[s].by] EXCEPT !.running = FALSE]),
           Done(s) \/ Become(s, New("auto", NoMount, "sent")),
           saved' \in Int, stored' \in Int, armed' \in Int
    PROVE  PanelInv'
<1> DEFINE m == job[s].by
           r == [ref[m] EXCEPT !.running = FALSE]
<1>1. /\ entry \in [phase : Phase, left : 0..Life] /\ job \in [Pending -> Job]
      /\ mounted \in Mount \cup {NoMount}
      /\ detail \in Details /\ ref \in [Mount -> Refs] /\ cool \in Int /\ PanelTypeOK
  BY Typed DEF PanelInv
<1>2. m \in Mount \cup {NoMount} /\ job[s].by = m /\ Render(m, u, r)
  BY <1>1 DEF Job
<1> HIDE DEF m
<1>3. m \in Mount => r \in Refs /\ r.running = FALSE
  BY <1>1 DEF Refs
<1> HIDE DEF r
<1>4. /\ detail' \in Details /\ ref' \in [Mount -> Refs]
      /\ detail'.checking = IF m = mounted THEN u.checking ELSE detail.checking
      /\ m \in Mount => ref'[m].running = r.running /\ ref'[m].abort = r.abort
      /\ \A n \in Mount : n # m => ref'[n] = ref[n]
  BY <1>1, <1>2, <1>3, RenderTyped
<1>5. /\ job' \in [Pending -> Job] /\ job'[s].op # "loop"
      /\ \A v \in Pending : v # s => job'[v] = job[v]
  <2>1. CASE Done(s)
    BY <1>1, <2>1, NoJobTyped, JobTyped DEF Done
  <2>2. CASE Become(s, New("auto", NoMount, "sent"))
    <3>1. "auto" \in Op /\ "sent" \in At
      BY DEF Op, At
    <3>2. New("auto", NoMount, "sent") \in Job /\ New("auto", NoMount, "sent").op = "auto"
      BY <3>1, NewTyped
    <3> QED
      BY <1>1, <2>2, <3>2, JobTyped
  <2> QED
    BY <2>1, <2>2
<1>6. RunningHasLoop' /\ CheckingHasLoop'
  BY <1>2, <1>3, <1>4, <1>5, LoopOverKept
<1> QED
  BY <1>1, <1>4, <1>5, <1>6, TypedNext DEF PanelInv

LEMMA CheckKept ==
    ASSUME PanelInv, NEW s \in Pending, checkStatus(s)
    PROVE  PanelInv'
<1> DEFINE m == job[s].by
<1>1. /\ detail \in Details /\ job \in [Pending -> Job]
      /\ saved \in Int /\ stored \in Int /\ armed \in Int
  BY Typed DEF PanelInv
<1>2. /\ job[s].op = "loop" /\ job[s].at # "armed" /\ UNCHANGED <<entry, mounted, cool>>
  BY DEF checkStatus, Heard
<1>3. CASE LoopSuccess(s, m)
  <2> DEFINE left == job[s].left
             v == [detail EXCEPT !.url = "url", !.time = left]
             u == [detail EXCEPT !.url = "url", !.time = left, !.checking = FALSE,
                                 !.healthy = TRUE]
  <2>1. left \in Int
    BY <1>1 DEF Job
  <2>2. saved' \in Int /\ stored' \in Int /\ armed' \in Int
    BY <1>1, <1>3, <2>1 DEF LoopSuccess, None
  <2>3. /\ Render(m, u, [ref[m] EXCEPT !.running = FALSE])
        /\ Done(s) \/ Become(s, New("auto", NoMount, "sent"))
    BY <1>3 DEF LoopSuccess
  <2> HIDE DEF left
  <2>4. u \in Details /\ ~u.checking
    <3>1. v \in Details
      BY <1>1, <2>1 DEF Details
    <3>2. u = [v EXCEPT !.checking = FALSE, !.healthy = TRUE]
      OBVIOUS
    <3> HIDE DEF v
    <3>3. /\ [v EXCEPT !.checking = FALSE, !.healthy = TRUE] \in Details
          /\ ~[v EXCEPT !.checking = FALSE, !.healthy = TRUE].checking
      BY <3>1 DEF Details
    <3> QED
      BY <3>2, <3>3
  <2> HIDE DEF u, v
  <2> QED
    BY <1>2, <2>2, <2>3, <2>4, LoopShownKept
<1>4. CASE LoopTerminal(s, m)
  <2> DEFINE v == [NotChecking(detail) EXCEPT !.healthy = FALSE, !.started = FALSE]
             u == [NotChecking(detail) EXCEPT !.healthy = FALSE, !.started = FALSE,
                                              !.url = "none"]
  <2>1. saved' \in Int /\ stored' \in Int /\ armed' \in Int
    BY <1>1, <1>4 DEF LoopTerminal, None
  <2>2. Render(m, u, [ref[m] EXCEPT !.running = FALSE]) /\ Done(s)
    BY <1>4 DEF LoopTerminal
  <2>3. u \in Details /\ ~u.checking
    <3>1. NotChecking(detail) \in Details /\ NotChecking(detail).checking = FALSE
      BY <1>1, ViewsTyped
    <3>2. \A w \in Details :
             /\ [w EXCEPT !.healthy = FALSE, !.started = FALSE] \in Details
             /\ [w EXCEPT !.healthy = FALSE, !.started = FALSE].checking = w.checking
      BY DEF Details
    <3>3. v \in Details /\ v.checking = FALSE
      BY <3>1, <3>2
    <3>4. u = [v EXCEPT !.url = "none"]
      OBVIOUS
    <3> HIDE DEF v
    <3>5. [v EXCEPT !.url = "none"] \in Details /\ ~[v EXCEPT !.url = "none"].checking
      BY <3>3 DEF Details
    <3> QED
      BY <3>4, <3>5
  <2> HIDE DEF u, v
  <2> QED
    BY <1>2, <2>1, <2>2, <2>3, LoopShownKept
<1>5. CASE LoopAgain(s, m)
  <2>1. LoopNext(s, m, "wait") /\ UNCHANGED <<detail, saved, stored, armed>>
    BY <1>5 DEF LoopAgain
  <2>2. "wait" \in At \ {"armed"}
    BY DEF At
  <2> QED
    BY <1>2, <2>1, <2>2, LoopNextKept
<1> QED
  BY <1>3, <1>4, <1>5 DEF checkStatus

-----------------------------------------------------------------------------
(* The panel comes and goes.                                               *)

\* Nothing checks any more, and what runs is what ran.
LEMMA UncheckedKept ==
    ASSUME PanelInv, LoopsKept, ~detail'.checking,
           \A m \in Mount : ref'[m].running => ref'[m] = ref[m]
    PROVE  RunningHasLoop' /\ CheckingHasLoop'
<1>1. \A m : \A u \in LoopOf(m) : /\ u \in LoopOf(m)'
                                  /\ job'[u].at = "armed" <=> job[u].at = "armed"
  BY DEF LoopOf, LoopsKept
<1>2. RunningHasLoop'
  BY <1>1 DEF PanelInv, RunningHasLoop
<1> QED
  BY <1>2 DEF CheckingHasLoop

LEMMA FreshTyped ==
    /\ FreshUi \in Details /\ FreshUi.checking = FALSE
    /\ FreshRef \in Refs /\ FreshRef.running = FALSE
<1>1. FreshUi \in Details /\ FreshUi.checking = FALSE
  BY DEF FreshUi, Details
<1>2. FreshRef \in Refs /\ FreshRef.running = FALSE
  BY DEF FreshRef, Refs, None
<1> QED
  BY <1>1, <1>2

LEMMA MountKept ==
    ASSUME PanelInv, NEW m \in Mount, NEW s \in Pending, MountPanel(m, s)
    PROVE  PanelInv'
<1>1. /\ entry \in [phase : Phase, left : 0..Life]
      /\ ref \in [Mount -> Refs]
      /\ saved \in Int /\ stored \in Int /\ armed \in Int /\ cool \in Int /\ PanelTypeOK
  BY Typed DEF PanelInv
<1>2. /\ UNCHANGED <<entry, saved, stored, armed, cool>>
      /\ mounted' = m /\ detail' = FreshUi /\ ref' = [ref EXCEPT ![m] = FreshRef]
      /\ Become(s, New("status", m, "sent")) /\ job[s].op # "loop"
  BY DEF MountPanel, FreeForMount, Free
<1>3. job' \in [Pending -> Job] /\ LoopsKept
  <2>1. "status" \in Op /\ "sent" \in At
    BY DEF Op, At
  <2> QED
    BY <1>1, <1>2, <2>1, NewQuiet
<1>4. ref' \in [Mount -> Refs] /\ \A n \in Mount : ref'[n].running => ref'[n] = ref[n]
  BY <1>1, <1>2, FreshTyped
<1>5. RunningHasLoop' /\ CheckingHasLoop'
  BY <1>2, <1>3, <1>4, FreshTyped, UncheckedKept
<1>6. PanelTypeOK'
  BY <1>1, <1>2, <1>3, <1>4, FreshTyped, TypedNext
<1> QED
  BY <1>5, <1>6 DEF PanelInv

\* A mount's refs once its health check is aborted and its countdown forgotten.
LEMMA AbortedTyped ==
    ASSUME NEW r \in Refs, NEW b \in BOOLEAN
    PROVE  /\ [r EXCEPT !.abort = TRUE, !.running = FALSE, !.end = None] \in Refs
           /\ [r EXCEPT !.abort = TRUE, !.running = FALSE, !.end = None, !.stop = b] \in Refs
           /\ ~[r EXCEPT !.abort = TRUE, !.running = FALSE, !.end = None].running
           /\ ~[r EXCEPT !.abort = TRUE, !.running = FALSE, !.end = None, !.stop = b].running
<1> DEFINE v == [r EXCEPT !.abort = TRUE, !.running = FALSE]
           w == [v EXCEPT !.end = None]
<1>1. v \in Refs /\ ~v.running
  BY DEF Refs
<1>2. w = [r EXCEPT !.abort = TRUE, !.running = FALSE, !.end = None]
  OBVIOUS
<1> HIDE DEF v
<1>3. w \in Refs /\ ~w.running
  BY <1>1 DEF Refs, None
<1>4. [w EXCEPT !.stop = b] = [r EXCEPT !.abort = TRUE, !.running = FALSE, !.end = None,
                                        !.stop = b]
  BY DEF v
<1> HIDE DEF w
<1>5. [w EXCEPT !.stop = b] \in Refs /\ ~[w EXCEPT !.stop = b].running
  BY <1>3 DEF Refs
<1> QED
  BY <1>2, <1>3, <1>4, <1>5

LEMMA UnmountKept ==
    ASSUME PanelInv, UnmountPanel
    PROVE  PanelInv'
<1>1. /\ entry \in [phase : Phase, left : 0..Life] /\ job \in [Pending -> Job]
      /\ ref \in [Mount -> Refs] /\ mounted \in Mount
      /\ saved \in Int /\ stored \in Int /\ armed \in Int /\ cool \in Int
  BY Typed DEF PanelInv, UnmountPanel
<1> DEFINE r == [ref[mounted] EXCEPT !.abort = TRUE, !.running = FALSE, !.end = None]
<1>2. ref' = [ref EXCEPT ![mounted] = r]
  BY <1>1 DEF UnmountPanel
<1>3. r \in Refs /\ ~r.running
  BY <1>1, AbortedTyped
<1> HIDE DEF r
<1>4. ref' \in [Mount -> Refs] /\ \A n \in Mount : ref'[n].running => ref'[n] = ref[n]
  BY <1>1, <1>2, <1>3
<1>5. /\ UNCHANGED <<entry, job, saved, stored, armed, cool>>
      /\ mounted' = NoMount /\ detail' = FreshUi /\ LoopsKept
  BY DEF UnmountPanel, LoopsKept
<1>6. RunningHasLoop' /\ CheckingHasLoop'
  BY <1>4, <1>5, FreshTyped, UncheckedKept
<1>7. PanelTypeOK'
  BY <1>1, <1>4, <1>5, FreshTyped, TypedNext
<1> QED
  BY <1>6, <1>7 DEF PanelInv

LEMMA ReloadKept ==
    ASSUME PanelInv, Reload
    PROVE  PanelInv'
<1>1. /\ entry \in [phase : Phase, left : 0..Life]
      /\ saved \in Int /\ stored \in Int /\ cool \in Int
  BY Typed DEF PanelInv
<1>2. /\ UNCHANGED <<entry, saved, cool>> /\ mounted' = NoMount /\ detail' = FreshUi
      /\ ref' = [m \in Mount |-> FreshRef] /\ job' = [s \in Pending |-> NoJob]
      /\ stored' \in Int /\ armed' \in Int
  BY <1>1 DEF Reload, None
<1>3. job' \in [Pending -> Job] /\ ref' \in [Mount -> Refs]
  BY <1>2, NoJobTyped, FreshTyped
<1>4. RunningHasLoop' /\ CheckingHasLoop'
  BY <1>2, FreshTyped DEF RunningHasLoop, CheckingHasLoop
<1>5. PanelTypeOK'
  BY <1>1, <1>2, <1>3, FreshTyped, TypedNext
<1> QED
  BY <1>4, <1>5 DEF PanelInv

LEMMA CountdownKept ==
    ASSUME PanelInv, NEW s \in Pending, CountdownEnds(s)
    PROVE  PanelInv'
<1>1. /\ entry \in [phase : Phase, left : 0..Life] /\ job \in [Pending -> Job]
      /\ ref \in [Mount -> Refs] /\ mounted \in Mount /\ detail \in Details
      /\ saved \in Int /\ stored \in Int /\ armed \in Int /\ cool \in Int /\ PanelTypeOK
  BY Typed DEF PanelInv, CountdownEnds
<1> DEFINE r == [ref[mounted] EXCEPT !.abort = TRUE, !.running = FALSE, !.end = None,
                                     !.stop = TRUE]
<1>2. ref' = [ref EXCEPT ![mounted] = r]
  BY <1>1 DEF CountdownEnds
<1>3. r \in Refs /\ ~r.running
  BY <1>1, AbortedTyped
<1> HIDE DEF r
<1>4. ref' \in [Mount -> Refs] /\ \A n \in Mount : ref'[n].running => ref'[n] = ref[n]
  BY <1>1, <1>2, <1>3
<1>5. detail' \in Details /\ ~detail'.checking
  <2>1. detail' = NotChecking(ClearedPanel(detail))
    BY DEF CountdownEnds
  <2> QED
    BY <1>1, <2>1, ViewsTyped
<1>6. job' \in [Pending -> Job] /\ LoopsKept
  <2>1. CASE UNCHANGED job
    BY <1>1, <2>1 DEF LoopsKept
  <2>2. CASE Become(s, New("expire", mounted, "sent"))
    <3>1. "expire" \in Op /\ "sent" \in At /\ job[s].op # "loop"
      BY DEF CountdownEnds, FreeForMount, Free, Op, At
    <3> QED
      BY <1>1, <2>2, <3>1, NewQuiet
  <2> QED
    BY <2>1, <2>2 DEF CountdownEnds
<1>7. RunningHasLoop' /\ CheckingHasLoop'
  BY <1>4, <1>5, <1>6, UncheckedKept
<1>8. UNCHANGED <<entry, mounted, cool>> /\ saved' \in Int /\ stored' \in Int /\ armed' \in Int
  BY DEF CountdownEnds, StopTimer, None
<1>9. PanelTypeOK'
  BY <1>1, <1>4, <1>5, <1>6, <1>8, TypedNext
<1> QED
  BY <1>7, <1>9 DEF PanelInv

-----------------------------------------------------------------------------
(* The theorems.                                                           *)

LEMMA PanelStarts == PanelInit => PanelInv
<1> SUFFICES ASSUME PanelInit PROVE PanelInv
  OBVIOUS
<1>1. RunningHasLoop
  BY FreshTyped DEF PanelInit, RunningHasLoop
<1>2. CheckingHasLoop
  BY DEF PanelInit, CheckingHasLoop
<1> QED
  BY <1>1, <1>2, InitTyped DEF PanelInv

LEMMA PanelInductive == PanelInv /\ [PanelNext]_panelVars => PanelInv'
<1> SUFFICES ASSUME PanelInv, [PanelNext]_panelVars PROVE PanelInv'
  OBVIOUS
<1>1. ASSUME NEW s \in Pending, NEW m \in Mount, MountPanel(m, s) PROVE PanelInv'
  BY <1>1, MountKept
<1>2. ASSUME NEW s \in Pending, \/ StartClick(s) \/ handleSubmitFlag(s)
                                \/ StopConfirm(s) \/ FlagClosed(s)
      PROVE PanelInv'
  BY <1>2, ShowsKept
<1>3. ASSUME NEW s \in Pending, \/ StopClick(s) \/ StopCancel(s) \/ TimeoutFires(s)
                                \/ GlobalCheck(s) \/ FlagHeard(s)
      PROVE PanelInv'
  BY <1>3, ClicksKept
<1>4. ASSUME NEW s \in Pending, CountdownEnds(s) PROVE PanelInv'
  BY <1>4, CountdownKept
<1>5. ASSUME NEW s \in Pending, Handler(s) PROVE PanelInv'
  <2>1. \/ fetchChallengeStatus(s) \/ handleStartChallenge(s)
        \/ LoopArmed(s) \/ LoopAsks(s) \/ checkStatus(s) \/ handleStopChallenge(s)
        \/ autoStopChallengeOnTimeout(s) \/ autoStopChallenge(s)
        \/ FlagHeard(s) \/ FlagClosed(s)
    BY <1>5 DEF Handler
  <2> QED
    BY <1>2, <1>3, <2>1, StatusKept, StartKept, ArmedKept, AsksKept, CheckKept, StopKept,
       AutoKept
<1>6. ASSUME NEW s \in Pending, Serve(s) \/ Lose(s) PROVE PanelInv'
  BY <1>6, ServerKept
<1>7. CASE UnmountPanel
  BY <1>7, UnmountKept
<1>8. CASE Reload
  BY <1>8, ReloadKept
<1>9. CASE EntryChanges \/ Tick
  BY <1>9, ClockKept
<1>10. CASE UNCHANGED panelVars
  BY <1>10, Typed, TypedNext DEF panelVars, PanelInv, RunningHasLoop, CheckingHasLoop, LoopOf
<1> QED
  BY <1>1, <1>2, <1>3, <1>4, <1>5, <1>6, <1>7, <1>8, <1>9, <1>10 DEF PanelNext

\* Whatever the interleaving of mounts, answers, timers and clicks, the state of the
\* panel and of the functions it leaves behind stays of its type (Challenges.tsx,
\* challengeTimerService.ts).
THEOREM PanelTyped == PanelSpec => []PanelTypeOK
<1>1. PanelInv => PanelTypeOK
  BY DEF PanelInv
<1> QED
  BY <1>1, PanelStarts, PanelInductive, PTL DEF PanelSpec

\* A panel that says "Checking..." has a health-check loop that will end it
\* (startHealthCheckLoop, Challenges.tsx 2169-2373), for every number of mounts and of
\* pending functions: an aborted loop that ends leaves a panel that is still checking
\* only when the next loop has been armed.
THEOREM CheckingHasItsLoop == PanelSpec => []CheckingIsAttended
<1>1. PanelInv => CheckingIsAttended
  BY DEF PanelInv, CheckingHasLoop, CheckingIsAttended, LoopOf
<1> QED
  BY <1>1, PanelStarts, PanelInductive, PTL DEF PanelSpec
=============================================================================
