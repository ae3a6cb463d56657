---------------------------- MODULE PortalProofs ----------------------------
(***************************************************************************)
(* Proofs about the contestant portal: the dialog of the hints and files,  *)
(* and the session the tabs share.                                         *)
(***************************************************************************)
EXTENDS HintDialog, PortalSession, ChallengeBrowser, TeamPages, TLAPS

-----------------------------------------------------------------------------
(***************************************************************************)
(* HintDialog, for every set of hints and files, every number of pending   *)
(* functions and of clicks: a dialog that takes the place of another never *)
(* spends points, and no button or viewer waits for ever.                  *)
(***************************************************************************)

\* The functions of the panel and what they hold.
HintHolds == Hint \cup Pdf \cup {Nothing, NoTask.arg}
Pending == [op : {"none", "hints", "unlock", "pdf", "file"},
            at : {"none", "sent", "details", "confirm", "dismissed", "unlocking", "content"},
            arg : HintHolds]
TasksOK == /\ task \in [Slot -> Pending]
           /\ \A s \in Slot : /\ task[s].op = "unlock" => task[s].arg \in Hint
                              /\ task[s].op = "pdf" => task[s].arg \in Pdf

\* What an unlocking that has been sent holds has been agreed to.
SentIsAgreed == \A s \in Slot : task[s].op = "unlock" /\ task[s].at \in {"unlocking", "content"}
                                    => task[s].arg \in agreed

\* The inductive invariant.
HInv == HintDialogTypeOK /\ TasksOK /\ SentIsAgreed /\ PaidIsAgreed /\ ButtonsAreFreed

LEMMA FirstPdfInPdf == FirstPdf \in Pdf
  BY HintDialogAssumption DEF FirstPdf

LEMMA HintDialogInitInv == HintDialogInit => HInv
<1> SUFFICES ASSUME HintDialogInit PROVE HInv
  OBVIOUS
<1>1. TasksOK
  BY FirstPdfInPdf DEF HintDialogInit, TasksOK, Pending, HintHolds, NoTasks, NoTask
<1>2. HintDialogTypeOK
  BY FirstPdfInPdf DEF HintDialogInit, HintDialogTypeOK, NoDialog
<1>3. SentIsAgreed /\ PaidIsAgreed
  BY DEF HintDialogInit, SentIsAgreed, PaidIsAgreed, NoTasks, NoTask
<1>4. ButtonsAreFreed
  <2>1. task[2].op = "pdf"
    BY TabAssumption DEF HintDialogInit, NoTasks, NoTask
  <2> QED
    BY TabAssumption, <2>1 DEF HintDialogInit, ButtonsAreFreed
<1> QED
  BY <1>1, <1>2, <1>3, <1>4 DEF HInv

-----------------------------------------------------------------------------
(* What the steps of an event loop do to the pending functions.            *)

\* Only function s changes, and a function t takes its place.
Becomes(s, t) == /\ task' \in [Slot -> Pending]
                 /\ task'[s] = t
                 /\ \A u \in Slot \ {s} : task'[u] = task[u]

LEMMA StartBecomes ==
    ASSUME TasksOK, NEW s \in Slot, NEW op, NEW at, NEW arg,
           [op |-> op, at |-> at, arg |-> arg] \in Pending, Start(s, op, at, arg)
    PROVE  Becomes(s, [op |-> op, at |-> at, arg |-> arg])
  BY DEF TasksOK, Start, Becomes

LEMMA AwaitBecomes ==
    ASSUME TasksOK, NEW s \in Slot, NEW at, NEW arg,
           [op |-> task[s].op, at |-> at, arg |-> arg] \in Pending, Await(s, at, arg)
    PROVE  Becomes(s, [op |-> task[s].op, at |-> at, arg |-> arg])
  BY DEF TasksOK, Await, Becomes, Pending

LEMMA EndsBecomes ==
    ASSUME TasksOK, NEW s \in Slot, Ends(s)
    PROVE  Becomes(s, NoTask)
<1>1. NoTask \in Pending
  BY DEF NoTask, Pending, HintHolds
<1> QED
  BY <1>1 DEF TasksOK, Ends, Becomes

\* A dialog on the screen besides resolves the confirmations that wait.
LEMMA FireTakesPlace ==
    ASSUME TasksOK, NEW s \in Slot, NEW t \in Pending, NEW kind, NEW h, Fire(s, t, kind, h)
    PROVE  /\ task' \in [Slot -> Pending]
           /\ task'[s] = t
           /\ \A u \in Slot \ {s} : \/ task'[u] = task[u]
                                    \/ task'[u] = [task[u] EXCEPT !.at = "dismissed"]
<1>1. \A u \in Slot : [task[u] EXCEPT !.at = "dismissed"] \in Pending
  BY DEF TasksOK, Pending
<1> QED
  BY <1>1 DEF TasksOK, Fire

LEMMA DismissedStays ==
    ASSUME TasksOK, NEW u \in Slot,
           task'[u] = task[u] \/ task'[u] = [task[u] EXCEPT !.at = "dismissed"]
    PROVE  /\ task'[u].op = task[u].op /\ task'[u].arg = task[u].arg
           /\ task'[u].at \in {task[u].at, "dismissed"}
  BY DEF TasksOK, Pending

\* TasksOK and SentIsAgreed need only be looked at where a function has changed.
LEMMA TasksKept ==
    ASSUME TasksOK, SentIsAgreed, NEW s \in Slot,
           task' \in [Slot -> Pending],
           \A u \in Slot \ {s} : \/ task'[u] = task[u]
                                 \/ task'[u] = [task[u] EXCEPT !.at = "dismissed"],
           task'[s].op = "unlock" => task'[s].arg \in Hint,
           task'[s].op = "pdf" => task'[s].arg \in Pdf,
           task'[s].op = "unlock" /\ task'[s].at \in {"unlocking", "content"}
              => task'[s].arg \in agreed',
           agreed \subseteq agreed'
    PROVE  TasksOK' /\ SentIsAgreed'
<1>1. \A u \in Slot \ {s} : /\ task'[u].op = task[u].op /\ task'[u].arg = task[u].arg
                            /\ task'[u].at \in {task[u].at, "dismissed"}
  BY DismissedStays
<1>2. TasksOK'
  BY <1>1 DEF TasksOK
<1>3. SentIsAgreed'
  BY <1>1 DEF SentIsAgreed
<1> QED
  BY <1>2, <1>3

\* Nor does ButtonsAreFreed, when the flags go down or their function stays.
LEMMA ButtonsKept ==
    ASSUME TasksOK, ButtonsAreFreed, NEW s \in Slot,
           \A u \in Slot \ {s} : \/ task'[u] = task[u]
                                 \/ task'[u] = [task[u] EXCEPT !.at = "dismissed"],
           \/ panel'.unlocking \in {Nothing, panel.unlocking} /\ task[s].op # "unlock"
           \/ panel'.unlocking = Nothing
           \/ task'[s].op = "unlock" /\ task'[s].arg = task[s].arg
                /\ panel'.unlocking = panel.unlocking
           \/ task'[s].op = "unlock" /\ task'[s].arg = panel'.unlocking,
           \/ panel'.loading = panel.loading /\ task[s].op # "pdf"
           \/ ~panel'.loading
           \/ task'[s].op = "pdf"
    PROVE  ButtonsAreFreed'
<1>1. \A u \in Slot \ {s} : task'[u].op = task[u].op /\ task'[u].arg = task[u].arg
  BY DismissedStays
<1>2. panel'.unlocking # Nothing => \E u \in Slot : /\ task'[u].op = "unlock"
                                                    /\ task'[u].arg = panel'.unlocking
  BY <1>1 DEF ButtonsAreFreed
<1>3. panel'.loading => \E u \in Slot : task'[u].op = "pdf"
  BY <1>1 DEF ButtonsAreFreed
<1> QED
  BY <1>2, <1>3 DEF ButtonsAreFreed

-----------------------------------------------------------------------------
(* The handlers, one by one.                                               *)

\* The requests that a click starts.
LEMMA ClickKeeps ==
    ASSUME HInv, NEW s \in Slot,
           handleUnlockHint(s) \/ handlePdfClick(s) \/ handleDownloadFile(s)
    PROVE  HInv'
<1> USE DEF HInv
<1>1. CASE handleUnlockHint(s)
  <2>1. PICK h \in Hint : /\ Start(s, "unlock", "details", h)
                          /\ panel' = [panel EXCEPT !.unlocking = h]
    BY <1>1 DEF handleUnlockHint
  <2>2. /\ FreeSlot(s) /\ UNCHANGED <<paid, dialog, agreed>>
    BY <1>1 DEF handleUnlockHint
  <2>3. Becomes(s, [op |-> "unlock", at |-> "details", arg |-> h])
    BY <2>1, StartBecomes DEF Pending, HintHolds
  <2>4. TasksOK' /\ SentIsAgreed'
    BY <2>2, <2>3, TasksKept DEF Becomes
  <2>5. HintDialogTypeOK' /\ panel'.unlocking = h /\ panel'.loading = panel.loading
    BY <2>1, <2>2 DEF HintDialogTypeOK
  <2>6. ButtonsAreFreed'
    BY <2>2, <2>3, <2>5, ButtonsKept DEF Becomes, FreeSlot
  <2> QED
    BY <2>2, <2>4, <2>5, <2>6 DEF PaidIsAgreed
<1>2. CASE handlePdfClick(s)
  <2>1. PICK i \in Pdf : /\ Start(s, "pdf", "sent", i)
                         /\ panel' = [panel EXCEPT !.pdf = i, !.loading = TRUE]
    BY <1>2 DEF handlePdfClick
  <2>2. /\ FreeSlot(s) /\ UNCHANGED <<paid, dialog, agreed>>
    BY <1>2 DEF handlePdfClick
  <2>3. Becomes(s, [op |-> "pdf", at |-> "sent", arg |-> i])
    BY <2>1, StartBecomes DEF Pending, HintHolds
  <2>4. TasksOK' /\ SentIsAgreed'
    BY <2>2, <2>3, TasksKept DEF Becomes
  <2>5. HintDialogTypeOK' /\ panel'.unlocking = panel.unlocking
    BY <2>1, <2>2 DEF HintDialogTypeOK
  <2>6. ButtonsAreFreed'
    BY <2>2, <2>3, <2>5, ButtonsKept DEF Becomes, FreeSlot
  <2> QED
    BY <2>2, <2>4, <2>5, <2>6 DEF PaidIsAgreed
<1>3. CASE handleDownloadFile(s)
  <2>1. /\ FreeSlot(s) /\ UNCHANGED <<paid, dialog, panel, agreed>>
        /\ Becomes(s, [op |-> "file", at |-> "sent", arg |-> Nothing])
    BY <1>3, StartBecomes DEF handleDownloadFile, Pending, HintHolds
  <2>2. TasksOK' /\ SentIsAgreed'
    BY <2>1, TasksKept DEF Becomes
  <2>3. ButtonsAreFreed'
    BY <2>1, ButtonsKept DEF Becomes, FreeSlot
  <2> QED
    BY <2>1, <2>2, <2>3 DEF PaidIsAgreed, HintDialogTypeOK
<1> QED
  BY <1>1, <1>2, <1>3

\* handleUnlockHint ends with a dialog: the next function t is no unlocking.
LEMMA UnlockEndsKeeps ==
    ASSUME HInv, NEW s \in Slot, NEW t \in Pending, NEW kind, NEW h \in Hint,
           t.op \notin {"unlock", "pdf"}, task[s].op = "unlock",
           kind \in {"content", "message"}, UnlockEnds(s, t, kind, h),
           paid' \subseteq Hint, paid' \subseteq agreed, UNCHANGED agreed
    PROVE  HInv'
<1> USE DEF HInv
<1>1. /\ task' \in [Slot -> Pending] /\ task'[s] = t
      /\ \A u \in Slot \ {s} : \/ task'[u] = task[u]
                               \/ task'[u] = [task[u] EXCEPT !.at = "dismissed"]
  BY FireTakesPlace DEF UnlockEnds
<1>2. TasksOK' /\ SentIsAgreed'
  BY <1>1, TasksKept
<1>3. /\ panel' = [panel EXCEPT !.unlocking = Nothing]
      /\ dialog' = [kind |-> kind, hint |-> h]
  BY DEF UnlockEnds, Fire
<1>4. HintDialogTypeOK' /\ panel'.unlocking = Nothing /\ panel'.loading = panel.loading
  BY <1>3 DEF HintDialogTypeOK
<1>5. ButtonsAreFreed'
  BY <1>1, <1>4, ButtonsKept
<1> QED
  BY <1>2, <1>4, <1>5 DEF PaidIsAgreed

LEMMA NoTaskIsPending == NoTask \in Pending /\ NoTask.op = "none"
  BY DEF NoTask, Pending, HintHolds

\* An unlocking goes on to another await, after a confirmation or a payment.
LEMMA UnlockingKeeps ==
    ASSUME HInv, NEW s \in Slot, NEW at, task[s].op = "unlock",
           at \in {"unlocking", "dismissed", "content"}, Await(s, at, task[s].arg),
           at \in {"unlocking", "content"} => task[s].arg \in agreed',
           dialog' \in {NoDialog, dialog}, UNCHANGED panel,
           paid' \subseteq Hint, paid' \subseteq agreed',
           agreed \subseteq agreed', agreed' \subseteq Hint
    PROVE  HInv'
<1> USE DEF HInv
<1>1. [op |-> task[s].op, at |-> at, arg |-> task[s].arg] \in Pending
  BY DEF TasksOK, Pending
<1>2. Becomes(s, [op |-> task[s].op, at |-> at, arg |-> task[s].arg])
  BY <1>1, AwaitBecomes
<1>3. TasksOK' /\ SentIsAgreed'
  BY <1>2, TasksKept DEF Becomes, TasksOK
<1>4. ButtonsAreFreed'
  BY <1>2, ButtonsKept DEF Becomes
<1>5. HintDialogTypeOK'
  BY DEF HintDialogTypeOK, NoDialog
<1> QED
  BY <1>3, <1>4, <1>5 DEF PaidIsAgreed

-----------------------------------------------------------------------------
\* The answers and dialogs of an unlocking.
LEMMA UnlockKeeps ==
    ASSUME HInv, NEW s \in Slot,
           FetchHintDetails(s) \/ Confirm(s) \/ Dismissed(s) \/ HintUnlocks(s) \/ UnlockedContent(s)
    PROVE  HInv'
<1> USE DEF HInv
<1>1. task[s].op = "unlock" /\ task[s].arg \in Hint /\ NoTask.op \notin {"unlock", "pdf"}
  BY NoTaskIsPending DEF TasksOK, FetchHintDetails, Confirm, Dismissed, HintUnlocks, UnlockedContent, Awaits
<1>2. paid \subseteq Hint /\ agreed \subseteq Hint /\ paid \subseteq agreed
  BY DEF HintDialogTypeOK, PaidIsAgreed
<1>3. CASE FetchHintDetails(s)
  <2>1. UNCHANGED <<paid, agreed>>
    BY <1>3 DEF FetchHintDetails
  <2>2. CASE \E kind \in {"content", "message"} : UnlockEnds(s, NoTask, kind, task[s].arg)
    BY <1>1, <1>2, <2>1, <2>2, NoTaskIsPending, UnlockEndsKeeps
  <2>3. CASE /\ Fire(s, [task[s] EXCEPT !.at = "confirm"], "confirm", task[s].arg)
             /\ UNCHANGED panel
    <3>1. /\ [task[s] EXCEPT !.at = "confirm"] \in Pending
          /\ [task[s] EXCEPT !.at = "confirm"].op = "unlock"
          /\ [task[s] EXCEPT !.at = "confirm"].at = "confirm"
          /\ [task[s] EXCEPT !.at = "confirm"].arg = task[s].arg
      BY <1>1 DEF TasksOK, Pending
    <3>2. /\ task' \in [Slot -> Pending] /\ task'[s] = [task[s] EXCEPT !.at = "confirm"]
          /\ \A u \in Slot \ {s} : \/ task'[u] = task[u]
                                   \/ task'[u] = [task[u] EXCEPT !.at = "dismissed"]
      BY <2>3, <3>1, FireTakesPlace
    <3>3. TasksOK' /\ SentIsAgreed'
      BY <1>1, <2>1, <3>1, <3>2, TasksKept
    <3>4. /\ task'[s].op = "unlock" /\ task'[s].arg = task[s].arg
          /\ panel'.unlocking = panel.unlocking
          /\ panel'.loading = panel.loading /\ task[s].op # "pdf"
      BY <1>1, <2>3, <3>1, <3>2
    <3>5. ButtonsAreFreed'
      BY <3>2, <3>4, ButtonsKept
    <3>6. HintDialogTypeOK'
      BY <1>1, <2>1, <2>3 DEF HintDialogTypeOK, Fire
    <3> QED
      BY <2>1, <3>3, <3>5, <3>6 DEF PaidIsAgreed
  <2> QED
    BY <1>3, <2>2, <2>3 DEF FetchHintDetails
<1>4. CASE Confirm(s)
  <2>1. dialog' = NoDialog /\ UNCHANGED <<paid, panel>>
    BY <1>4 DEF Confirm
  <2>2. CASE Await(s, "unlocking", task[s].arg) /\ agreed' = agreed \cup {task[s].arg}
    BY <1>1, <1>2, <2>1, <2>2, UnlockingKeeps
  <2>3. CASE Await(s, "dismissed", task[s].arg) /\ UNCHANGED agreed
    BY <1>1, <1>2, <2>1, <2>3, UnlockingKeeps
  <2> QED
    BY <1>4, <2>2, <2>3 DEF Confirm
<1>5. CASE Dismissed(s)
  BY <1>1, <1>2, <1>5, NoTaskIsPending, UnlockEndsKeeps DEF Dismissed
<1>6. CASE HintUnlocks(s)
  <2>1. UNCHANGED agreed /\ task[s].arg \in agreed
    BY <1>1, <1>6 DEF HintUnlocks, SentIsAgreed, Awaits
  <2>2. paid' \subseteq Hint /\ paid' \subseteq agreed
    BY <1>1, <1>2, <1>6, <2>1 DEF HintUnlocks
  <2>3. CASE UnlockEnds(s, NoTask, "message", task[s].arg)
    BY <1>1, <2>1, <2>2, <2>3, NoTaskIsPending, UnlockEndsKeeps
  <2>4. CASE Await(s, "content", task[s].arg) /\ UNCHANGED <<dialog, panel>>
    BY <1>1, <1>2, <2>1, <2>2, <2>4, UnlockingKeeps
  <2> QED
    BY <1>6, <2>3, <2>4 DEF HintUnlocks
<1>7. CASE UnlockedContent(s)
  <2>1. UNCHANGED <<paid, agreed>>
    BY <1>7 DEF UnlockedContent
  <2>2. LET t == [op |-> "hints", at |-> "sent", arg |-> Nothing]
        IN  t \in Pending /\ t.op \notin {"unlock", "pdf"}
    BY DEF Pending, HintHolds
  <2> QED
    BY <1>1, <1>2, <1>7, <2>1, <2>2, NoTaskIsPending, UnlockEndsKeeps DEF UnlockedContent
<1> QED
  BY <1>3, <1>4, <1>5, <1>6, <1>7

\* The list of hints, the files, and the dialogs closed.
LEMMA OtherKeeps ==
    ASSUME HInv,
           CloseDialog \/ \E s \in Slot : HintsAnswered(s) \/ PdfAnswered(s) \/ FileAnswered(s)
    PROVE  HInv'
<1> USE DEF HInv
<1>1. CASE CloseDialog
  BY <1>1 DEF CloseDialog, HintDialogTypeOK, NoDialog, TasksOK, SentIsAgreed, PaidIsAgreed, ButtonsAreFreed
<1>2. ASSUME NEW s \in Slot, HintsAnswered(s)
      PROVE  HInv'
  <2>1. /\ task[s].op = "hints" /\ Becomes(s, NoTask) /\ UNCHANGED <<paid, dialog, agreed>>
        /\ panel' \in {[panel EXCEPT !.unlocked = paid], panel}
    BY <1>2, EndsBecomes DEF HintsAnswered, Awaits
  <2>2. /\ HintDialogTypeOK' /\ panel'.unlocking = panel.unlocking
        /\ panel'.loading = panel.loading
    BY <2>1 DEF HintDialogTypeOK
  <2>3. TasksOK' /\ SentIsAgreed'
    BY <2>1, NoTaskIsPending, TasksKept DEF Becomes
  <2>4. ButtonsAreFreed'
    BY <2>1, <2>2, ButtonsKept DEF Becomes
  <2> QED
    BY <2>1, <2>2, <2>3, <2>4 DEF PaidIsAgreed
<1>3. ASSUME NEW s \in Slot, PdfAnswered(s)
      PROVE  HInv'
  <2>1. task[s].op = "pdf" /\ task[s].arg \in Pdf /\ UNCHANGED <<paid, agreed>>
    BY <1>3 DEF PdfAnswered, Awaits, TasksOK
  <2>2. /\ HintDialogTypeOK' /\ panel'.unlocking = panel.unlocking /\ ~panel'.loading
    <3>1. /\ panel' \in {[panel EXCEPT !.blob = task[s].arg, !.loading = FALSE],
                         [panel EXCEPT !.pdf = Nothing, !.loading = FALSE]}
          /\ dialog' \in {dialog, [kind |-> "message", hint |-> Nothing]}
      BY <1>3 DEF PdfAnswered, Fire
    <3>2. /\ panel' \in [unlocked : SUBSET Hint, unlocking : Hint \cup {Nothing},
                         pdf : Pdf \cup {Nothing}, blob : Pdf \cup {Nothing}, loading : BOOLEAN]
          /\ panel'.unlocking = panel.unlocking /\ ~panel'.loading
      BY <2>1, <3>1 DEF HintDialogTypeOK
    <3> QED
      BY <2>1, <3>1, <3>2 DEF HintDialogTypeOK
  <2>3. /\ task' \in [Slot -> Pending] /\ task'[s] = NoTask
        /\ \A u \in Slot \ {s} : \/ task'[u] = task[u]
                                 \/ task'[u] = [task[u] EXCEPT !.at = "dismissed"]
    BY <1>3, EndsBecomes, FireTakesPlace, NoTaskIsPending DEF PdfAnswered, Becomes
  <2>4. TasksOK' /\ SentIsAgreed'
    BY <2>1, <2>3, NoTaskIsPending, TasksKept
  <2>5. ButtonsAreFreed'
    BY <2>1, <2>2, <2>3, ButtonsKept
  <2> QED
    BY <2>1, <2>2, <2>4, <2>5 DEF PaidIsAgreed
<1>4. ASSUME NEW s \in Slot, FileAnswered(s)
      PROVE  HInv'
  <2>1. task[s].op = "file" /\ UNCHANGED <<paid, panel, agreed>>
    BY <1>4 DEF FileAnswered, Awaits
  <2>2. HintDialogTypeOK'
    BY <1>4, <2>1 DEF FileAnswered, HintDialogTypeOK, Fire
  <2>3. /\ task' \in [Slot -> Pending] /\ task'[s] = NoTask
        /\ \A u \in Slot \ {s} : \/ task'[u] = task[u]
                                 \/ task'[u] = [task[u] EXCEPT !.at = "dismissed"]
    BY <1>4, EndsBecomes, FireTakesPlace, NoTaskIsPending DEF FileAnswered, Becomes
  <2>4. TasksOK' /\ SentIsAgreed'
    BY <2>1, <2>3, NoTaskIsPending, TasksKept
  <2>5. ButtonsAreFreed'
    BY <2>1, <2>3, ButtonsKept
  <2> QED
    BY <2>1, <2>2, <2>4, <2>5 DEF PaidIsAgreed
<1> QED
  BY <1>1, <1>2, <1>3, <1>4

LEMMA HintDialogInductive == HInv /\ [HintDialogNext]_dialogVars => HInv'
<1> SUFFICES ASSUME HInv, [HintDialogNext]_dialogVars PROVE HInv'
  OBVIOUS
<1>1. CASE UNCHANGED dialogVars
  BY <1>1 DEF dialogVars, HInv, HintDialogTypeOK, TasksOK, SentIsAgreed, PaidIsAgreed, ButtonsAreFreed
<1> QED
  BY <1>1, ClickKeeps, UnlockKeeps, OtherKeeps DEF HintDialogNext

LEMMA HintDialogInvariant == HintDialogSpec => []HInv
  BY HintDialogInitInv, HintDialogInductive, PTL DEF HintDialogSpec

\* The hints shown, the dialog and the viewer stay what the state of the panel
\* (Challenges.tsx:1355-1363) may hold.
THEOREM HintDialogTyped == HintDialogSpec => []HintDialogTypeOK
<1>1. HInv => HintDialogTypeOK
  BY DEF HInv
<1> QED
  BY <1>1, HintDialogInvariant, PTL

\* However many hints are being unlocked at once, points are only spent on those
\* the user has confirmed (handleUnlockHint, "if (result.isConfirmed)").
THEOREM OnlyAgreedIsPaid == HintDialogSpec => []PaidIsAgreed
<1>1. HInv => PaidIsAgreed
  BY DEF HInv
<1> QED
  BY <1>1, HintDialogInvariant, PTL

\* No hint button and no PDF viewer is left waiting without a handler that will
\* free it (the finally of handleUnlockHint and of handlePdfClick).
THEOREM FreedInTheEnd == HintDialogSpec => []ButtonsAreFreed
<1>1. HInv => ButtonsAreFreed
  BY DEF HInv
<1> QED
  BY <1>1, HintDialogInvariant, PTL

-----------------------------------------------------------------------------
(***************************************************************************)
(* PortalSession, for every number of tabs, contests and pending requests: *)
(* the stored user never belongs to another token.                         *)
(***************************************************************************)

\* A task of a tab holds what its request carried; a new token, once made, is not
\* the absence of one, and is of the contest that was asked for.
GoodTask(t) ==
    /\ t = [op |-> t.op, at |-> t.at, arg |-> t.arg]
    /\ t.op # "none" => t.arg = Held(t.arg.w, t.arg.token, t.arg.c)
    /\ t.op \in {"login", "select", "autoselect"} /\ t.at \in {"drop", "ok"} =>
          /\ t.arg.token.serial # 0
          /\ t.arg.token.contest = IF t.op = "login" THEN Nothing ELSE t.arg.c

GoodTasks ==
    /\ task = [s \in Slot |-> task[s]]
    /\ \A s \in Slot : GoodTask(task[s])

\* The storage has its fields, and the property.
GoodStore ==
    /\ store = [token |-> store.token, user |-> store.user]
    /\ store.user = [known |-> store.user.known, team |-> store.user.team]
    /\ UserIsOfToken

\* The inductive invariant.
SessionInv == issued \in Nat /\ GoodTasks /\ GoodStore

-----------------------------------------------------------------------------
LEMMA NoTaskIsGood == GoodTask(NoTask)
  BY DEF GoodTask, NoTask

\* A request that is sent holds no new token.
LEMMA SentIsGood ==
    ASSUME NEW op, NEW w, NEW t, NEW c
    PROVE  GoodTask([op |-> op, at |-> "sent", arg |-> Held(w, t, c)])
  BY DEF GoodTask, Held

LEMMA FirstIsGood ==
    ASSUME NEW w, NEW p, NEW c, NEW st
    PROVE  GoodTask(FirstOf(w, p, c, st))
  BY SentIsGood DEF FirstOf

LEMMA OneBecomesGood ==
    ASSUME GoodTasks, NEW s \in Slot, NEW t, GoodTask(t), task' = [task EXCEPT ![s] = t]
    PROVE  GoodTasks'
<1>1. task' = [u \in Slot |-> task'[u]]
  BY DEF GoodTasks
<1>2. \A u \in Slot : task'[u] = IF u = s THEN t ELSE task[u]
  BY DEF GoodTasks
<1> QED
  BY <1>1, <1>2 DEF GoodTasks

LEMMA EndsIsGood ==
    ASSUME GoodTasks, NEW s \in Slot, Ends(s)
    PROVE  GoodTasks'
  BY NoTaskIsGood, OneBecomesGood DEF Ends

LEMMA StartIsGood ==
    ASSUME GoodTasks, NEW s \in Slot, NEW op, NEW w, NEW t, NEW c,
           Start(s, op, "sent", Held(w, t, c))
    PROVE  GoodTasks'
  BY SentIsGood, OneBecomesGood DEF Start

LEMMA DroppedIsGood ==
    ASSUME GoodTasks, NEW w
    PROVE  /\ Dropped(w) = [s \in Slot |-> Dropped(w)[s]]
           /\ \A s \in Slot : GoodTask(Dropped(w)[s])
  BY NoTaskIsGood DEF GoodTasks, Dropped

\* An answer of the server other than a new token.
LEMMA AnswersIsGood ==
    ASSUME GoodTasks, NEW s \in Slot, NEW at, Answers(s, at),
           \/ at \notin {"drop", "ok"}
           \/ task[s].op \notin {"login", "select", "autoselect"}
           \/ task[s].at = "drop"
    PROVE  GoodTasks'
<1> DEFINE t == [task[s] EXCEPT !.at = at]
<1>1. GoodTask(task[s])
  BY DEF GoodTasks
<1>2. t = [op |-> task[s].op, at |-> at, arg |-> task[s].arg]
  BY <1>1 DEF GoodTask
<1>3. GoodTask(t)
  <2> HIDE DEF t
  <2> QED
    BY <1>1, <1>2 DEF GoodTask
<1>4. task' = [task EXCEPT ![s] = t]
  BY DEF Answers
<1> HIDE DEF t
<1> QED
  BY <1>3, <1>4, OneBecomesGood

\* A new token.
LEMMA GenerateIsGood ==
    ASSUME GoodTasks, issued \in Nat, NEW s \in Slot, NEW c, GenerateUserToken(s, c),
           \/ task[s].op = "login" /\ c = Nothing
           \/ task[s].op \in {"select", "autoselect"} /\ c = task[s].arg.c
    PROVE  GoodTasks'
<1> DEFINE new == [serial |-> issued + 1, contest |-> c]
           at == IF c = Nothing THEN "ok" ELSE "drop"
           t == [op |-> task[s].op, at |-> at, arg |-> Held(task[s].arg.w, new, task[s].arg.c)]
<1>1. GoodTask(task[s])
  BY DEF GoodTasks
<1>2. GoodTask(t)
  BY DEF GoodTask, Held
<1>3. [task[s] EXCEPT !.at = at] = [op |-> task[s].op, at |-> at, arg |-> task[s].arg]
  BY <1>1 DEF GoodTask
<1>4. [task[s].arg EXCEPT !.token = new] = Held(task[s].arg.w, new, task[s].arg.c)
  BY <1>1 DEF GoodTask, Held
<1>5. [task EXCEPT ![s].at = at, ![s].arg.token = new] = [task EXCEPT ![s] = t]
  <2>1. \A u \in Slot : [task EXCEPT ![s].at = at, ![s].arg.token = new][u]
                           = IF u = s THEN [[task[s] EXCEPT !.at = at] EXCEPT !.arg.token = new]
                             ELSE task[u]
    BY DEF GoodTasks
  <2>2. [[task[s] EXCEPT !.at = at] EXCEPT !.arg.token = new] = t
    <3> HIDE DEF new, at
    <3>1. [[op |-> task[s].op, at |-> at, arg |-> task[s].arg] EXCEPT !.arg.token = new]
             = [op |-> task[s].op, at |-> at, arg |-> [task[s].arg EXCEPT !.token = new]]
      OBVIOUS
    <3> QED
      BY <1>3, <1>4, <3>1
  <2> HIDE DEF t
  <2> QED
    BY <2>1, <2>2 DEF GoodTasks
<1>6. task' = [task EXCEPT ![s] = t]
  <2>1. task' = [task EXCEPT ![s].at = at, ![s].arg.token = new]
    BY DEF GenerateUserToken
  <2> HIDE DEF t, at, new
  <2> QED
    BY <1>5, <2>1
<1> HIDE DEF t
<1> QED
  BY <1>2, <1>6, OneBecomesGood

-----------------------------------------------------------------------------
LEMMA SessionInitInv == SessionInit => SessionInv
  BY NoTaskIsGood DEF SessionInit, SessionInv, GoodTasks, NoTasks, GoodStore, Cleared, NoToken,
     NoUser, UserIsOfToken

LEMMA ClearedIsGood == ASSUME store' = Cleared PROVE GoodStore'
  BY DEF GoodStore, Cleared, NoToken, NoUser, UserIsOfToken

LEMMA SameStoreIsGood == ASSUME GoodStore, UNCHANGED store PROVE GoodStore'
  BY DEF GoodStore, UserIsOfToken

\* What the user does in the tabs.
LEMMA MovesAreGood ==
    ASSUME SessionInv, SessionMoves
    PROVE  SessionInv'
<1> USE DEF SessionInv
<1>1. PICK w \in Window :
          \/ handleSubmit(w) \/ fetchWithAuth(w) \/ ToContests(w) \/ handleLogout(w)
          \/ Opens(w, "contests", Nothing)
          \/ \E c \in Contest : handleContestClick(w, c) \/ Opens(w, "contest", c)
  BY DEF SessionMoves
<1>2. CASE handleSubmit(w)
  BY <1>2, StartIsGood, SameStoreIsGood DEF handleSubmit, server
<1>3. CASE fetchWithAuth(w)
  BY <1>3, StartIsGood, SameStoreIsGood DEF fetchWithAuth, server
<1>4. CASE ToContests(w)
  <2>1. PICK s \in Slot : task' = [task EXCEPT ![s] = FirstOf(w, "contests", Nothing, store)]
    BY <1>4 DEF ToContests
  <2>2. GoodTasks'
    BY <2>1, FirstIsGood, OneBecomesGood
  <2> QED
    BY <1>4, <2>2, SameStoreIsGood DEF ToContests, server
<1>5. CASE handleLogout(w)
  <2>1. GoodTasks'
    <3>1. CASE UNCHANGED task
      BY <3>1 DEF GoodTasks
    <3>2. CASE ~UNCHANGED task
      BY <1>5, <3>2, StartIsGood DEF handleLogout
    <3> QED
      BY <3>1, <3>2
  <2> QED
    BY <1>5, <2>1, ClearedIsGood, SameStoreIsGood DEF handleLogout, server
<1>6. ASSUME NEW p, NEW c, Opens(w, p, c)
      PROVE  SessionInv'
  <2>1. UNCHANGED <<store, issued>>
    BY <1>6 DEF Opens, server
  <2>2. \/ task' = Dropped(w)
        \/ \E s \in Slot : task' = [Dropped(w) EXCEPT ![s] = FirstOf(w, p, c, store)]
    BY <1>6 DEF Opens
  <2>3. CASE task' = Dropped(w)
    BY <2>1, <2>3, DroppedIsGood, SameStoreIsGood DEF GoodTasks
  <2>4. ASSUME NEW s \in Slot, task' = [Dropped(w) EXCEPT ![s] = FirstOf(w, p, c, store)]
        PROVE  GoodTasks'
    <3>1. task' = [u \in Slot |-> task'[u]]
      BY <2>4, DroppedIsGood
    <3>2. \A u \in Slot : task'[u] = IF u = s THEN FirstOf(w, p, c, store) ELSE Dropped(w)[u]
      BY <2>4, DroppedIsGood
    <3> QED
      BY <3>1, <3>2, DroppedIsGood, FirstIsGood DEF GoodTasks
  <2> QED
    BY <2>1, <2>2, <2>3, <2>4, SameStoreIsGood
<1>7. ASSUME NEW c, handleContestClick(w, c)
      PROVE  SessionInv'
  BY <1>7, StartIsGood, SameStoreIsGood DEF handleContestClick, server
<1> QED
  BY <1>1, <1>2, <1>3, <1>4, <1>5, <1>6, <1>7

\* What the server does.
LEMMA ServerIsGood ==
    ASSUME SessionInv, SessionServer
    PROVE  SessionInv'
<1> USE DEF SessionInv
<1>1. GoodStore' /\ issued' \in Nat
  <2>1. UNCHANGED store
    BY DEF SessionServer, AuthBasic, AuthCached, AuthRead, AuthFill, Login, SelectContest,
       SelectDrops, Logout, Serves, CacheExpires, GenerateUserToken
  <2>2. issued' \in {issued, issued + 1}
    BY DEF SessionServer, AuthBasic, AuthCached, AuthRead, AuthFill, Login, SelectContest,
       SelectDrops, Logout, Serves, CacheExpires, GenerateUserToken, server
  <2> QED
    BY <2>1, <2>2, SameStoreIsGood
<1>2. ASSUME NEW c \in Contest, CacheExpires(c)
      PROVE  GoodTasks'
  BY <1>2 DEF CacheExpires, GoodTasks
<1>3. ASSUME NEW s \in Slot, AuthBasic(s) \/ AuthCached(s) \/ AuthRead(s) \/ AuthFill(s)
      PROVE  GoodTasks'
  <2>1. \E at \in {"admitted", "refused", "fill"} : Answers(s, at)
    BY <1>3 DEF AuthBasic, AuthCached, AuthRead, AuthFill
  <2> QED
    BY <2>1, AnswersIsGood
<1>4. ASSUME NEW s \in Slot, Logout(s) \/ Serves(s) \/ SelectDrops(s)
      PROVE  GoodTasks'
  <2>1. Answers(s, "ok")
    BY <1>4 DEF Logout, Serves, SelectDrops
  <2>2. task[s].op \notin {"login", "select", "autoselect"} \/ task[s].at = "drop"
    BY <1>4 DEF Logout, Serves, SelectDrops, Awaits
  <2> QED
    BY <2>1, <2>2, AnswersIsGood
<1>5. ASSUME NEW s \in Slot, Login(s) \/ SelectContest(s)
      PROVE  GoodTasks'
  BY <1>5, GenerateIsGood DEF Login, SelectContest, Awaits, Arg
<1> QED
  BY <1>1, <1>2, <1>3, <1>4, <1>5 DEF SessionServer

\* The storage after a selection.
LEMMA SelectedIsGood ==
    ASSUME GoodStore, NEW s \in Slot, GoodTask(task[s]),
           task[s].op \in {"select", "autoselect"}, task[s].at = "ok", store' = Selected(s)
    PROVE  GoodStore'
<1> DEFINE team == IF store.user.known THEN Arg(s).c ELSE store.user.team
<1>1. [store.user EXCEPT !.team = team] = [known |-> store.user.known, team |-> team]
  <2> HIDE DEF team
  <2> QED
    BY DEF GoodStore
<1>2. store' = [token |-> Arg(s).token, user |-> [known |-> store.user.known, team |-> team]]
  <2>1. Selected(s) = [token |-> Arg(s).token, user |-> [store.user EXCEPT !.team = team]]
    BY DEF Selected
  <2> QED
    BY <1>1, <2>1
<1>3. Arg(s).token.serial # 0 /\ Arg(s).token.contest = Arg(s).c
  BY DEF GoodTask, Arg
<1> QED
  BY <1>2, <1>3 DEF GoodStore, UserIsOfToken

\* What the tabs make of the answers.
LEMMA AnswersAreGood ==
    ASSUME SessionInv, SessionAnswers
    PROVE  SessionInv'
<1> USE DEF SessionInv
<1>1. PICK s \in Slot :
        \/ Fails(s) \/ LoginAnswered(s) \/ SelectAnswered(s) \/ AutoSelectAnswered(s)
        \/ SelectRefused(s) \/ ListServed(s) \/ ListRefused(s) \/ GetServed(s)
        \/ GetRefused(s) \/ LogoutAnswered(s)
  BY DEF SessionAnswers
<1>2. UNCHANGED issued
  BY <1>1 DEF Fails, LoginAnswered, SelectAnswered, AutoSelectAnswered, SelectRefused,
     ListServed, ListRefused, GetServed, GetRefused, LogoutAnswered, server
<1>3. GoodTask(task[s])
  BY DEF GoodTasks
<1>4. CASE Fails(s) \/ SelectRefused(s) \/ ListServed(s) \/ GetServed(s) \/ LogoutAnswered(s)
  <2>1. Ends(s) /\ (store' = Cleared \/ UNCHANGED store)
    BY <1>4 DEF Fails, SelectRefused, ListServed, GetServed, LogoutAnswered
  <2> QED
    BY <1>2, <2>1, EndsIsGood, ClearedIsGood, SameStoreIsGood
<1>5. CASE ListRefused(s) \/ GetRefused(s)
  <2>1. \/ Ends(s) /\ UNCHANGED store
        \/ store' = Cleared /\ task' = Dropped(Arg(s).w)
    BY <1>5 DEF ListRefused, GetRefused, Expelled
  <2>2. ASSUME NEW w, task' = Dropped(w)
        PROVE  GoodTasks'
    BY <2>2, DroppedIsGood DEF GoodTasks
  <2> QED
    BY <1>2, <2>1, <2>2, EndsIsGood, ClearedIsGood, SameStoreIsGood
<1>6. CASE LoginAnswered(s)
  <2>1. /\ task[s].arg.token.serial # 0
        /\ task[s].arg.token.contest = Nothing
    BY <1>3, <1>6 DEF LoginAnswered, Awaits, GoodTask
  <2>2. GoodStore'
    BY <1>6, <2>1 DEF LoginAnswered, GoodStore, UserIsOfToken, Arg
  <2>3. GoodTasks'
    BY <1>6, FirstIsGood, OneBecomesGood DEF LoginAnswered
  <2> QED
    BY <1>2, <2>2, <2>3
<1>7. CASE SelectAnswered(s) \/ AutoSelectAnswered(s)
  <2>1. GoodStore'
    BY <1>3, <1>7, SelectedIsGood DEF SelectAnswered, AutoSelectAnswered, Awaits
  <2>2. GoodTasks'
    <3>1. Ends(s) \/ \E w, c, st : task' = [task EXCEPT ![s] = FirstOf(w, "contest", c, st)]
      BY <1>7 DEF SelectAnswered, AutoSelectAnswered
    <3> QED
      BY <3>1, EndsIsGood, FirstIsGood, OneBecomesGood
  <2> QED
    BY <1>2, <2>1, <2>2
<1> QED
  BY <1>1, <1>4, <1>5, <1>6, <1>7

LEMMA SessionInductive == SessionInv /\ [SessionNext]_sessionVars => SessionInv'
<1> SUFFICES ASSUME SessionInv, [SessionNext]_sessionVars PROVE SessionInv'
  OBVIOUS
<1>1. CASE UNCHANGED sessionVars
  BY <1>1 DEF sessionVars, SessionInv, GoodTasks, GoodStore, UserIsOfToken
<1> QED
  BY <1>1, MovesAreGood, ServerIsGood, AnswersAreGood DEF SessionNext

\* Over every order of sign-ins, selections, refusals and sign-outs in any number
\* of tabs, the stored user's team is of the contest of the stored token
\* (selectContest, login, clearSession).
THEOREM StoredUserIsOfToken == SessionSpec => []UserIsOfToken
<1>1. SessionInv => UserIsOfToken
  BY DEF SessionInv, GoodStore
<1> QED
  BY <1>1, SessionInitInv, SessionInductive, PTL DEF SessionSpec

-----------------------------------------------------------------------------
(***************************************************************************)
(* ChallengeBrowser, for every set of challenges and categories, every map *)
(* of prerequisites, any number of pending functions and of clicks: what   *)
(* is shown with data of the server may be seen, and no locked item goes   *)
(* without its lock once its check is over.                                *)
(***************************************************************************)

\* The functions of the list and what they hold.
ListArg == [c : Challenge \cup {Nothing}, k : Category \cup {Nothing},
            todo : SUBSET (Challenge \X Nat), bad : SUBSET (Challenge \X Challenge),
            has : BOOLEAN, rest : SUBSET Category, cat : Category \cup {Nothing}]
ListAts == {"select", "access", "categories", "list", "prereqs", "check", "detail",
            "locked", "refused", "notfound", "panel"}
ListTask == [op : {"page", "url", "category", "open", "nav", "goto", "refresh"},
             at : ListAts, arg : ListArg]

\* A category is being fetched or looked at, a challenge is being opened; the panel
\* refreshes the category it saw.
ListTaskOK(t) ==
    /\ t \in ListTask \cup {NoTask}
    /\ t.at \in {"list", "prereqs"} \/ (t.op = "nav" /\ t.at = "check") => t.arg.k \in Category
    /\ t.op \in {"open", "nav", "goto"} => t.arg.c \in Challenge
    /\ t.at = "panel" => t.arg.rest \subseteq {t.arg.cat}
ListTasks == task = [s \in Slot |-> task[s]] /\ \A s \in Slot : ListTaskOK(task[s])

\* A challenge is named with a category, and a click finds one chosen.
CategoryIsKnown == /\ url.chal # Nothing => url.cat # Nothing
                   /\ shelf.cats # {} => shelf.cat # Nothing

\* What is to be said of a listed challenge has been found out, or the function
\* that stored the list still holds every prerequisite that may be unsolved.
Settled(c) == c \in shelf.unmet \cup missed \/ Prereq[c] \subseteq solved
Looks(t, k, c) == /\ t.at = "prereqs" /\ t.arg.k = k
                  /\ \A p \in Prereq[c] \ solved : <<c, p>> \in t.arg.todo \cup t.arg.bad
ListedIsLookedAt ==
    \A k \in Category : \A c \in shelf.loaded[k] \ Unloaded :
        Settled(c) \/ \E s \in Slot : Looks(task[s], k, c)

\* The inductive invariant.
BInv == /\ BrowserTypeOK /\ ListTasks /\ CategoryIsKnown /\ ListedIsLookedAt
        /\ ServedIsOpen

Shelves == [stage : {"loading", "ready", "error"}, view : BOOLEAN,
            cats : SUBSET Category, cat : Category \cup {Nothing}, open : SUBSET Category,
            loaded : [Category -> (SUBSET Challenge) \cup {Unloaded}],
            busy : SUBSET Category, unmet : SUBSET Challenge,
            processed : Challenge \cup {Nothing}, effect : BOOLEAN]

LEMMA ListArgFields ==
    ASSUME NEW t, ListTaskOK(t), t.op # "none"
    PROVE  /\ t \in ListTask /\ t.arg \in ListArg
           /\ t.arg.k \in Category \cup {Nothing} /\ t.arg.cat \in Category \cup {Nothing}
           /\ t.arg.c \in Challenge \cup {Nothing} /\ t.arg.rest \subseteq Category
           /\ t.arg.todo \subseteq Challenge \X Nat /\ t.arg.bad \subseteq Challenge \X Challenge
           /\ t.arg.has \in BOOLEAN
<1>1. t \in ListTask
  BY DEF ListTaskOK, NoTask
<1>2. t.arg \in ListArg
  BY <1>1 DEF ListTask
<1> QED
  BY <1>1, <1>2 DEF ListArg

\* A function that waits somewhere is one.
LEMMA WaitingIsTask ==
    ASSUME NEW t, ListTaskOK(t), t.at # "none"
    PROVE  t.op # "none" /\ t \in ListTask
<1>1. t \in ListTask
  BY DEF ListTaskOK, NoTask
<1> QED
  BY <1>1 DEF ListTask

LEMMA BrowserInitInv == BrowserInit => BInv
<1> SUFFICES ASSUME BrowserInit PROVE BInv
  OBVIOUS
<1>1. BrowserTypeOK
  <2>1. url \in [cat : Category \cup {Nothing}, chal : Challenge \cup {Nothing}]
    BY DEF BrowserInit
  <2>2. shelf \in Shelves
    <3>1. [k \in Category |-> Unloaded] \in [Category -> (SUBSET Challenge) \cup {Unloaded}]
      OBVIOUS
    <3> QED
      BY <3>1 DEF BrowserInit, Shelves
  <2>3. shown \in [id : Challenge \cup {Nothing}, served : BOOLEAN, skeleton : BOOLEAN]
    BY DEF BrowserInit
  <2> QED
    BY <2>1, <2>2, <2>3 DEF BrowserInit, BrowserTypeOK, Shelves
<1>2. Holds \in ListArg
  BY DEF Holds, ListArg
<1>3. ListTaskOK([op |-> "page", at |-> "select", arg |-> Holds])
  BY <1>2 DEF ListTaskOK, ListTask, ListAts
<1>4. ListTaskOK(NoTask)
  BY DEF ListTaskOK, NoTask
<1>5. ListTasks
  BY <1>3, <1>4 DEF BrowserInit, ListTasks, NoTasks
<1>6. CategoryIsKnown /\ ServedIsOpen /\ ListedIsLookedAt
  BY DEF BrowserInit, CategoryIsKnown, ServedIsOpen, ListedIsLookedAt
<1> QED
  BY <1>1, <1>5, <1>6 DEF BInv

\* One function goes on; a new popup may end those that wait in another.
Replaces(s, t) ==
    /\ ListTaskOK(t) /\ task' = [u \in Slot |-> task'[u]] /\ task'[s] = t
    /\ \A u \in Slot \ {s} : \/ task'[u] = task[u]
                             \/ task'[u] = NoTask /\ task[u].at \in {"locked", "notfound"}

LEMMA StartReplaces ==
    ASSUME ListTasks, NEW s \in Slot, NEW op, NEW at, NEW arg, Start(s, op, at, arg),
           ListTaskOK([op |-> op, at |-> at, arg |-> arg])
    PROVE  Replaces(s, [op |-> op, at |-> at, arg |-> arg])
  BY DEF ListTasks, Start, Replaces

LEMMA AwaitReplaces ==
    ASSUME ListTasks, NEW s \in Slot, NEW at, NEW arg, Await(s, at, arg), task[s].op # "none",
           ListTaskOK([op |-> task[s].op, at |-> at, arg |-> arg])
    PROVE  Replaces(s, [op |-> task[s].op, at |-> at, arg |-> arg])
<1>1. task[s] \in ListTask
  BY ListArgFields DEF ListTasks
<1>2. task'[s] = [task[s] EXCEPT !.at = at, !.arg = arg]
  BY DEF ListTasks, Await
<1>3. task'[s] = [op |-> task[s].op, at |-> at, arg |-> arg]
  BY <1>1, <1>2 DEF ListTask
<1>4. task' = [u \in Slot |-> task'[u]] /\ \A u \in Slot \ {s} : task'[u] = task[u]
  BY DEF ListTasks, Await
<1> QED
  BY <1>3, <1>4 DEF Replaces

LEMMA EndsReplaces ==
    ASSUME ListTasks, NEW s \in Slot, Ends(s)
    PROVE  Replaces(s, NoTask)
<1>1. ListTaskOK(NoTask)
  BY DEF ListTaskOK, NoTask
<1> QED
  BY <1>1 DEF ListTasks, Ends, Replaces

LEMMA PopupReplaces ==
    ASSUME ListTasks, NEW s \in Slot, NEW op, NEW at, NEW arg, Popup(s, op, at, arg),
           ListTaskOK([op |-> op, at |-> at, arg |-> arg])
    PROVE  Replaces(s, [op |-> op, at |-> at, arg |-> arg])
  BY DEF ListTasks, Popup, Replaces

LEMMA ReplacedTasks ==
    ASSUME ListTasks, NEW s \in Slot, NEW t, Replaces(s, t)
    PROVE  ListTasks'
<1>1. ListTaskOK(NoTask)
  BY DEF ListTaskOK, NoTask
<1> QED
  BY <1>1 DEF ListTasks, Replaces

-----------------------------------------------------------------------------
(* What has been looked at stays so.                                       *)

LEMMA LooksStay ==
    ASSUME NEW t, NEW k, NEW c, Looks(t, k, c), solved \subseteq solved'
    PROVE  Looks(t, k, c)'
  BY DEF Looks

\* A step that neither stores a list nor ends a check.
LEMMA QuietList ==
    ASSUME BInv, NEW s \in Slot, NEW t, Replaces(s, t), task[s].at # "prereqs",
           shelf'.loaded = shelf.loaded, shelf.unmet \subseteq shelf'.unmet,
           missed \subseteq missed', solved \subseteq solved'
    PROVE  ListedIsLookedAt'
<1> SUFFICES ASSUME NEW k \in Category, NEW c \in shelf.loaded[k] \ Unloaded
             PROVE  (Settled(c) \/ \E u \in Slot : Looks(task[u], k, c))'
  BY DEF ListedIsLookedAt
<1>1. Settled(c) => Settled(c)'
  BY DEF Settled
<1>2. ASSUME NEW u \in Slot, Looks(task[u], k, c) PROVE Looks(task[u], k, c)'
  <2>1. task[u].at = "prereqs"
    BY <1>2 DEF Looks
  <2>2. task'[u] = task[u]
    BY <2>1 DEF Replaces
  <2> QED
    BY <1>2, <2>2 DEF Looks
<1> QED
  BY <1>1, <1>2 DEF BInv, ListedIsLookedAt

\* A step that changes no function.
LEMMA StillList ==
    ASSUME BInv, UNCHANGED task, shelf'.loaded = shelf.loaded, shelf.unmet \subseteq shelf'.unmet,
           missed \subseteq missed', solved \subseteq solved'
    PROVE  ListTasks' /\ ListedIsLookedAt'
<1>1. ListTasks'
  BY DEF BInv, ListTasks
<1> SUFFICES ASSUME NEW k \in Category, NEW c \in shelf.loaded[k] \ Unloaded
             PROVE  (Settled(c) \/ \E u \in Slot : Looks(task[u], k, c))'
  BY <1>1 DEF ListedIsLookedAt
<1>2. Settled(c) => Settled(c)'
  BY DEF Settled
<1>3. \A u \in Slot : Looks(task[u], k, c) => Looks(task[u], k, c)'
  BY DEF Looks
<1> QED
  BY <1>2, <1>3 DEF BInv, ListedIsLookedAt

\* A check that ends has found everything out.
LEMMA CheckedList ==
    ASSUME BInv, NEW s \in Slot, NEW t, Replaces(s, t), task[s].arg.todo = {},
           shelf'.loaded = shelf.loaded, shelf.unmet \subseteq shelf'.unmet,
           {q[1] : q \in task[s].arg.bad} \subseteq shelf'.unmet,
           missed \subseteq missed', solved \subseteq solved'
    PROVE  ListedIsLookedAt'
<1> SUFFICES ASSUME NEW k \in Category, NEW c \in shelf.loaded[k] \ Unloaded
             PROVE  (Settled(c) \/ \E u \in Slot : Looks(task[u], k, c))'
  BY DEF ListedIsLookedAt
<1>1. Settled(c) => Settled(c)'
  BY DEF Settled
<1>2. ASSUME NEW u \in Slot \ {s}, Looks(task[u], k, c) PROVE Looks(task[u], k, c)'
  <2>1. task[u].at = "prereqs"
    BY <1>2 DEF Looks
  <2>2. task'[u] = task[u]
    BY <2>1 DEF Replaces
  <2> QED
    BY <1>2, <2>2 DEF Looks
<1>3. ASSUME Looks(task[s], k, c) PROVE Settled(c)'
  <2>1. CASE \E p \in Prereq[c] : <<c, p>> \in task[s].arg.bad
    <3>1. c \in {q[1] : q \in task[s].arg.bad}
      BY <2>1
    <3> QED
      BY <3>1 DEF Settled
  <2>2. CASE \A p \in Prereq[c] : <<c, p>> \notin task[s].arg.bad
    BY <1>3, <2>2 DEF Looks, Settled
  <2> QED
    BY <2>1, <2>2
<1> QED
  BY <1>1, <1>2, <1>3 DEF BInv, ListedIsLookedAt

LEMMA MergedShelf ==
    ASSUME BInv, NEW s \in Slot, NEW op, Loaded(s, op)
    PROVE  /\ Merged(s) \in Shelves
           /\ Merged(s) = [shelf EXCEPT !.unmet = Merged(s).unmet, !.busy = Merged(s).busy]
           /\ shelf.unmet \cup {q[1] : q \in task[s].arg.bad} \subseteq Merged(s).unmet
           /\ task[s].arg.todo = {} /\ task[s].op = op /\ task[s].at = "prereqs"
           /\ task[s].arg.k \in Category
<1>1. task[s].op = op /\ task[s].at = "prereqs" /\ task[s].arg.todo = {}
  BY DEF Loaded, Awaits
<1>2. ListTaskOK(task[s])
  BY DEF BInv, ListTasks
<1>3. task[s].arg.k \in Category
  BY <1>1, <1>2 DEF ListTaskOK
<1>4. task[s].arg.bad \subseteq Challenge \X Challenge
  BY <1>1, <1>2, WaitingIsTask, ListArgFields
<1>5. {q[1] : q \in task[s].arg.bad} \subseteq Challenge
  BY <1>4
<1>6. shelf \in Shelves
  BY DEF BInv, BrowserTypeOK, Shelves
<1>7. Merged(s) \in Shelves
  BY <1>5, <1>6 DEF Merged, Shelves
<1>8. /\ Merged(s) = [shelf EXCEPT !.unmet = Merged(s).unmet, !.busy = Merged(s).busy]
      /\ shelf.unmet \cup {q[1] : q \in task[s].arg.bad} \subseteq Merged(s).unmet
  BY <1>6 DEF Merged, Shelves
<1> QED
  BY <1>1, <1>3, <1>7, <1>8

\* What a look at the shelf's type says of its fields.
LEMMA ShelfFields ==
    ASSUME NEW sh \in Shelves
    PROVE  /\ sh.cats \subseteq Category /\ sh.cat \in Category \cup {Nothing}
           /\ sh.open \subseteq Category /\ sh.unmet \subseteq Challenge /\ sh.effect \in BOOLEAN
           /\ sh.loaded \in [Category -> (SUBSET Challenge) \cup {Unloaded}]
           /\ sh.busy \subseteq Category /\ sh.processed \in Challenge \cup {Nothing}
           /\ sh.stage \in {"loading", "ready", "error"} /\ sh.view \in BOOLEAN
  BY DEF Shelves

\* The challenge shown changes only when none, or one that may be seen, is.
LEMMA ServedStays ==
    ASSUME ServedIsOpen, solved \subseteq solved',
           ~shown'.served \/ (shown'.id = shown.id /\ shown'.served = shown.served)
    PROVE  ServedIsOpen'
  BY DEF ServedIsOpen

LEMMA OpenMayBeServed ==
    ASSUME NEW c, DetailOf(c) = "ok", solved \subseteq Challenge
    PROVE  /\ c \in Challenge
           /\ c \in Anonymized \/ {d \in Challenge : Bank[d] \in Prereq[c]} \subseteq solved
<1>1. c \in Challenge /\ (Unlocked(c, solved \ hidden) \/ c \in Anonymized)
  BY DEF DetailOf
<1>2. ASSUME Unlocked(c, solved \ hidden), NEW d \in Challenge, Bank[d] \in Prereq[c]
      PROVE  d \in solved
  BY <1>2, BrowserAssumption DEF Unlocked
<1> QED
  BY <1>1, <1>2

-----------------------------------------------------------------------------
(* The two reads.                                                          *)

LEMMA PairsTyped ==
    ASSUME NEW cs \in SUBSET Challenge
    PROVE  Pairs(cs) \subseteq Challenge \X Nat
  BY BrowserAssumption DEF Pairs

LEMMA FetchKept ==
    ASSUME BInv, NEW s \in Slot, NEW arg \in ListArg, NEW k \in Category, NEW sh \in Shelves,
           NEW op \in {"page", "url", "category", "nav", "goto", "refresh"},
           op \in {"nav", "goto"} => arg.c \in Challenge,
           Fetch(s, op, arg, k, sh)
    PROVE  /\ \E t : Replaces(s, t)
           /\ ListTasks' /\ shelf' \in Shelves
           /\ shelf' = [sh EXCEPT !.busy = @ \cup {k}]
<1>1. [arg EXCEPT !.k = k] \in ListArg
  BY DEF ListArg
<1>2. [arg EXCEPT !.k = k].k = k /\ [arg EXCEPT !.k = k].c = arg.c
  BY DEF ListArg
<1>3. ListTaskOK([op |-> op, at |-> "list", arg |-> [arg EXCEPT !.k = k]])
  BY <1>1, <1>2 DEF ListTaskOK, ListTask, ListAts
<1>4. Replaces(s, [op |-> op, at |-> "list", arg |-> [arg EXCEPT !.k = k]])
  BY <1>3, StartReplaces DEF BInv, Fetch
<1>5. shelf' \in Shelves
  BY DEF Fetch, Shelves
<1> QED
  BY <1>4, <1>5, ReplacedTasks DEF BInv, Fetch

\* The request of a page that opens.
LEMMA PageFetchKept ==
    ASSUME BInv, NEW s \in Slot, NEW arg \in ListArg, NEW k \in Category, NEW sh \in Shelves,
           Fetch(s, "page", arg, k, sh)
    PROVE  /\ \E t : Replaces(s, t)
           /\ shelf' \in Shelves /\ shelf' = [sh EXCEPT !.busy = @ \cup {k}]
BY FetchKept

LEMMA ListedTyped ==
    ASSUME NEW k
    PROVE  ListedIn(k) \subseteq Challenge
  BY DEF ListedIn

LEMMA ListAnsweredKept ==
    ASSUME BInv, NEW s \in Slot, ListAnswered(s)
    PROVE  BInv'
<1> DEFINE a == task[s].arg
<1>1. ListTaskOK(task[s]) /\ task[s].at = "list"
  BY DEF BInv, ListTasks, ListAnswered
<1>2. task[s] \in ListTask /\ a \in ListArg /\ a.k \in Category /\ task[s].op # "none"
  BY <1>1, WaitingIsTask, ListArgFields DEF ListTaskOK
<1>3. PICK list \in {ListedIn(a.k), {}} :
        /\ Await(s, "prereqs", [a EXCEPT !.has = a.c \in list, !.todo = Pairs(list), !.bad = {}])
        /\ Rerender([shelf EXCEPT !.loaded[a.k] = list])
  BY DEF ListAnswered
<1>20. PICK h \in BOOLEAN : h = (a.c \in list)
  <2>1. (a.c \in list) \in BOOLEAN
    BY SMT
  <2> QED
    BY <2>1, Zenon
<1> DEFINE b == [a EXCEPT !.has = h, !.todo = Pairs(list), !.bad = {}]
           t == [op |-> task[s].op, at |-> "prereqs", arg |-> b]
<1>4. list \subseteq Challenge /\ Pairs(list) \subseteq Challenge \X Nat
  BY ListedTyped, PairsTyped
<1>5. b \in ListArg /\ b.k = a.k /\ b.c = a.c /\ b.todo = Pairs(list)
  BY <1>2, <1>4 DEF ListArg
<1>6. ListTaskOK(t)
  BY <1>1, <1>2, <1>5 DEF ListTaskOK, ListTask, ListAts
<1>21. Await(s, "prereqs", b)
  BY <1>3, <1>20
<1>7. Replaces(s, t)
  BY <1>2, <1>21, <1>6, AwaitReplaces DEF BInv
<1>22. task'[s].at = "prereqs" /\ task'[s].arg = b
  BY <1>7 DEF Replaces
<1>8. UNCHANGED <<solved, hidden, url, shown, missed>>
  BY DEF ListAnswered
<1>9. shelf \in Shelves
  BY DEF BInv, BrowserTypeOK, Shelves
<1> DEFINE sh == [shelf EXCEPT !.loaded[a.k] = list]
<1>10. sh \in Shelves /\ sh.unmet = shelf.unmet /\ sh.cats = shelf.cats /\ sh.cat = shelf.cat
  BY <1>2, <1>4, <1>9 DEF Shelves
<1>11. Wanted(sh) \in BOOLEAN
  BY DEF Wanted
<1>12. shelf' = [sh EXCEPT !.effect = @ \/ Wanted(sh)]
  BY <1>3 DEF Rerender
<1>13. shelf' \in Shelves
  BY <1>10, <1>11, <1>12 DEF Shelves
<1>14. BrowserTypeOK'
  BY <1>8, <1>13 DEF BInv, BrowserTypeOK, Shelves
<1>15. shelf'.unmet = shelf.unmet /\ shelf'.cats = shelf.cats /\ shelf'.cat = shelf.cat
         /\ shelf'.loaded = [shelf.loaded EXCEPT ![a.k] = list]
  BY <1>9, <1>10, <1>12 DEF Shelves
<1>16. CategoryIsKnown' /\ ServedIsOpen'
  BY <1>8, <1>15 DEF BInv, CategoryIsKnown, ServedIsOpen
<1>17. ListedIsLookedAt'
  <2> SUFFICES ASSUME NEW k \in Category, NEW c \in shelf'.loaded[k] \ Unloaded
               PROVE  (Settled(c) \/ \E u \in Slot : Looks(task[u], k, c))'
    BY DEF ListedIsLookedAt
  <2>1. CASE k = a.k
    <3>1. c \in list
      BY <1>9, <1>15, <2>1 DEF Shelves
    <3>2. \A p \in Prereq[c] : <<c, p>> \in Pairs(list)
      BY <3>1 DEF Pairs
    <3>3. task'[s].at = "prereqs" /\ task'[s].arg.k = k /\ task'[s].arg.todo = Pairs(list)
      BY <1>5, <1>22, <2>1
    <3>4. Looks(task[s], k, c)'
      BY <1>8, <3>2, <3>3 DEF Looks
    <3> QED
      BY <3>4
  <2>2. CASE k # a.k
    <3>1. c \in shelf.loaded[k] \ Unloaded
      BY <1>9, <1>15, <2>2 DEF Shelves
    <3>2. Settled(c) => Settled(c)'
      BY <1>8, <1>15 DEF Settled
    <3>3. ASSUME NEW u \in Slot, Looks(task[u], k, c) PROVE Looks(task[u], k, c)'
      <4>1. task'[u] = task[u]
        BY <1>1, <1>7, <3>3 DEF Replaces, Looks
      <4> QED
        BY <1>8, <3>3, <4>1 DEF Looks
    <3> QED
      BY <3>1, <3>2, <3>3 DEF BInv, ListedIsLookedAt
  <2> QED
    BY <2>1, <2>2
<1> QED
  BY <1>7, <1>14, <1>16, <1>17, ReplacedTasks DEF BInv

LEMMA checkPrerequisitesKept ==
    ASSUME BInv, NEW s \in Slot, checkPrerequisites(s)
    PROVE  BInv'
<1> DEFINE a == task[s].arg
<1>1. ListTaskOK(task[s]) /\ task[s].at \in {"prereqs", "check"}
  BY DEF BInv, ListTasks, checkPrerequisites
<1>2. task[s] \in ListTask /\ a \in ListArg /\ task[s].op # "none"
      /\ a.todo \subseteq Challenge \X Nat /\ a.bad \subseteq Challenge \X Challenge
  BY <1>1, WaitingIsTask, ListArgFields
<1>3. UNCHANGED <<solved, hidden, url, shelf, shown>>
  BY DEF checkPrerequisites
<1>4. PICK q \in a.todo :
        LET rest == [a EXCEPT !.todo = @ \ {q}] IN
        \/ /\ DetailOf(q[2]) = "ok"
           /\ Await(s, task[s].at, IF q[2] \in solved THEN rest
                                   ELSE [rest EXCEPT !.bad = @ \cup {q}])
           /\ UNCHANGED missed
        \/ Await(s, task[s].at, rest) /\ missed' = missed \cup {q[1]}
  BY DEF checkPrerequisites
<1>5. q[1] \in Challenge /\ q = <<q[1], q[2]>>
  BY <1>2
<1>6. PICK b \in ListArg :
        /\ Await(s, task[s].at, b)
        /\ b.k = a.k /\ b.c = a.c /\ b.rest = a.rest /\ b.cat = a.cat
        /\ b.todo = a.todo \ {q} /\ a.bad \subseteq b.bad
        /\ missed \subseteq missed' /\ missed' \subseteq missed \cup {q[1]}
        /\ q[2] \in solved \/ q \in b.bad \/ q[1] \in missed'
  <2> DEFINE rest == [a EXCEPT !.todo = @ \ {q}]
  <2>1. /\ rest \in ListArg /\ rest.k = a.k /\ rest.c = a.c /\ rest.rest = a.rest
        /\ rest.cat = a.cat /\ rest.todo = a.todo \ {q} /\ rest.bad = a.bad
    BY <1>2 DEF ListArg
  <2>2. CASE /\ DetailOf(q[2]) = "ok" /\ q[2] \notin solved
             /\ Await(s, task[s].at, [rest EXCEPT !.bad = @ \cup {q}]) /\ UNCHANGED missed
    <3>1. q \in Challenge \X Challenge
      BY <1>5, <2>2 DEF DetailOf
    <3> DEFINE r == [rest EXCEPT !.bad = @ \cup {q}]
    <3>2. /\ r \in ListArg /\ r.k = a.k /\ r.c = a.c /\ r.rest = a.rest
          /\ r.cat = a.cat /\ r.todo = a.todo \ {q} /\ r.bad = a.bad \cup {q}
      BY <2>1, <3>1 DEF ListArg
    <3> QED
      BY <2>2, <3>2
  <2>3. CASE q[2] \in solved /\ Await(s, task[s].at, rest) /\ UNCHANGED missed
    BY <2>1, <2>3
  <2>4. CASE Await(s, task[s].at, rest) /\ missed' = missed \cup {q[1]}
    BY <2>1, <2>4
  <2> QED
    BY <1>4, <2>2, <2>3, <2>4
<1> DEFINE t == [op |-> task[s].op, at |-> task[s].at, arg |-> b]
<1>7. ListTaskOK(t)
  BY <1>1, <1>2, <1>6 DEF ListTaskOK, ListTask, ListAts
<1>8. Replaces(s, t)
  BY <1>2, <1>6, <1>7, AwaitReplaces DEF BInv
<1>9. BrowserTypeOK'
  BY <1>3, <1>5, <1>6 DEF BInv, BrowserTypeOK
<1>10. CategoryIsKnown' /\ ServedIsOpen'
  BY <1>3 DEF BInv, CategoryIsKnown, ServedIsOpen
<1>11. ListedIsLookedAt'
  <2> SUFFICES ASSUME NEW k \in Category, NEW c \in shelf.loaded[k] \ Unloaded
               PROVE  (Settled(c) \/ \E u \in Slot : Looks(task[u], k, c))'
    BY <1>3 DEF ListedIsLookedAt
  <2>1. Settled(c) => Settled(c)'
    BY <1>3, <1>6 DEF Settled
  <2>2. ASSUME NEW u \in Slot \ {s}, Looks(task[u], k, c) PROVE Looks(task[u], k, c)'
    <3>1. task'[u] = task[u]
      BY <1>8, <2>2 DEF Replaces, Looks
    <3> QED
      BY <1>3, <2>2, <3>1 DEF Looks
  <2>3. ASSUME Looks(task[s], k, c) PROVE Looks(task[s], k, c)' \/ Settled(c)'
    <3>1. task'[s].at = "prereqs" /\ task'[s].arg = b
      BY <1>8, <2>3 DEF Replaces, Looks
    <3>2. CASE c = q[1] /\ c \in missed'
      BY <3>2 DEF Settled
    <3>3. CASE ~(c = q[1] /\ c \in missed')
      <4>1. ASSUME NEW p \in Prereq[c] \ solved
            PROVE  <<c, p>> \in b.todo \cup b.bad
        <5>1. <<c, p>> \in a.todo \cup a.bad
          BY <2>3, <4>1 DEF Looks
        <5>2. CASE <<c, p>> = q
          BY <1>6, <3>3, <4>1, <5>2
        <5>3. CASE <<c, p>> # q
          BY <1>6, <5>1, <5>3
        <5> QED
          BY <5>2, <5>3
      <4> QED
        BY <1>3, <1>6, <2>3, <3>1, <4>1 DEF Looks
    <3> QED
      BY <3>2, <3>3
  <2> QED
    BY <2>1, <2>2, <2>3 DEF BInv, ListedIsLookedAt
<1> QED
  BY <1>8, <1>9, <1>10, <1>11, ReplacedTasks DEF BInv

LEMMA OpenKept ==
    ASSUME BInv, NEW s \in Slot, NEW c \in Challenge, NEW a \in ListArg, NEW v,
           OpenWith(s, c, a, v)
    PROVE  \E t : Replaces(s, t)
<1> DEFINE b == [a EXCEPT !.c = c, !.todo = Pairs({c}), !.bad = {}]
<1>1. Pairs({c}) \subseteq Challenge \X Nat
  BY PairsTyped
<1>2. b \in ListArg /\ b.c = c
  BY <1>1 DEF ListArg
<1>3. ListTaskOK([op |-> "open", at |-> "check", arg |-> b])
  BY <1>2 DEF ListTaskOK, ListTask, ListAts
<1>4. CASE Start(s, "open", "check", b)
  BY <1>3, <1>4, StartReplaces DEF BInv
<1>5. CASE Ends(s)
  BY <1>5, EndsReplaces DEF BInv
<1> QED
  BY <1>4, <1>5 DEF OpenWith

LEMMA OpeningTyped ==
    ASSUME BInv, NEW c \in Challenge
    PROVE  Opening(c) \in ListArg /\ Opening(c).c = c /\ Opening(c).cat = shelf.cat
<1>1. shelf.cat \in Category \cup {Nothing}
  BY ShelfFields DEF BInv, BrowserTypeOK, Shelves
<1> QED
  BY <1>1 DEF Opening, Holds, ListArg

LEMMA HoldsTyped ==
    /\ Holds \in ListArg
    /\ \A c \in Challenge \cup {Nothing} : /\ [Holds EXCEPT !.c = c] \in ListArg
                                           /\ [Holds EXCEPT !.c = c].c = c
  BY DEF Holds, ListArg

-----------------------------------------------------------------------------
(* The steps of the page and of the server.                                *)

LEMMA ServerKept ==
    ASSUME BInv, TeamSolves \/ Hide
    PROVE  BInv'
<1>1. UNCHANGED <<task, url, shelf, shown, missed>> /\ solved \subseteq solved'
      /\ solved' \subseteq Challenge /\ hidden' \subseteq Challenge
  BY DEF BInv, BrowserTypeOK, TeamSolves, Hide
<1>2. BrowserTypeOK'
  BY <1>1 DEF BInv, BrowserTypeOK
<1>3. ListTasks' /\ ListedIsLookedAt'
  BY <1>1, StillList
<1>4. ServedIsOpen'
  BY <1>1, ServedStays DEF BInv
<1>5. CategoryIsKnown'
  BY <1>1 DEF BInv, CategoryIsKnown
<1> QED
  BY <1>2, <1>3, <1>4, <1>5 DEF BInv

LEMMA ClosePanelKept ==
    ASSUME BInv, ClosePanel
    PROVE  BInv'
<1>1. UNCHANGED <<task, solved, hidden, shelf, missed>> /\ ~shown'.served
      /\ shown' \in [id : Challenge \cup {Nothing}, served : BOOLEAN, skeleton : BOOLEAN]
  BY DEF BInv, BrowserTypeOK, ClosePanel
<1>2. shelf.cat \in Category \cup {Nothing}
  BY ShelfFields DEF BInv, BrowserTypeOK, Shelves
<1>3. url' = [cat |-> shelf.cat, chal |-> Nothing]
  BY DEF ClosePanel
<1>4. BrowserTypeOK'
  BY <1>1, <1>2, <1>3 DEF BInv, BrowserTypeOK
<1>5. ListTasks' /\ ListedIsLookedAt'
  BY <1>1, StillList
<1>6. ServedIsOpen'
  BY <1>1, ServedStays DEF BInv
<1>7. CategoryIsKnown'
  BY <1>1, <1>3 DEF BInv, CategoryIsKnown
<1> QED
  BY <1>4, <1>5, <1>6, <1>7 DEF BInv

\* The shelf and the panel as they are, a function goes on somewhere else.
LEMMA FunctionOnly ==
    ASSUME BInv, NEW s \in Slot, NEW t, Replaces(s, t), task[s].at # "prereqs",
           UNCHANGED <<solved, hidden, url, shelf, shown, missed>>
    PROVE  BInv'
<1>1. BrowserTypeOK' /\ CategoryIsKnown' /\ ServedIsOpen'
  BY DEF BInv, BrowserTypeOK, CategoryIsKnown, ServedIsOpen
<1>2. ListedIsLookedAt'
  BY QuietList
<1> QED
  BY <1>1, <1>2, ReplacedTasks DEF BInv

\* The same when the shelf changes without its lists.
LEMMA ShelfOnly ==
    ASSUME BInv, NEW s \in Slot, NEW t, Replaces(s, t),
           task[s].at # "prereqs"
             \/ (task[s].arg.todo = {} /\ {q[1] : q \in task[s].arg.bad} \subseteq shelf'.unmet),
           shelf' \in Shelves, shelf'.loaded = shelf.loaded,
           shelf.unmet \subseteq shelf'.unmet,
           shelf'.cats = {} \/ shelf'.cat # Nothing,
           UNCHANGED <<solved, hidden, url, shown, missed>>
    PROVE  BInv'
<1>1. BrowserTypeOK' /\ CategoryIsKnown' /\ ServedIsOpen'
  BY DEF BInv, BrowserTypeOK, Shelves, CategoryIsKnown, ServedIsOpen
<1>2. ListedIsLookedAt'
  BY QuietList, CheckedList
<1> QED
  BY <1>1, <1>2, ReplacedTasks DEF BInv

LEMMA PageKept ==
    ASSUME BInv, NEW s \in Slot, fetchDataAsync(s)
    PROVE  BInv'
<1> DEFINE a == task[s].arg
<1>1. ListTaskOK(task[s]) /\ task[s].op = "page"
  BY DEF BInv, ListTasks, fetchDataAsync, PageSelect, PageAccess, PageCategories, PageLoaded,
         Loaded, Awaits
<1>2. task[s] \in ListTask /\ a \in ListArg
  BY <1>1, ListArgFields
<1>3. shelf \in Shelves /\ (shelf.cats = {} \/ shelf.cat # Nothing)
  BY DEF BInv, BrowserTypeOK, Shelves, CategoryIsKnown
<1>4. ASSUME NEW at \in {"access", "categories"}, Await(s, at, a)
      PROVE  \E t : Replaces(s, t)
  <2>1. ListTaskOK([op |-> task[s].op, at |-> at, arg |-> a])
    BY <1>1, <1>2 DEF ListTaskOK, ListTask, ListAts
  <2> QED
    BY <1>1, <1>4, <2>1, AwaitReplaces DEF BInv
<1>5. CASE PageSelect(s)
  <2>1. CASE Await(s, "access", a) /\ UNCHANGED shelf
    BY <1>4, <1>5, <2>1, FunctionOnly DEF PageSelect, Awaits
  <2>2. CASE Ends(s) /\ shelf' = [shelf EXCEPT !.stage = "error"]
    <3>1. shelf' \in Shelves /\ shelf'.loaded = shelf.loaded /\ shelf'.unmet = shelf.unmet
          /\ shelf'.cats = shelf.cats /\ shelf'.cat = shelf.cat
      BY <1>3, <2>2 DEF Shelves
    <3>2. Replaces(s, NoTask)
      BY <2>2, EndsReplaces DEF BInv
    <3> QED
      BY <1>3, <1>5, <3>1, <3>2, ShelfOnly DEF PageSelect, Awaits
  <2> QED
    BY <1>5, <2>1, <2>2 DEF PageSelect
<1>6. CASE PageAccess(s)
  <2>1. /\ shelf' \in Shelves /\ shelf'.loaded = shelf.loaded /\ shelf'.unmet = shelf.unmet
        /\ shelf'.cats = shelf.cats /\ shelf'.cat = shelf.cat
    <3>1. PICK v \in BOOLEAN : \/ UNCHANGED shelf
                               \/ Rerender([shelf EXCEPT !.view = v])
      BY <1>6 DEF PageAccess
    <3>2. CASE UNCHANGED shelf
      BY <1>3, <3>2
    <3>3. CASE Rerender([shelf EXCEPT !.view = v])
      <4>1. Wanted([shelf EXCEPT !.view = v]) \in BOOLEAN
        BY DEF Wanted
      <4> QED
        BY <1>3, <3>3, <4>1 DEF Rerender, Shelves
    <3> QED
      BY <3>1, <3>2, <3>3
  <2>2. \E t : Replaces(s, t)
    BY <1>4, <1>6 DEF PageAccess
  <2> QED
    BY <1>3, <1>6, <2>1, <2>2, ShelfOnly DEF PageAccess, Awaits
<1>7. CASE PageCategories(s)
  <2>1. PICK cats \in {Category, {}} :
          LET sh == [shelf EXCEPT !.cats = cats] IN
          \/ cats = {} /\ Ends(s) /\ shelf' = [sh EXCEPT !.stage = "ready"]
          \/ \E k \in cats : Fetch(s, "page", a, k, [sh EXCEPT !.cat = k, !.open = {k}])
    BY <1>7 DEF PageCategories
  <2> DEFINE sh == [shelf EXCEPT !.cats = cats]
  <2>2. sh \in Shelves /\ sh.cats = cats /\ sh.loaded = shelf.loaded /\ sh.unmet = shelf.unmet
    BY <1>3 DEF Shelves
  <2> HIDE DEF sh
  <2>3. CASE cats = {} /\ Ends(s) /\ shelf' = [sh EXCEPT !.stage = "ready"]
    <3>1. shelf' \in Shelves /\ shelf'.loaded = shelf.loaded /\ shelf'.unmet = shelf.unmet
          /\ shelf'.cats = {}
      BY <2>2, <2>3 DEF Shelves
    <3>2. Replaces(s, NoTask)
      BY <2>3, EndsReplaces DEF BInv
    <3> QED
      BY <1>7, <3>1, <3>2, ShelfOnly DEF PageCategories, Awaits
  <2>4. ASSUME NEW k \in cats, Fetch(s, "page", a, k, [sh EXCEPT !.cat = k, !.open = {k}])
        PROVE  BInv'
    <3>1. k \in Category
      BY <2>4
    <3>5. PICK s2 : s2 = [sh EXCEPT !.cat = k, !.open = {k}]
      OBVIOUS
    <3>6. /\ s2 \in Shelves /\ s2.cat = k
          /\ s2.loaded = shelf.loaded /\ s2.unmet = shelf.unmet
      BY <2>2, <3>1, <3>5 DEF Shelves
    <3>7. PICK arg \in ListArg : arg = a
      BY <1>2
    <3>2. (\E t : Replaces(s, t)) /\ shelf' \in Shelves /\ shelf' = [s2 EXCEPT !.busy = @ \cup {k}]
      <4>1. Fetch(s, "page", arg, k, s2)
        BY <2>4, <3>5, <3>7
      <4> QED
        BY <3>1, <3>6, <4>1, PageFetchKept
    <3>3. shelf'.loaded = shelf.loaded /\ shelf'.unmet = shelf.unmet /\ shelf'.cat = k
      BY <3>2, <3>6 DEF Shelves
    <3>4. k # Nothing
      BY <3>1, BrowserAssumption DEF Nothing
    <3> QED
      BY <1>7, <3>2, <3>3, <3>4, ShelfOnly DEF PageCategories, Awaits
  <2> QED
    BY <2>1, <2>3, <2>4 DEF sh
<1>8. CASE PageLoaded(s)
  <2>1. /\ Merged(s) \in Shelves
        /\ Merged(s) = [shelf EXCEPT !.unmet = Merged(s).unmet, !.busy = Merged(s).busy]
        /\ shelf.unmet \cup {q[1] : q \in task[s].arg.bad} \subseteq Merged(s).unmet
        /\ task[s].arg.todo = {}
    BY <1>8, MergedShelf DEF PageLoaded
  <2>2. /\ shelf' \in Shelves /\ shelf'.loaded = shelf.loaded /\ shelf'.unmet = Merged(s).unmet
        /\ shelf'.cats = shelf.cats /\ shelf'.cat = shelf.cat
    BY <1>3, <1>8, <2>1 DEF PageLoaded, Shelves
  <2>3. Replaces(s, NoTask)
    BY <1>8, EndsReplaces DEF PageLoaded, BInv
  <2> QED
    BY <1>3, <1>8, <2>1, <2>2, <2>3, ShelfOnly DEF PageLoaded
<1> QED
  BY <1>5, <1>6, <1>7, <1>8 DEF fetchDataAsync

-----------------------------------------------------------------------------
(* The categories and the list.                                            *)

Urls == [cat : Category \cup {Nothing}, chal : Challenge \cup {Nothing}]
Panels == [id : Challenge \cup {Nothing}, served : BOOLEAN, skeleton : BOOLEAN]

\* The URL and the panel may change too, while the lists stay.
LEMMA UrlAndPanel ==
    ASSUME BInv, NEW s \in Slot, NEW t, Replaces(s, t),
           task[s].at # "prereqs"
             \/ (task[s].arg.todo = {} /\ {q[1] : q \in task[s].arg.bad} \subseteq shelf'.unmet),
           shelf' \in Shelves, shelf'.loaded = shelf.loaded,
           shelf.unmet \subseteq shelf'.unmet,
           shelf'.cats = {} \/ shelf'.cat # Nothing,
           url' \in Urls, url'.chal = Nothing \/ url'.cat # Nothing,
           shown' \in Panels, ServedIsOpen',
           UNCHANGED <<solved, hidden, missed>>
    PROVE  BInv'
<1>1. BrowserTypeOK' /\ CategoryIsKnown'
  BY DEF BInv, BrowserTypeOK, Shelves, CategoryIsKnown, Urls, Panels
<1>2. ListedIsLookedAt'
  BY QuietList, CheckedList
<1> QED
  BY <1>1, <1>2, ReplacedTasks DEF BInv

LEMMA ShelfNow ==
    ASSUME BInv
    PROVE  /\ shelf \in Shelves /\ (shelf.cats = {} \/ shelf.cat # Nothing)
           /\ url \in Urls /\ (url.chal = Nothing \/ url.cat # Nothing)
           /\ shown \in Panels /\ Nothing \notin Category /\ Nothing \notin Challenge
  BY BrowserAssumption DEF BInv, BrowserTypeOK, Shelves, CategoryIsKnown, Urls, Panels, Nothing

LEMMA FreeIsQuiet ==
    ASSUME BInv, NEW s \in Slot, FreeSlot(s)
    PROVE  task[s].at # "prereqs"
<1>1. ListTaskOK(task[s]) /\ task[s].op = "none"
  BY DEF BInv, ListTasks, FreeSlot
<1> QED
  BY <1>1 DEF ListTaskOK, ListTask, NoTask

LEMMA handleCategoryClickKept ==
    ASSUME BInv, NEW s \in Slot, handleCategoryClick(s)
    PROVE  BInv'
<1>1. PICK k \in shelf.cats :
        LET sh == [shelf EXCEPT !.cat = k, !.processed = Nothing] IN
        \/ shelf' = [sh EXCEPT !.open = @ \ {k}] /\ UNCHANGED task
        \/ shelf' = [sh EXCEPT !.open = @ \cup {k}] /\ UNCHANGED task
        \/ Fetch(s, "category", Holds, k, [shelf EXCEPT !.open = @ \cup {k}])
  BY DEF handleCategoryClick
<1>2. shelf \in Shelves /\ k \in Category /\ k # Nothing /\ shelf.cat # Nothing
  BY ShelfNow, ShelfFields
<1>3. UNCHANGED <<solved, hidden, url, shown, missed>> /\ FreeSlot(s)
  BY DEF handleCategoryClick
<1>4. ASSUME NEW open \in SUBSET Category, UNCHANGED task,
             shelf' = [[shelf EXCEPT !.cat = k, !.processed = Nothing] EXCEPT !.open = open]
      PROVE  BInv'
  <2>1. shelf' \in Shelves /\ shelf'.loaded = shelf.loaded /\ shelf'.unmet = shelf.unmet
        /\ shelf'.cat = k
    BY <1>2, <1>4 DEF Shelves
  <2>2. ListTasks' /\ ListedIsLookedAt'
    BY <1>3, <1>4, <2>1, StillList
  <2>3. BrowserTypeOK' /\ CategoryIsKnown' /\ ServedIsOpen'
    BY <1>2, <1>3, <2>1 DEF BInv, BrowserTypeOK, Shelves, CategoryIsKnown, ServedIsOpen
  <2> QED
    BY <2>2, <2>3 DEF BInv
<1>5. CASE shelf' = [[shelf EXCEPT !.cat = k, !.processed = Nothing] EXCEPT !.open = @ \ {k}]
           /\ UNCHANGED task
  <2>1. shelf' = [[shelf EXCEPT !.cat = k, !.processed = Nothing] EXCEPT !.open = shelf.open \ {k}]
        /\ shelf.open \ {k} \in SUBSET Category
    BY <1>2, <1>5 DEF Shelves
  <2> QED
    BY <1>4, <1>5, <2>1
<1>6. CASE shelf' = [[shelf EXCEPT !.cat = k, !.processed = Nothing] EXCEPT !.open = @ \cup {k}]
           /\ UNCHANGED task
  <2>1. shelf' = [[shelf EXCEPT !.cat = k, !.processed = Nothing] EXCEPT !.open = shelf.open \cup {k}]
        /\ shelf.open \cup {k} \in SUBSET Category
    BY <1>2, <1>6 DEF Shelves
  <2> QED
    BY <1>4, <1>6, <2>1
<1>7. CASE Fetch(s, "category", Holds, k, [shelf EXCEPT !.open = @ \cup {k}])
  <2> DEFINE sh == [shelf EXCEPT !.open = @ \cup {k}]
  <2>1. sh \in Shelves /\ sh.loaded = shelf.loaded /\ sh.unmet = shelf.unmet /\ sh.cat = shelf.cat
    BY <1>2 DEF Shelves
  <2> HIDE DEF sh
  <2>4. Holds \in ListArg
    BY HoldsTyped
  <2>2. (\E t : Replaces(s, t)) /\ shelf' \in Shelves /\ shelf' = [sh EXCEPT !.busy = @ \cup {k}]
    <3>1. Fetch(s, "category", Holds, k, sh)
      BY <1>7 DEF sh
    <3> QED
      BY <1>2, <2>1, <2>4, <3>1, FetchKept
  <2>3. shelf'.loaded = shelf.loaded /\ shelf'.unmet = shelf.unmet /\ shelf'.cat = shelf.cat
    BY <2>1, <2>2 DEF Shelves
  <2> QED
    BY <1>2, <1>3, <2>2, <2>3, ShelfOnly, FreeIsQuiet
<1> QED
  BY <1>1, <1>5, <1>6, <1>7

\* The checks that end with nothing else to do.
LEMMA EndedKept ==
    ASSUME BInv, NEW s \in Slot, UrlLoaded(s) \/ CategoryLoaded(s)
    PROVE  BInv'
<1>1. Ends(s) /\ UNCHANGED <<solved, hidden, url, shown, missed>>
      /\ \E op \in {"url", "category"} : Loaded(s, op)
  BY DEF UrlLoaded, CategoryLoaded
<1>2. /\ Merged(s) \in Shelves
      /\ Merged(s) = [shelf EXCEPT !.unmet = Merged(s).unmet, !.busy = Merged(s).busy]
      /\ shelf.unmet \cup {q[1] : q \in task[s].arg.bad} \subseteq Merged(s).unmet
      /\ task[s].arg.todo = {} /\ task[s].arg.k \in Category
  BY <1>1, MergedShelf
<1>3. Merged(s).loaded = shelf.loaded /\ Merged(s).cat = shelf.cat /\ Merged(s).cats = shelf.cats
  BY <1>2, ShelfNow DEF Shelves
<1>4. /\ shelf' \in Shelves /\ shelf'.loaded = shelf.loaded /\ shelf'.unmet = Merged(s).unmet
      /\ shelf'.cats = {} \/ shelf'.cat # Nothing
  <2>1. CASE UrlLoaded(s)
    BY <1>2, <1>3, <2>1, ShelfNow DEF UrlLoaded
  <2>2. CASE CategoryLoaded(s)
    BY <1>2, <1>3, <2>2, ShelfNow DEF CategoryLoaded, Shelves
  <2> QED
    BY <2>1, <2>2
<1>5. Replaces(s, NoTask)
  BY <1>1, EndsReplaces DEF BInv
<1> QED
  BY <1>1, <1>2, <1>4, <1>5, ShelfOnly

LEMMA OpenFromUrlKept ==
    ASSUME BInv, NEW s \in Slot, OpenFromUrl(s)
    PROVE  BInv'
<1> DEFINE sh == [shelf EXCEPT !.effect = FALSE, !.open = @ \cup {url.cat}]
<1>1. FreeSlot(s) /\ UNCHANGED <<solved, hidden, url, shown, missed>>
  BY DEF OpenFromUrl
<1>2. CASE url.chal = Nothing
  <2>1. shelf' = [shelf EXCEPT !.effect = FALSE] /\ UNCHANGED task
    BY <1>2 DEF OpenFromUrl
  <2>2. shelf' \in Shelves /\ shelf'.loaded = shelf.loaded /\ shelf'.unmet = shelf.unmet
        /\ (shelf'.cats = {} \/ shelf'.cat # Nothing)
    BY <2>1, ShelfNow DEF Shelves
  <2>3. ListTasks' /\ ListedIsLookedAt'
    BY <1>1, <2>1, <2>2, StillList
  <2>4. BrowserTypeOK' /\ CategoryIsKnown' /\ ServedIsOpen'
    BY <1>1, <2>2 DEF BInv, BrowserTypeOK, Shelves, CategoryIsKnown, ServedIsOpen
  <2> QED
    BY <2>3, <2>4 DEF BInv
<1>3. CASE url.chal # Nothing
  <2>1. url.cat \in Category /\ url.chal \in Challenge
    BY <1>3, ShelfNow DEF Urls
  <2>2. /\ sh \in Shelves /\ sh.loaded = shelf.loaded /\ sh.unmet = shelf.unmet
        /\ sh.cats = shelf.cats /\ sh.cat = shelf.cat
    BY <2>1, ShelfNow DEF Shelves
  <2>3. CASE Fetch(s, "url", Holds, url.cat, sh)
    <3> HIDE DEF sh
    <3>3. Holds \in ListArg
      BY HoldsTyped
    <3>1. /\ \E t : Replaces(s, t)
          /\ shelf' \in Shelves /\ shelf' = [sh EXCEPT !.busy = @ \cup {url.cat}]
      BY <2>1, <2>2, <2>3, <3>3, FetchKept
    <3>2. /\ shelf'.loaded = shelf.loaded /\ shelf'.unmet = shelf.unmet
          /\ shelf'.cat = shelf.cat /\ shelf'.cats = shelf.cats
      BY <2>2, <3>1 DEF Shelves
    <3> QED
      BY <1>1, <3>1, <3>2, ShelfOnly, FreeIsQuiet, ShelfNow
  <2>4. CASE shelf' = sh /\ UNCHANGED task
    <3>1. ListTasks' /\ ListedIsLookedAt'
      BY <1>1, <2>2, <2>4, StillList
    <3>2. BrowserTypeOK' /\ CategoryIsKnown' /\ ServedIsOpen'
      BY <1>1, <2>2, <2>4 DEF BInv, BrowserTypeOK, Shelves, CategoryIsKnown, ServedIsOpen
    <3> QED
      BY <3>1, <3>2 DEF BInv
  <2>5. CASE /\ shelf' = [sh EXCEPT !.processed = url.chal]
             /\ OpenWith(s, url.chal, Opening(url.chal), shelf.view)
    <3>1. \E t : Replaces(s, t)
      BY <2>1, <2>5, OpenKept, OpeningTyped
    <3>2. /\ shelf' \in Shelves /\ shelf'.loaded = shelf.loaded /\ shelf'.unmet = shelf.unmet
          /\ shelf'.cats = shelf.cats /\ shelf'.cat = shelf.cat
      BY <2>1, <2>2, <2>5 DEF Shelves
    <3> QED
      BY <1>1, <3>1, <3>2, ShelfOnly, FreeIsQuiet, ShelfNow
  <2> QED
    BY <1>3, <2>3, <2>4, <2>5 DEF OpenFromUrl
<1> QED
  BY <1>2, <1>3

LEMMA handleChallengeClickKept ==
    ASSUME BInv, NEW s \in Slot, handleChallengeClick(s)
    PROVE  BInv'
<1>1. PICK c \in Clickable : /\ url' = [cat |-> shelf.cat, chal |-> c]
                             /\ OpenWith(s, c, Opening(c), TRUE)
  BY DEF handleChallengeClick
<1>2. /\ FreeSlot(s) /\ UNCHANGED <<solved, hidden, shown, missed>>
      /\ shelf' = [shelf EXCEPT !.processed = Nothing]
  BY DEF handleChallengeClick
<1>3. PICK k \in shelf.cats : c \in shelf.loaded[k] \ Unloaded
  <2>1. c \in (UNION {shelf.loaded[k] : k \in (shelf.open \cap shelf.cats) \ shelf.busy}) \ Unloaded
    BY <1>1 DEF Clickable
  <2> QED
    BY <2>1
<1>4. c \in Challenge /\ shelf.cat \in Category /\ shelf.cat # Nothing
  <2>1. k \in Category /\ shelf.loaded[k] \in (SUBSET Challenge) \cup {Unloaded}
    BY <1>3, ShelfNow, ShelfFields
  <2>2. shelf.cat \in Category \cup {Nothing} /\ shelf.cat # Nothing
    BY <1>3, ShelfNow, ShelfFields
  <2> QED
    BY <1>3, <2>1, <2>2
<1>5. \E t : Replaces(s, t)
  BY <1>1, <1>4, OpenKept, OpeningTyped
<1>6. /\ shelf' \in Shelves /\ shelf'.loaded = shelf.loaded /\ shelf'.unmet = shelf.unmet
      /\ shelf'.cats = shelf.cats /\ shelf'.cat = shelf.cat
  BY <1>2, ShelfNow DEF Shelves
<1>7. url' \in Urls /\ url'.cat # Nothing
  BY <1>1, <1>4 DEF Urls
<1>8. shown' \in Panels /\ ServedIsOpen'
  BY <1>2, ShelfNow DEF BInv, ServedIsOpen
<1> QED
  BY <1>2, <1>5, <1>6, <1>7, <1>8, UrlAndPanel, FreeIsQuiet, ShelfNow

-----------------------------------------------------------------------------
(* A challenge opens, from the list, the popup or the panel.               *)

\* What is known of a function that waits.
LEMMA Waiting ==
    ASSUME BInv, NEW s \in Slot, task[s].at # "none"
    PROVE  /\ task[s] \in ListTask /\ task[s].arg \in ListArg /\ ListTaskOK(task[s])
           /\ task[s].op # "none"
           /\ task[s].op \in {"open", "nav", "goto"} => task[s].arg.c \in Challenge
<1>1. ListTaskOK(task[s])
  BY DEF BInv, ListTasks
<1>2. task[s].op # "none"
  BY <1>1, WaitingIsTask
<1> QED
  BY <1>1, <1>2, ListArgFields DEF ListTaskOK

LEMMA GoesOn ==
    ASSUME BInv, NEW s \in Slot, task[s].at # "none", task[s].op \in {"open", "nav", "goto"},
           NEW at \in {"detail", "locked", "refused", "notfound"}, NEW b \in ListArg,
           b.c \in Challenge,
           Await(s, at, b) \/ Popup(s, task[s].op, at, b)
    PROVE  \E t : Replaces(s, t)
<1>1. ListTaskOK([op |-> task[s].op, at |-> at, arg |-> b])
  BY DEF ListTaskOK, ListTask, ListAts
<1>2. ListTasks /\ task[s].op # "none"
  BY DEF BInv
<1> QED
  BY <1>1, <1>2, AwaitReplaces, PopupReplaces

LEMMA OpenCheckedKept ==
    ASSUME BInv, NEW s \in Slot, OpenChecked(s)
    PROVE  BInv'
<1>1. task[s].op = "open" /\ task[s].at = "check" /\ UNCHANGED <<solved, hidden, url, shelf, missed>>
  BY DEF OpenChecked, Awaits
<1>2. task[s].arg \in ListArg /\ task[s].arg.c \in Challenge
  BY <1>1, Waiting
<1>3. \/ Popup(s, "open", "locked", task[s].arg) /\ UNCHANGED shown
      \/ Await(s, "detail", task[s].arg) /\ shown' = [shown EXCEPT !.skeleton = TRUE]
  BY DEF OpenChecked
<1>4. \E t : Replaces(s, t)
  BY <1>1, <1>2, <1>3, GoesOn
<1>5. shown' \in Panels /\ shown'.id = shown.id /\ shown'.served = shown.served
  BY <1>3, ShelfNow DEF Panels
<1>6. ServedIsOpen'
  BY <1>1, <1>5, ServedStays DEF BInv
<1> QED
  BY <1>1, <1>4, <1>5, <1>6, UrlAndPanel, ShelfNow

\* The panel after an answer: of the challenge that was asked for, or none new.
LEMMA AnsweredPanel ==
    ASSUME BInv, NEW c, UNCHANGED solved,
           \/ DetailOf(c) = "ok" /\ shown' = [id |-> c, served |-> TRUE, skeleton |-> FALSE]
           \/ DetailOf(c) = "ok" /\ shown' = [shown EXCEPT !.id = c, !.served = TRUE]
           \/ shown' = [shown EXCEPT !.id = Nothing, !.served = FALSE]
           \/ c \in Challenge /\ shown' = [id |-> c, served |-> FALSE, skeleton |-> FALSE]
           \/ shown' = [shown EXCEPT !.skeleton = FALSE]
           \/ UNCHANGED shown
    PROVE  shown' \in Panels /\ ServedIsOpen'
<1>1. shown \in Panels /\ solved \subseteq Challenge
  BY ShelfNow DEF BInv, BrowserTypeOK
<1>2. ASSUME DetailOf(c) = "ok"
      PROVE  c \in Challenge /\ (c \in Anonymized \/ {d \in Challenge : Bank[d] \in Prereq[c]} \subseteq solved)
  BY <1>1, <1>2, OpenMayBeServed
<1>3. ASSUME DetailOf(c) = "ok", shown' \in Panels, shown'.id = c
      PROVE  ServedIsOpen'
  BY <1>2, <1>3 DEF ServedIsOpen
<1>4. CASE DetailOf(c) = "ok" /\ shown' = [id |-> c, served |-> TRUE, skeleton |-> FALSE]
  BY <1>2, <1>3, <1>4 DEF Panels
<1>5. CASE DetailOf(c) = "ok" /\ shown' = [shown EXCEPT !.id = c, !.served = TRUE]
  <2>1. shown' \in Panels /\ shown'.id = c
    BY <1>1, <1>2, <1>5 DEF Panels
  <2> QED
    BY <1>3, <1>5, <2>1
<1>6. CASE shown' = [shown EXCEPT !.id = Nothing, !.served = FALSE]
  BY <1>1, <1>6 DEF Panels, ServedIsOpen
<1>7. CASE c \in Challenge /\ shown' = [id |-> c, served |-> FALSE, skeleton |-> FALSE]
  BY <1>7 DEF Panels, ServedIsOpen
<1>8. CASE shown' = [shown EXCEPT !.skeleton = FALSE]
  <2>1. shown' \in Panels /\ shown'.id = shown.id /\ shown'.served = shown.served
    BY <1>1, <1>8 DEF Panels
  <2> QED
    BY <2>1, ServedStays DEF BInv
<1>9. CASE UNCHANGED shown
  BY <1>1, <1>9, ServedStays DEF BInv
<1> QED
  BY <1>4, <1>5, <1>6, <1>7, <1>8, <1>9

LEMMA OpenAnsweredKept ==
    ASSUME BInv, NEW s \in Slot, OpenAnswered(s) \/ OpenRefused(s)
    PROVE  BInv'
<1> DEFINE a == task[s].arg
<1>1. task[s].op = "open" /\ task[s].at \in {"detail", "refused"}
      /\ UNCHANGED <<solved, hidden, shelf, missed>>
  BY DEF OpenAnswered, OpenRefused, Awaits
<1>2. a \in ListArg /\ a.c \in Challenge /\ a.cat \in Category \cup {Nothing}
  BY <1>1, Waiting, ListArgFields
<1>3. Ends(s) \/ Popup(s, "open", "refused", a)
  BY DEF OpenAnswered, OpenRefused
<1>4. \E t : Replaces(s, t)
  BY <1>1, <1>2, <1>3, GoesOn, EndsReplaces DEF BInv
<1>5. shown' \in Panels /\ ServedIsOpen'
  BY <1>1, AnsweredPanel DEF OpenAnswered, OpenRefused
<1>6. UNCHANGED url \/ url' = [cat |-> a.cat, chal |-> Nothing]
  BY DEF OpenAnswered, OpenRefused
<1>7. url' \in Urls /\ (url'.chal = Nothing \/ url'.cat # Nothing)
  BY <1>2, <1>6, ShelfNow DEF Urls
<1> QED
  BY <1>1, <1>4, <1>5, <1>7, UrlAndPanel, ShelfNow

LEMMA LockedCloseKept ==
    ASSUME BInv, NEW s \in Slot, LockedClose(s)
    PROVE  BInv'
<1>1. Replaces(s, NoTask)
  BY EndsReplaces DEF BInv, LockedClose
<1> QED
  BY <1>1, FunctionOnly DEF LockedClose

LEMMA LockedNavigateKept ==
    ASSUME BInv, NEW s \in Slot, LockedNavigate(s)
    PROVE  BInv'
<1> DEFINE a == task[s].arg
<1>1. task[s].op = "open" /\ task[s].at = "locked" /\ UNCHANGED <<solved, hidden, url, shown, missed>>
  BY DEF LockedNavigate, Awaits
<1>2. a \in ListArg /\ a.bad \subseteq Challenge \X Challenge
  BY <1>1, Waiting, ListArgFields
<1>3. PICK q \in a.bad :
        Fetch(s, "nav", [a EXCEPT !.c = q[2], !.bad = {}], CategoryOf[q[2]],
              [shelf EXCEPT !.processed = q[2], !.cat = CategoryOf[q[2]],
                            !.open = @ \cup {CategoryOf[q[2]]}])
  BY DEF LockedNavigate
<1> DEFINE p == q[2]  k == CategoryOf[p]  b == [a EXCEPT !.c = p, !.bad = {}]
           sh == [shelf EXCEPT !.processed = p, !.cat = k, !.open = @ \cup {k}]
<1>4. p \in Challenge /\ k \in Category /\ k # Nothing
  <2>1. p \in Challenge
    BY <1>2
  <2>2. k \in Category
    BY <2>1, BrowserAssumption
  <2> QED
    BY <2>1, <2>2, ShelfNow
<1>5. b \in ListArg /\ b.c = p
  BY <1>2, <1>4 DEF ListArg
<1>6. sh \in Shelves /\ sh.loaded = shelf.loaded /\ sh.unmet = shelf.unmet /\ sh.cat = k
  BY <1>4, ShelfNow DEF Shelves
<1>7. Fetch(s, "nav", b, k, sh)
  BY <1>3
<1> HIDE DEF p, k, b, sh
<1>8. (\E t : Replaces(s, t)) /\ shelf' \in Shelves /\ shelf' = [sh EXCEPT !.busy = @ \cup {k}]
  BY <1>4, <1>5, <1>6, <1>7, FetchKept
<1>9. shelf'.loaded = shelf.loaded /\ shelf'.unmet = shelf.unmet /\ shelf'.cat = k
  BY <1>6, <1>8 DEF Shelves
<1> QED
  BY <1>1, <1>4, <1>8, <1>9, ShelfOnly

LEMMA MergedStays ==
    ASSUME BInv, NEW s \in Slot, NEW op, Loaded(s, op)
    PROVE  /\ Merged(s) \in Shelves /\ Merged(s).loaded = shelf.loaded
           /\ Merged(s).cat = shelf.cat /\ Merged(s).cats = shelf.cats
           /\ shelf.unmet \subseteq Merged(s).unmet
           /\ {q[1] : q \in task[s].arg.bad} \subseteq Merged(s).unmet
           /\ task[s].arg.todo = {} /\ task[s].arg.k \in Category
           /\ task[s].op = op /\ task[s].at = "prereqs"
<1>1. /\ Merged(s) \in Shelves
      /\ Merged(s) = [shelf EXCEPT !.unmet = Merged(s).unmet, !.busy = Merged(s).busy]
      /\ shelf.unmet \cup {q[1] : q \in task[s].arg.bad} \subseteq Merged(s).unmet
      /\ task[s].arg.todo = {} /\ task[s].op = op /\ task[s].at = "prereqs"
      /\ task[s].arg.k \in Category
  BY MergedShelf
<1> QED
  BY <1>1, ShelfNow DEF Shelves

LEMMA NavLoadedKept ==
    ASSUME BInv, NEW s \in Slot, NavLoaded(s)
    PROVE  BInv'
<1> DEFINE a == task[s].arg  b == [a EXCEPT !.todo = Pairs({a.c}), !.bad = {}]
<1>1. Loaded(s, "nav") /\ shelf' = Merged(s) /\ UNCHANGED <<solved, hidden, url, shown, missed>>
      /\ (Await(s, "check", b) \/ Ends(s))
  BY DEF NavLoaded
<1>2. /\ shelf' \in Shelves /\ shelf'.loaded = shelf.loaded
      /\ shelf'.cat = shelf.cat /\ shelf'.cats = shelf.cats
      /\ shelf.unmet \subseteq shelf'.unmet
      /\ {q[1] : q \in task[s].arg.bad} \subseteq shelf'.unmet
      /\ a.todo = {} /\ a.k \in Category /\ task[s].op = "nav" /\ task[s].at = "prereqs"
  BY <1>1, MergedStays
<1>3. a \in ListArg /\ a.c \in Challenge
  BY <1>2, Waiting
<1>4. b \in ListArg /\ b.c = a.c /\ b.k = a.k
  BY <1>3, PairsTyped DEF ListArg
<1>5. ListTaskOK([op |-> task[s].op, at |-> "check", arg |-> b])
  BY <1>2, <1>3, <1>4 DEF ListTaskOK, ListTask, ListAts
<1>6. \E t : Replaces(s, t)
  <2>1. CASE Await(s, "check", b)
    BY <1>2, <1>5, <2>1, AwaitReplaces DEF BInv
  <2>2. CASE Ends(s)
    BY <2>2, EndsReplaces DEF BInv
  <2> QED
    BY <1>1, <2>1, <2>2
<1> QED
  BY <1>1, <1>2, <1>6, ShelfOnly, ShelfNow

LEMMA NavCheckedKept ==
    ASSUME BInv, NEW s \in Slot, NavChecked(s)
    PROVE  BInv'
<1> DEFINE a == task[s].arg
<1>1. /\ task[s].op = "nav" /\ task[s].at = "check" /\ UNCHANGED <<solved, hidden, shelf, missed>>
      /\ url' = [cat |-> a.k, chal |-> a.c]
      /\ \/ OpenWith(s, a.c, [a EXCEPT !.has = FALSE], TRUE) /\ UNCHANGED shown
         \/ Await(s, "detail", a) /\ shown' = [shown EXCEPT !.skeleton = TRUE]
  BY DEF NavChecked, Awaits
<1>2. a \in ListArg /\ a.c \in Challenge /\ a.k \in Category
  BY <1>1, Waiting DEF ListTaskOK
<1>3. [a EXCEPT !.has = FALSE] \in ListArg
  BY <1>2 DEF ListArg
<1>4. \E t : Replaces(s, t)
  <2>1. CASE OpenWith(s, a.c, [a EXCEPT !.has = FALSE], TRUE)
    BY <1>2, <1>3, <2>1, OpenKept
  <2>2. CASE Await(s, "detail", a)
    BY <1>1, <1>2, <2>2, GoesOn
  <2> QED
    BY <1>1, <2>1, <2>2
<1>5. shown' \in Panels /\ shown'.id = shown.id /\ shown'.served = shown.served
  BY <1>1, ShelfNow DEF Panels
<1>6. ServedIsOpen'
  BY <1>1, <1>5, ServedStays DEF BInv
<1>7. url' \in Urls /\ url'.cat # Nothing
  BY <1>1, <1>2, ShelfNow DEF Urls
<1> QED
  BY <1>1, <1>4, <1>5, <1>6, <1>7, UrlAndPanel, ShelfNow

LEMMA NavAnsweredKept ==
    ASSUME BInv, NEW s \in Slot, NavAnswered(s) \/ NavRefused(s)
    PROVE  BInv'
<1> DEFINE a == task[s].arg  b == [Holds EXCEPT !.c = a.c]
<1>1. task[s].op = "nav" /\ task[s].at \in {"detail", "refused"}
      /\ UNCHANGED <<solved, hidden, url, shelf, missed>>
  BY DEF NavAnswered, NavRefused, Awaits
<1>2. a.c \in Challenge /\ b \in ListArg /\ b.c = a.c
  BY <1>1, Waiting, HoldsTyped
<1>3. Ends(s) \/ Popup(s, "nav", "refused", b)
  BY DEF NavAnswered, NavRefused
<1>4. \E t : Replaces(s, t)
  BY <1>1, <1>2, <1>3, GoesOn, EndsReplaces DEF BInv
<1>5. shown' \in Panels /\ ServedIsOpen'
  BY <1>1, <1>2, AnsweredPanel DEF NavAnswered, NavRefused
<1> QED
  BY <1>1, <1>4, <1>5, UrlAndPanel, ShelfNow

\* The search of the next category, or the popup that it is nowhere.
LEMMA GotoNextKept ==
    ASSUME BInv, NEW s \in Slot, NEW sh \in Shelves, NEW a \in ListArg, a.c \in Challenge,
           GotoNext(s, sh, a),
           sh.loaded = shelf.loaded, shelf.unmet \subseteq sh.unmet,
           sh.cats = {} \/ sh.cat # Nothing
    PROVE  /\ \E t : Replaces(s, t)
           /\ shelf' \in Shelves /\ shelf'.loaded = shelf.loaded /\ shelf'.unmet = sh.unmet
           /\ shelf'.cats = {} \/ shelf'.cat # Nothing
<1>1. CASE Popup(s, "goto", "notfound", [a EXCEPT !.k = Nothing]) /\ shelf' = sh
  <2> DEFINE b == [a EXCEPT !.k = Nothing]
  <2>1. b \in ListArg /\ b.c = a.c
    BY DEF ListArg
  <2>2. ListTaskOK([op |-> "goto", at |-> "notfound", arg |-> b])
    BY <2>1 DEF ListTaskOK, ListTask, ListAts
  <2>3. Replaces(s, [op |-> "goto", at |-> "notfound", arg |-> b])
    BY <1>1, <2>2, PopupReplaces DEF BInv
  <2> QED
    BY <1>1, <2>3
<1>2. ASSUME NEW k \in a.rest, Fetch(s, "goto", [a EXCEPT !.rest = @ \ {k}], k, sh)
      PROVE  /\ \E t : Replaces(s, t)
             /\ shelf' \in Shelves /\ shelf'.loaded = shelf.loaded /\ shelf'.unmet = sh.unmet
             /\ shelf'.cats = {} \/ shelf'.cat # Nothing
  <2> DEFINE b == [a EXCEPT !.rest = @ \ {k}]
  <2>1. b \in ListArg /\ b.c = a.c /\ k \in Category
    BY DEF ListArg
  <2> HIDE DEF b
  <2>2. (\E t : Replaces(s, t)) /\ shelf' \in Shelves /\ shelf' = [sh EXCEPT !.busy = @ \cup {k}]
    <3>1. Fetch(s, "goto", b, k, sh)
      BY <1>2 DEF b
    <3> QED
      BY <2>1, <3>1, FetchKept
  <2>3. shelf'.loaded = sh.loaded /\ shelf'.unmet = sh.unmet /\ shelf'.cats = sh.cats
        /\ shelf'.cat = sh.cat
    BY <2>2 DEF Shelves
  <2> QED
    BY <2>2, <2>3
<1> QED
  BY <1>1, <1>2 DEF GotoNext

LEMMA GotoOpensKept ==
    ASSUME BInv, NEW s \in Slot, NEW sh \in Shelves, NEW c \in Challenge, NEW k \in Category,
           NEW a \in ListArg, GotoOpens(s, sh, c, k, a), sh.loaded = shelf.loaded
    PROVE  /\ \E t : Replaces(s, t)
           /\ shelf' \in Shelves /\ shelf'.loaded = shelf.loaded /\ shelf'.unmet = sh.unmet
           /\ shelf'.cat # Nothing /\ url' \in Urls /\ url'.cat # Nothing
<1>1. k # Nothing
  BY ShelfNow
<1>2. \E t : Replaces(s, t)
  BY OpenKept DEF GotoOpens
<1>3. shelf' = [sh EXCEPT !.open = @ \cup {k}, !.cat = k, !.processed = Nothing]
      /\ url' = [cat |-> k, chal |-> c]
  BY DEF GotoOpens
<1>4. shelf' \in Shelves /\ shelf'.loaded = shelf.loaded /\ shelf'.unmet = sh.unmet /\ shelf'.cat = k
  BY <1>3 DEF Shelves
<1> QED
  BY <1>1, <1>2, <1>3, <1>4 DEF Urls

LEMMA handleNavigateToChallengeKept ==
    ASSUME BInv, NEW s \in Slot, handleNavigateToChallenge(s)
    PROVE  BInv'
<1>1. PICK c \in Challenge :
        \/ GotoOpens(s, shelf, c, CategoryOf[c], Opening(c))
        \/ /\ GotoNext(s, shelf, [Opening(c) EXCEPT
                    !.rest = {k \in shelf.cats : shelf.loaded[k] = Unloaded}])
           /\ UNCHANGED url
  BY DEF handleNavigateToChallenge
<1>2. FreeSlot(s) /\ UNCHANGED <<solved, hidden, shown, missed>>
  BY DEF handleNavigateToChallenge
<1>3. shown' \in Panels /\ ServedIsOpen'
  BY <1>2, ShelfNow, ServedStays DEF BInv
<1>4. CASE GotoOpens(s, shelf, c, CategoryOf[c], Opening(c))
  <2>1. CategoryOf[c] \in Category /\ Opening(c) \in ListArg /\ shelf \in Shelves
    BY BrowserAssumption, OpeningTyped, ShelfNow
  <2>2. /\ \E t : Replaces(s, t)
        /\ shelf' \in Shelves /\ shelf'.loaded = shelf.loaded /\ shelf'.unmet = shelf.unmet
        /\ shelf'.cat # Nothing /\ url' \in Urls /\ url'.cat # Nothing
    BY <1>4, <2>1, GotoOpensKept
  <2> QED
    BY <1>2, <1>3, <2>2, UrlAndPanel, FreeIsQuiet
<1>5. ASSUME GotoNext(s, shelf, [Opening(c) EXCEPT
                    !.rest = {k \in shelf.cats : shelf.loaded[k] = Unloaded}]), UNCHANGED url
      PROVE  BInv'
  <2> DEFINE rest == {k \in shelf.cats : shelf.loaded[k] = Unloaded}
             a == [Opening(c) EXCEPT !.rest = rest]
  <2>1. rest \subseteq Category
    BY ShelfNow, ShelfFields
  <2> HIDE DEF rest
  <2>2. a \in ListArg /\ a.c = c
    BY <2>1, OpeningTyped DEF ListArg
  <2>3. GotoNext(s, shelf, a)
    BY <1>5 DEF rest
  <2> HIDE DEF a
  <2>4. /\ \E t : Replaces(s, t)
        /\ shelf' \in Shelves /\ shelf'.loaded = shelf.loaded /\ shelf'.unmet = shelf.unmet
        /\ shelf'.cats = {} \/ shelf'.cat # Nothing
    BY <2>2, <2>3, GotoNextKept, ShelfNow
  <2> QED
    BY <1>2, <1>5, <2>4, ShelfOnly, FreeIsQuiet
<1> QED
  BY <1>1, <1>4, <1>5

LEMMA GotoLoadedKept ==
    ASSUME BInv, NEW s \in Slot, GotoLoaded(s)
    PROVE  BInv'
<1> DEFINE a == task[s].arg
           b == [a EXCEPT !.k = Nothing, !.has = FALSE, !.rest = {}]
<1>1. /\ Loaded(s, "goto") /\ UNCHANGED <<solved, hidden, shown, missed>>
      /\ \/ GotoOpens(s, Merged(s), a.c, a.k, b)
         \/ GotoNext(s, Merged(s), a) /\ UNCHANGED url
  BY DEF GotoLoaded
<1>2. /\ Merged(s) \in Shelves /\ Merged(s).loaded = shelf.loaded
      /\ Merged(s).cat = shelf.cat /\ Merged(s).cats = shelf.cats
      /\ shelf.unmet \subseteq Merged(s).unmet
      /\ {q[1] : q \in a.bad} \subseteq Merged(s).unmet
      /\ a.todo = {} /\ a.k \in Category /\ task[s].op = "goto" /\ task[s].at = "prereqs"
  BY <1>1, MergedStays
<1>3. a \in ListArg /\ a.c \in Challenge
  BY <1>2, Waiting
<1>4. b \in ListArg
  BY <1>3 DEF ListArg
<1>5. shown' \in Panels /\ ServedIsOpen'
  BY <1>1, ShelfNow, ServedStays DEF BInv
<1>6. CASE GotoOpens(s, Merged(s), a.c, a.k, b)
  <2>1. /\ \E t : Replaces(s, t)
        /\ shelf' \in Shelves /\ shelf'.loaded = shelf.loaded /\ shelf'.unmet = Merged(s).unmet
        /\ shelf'.cat # Nothing /\ url' \in Urls /\ url'.cat # Nothing
    BY <1>2, <1>3, <1>4, <1>6, GotoOpensKept
  <2> QED
    BY <1>1, <1>2, <1>5, <2>1, UrlAndPanel
<1>7. CASE GotoNext(s, Merged(s), a) /\ UNCHANGED url
  <2>1. /\ \E t : Replaces(s, t)
        /\ shelf' \in Shelves /\ shelf'.loaded = shelf.loaded /\ shelf'.unmet = Merged(s).unmet
        /\ shelf'.cats = {} \/ shelf'.cat # Nothing
    BY <1>2, <1>3, <1>7, GotoNextKept, ShelfNow
  <2> QED
    BY <1>1, <1>2, <1>7, <2>1, ShelfOnly
<1> QED
  BY <1>1, <1>6, <1>7

-----------------------------------------------------------------------------
(* The refresh that the panel asks for.                                    *)

LEMMA PanelBusyKept ==
    ASSUME BInv, NEW s \in Slot, PanelBusy(s)
    PROVE  BInv'
<1> DEFINE rest == shelf.open \cap {shelf.cat}
           a == [Opening(shown.id) EXCEPT !.rest = rest]
<1>1. FreeSlot(s) /\ UNCHANGED <<solved, hidden, url, shelf, shown, missed>> /\ shown.id # Nothing
      /\ Start(s, "refresh", "panel", a)
  BY DEF PanelBusy, PanelShown
<1>2. shown.id \in Challenge /\ rest \subseteq Category /\ rest \subseteq {shelf.cat}
  BY <1>1, ShelfNow, ShelfFields DEF Panels
<1>3. Opening(shown.id) \in ListArg /\ Opening(shown.id).cat = shelf.cat
  BY <1>2, OpeningTyped
<1> HIDE DEF rest
<1>4. a \in ListArg /\ a.rest = rest /\ a.cat = shelf.cat
  BY <1>2, <1>3 DEF ListArg
<1>5. ListTaskOK([op |-> "refresh", at |-> "panel", arg |-> a])
  BY <1>2, <1>4 DEF ListTaskOK, ListTask, ListAts
<1>6. \E t : Replaces(s, t)
  BY <1>1, <1>5, StartReplaces DEF BInv
<1> QED
  BY <1>1, <1>6, FunctionOnly, FreeIsQuiet

LEMMA refreshChallengeDataKept ==
    ASSUME BInv, NEW s \in Slot, refreshChallengeData(s)
    PROVE  BInv'
<1> DEFINE a == task[s].arg
<1>1. task[s].op = "refresh" /\ task[s].at = "panel" /\ UNCHANGED <<solved, hidden, url, shown, missed>>
  BY DEF refreshChallengeData, Awaits
<1>2. a \in ListArg /\ a.c \in Challenge \cup {Nothing} /\ a.rest \subseteq Category
      /\ a.rest \subseteq {a.cat}
  BY <1>1, Waiting, ListArgFields DEF ListTaskOK
<1>3. CASE a.rest # {} /\ Fetch(s, "refresh", [a EXCEPT !.rest = {}], a.cat, shelf)
  <2> DEFINE b == [a EXCEPT !.rest = {}]
  <2>1. b \in ListArg /\ a.cat \in Category
    BY <1>2, <1>3 DEF ListArg
  <2>2. Fetch(s, "refresh", b, a.cat, shelf)
    BY <1>3
  <2> HIDE DEF b
  <2>3. (\E t : Replaces(s, t)) /\ shelf' \in Shelves /\ shelf' = [shelf EXCEPT !.busy = @ \cup {a.cat}]
    BY <2>1, <2>2, FetchKept, ShelfNow
  <2>4. shelf'.loaded = shelf.loaded /\ shelf'.unmet = shelf.unmet /\ shelf'.cats = shelf.cats
        /\ shelf'.cat = shelf.cat
    BY <2>3, ShelfNow DEF Shelves
  <2> QED
    BY <1>1, <2>3, <2>4, ShelfOnly, ShelfNow
<1>4. CASE Await(s, "detail", [Holds EXCEPT !.c = a.c]) /\ UNCHANGED shelf
  <2>1. ListTaskOK([op |-> task[s].op, at |-> "detail", arg |-> [Holds EXCEPT !.c = a.c]])
    BY <1>1, <1>2, HoldsTyped DEF ListTaskOK, ListTask, ListAts
  <2>2. \E t : Replaces(s, t)
    BY <1>1, <1>4, <2>1, AwaitReplaces DEF BInv
  <2> QED
    BY <1>1, <1>4, <2>2, FunctionOnly
<1> QED
  BY <1>3, <1>4 DEF refreshChallengeData

LEMMA RefreshLoadedKept ==
    ASSUME BInv, NEW s \in Slot, RefreshLoaded(s)
    PROVE  BInv'
<1> DEFINE a == task[s].arg
<1>1. /\ Loaded(s, "refresh") /\ UNCHANGED <<solved, hidden, url, shown, missed>>
      /\ shelf' = Merged(s) /\ Await(s, "detail", [Holds EXCEPT !.c = a.c])
  BY DEF RefreshLoaded
<1>2. /\ shelf' \in Shelves /\ shelf'.loaded = shelf.loaded
      /\ shelf'.cat = shelf.cat /\ shelf'.cats = shelf.cats
      /\ shelf.unmet \subseteq shelf'.unmet
      /\ {q[1] : q \in a.bad} \subseteq shelf'.unmet
      /\ a.todo = {} /\ task[s].op = "refresh" /\ task[s].at = "prereqs"
  BY <1>1, MergedStays
<1>3. a.c \in Challenge \cup {Nothing}
  BY <1>2, Waiting, ListArgFields
<1>4. ListTaskOK([op |-> task[s].op, at |-> "detail", arg |-> [Holds EXCEPT !.c = a.c]])
  BY <1>2, <1>3, HoldsTyped DEF ListTaskOK, ListTask, ListAts
<1>5. \E t : Replaces(s, t)
  BY <1>1, <1>2, <1>4, AwaitReplaces DEF BInv
<1> QED
  BY <1>1, <1>2, <1>5, ShelfOnly, ShelfNow

LEMMA RefreshAnsweredKept ==
    ASSUME BInv, NEW s \in Slot, RefreshAnswered(s)
    PROVE  BInv'
<1>1. task[s].at = "detail" /\ UNCHANGED <<solved, hidden, url, shelf, missed>> /\ Ends(s)
  BY DEF RefreshAnswered, Awaits
<1>2. Replaces(s, NoTask)
  BY <1>1, EndsReplaces DEF BInv
<1>3. shown' \in Panels /\ ServedIsOpen'
  BY <1>1, AnsweredPanel DEF RefreshAnswered
<1> QED
  BY <1>1, <1>2, <1>3, UrlAndPanel, ShelfNow

-----------------------------------------------------------------------------
LEMMA BrowserStepInv == BInv /\ [BrowserNext]_browserVars => BInv'
<1> SUFFICES ASSUME BInv, [BrowserNext]_browserVars PROVE BInv'
  OBVIOUS
<1>1. CASE BrowserMoves
  BY <1>1, ServerKept, ClosePanelKept, handleCategoryClickKept, handleChallengeClickKept,
     LockedNavigateKept, handleNavigateToChallengeKept, PanelBusyKept DEF BrowserMoves
<1>2. CASE BrowserGoes
  BY <1>2, ListAnsweredKept, checkPrerequisitesKept, PageKept, OpenFromUrlKept, EndedKept,
     OpenCheckedKept, OpenAnsweredKept, LockedCloseKept, NavLoadedKept, NavCheckedKept,
     NavAnsweredKept, GotoLoadedKept, refreshChallengeDataKept, RefreshLoadedKept,
     RefreshAnsweredKept DEF BrowserGoes
<1>3. CASE UNCHANGED browserVars
  <2>1. UNCHANGED <<task, solved, hidden, url, shelf, shown, missed>>
    BY <1>3 DEF browserVars
  <2>2. ListTasks' /\ ListedIsLookedAt'
    BY <2>1, StillList
  <2> QED
    BY <2>1, <2>2 DEF BInv, BrowserTypeOK, CategoryIsKnown, ServedIsOpen
<1> QED
  BY <1>1, <1>2, <1>3 DEF BrowserNext

LEMMA ListedIsLocked == BInv => LocksAreShown
<1> SUFFICES ASSUME BInv, NEW k \in Category, NEW c \in shelf.loaded[k] \ Unloaded
             PROVE  Fetching(k) \/ c \in shelf.unmet \/ c \in missed \/ Prereq[c] \subseteq solved
  BY DEF LocksAreShown
<1>1. \A s \in Slot : Looks(task[s], k, c) => Fetching(k)
  BY DEF Looks, Fetching
<1> QED
  BY <1>1 DEF BInv, ListedIsLookedAt, Settled

(* Whatever is answered, clicked, solved and hidden in any order, what the *)
(* panel shows with data of the server is a challenge whose prerequisites  *)
(* in the contest are solved, or an anonymized one.                        *)
THEOREM ServedMayBeSeen == BrowserSpec => []ServedIsOpen
<1>1. BInv => ServedIsOpen
  BY DEF BInv
<1> QED
  BY <1>1, BrowserInitInv, BrowserStepInv, PTL DEF BrowserSpec

(* No listed challenge that the portal knows to be locked goes without its *)
(* lock once its category has been fetched (loadPrerequisitesInfo merges). *)
THEOREM LocksStay == BrowserSpec => []LocksAreShown
<1> QED
  BY ListedIsLocked, BrowserInitInv, BrowserStepInv, PTL DEF BrowserSpec

(* Every state of the list, of the panel and of the URL is well formed.    *)
THEOREM BrowserTyped == BrowserSpec => []BrowserTypeOK
<1>1. BInv => BrowserTypeOK
  BY DEF BInv
<1> QED
  BY <1>1, BrowserInitInv, BrowserStepInv, PTL DEF BrowserSpec

-----------------------------------------------------------------------------
(***************************************************************************)
(* TeamPages, for every set of passwords and of strong ones: the profile   *)
(* page sends a new password only if it meets the criteria, of which the   *)
(* button that sends it knows nothing.                                     *)
(***************************************************************************)

\* The form of the profile page; its criteria are of the password typed.
ProfileForm ==
    /\ ui = [loading |-> ui.loading, modal |-> ui.modal, old |-> ui.old, new |-> ui.new,
             confirm |-> ui.confirm, criteria |-> ui.criteria, changing |-> ui.changing]
    /\ ui.criteria => ui.new \in Strong

TeamTasks == /\ task = [s \in Slot |-> task[s]]
             /\ \A s \in Slot : task[s] = [op |-> task[s].op, at |-> task[s].at,
                                           arg |-> task[s].arg]

\* One change at a time is on its way, and keeps the form as it was sent.
ChangeIsStrong ==
    /\ \A s \in Slot : task[s].op \in {"none", "reads", "change"}
    /\ \A s, t \in Slot : task[s].op = "change" /\ task[t].op = "change" => s = t
    /\ \A s \in Slot : task[s].op = "change" => /\ ui.changing
                                                /\ task[s].arg.t \in Strong \ {ui.old}

\* The inductive invariant.
TeamInv == /\ TeamTasks
           /\ view = "profile" => ProfileForm /\ ChangeIsStrong
           /\ view # "profile" => \A s \in Slot : task[s].op # "change"

LEMMA TeamInitInv == TeamInit => TeamInv
<1> SUFFICES ASSUME TeamInit PROVE TeamInv
  OBVIOUS
<1>1. TeamTasks /\ \A s \in Slot : task[s] \in {FirstTask(view), NoTask}
  BY DEF TeamInit, NoTasks, NoTask, FirstTask, TeamTasks
<1>2. CASE view = "profile"
  <2>1. FirstTask(view).op = "reads"
    BY <1>2 DEF FirstTask
  <2>2. ui = [loading |-> TRUE, modal |-> FALSE, old |-> Nothing, new |-> Nothing,
              confirm |-> Nothing, criteria |-> FALSE, changing |-> FALSE]
    BY <1>2 DEF TeamInit, Mounted
  <2> QED
    BY <1>1, <1>2, <2>1, <2>2 DEF TeamInv, ProfileForm, ChangeIsStrong, NoTask
<1>3. CASE view # "profile"
  <2>1. FirstTask(view).op # "change"
    BY <1>3 DEF FirstTask
  <2> QED
    BY <1>1, <1>3, <2>1 DEF TeamInv, NoTask
<1> QED
  BY <1>2, <1>3

\* What a step does to the functions: some end, go on, or begin.
Moves(ops) == /\ TeamTasks'
              /\ \A s \in Slot : task'[s].op \in {task[s].op, "none"} \cup ops

LEMMA TaskMoves ==
    ASSUME TeamTasks, NEW s \in Slot, NEW ops,
           \/ UNCHANGED task
           \/ Ends(s)
           \/ \E at, arg : Await(s, at, arg)
           \/ \E op \in ops : \E at, arg : Start(s, op, at, arg)
           \/ \E next : Fires(s, next)
           \/ \E x : "fetch" \in ops /\ FiresAnd(s, FetchOf(x))
    PROVE  Moves(ops)
<1>1. CASE UNCHANGED task
  BY <1>1 DEF TeamTasks, Moves
<1>2. CASE Ends(s)
  BY <1>2 DEF TeamTasks, Moves, Ends, NoTask
<1>3. ASSUME NEW at, NEW arg, Await(s, at, arg) PROVE Moves(ops)
  <2>1. task'[s] = [task[s] EXCEPT !.at = at, !.arg = arg]
        /\ task' = [u \in Slot |-> task'[u]] /\ \A u \in Slot \ {s} : task'[u] = task[u]
    BY <1>3 DEF TeamTasks, Await
  <2>2. task'[s] = [op |-> task[s].op, at |-> at, arg |-> arg]
    BY <2>1 DEF TeamTasks
  <2> QED
    BY <2>1, <2>2 DEF TeamTasks, Moves
<1>4. ASSUME NEW op \in ops, NEW at, NEW arg, Start(s, op, at, arg) PROVE Moves(ops)
  BY <1>4 DEF TeamTasks, Moves, Start
<1>5. ASSUME NEW next, Fires(s, next) PROVE Moves(ops)
  BY <1>5 DEF TeamTasks, Moves, Fires, NoTask
<1>6. ASSUME NEW x, "fetch" \in ops, FiresAnd(s, FetchOf(x))
      PROVE  Moves(ops)
  BY <1>6 DEF TeamTasks, Moves, FiresAnd, FetchOf, NoTask
<1> QED
  BY <1>1, <1>2, <1>3, <1>4, <1>5, <1>6
OtherOps == {"fetch", "create", "delete", "stop", "register"}

\* No other page ever sends a password.
LEMMA OtherPagesSendNone ==
    ASSUME TeamInv, TeamNext, view # "profile"
    PROVE  TeamInv'
<1>1. view' = view /\ TeamTasks /\ Slot # {}
  <2>1. Slot # {}
    BY TabAssumption
  <2> QED
    BY <2>1 DEF TeamInv, TeamNext, TeamMoves, TeamAnswers, setShowModal, setShowPasswordModal,
         handleTicketSubmit, handleRefresh, handleChangePassword, updateForm, handleCaptcha,
         handleRegister, handleDeleteTicket, handleStop, Replies, Deploys, handleChangePage,
         handleFilterChange, handlePasswordInputChange, AlertCloses, ServerLists, fetchTickets,
         SubmitAnswered, DeleteAnswered, fetchInstances, StopAnswered, Confirms, Cancels,
         fetchActionLogs, fetchAllData, ChangeAnswered, loadData, RegisterSends, RegisterAnswered
<1>2. ASSUME Moves(OtherOps) PROVE TeamInv'
  BY <1>1, <1>2 DEF Moves, OtherOps, TeamInv
<1>3. ASSUME UNCHANGED task PROVE TeamInv'
  BY <1>1, <1>2, <1>3, TaskMoves
<1>4. CASE TeamMoves
  <2>1. \/ UNCHANGED task
        \/ \E s \in Slot, op \in OtherOps : \E at, arg : Start(s, op, at, arg)
    BY <1>1, <1>4 DEF TeamMoves, setShowModal, setShowPasswordModal,
         handleTicketSubmit, handleRefresh, handleChangePassword, updateForm, handleCaptcha,
         handleRegister, handleDeleteTicket, handleStop, Replies, Deploys, handleChangePage,
         handleFilterChange, handlePasswordInputChange, OtherOps
  <2>2. ASSUME NEW s \in Slot, NEW op \in OtherOps, NEW at, NEW arg, Start(s, op, at, arg)
        PROVE  Moves(OtherOps)
    BY <1>1, <2>2, TaskMoves
  <2> QED
    BY <1>2, <1>3, <2>1, <2>2
<1>5. ASSUME NEW s \in Slot,
             \/ ServerLists(s) \/ fetchTickets(s) \/ SubmitAnswered(s) \/ DeleteAnswered(s)
             \/ fetchInstances(s) \/ StopAnswered(s) \/ Confirms(s) \/ Cancels(s)
             \/ fetchActionLogs(s) \/ fetchAllData(s) \/ ChangeAnswered(s)
             \/ loadData(s) \/ RegisterSends(s) \/ RegisterAnswered(s)
      PROVE  Moves(OtherOps)
  <2> DEFINE Goes == \/ UNCHANGED task
                     \/ Ends(s)
                     \/ \E at, arg : Await(s, at, arg)
                     \/ \E next : Fires(s, next)
                     \/ \E x : FiresAnd(s, FetchOf(x))
  <2>2. ASSUME ServerLists(s) \/ Confirms(s) \/ Cancels(s) PROVE Goes
    BY <2>2 DEF ServerLists, Confirms, Cancels
  <2>3. ASSUME fetchTickets(s) \/ fetchInstances(s) \/ fetchActionLogs(s) PROVE Goes
    BY <2>3 DEF fetchTickets, fetchInstances, fetchActionLogs
  <2>4. ASSUME SubmitAnswered(s) \/ DeleteAnswered(s) PROVE Goes
    BY <2>4 DEF SubmitAnswered, DeleteAnswered
  <2>5. ASSUME StopAnswered(s) PROVE Goes
    BY <2>5 DEF StopAnswered
  <2>6. ASSUME fetchAllData(s) \/ ChangeAnswered(s) PROVE Goes
    BY <2>6 DEF fetchAllData, ChangeAnswered
  <2>7. ASSUME loadData(s) \/ RegisterSends(s) \/ RegisterAnswered(s) PROVE Goes
    BY <2>7 DEF loadData, RegisterSends, RegisterAnswered
  <2>8. Goes
    BY <1>5, <2>2, <2>3, <2>4, <2>5, <2>6, <2>7
  <2> QED
    BY <1>1, <2>8, TaskMoves DEF OtherOps
<1>6. CASE TeamAnswers
  BY <1>2, <1>3, <1>5, <1>6 DEF TeamAnswers, AlertCloses
<1> QED
  BY <1>4, <1>6 DEF TeamNext

\* The form changes, or a function that is no change of password goes on.
LEMMA ProfileStays ==
    ASSUME TeamInv, view = "profile", view' = view, Moves({}), ProfileForm',
           ui'.old = ui.old, ui'.changing = ui.changing,
           \A s \in Slot : task'[s].op = "change" => task'[s].arg.t = task[s].arg.t
    PROVE  TeamInv'
<1>1. \A s \in Slot : task'[s].op \in {task[s].op, "none"}
  BY DEF Moves
<1>2. ChangeIsStrong
  BY DEF TeamInv
<1>3. ChangeIsStrong'
  BY <1>1, <1>2 DEF ChangeIsStrong
<1> QED
  BY <1>3 DEF TeamInv, Moves

LEMMA AwaitKeepsOthers ==
    ASSUME TeamTasks, NEW s \in Slot, NEW at, NEW arg, Await(s, at, arg)
    PROVE  /\ \A u \in Slot \ {s} : task'[u] = task[u]
           /\ task'[s].op = task[s].op /\ task'[s].arg = arg
<1>1. task'[s] = [task[s] EXCEPT !.at = at, !.arg = arg]
      /\ \A u \in Slot \ {s} : task'[u] = task[u]
  BY DEF TeamTasks, Await
<1>2. task'[s] = [op |-> task[s].op, at |-> at, arg |-> arg]
  BY <1>1 DEF TeamTasks
<1> QED
  BY <1>1, <1>2

LEMMA ProfileKept ==
    ASSUME TeamInv, TeamNext, view = "profile"
    PROVE  TeamInv'
<1>1. TeamTasks /\ ProfileForm /\ ChangeIsStrong
  BY DEF TeamInv
<1>2. ASSUME NEW b \in BOOLEAN, setShowPasswordModal(b) PROVE TeamInv'
  <2>1. UNCHANGED task /\ view' = view /\ ui' = [ui EXCEPT !.modal = b]
    BY <1>2 DEF setShowPasswordModal
  <2>2. ProfileForm' /\ ui'.old = ui.old /\ ui'.changing = ui.changing
    BY <1>1, <2>1 DEF ProfileForm
  <2>3. Moves({})
    BY <1>1, <2>1 DEF Moves, TeamTasks
  <2> QED
    BY <2>1, <2>2, <2>3, ProfileStays
<1>3. ASSUME NEW f \in {"old", "new", "confirm"}, NEW p \in Password,
             handlePasswordInputChange(f, p)
      PROVE  TeamInv'
  <2>1. UNCHANGED task /\ view' = view /\ ui' = Typed(ui, f, p) /\ ~ui.changing
    BY <1>3 DEF handlePasswordInputChange
  <2>2. ui' \in {[ui EXCEPT !.new = p, !.criteria = p \in Strong],
                 [ui EXCEPT !.old = p], [ui EXCEPT !.confirm = p]}
    BY <1>3, <2>1 DEF Typed
  <2>3. PICK h \in BOOLEAN : h = (p \in Strong)
    <3>1. (p \in Strong) \in BOOLEAN
      BY SMT
    <3> QED
      BY <3>1, Zenon
  <2>4. ui' \in {[ui EXCEPT !.new = p, !.criteria = h],
                 [ui EXCEPT !.old = p], [ui EXCEPT !.confirm = p]}
    BY <2>2, <2>3
  <2>5. ProfileForm' /\ ui'.changing = ui.changing
    BY <1>1, <2>3, <2>4 DEF ProfileForm
  <2>6. \A s \in Slot : task[s].op # "change"
    BY <1>1, <2>1 DEF ChangeIsStrong
  <2>7. ChangeIsStrong' /\ TeamTasks'
    BY <1>1, <2>1, <2>6 DEF ChangeIsStrong, TeamTasks
  <2> QED
    BY <2>1, <2>5, <2>7 DEF TeamInv
<1>4. CASE handleChangePassword
  <2>1. view' = view /\ ~ui.changing
    BY <1>4 DEF handleChangePassword
  <2>2. \A s \in Slot : task[s].op # "change"
    BY <1>1, <2>1 DEF ChangeIsStrong
  <2>3. CASE UNCHANGED <<task, ui>>
    BY <1>1, <2>1, <2>3 DEF TeamInv, TeamTasks, ProfileForm, ChangeIsStrong
  <2>4. CASE Acceptable(ui)
    <3>1. ui.new \in Strong /\ ui.new # ui.old
      BY <1>1, <2>4 DEF Acceptable, ProfileForm
    <3>2. ui' = [ui EXCEPT !.changing = TRUE]
          /\ \E s \in Slot : Start(s, "change", "sent", Ask(ui.new))
      BY <1>4, <2>4 DEF handleChangePassword
    <3>3. PICK s \in Slot : Start(s, "change", "sent", Ask(ui.new))
      BY <3>2
    <3>4. /\ \A u \in Slot \ {s} : task'[u] = task[u]
          /\ task'[s] = [op |-> "change", at |-> "sent", arg |-> Ask(ui.new)]
      BY <1>1, <3>3 DEF TeamTasks, Start
    <3>5. ProfileForm' /\ ui'.changing /\ ui'.old = ui.old
      BY <1>1, <3>2 DEF ProfileForm
    <3>6. TeamTasks'
      <4>1. Moves({"change"})
        BY <1>1, <3>3, TaskMoves
      <4> QED
        BY <4>1 DEF Moves
    <3>7. task'[s].op = "change" /\ task'[s].arg.t = ui.new
      <4>1. task'[s].op = "change" /\ task'[s].arg = Ask(ui.new)
        BY <3>4
      <4>2. Ask(ui.new).t = ui.new
        BY DEF Ask
      <4> QED
        BY <4>1, <4>2
    <3>8. \A u \in Slot : u # s => task'[u].op # "change" /\ task'[u].op = task[u].op
      BY <2>2, <3>4
    <3>9. ChangeIsStrong'
      <4>1. \A u \in Slot : task'[u].op \in {"none", "reads", "change"}
        BY <1>1, <3>7, <3>8 DEF ChangeIsStrong
      <4>2. \A u \in Slot : task'[u].op = "change" => u = s
        BY <3>8
      <4>3. \A u, t \in Slot : task'[u].op = "change" /\ task'[t].op = "change" => u = t
        BY <4>2
      <4>4. \A u \in Slot : task'[u].op = "change"
                             => ui'.changing /\ task'[u].arg.t \in Strong \ {ui'.old}
        <5>1. ui.new \in Strong \ {ui'.old}
          BY <3>1, <3>5
        <5> QED
          BY <3>5, <3>7, <4>2, <5>1
      <4> QED
        BY <4>1, <4>3, <4>4 DEF ChangeIsStrong
    <3> QED
      BY <1>1, <2>1, <3>5, <3>6, <3>9 DEF TeamInv
  <2> QED
    BY <1>4, <2>3, <2>4 DEF handleChangePassword
<1>5. ASSUME NEW s \in Slot, fetchAllData(s) PROVE TeamInv'
  <2>1. view' = view /\ task[s].op = "reads"
    BY <1>5 DEF fetchAllData, Awaits
  <2>2. ui' \in {ui, [ui EXCEPT !.loading = FALSE]}
        /\ (Ends(s) \/ \E arg : Await(s, "sent", arg))
    BY <1>5 DEF fetchAllData
  <2>3. ProfileForm' /\ ui'.old = ui.old /\ ui'.changing = ui.changing
    BY <1>1, <2>2 DEF ProfileForm
  <2>4. Moves({})
    BY <1>1, <2>2, TaskMoves
  <2>5. \A u \in Slot : task'[u].op = "change" => task'[u].arg.t = task[u].arg.t
    <3>1. CASE Ends(s)
      BY <1>1, <3>1 DEF TeamTasks, Ends, NoTask
    <3>2. ASSUME NEW arg, Await(s, "sent", arg)
          PROVE  \A u \in Slot : task'[u].op = "change" => task'[u].arg.t = task[u].arg.t
      BY <1>1, <2>1, <3>2, AwaitKeepsOthers
    <3> QED
      BY <2>2, <3>1, <3>2
  <2> QED
    BY <2>1, <2>3, <2>4, <2>5, ProfileStays
<1>6. ASSUME NEW s \in Slot, ChangeAnswered(s) PROVE TeamInv'
  <2>1. view' = view /\ task[s].op = "change" /\ \E next : Fires(s, next)
    BY <1>6 DEF ChangeAnswered, Awaits
  <2>2. \A u \in Slot \ {s} : task[u].op # "change"
    BY <1>1, <2>1 DEF ChangeIsStrong
  <2>3. Moves({}) /\ task'[s] = NoTask
    BY <1>1, <2>1, TaskMoves DEF Fires
  <2>4. \A u \in Slot : task'[u].op \in {"none", "reads"}
    BY <1>1, <2>2, <2>3 DEF Moves, ChangeIsStrong, NoTask
  <2>5. \/ ui' = [Mounted("profile") EXCEPT !.loading = FALSE]
        \/ ui' = [ui EXCEPT !.changing = FALSE]
    BY <1>6 DEF ChangeAnswered
  <2>6. Mounted("profile") = [loading |-> TRUE, modal |-> FALSE, old |-> Nothing, new |-> Nothing,
                              confirm |-> Nothing, criteria |-> FALSE, changing |-> FALSE]
    BY DEF Mounted
  <2>7. ProfileForm'
    BY <1>1, <2>5, <2>6 DEF ProfileForm
  <2>8. ChangeIsStrong'
    BY <2>4 DEF ChangeIsStrong
  <2> QED
    BY <2>1, <2>3, <2>7, <2>8 DEF TeamInv, Moves
<1>7. ASSUME NEW s \in Slot, Confirms(s) \/ Cancels(s) PROVE TeamInv'
  <2>1. view' = view /\ task[s].op # "stop"
    BY <1>1, <1>7 DEF Confirms, Cancels, ChangeIsStrong
  <2>2. UNCHANGED ui /\ (Ends(s) \/ Await(s, "sent", task[s].arg))
    BY <1>7, <2>1 DEF Confirms, Cancels
  <2>3. Moves({})
    BY <1>1, <2>2, TaskMoves
  <2>4. \A u \in Slot : task'[u].op = "change" => task'[u].arg.t = task[u].arg.t
    <3>1. CASE Ends(s)
      BY <1>1, <3>1 DEF TeamTasks, Ends, NoTask
    <3>2. CASE Await(s, "sent", task[s].arg)
      BY <1>1, <3>2, AwaitKeepsOthers
    <3> QED
      BY <2>2, <3>1, <3>2
  <2>5. ProfileForm'
    BY <1>1, <2>2 DEF ProfileForm
  <2> QED
    BY <2>1, <2>2, <2>3, <2>4, <2>5, ProfileStays
<1>8. CASE AlertCloses
  <2>1. UNCHANGED <<task, ui, view>>
    BY <1>8 DEF AlertCloses
  <2> QED
    BY <1>1, <2>1 DEF TeamInv, TeamTasks, ProfileForm, ChangeIsStrong
<1>9. CASE TeamMoves
  BY <1>2, <1>3, <1>4, <1>9 DEF TeamMoves, setShowModal, handleTicketSubmit, handleRefresh,
     updateForm, handleCaptcha, handleRegister, OnForm, handleDeleteTicket, handleStop, Replies,
     Deploys, handleChangePage, handleFilterChange
<1>10. CASE TeamAnswers
  <2>1. \A s \in Slot : /\ task[s].op \notin {"fetch", "create", "delete", "stop", "load", "register"}
    BY <1>1 DEF ChangeIsStrong
  <2>2. ASSUME NEW s \in Slot
        PROVE  ~(\/ ServerLists(s) \/ fetchTickets(s) \/ SubmitAnswered(s) \/ DeleteAnswered(s)
                 \/ fetchInstances(s) \/ StopAnswered(s) \/ fetchActionLogs(s)
                 \/ loadData(s) \/ RegisterSends(s) \/ RegisterAnswered(s))
    BY <2>1 DEF ServerLists, fetchTickets, SubmitAnswered, DeleteAnswered, fetchInstances,
       StopAnswered, fetchActionLogs, loadData, RegisterSends, RegisterAnswered, Awaits
  <2> QED
    BY <1>5, <1>6, <1>7, <1>8, <1>10, <2>2 DEF TeamAnswers
<1> QED
  BY <1>9, <1>10 DEF TeamNext

(* However often the form is edited, closed, refused and opened again,     *)
(* each new password that is sent is strong and not the old one, which     *)
(* stays in the form until the answer (handleChangePassword).              *)
THEOREM SentPasswordsAreStrong == TeamSpec => []SentIsStrong
<1>1. TeamInv => SentIsStrong
  BY DEF TeamInv, ChangeIsStrong, SentIsStrong, Tasks
<1>2. TeamInv /\ [TeamNext]_teamVars => TeamInv'
  <2>1. ASSUME TeamInv, UNCHANGED teamVars PROVE TeamInv'
    <3>1. UNCHANGED <<task, ui, view>>
      BY <2>1 DEF teamVars
    <3> QED
      BY <2>1, <3>1 DEF TeamInv, TeamTasks, ProfileForm, ChangeIsStrong
  <2> QED
    BY <2>1, OtherPagesSendNone, ProfileKept
<1> QED
  BY <1>1, <1>2, TeamInitInv, PTL DEF TeamSpec

=============================================================================
