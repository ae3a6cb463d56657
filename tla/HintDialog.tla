----------------------------- MODULE HintDialog -----------------------------
(***************************************************************************)
(* The hints and the files of the detail panel of pages/Challenges.tsx:    *)
(* the unlocking of a hint with its dialogs, the list of hints, the PDF    *)
(* viewer and the downloads.  The server is the one HintUnlock describes:  *)
(* here it takes or refuses a payment, and may fail to answer.  The        *)
(* branches on response.errors are left out: the server only sends error.  *)
(***************************************************************************)
EXTENDS Tab

CONSTANTS
    Hint,           \* ids of the hints of the challenge, all with a cost
    Pdf             \* the PDF files of the challenge

ASSUME HintDialogAssumption ==
    Nothing \notin Hint \cup Pdf /\ \E i \in Pdf : \A j \in Pdf : i <= j

VARIABLES
    paid,       \* server: the hints unlocked
    dialog,     \* the Swal dialog on the screen: its kind and its hint
    panel,      \* hints shown unlocked, unlockingHintId, the PDF state
    agreed      \* hints whose unlocking this user has confirmed

dialogVars == <<task, paid, dialog, panel, agreed, moves>>

NoDialog == [kind |-> "none", hint |-> Nothing]

HintDialogTypeOK ==
    /\ paid \subseteq Hint /\ agreed \subseteq Hint
    /\ dialog \in [kind : {"none", "confirm", "content", "message"},
                   hint : Hint \cup {Nothing}]
    /\ panel \in [unlocked : SUBSET Hint, unlocking : Hint \cup {Nothing},
                  pdf : Pdf \cup {Nothing}, blob : Pdf \cup {Nothing}, loading : BOOLEAN]

\* The panel opens: it asks for the hints and opens the first PDF.
FirstPdf == CHOOSE i \in Pdf : \A j \in Pdf : i <= j
HintDialogInit ==
    /\ task = [NoTasks EXCEPT ![1] = [op |-> "hints", at |-> "sent", arg |-> Nothing],
                              ![2] = [op |-> "pdf", at |-> "sent", arg |-> FirstPdf]]
    /\ paid = {} /\ dialog = NoDialog /\ agreed = {} /\ moves = 0
    /\ panel = [unlocked |-> {}, unlocking |-> Nothing,
                pdf |-> FirstPdf, blob |-> Nothing, loading |-> TRUE]

-----------------------------------------------------------------------------
\* Swal.fire: the new dialog takes the place of the one on the screen, whose
\* promise resolves as dismissed.  Task s becomes t.
Fire(s, t, kind, h) ==
    /\ dialog' = [kind |-> kind, hint |-> h]
    /\ task' = [u \in Slot |->
          IF u = s THEN t
          ELSE IF task[u].at = "confirm" THEN [task[u] EXCEPT !.at = "dismissed"]
          ELSE task[u]]

\* handleUnlockHint ends with a dialog and its finally.
BugUnlockEnds(s, next, kind, h) == Fire(s, next, kind, h) /\ UNCHANGED panel
UnlockEnds(s, next, kind, h) == /\ Fire(s, next, kind, h)
                                /\ panel' = [panel EXCEPT !.unlocking = Nothing]

\* fetchHints
HintsAnswered(s) ==
    /\ Awaits(s, "hints", "sent") /\ Ends(s)
    /\ \/ panel' = [panel EXCEPT !.unlocked = paid]
       \/ UNCHANGED panel
    /\ UNCHANGED <<paid, dialog, agreed>>

\* A click on a hint; a dialog on the screen keeps the user from it.
handleUnlockHint(s) ==
    /\ dialog = NoDialog /\ FreeSlot(s)
    /\ \E h \in Hint \ {panel.unlocking} :
          /\ Start(s, "unlock", "details", h)
          /\ panel' = [panel EXCEPT !.unlocking = h]
    /\ UNCHANGED <<paid, dialog, agreed>>

\* FetchHintDetails: the content is there if the hint is unlocked.
FetchHintDetails(s) ==
    LET h == task[s].arg IN
    /\ Awaits(s, "unlock", "details")
    /\ \/ h \in paid /\ UnlockEnds(s, NoTask, "content", h)
       \/ UnlockEnds(s, NoTask, "message", h)
       \/ /\ h \notin paid
          /\ Fire(s, [task[s] EXCEPT !.at = "confirm"], "confirm", h)
          /\ UNCHANGED panel
    /\ UNCHANGED <<paid, agreed>>

\* The user answers the confirmation.
Confirm(s) ==
    /\ Awaits(s, "unlock", "confirm") /\ dialog.kind = "confirm"
    /\ dialog' = NoDialog
    /\ \/ /\ Await(s, "unlocking", task[s].arg)
          /\ agreed' = agreed \cup {task[s].arg}
       \/ Await(s, "dismissed", task[s].arg) /\ UNCHANGED agreed
    /\ UNCHANGED <<paid, panel>>
BugDismissed(s) == \* a dialog that another one replaced counts as confirmed
    /\ Awaits(s, "unlock", "dismissed")
    /\ Await(s, "unlocking", task[s].arg)
    /\ UNCHANGED <<paid, dialog, panel, agreed>>
Dismissed(s) == /\ Awaits(s, "unlock", "dismissed")
                /\ UnlockEnds(s, NoTask, "message", task[s].arg)
                /\ UNCHANGED <<paid, agreed>>

\* HintUnlocks: the server takes the payment, refuses it, or its answer is lost.
HintUnlocks(s) ==
    LET h == task[s].arg IN
    /\ Awaits(s, "unlock", "unlocking")
    /\ \/ /\ h \notin paid /\ paid' = paid \cup {h}
          /\ \/ Await(s, "content", h) /\ UNCHANGED <<dialog, panel>>
             \/ UnlockEnds(s, NoTask, "message", h)
       \/ UnlockEnds(s, NoTask, "message", h) /\ UNCHANGED paid
    /\ UNCHANGED agreed

\* The content is read again; then the list, which is not awaited.
UnlockedContent(s) ==
    LET h == task[s].arg IN
    /\ Awaits(s, "unlock", "content")
    /\ \/ UnlockEnds(s, [op |-> "hints", at |-> "sent", arg |-> Nothing], "content", h)
       \/ UnlockEnds(s, NoTask, "message", h)
    /\ UNCHANGED <<paid, agreed>>

CloseDialog == /\ dialog.kind \in {"content", "message"}
               /\ dialog' = NoDialog
               /\ UNCHANGED <<task, paid, panel, agreed>>

-----------------------------------------------------------------------------
\* A tab of the PDF viewer is clicked; the answer of an earlier one may still
\* come, and come last.
handlePdfClick(s) ==
    /\ dialog = NoDialog /\ panel.pdf # Nothing /\ FreeSlot(s)
    /\ \E i \in Pdf :
          /\ Start(s, "pdf", "sent", i)
          /\ panel' = [panel EXCEPT !.pdf = i, !.loading = TRUE]
    /\ UNCHANGED <<paid, dialog, agreed>>
PdfAnswered(s) ==
    /\ Awaits(s, "pdf", "sent")
    /\ \/ /\ Ends(s)
          /\ panel' = [panel EXCEPT !.blob = task[s].arg, !.loading = FALSE]
          /\ UNCHANGED dialog
       \/ /\ Fire(s, NoTask, "message", Nothing)
          /\ panel' = [panel EXCEPT !.pdf = Nothing, !.loading = FALSE]
    /\ UNCHANGED <<paid, agreed>>

handleDownloadFile(s) == /\ dialog = NoDialog /\ FreeSlot(s)
                         /\ Start(s, "file", "sent", Nothing)
                         /\ UNCHANGED <<paid, dialog, panel, agreed>>
FileAnswered(s) == /\ Awaits(s, "file", "sent")
                   /\ \/ Ends(s) /\ UNCHANGED dialog
                      \/ Fire(s, NoTask, "message", Nothing)
                   /\ UNCHANGED <<paid, panel, agreed>>

HintDialogNext ==
    \/ \E s \in Slot : /\ handleUnlockHint(s) \/ handlePdfClick(s) \/ handleDownloadFile(s)
                       /\ Moved
    \/ /\ \/ CloseDialog
          \/ \E s \in Slot : \/ HintsAnswered(s) \/ FetchHintDetails(s) \/ Confirm(s)
                             \/ Dismissed(s) \/ HintUnlocks(s) \/ UnlockedContent(s)
                             \/ PdfAnswered(s) \/ FileAnswered(s)
       /\ UNCHANGED moves

HintDialogSpec == HintDialogInit /\ [][HintDialogNext]_dialogVars

-----------------------------------------------------------------------------
\* Points are spent only on a hint whose cost the user has agreed to, although
\* a dialog of another handler may replace the confirmation at any time
\* (handleUnlockHint: "if (result.isConfirmed)").
PaidIsAgreed == paid \subseteq agreed

\* A hint button that is disabled, and a viewer that says "Loading PDF", have a
\* handler that will free them (the finally of both handlers), although two
\* handlers of a kind may be pending and share one flag.
ButtonsAreFreed ==
    /\ panel.unlocking # Nothing => \E s \in Slot : /\ task[s].op = "unlock"
                                                 /\ task[s].arg = panel.unlocking
    /\ panel.loading => \E s \in Slot : task[s].op = "pdf"
=============================================================================
