----------------------------- MODULE TeamPages -----------------------------
(***************************************************************************)
(* The contestant's other pages: Tickets, TicketDetail, Instances,         *)
(* ActionLogs, Profile and Register.  One of them is mounted; its view     *)
(* never changes, its state is ui.  SweetAlert has one popup: opening      *)
(* another dismisses the dialog a function is waiting for.                 *)
(***************************************************************************)
EXTENDS Tab

CONSTANTS
    Item,       \* ids of tickets, and of challenges with an instance
    Password,   \* passwords typed; Nothing is the empty one
    Strong,     \* those that meet the five criteria
    Logs,       \* numbers of logs an answer or a filter may leave
    LogRows     \* rows per page offered

ASSUME TeamAssumption ==
    /\ Item \subseteq Nat \ {0}
    /\ Nothing \in Password /\ Strong \subseteq Password \ {Nothing}
    /\ Logs \subseteq Nat /\ LogRows \subseteq Nat \ {0} /\ LogRows # {}

VARIABLES
    view,       \* the page that is mounted
    ui,         \* its React state
    popup,      \* the popup: none, an alert, or the function that waits for it
    served      \* server: status of each ticket, or of each instance

teamVars == <<task, moves, view, ui, popup, served>>

Alert == -1
Views == {"tickets", "ticket", "instances", "logs", "profile", "register"}

Ask(t) == [t |-> t, list |-> {}]
Reads == {"user", "points", "solves"}

\* The state at the mount, and the function its effect has started.
Mounted(v) ==
    CASE v = "tickets" -> [loading |-> TRUE, modal |-> FALSE, submitting |-> FALSE, list |-> {}]
      [] v = "ticket" -> [loading |-> TRUE, found |-> FALSE]
      [] v = "instances" -> [loading |-> TRUE, refreshing |-> FALSE, list |-> {}, stopping |-> {}]
      [] v = "logs" -> [loading |-> TRUE, found |-> 0, page |-> 0, rows |-> CHOOSE n \in LogRows : TRUE]
      [] v = "profile" -> [loading |-> TRUE, modal |-> FALSE, old |-> Nothing, new |-> Nothing,
                           confirm |-> Nothing, criteria |-> FALSE, changing |-> FALSE]
      [] OTHER -> [loading |-> TRUE, left |-> FALSE, metadata |-> FALSE, valid |-> FALSE,
                   captcha |-> FALSE, submitting |-> FALSE]
FirstTask(v) ==
    CASE v = "profile" -> [op |-> "reads", at |-> "sent", arg |-> [Ask(Nothing) EXCEPT !.list = Reads]]
      [] v = "register" -> [op |-> "load", at |-> "config", arg |-> Ask(Nothing)]
      [] OTHER -> [op |-> "fetch", at |-> "sent", arg |-> Ask(Nothing)]

TeamInit ==
    /\ view \in Views
    /\ ui = Mounted(view) /\ task = [NoTasks EXCEPT ![1] = FirstTask(view)]
    /\ popup = Nothing /\ moves = 0
    /\ served \in [Item -> {"none", "open"}]

-----------------------------------------------------------------------------
(* The popup.                                                              *)

\* Swal.fire: whoever waits for the popup that is open is dismissed and ends.
Fires(s, next) ==
    /\ popup' = next
    /\ task' = [x \in Slot |-> IF x = s \/ x = popup THEN NoTask ELSE task[x]]
FiresAnd(s, t) ==
    /\ popup' = Alert
    /\ task' = [x \in Slot |-> IF x = s THEN t ELSE IF x = popup THEN NoTask ELSE task[x]]
AlertCloses == popup = Alert /\ popup' = Nothing /\ UNCHANGED <<task, view, ui, served>>

\* The page behind a popup, or replaced by its loading message, takes no click.
Usable == popup = Nothing /\ ~ui.loading
FetchOf(t) == [op |-> "fetch", at |-> "sent", arg |-> Ask(t)]
Existing == {t \in Item : served[t] # "none"}

\* The list is read by the server in one step and received in another; an answer
\* without a list leaves the one shown.
ServerLists(s) ==
    /\ Awaits(s, "fetch", "sent")
    /\ Await(s, "read", [task[s].arg EXCEPT !.list = Existing])
    /\ UNCHANGED <<view, ui, popup, served>>

-----------------------------------------------------------------------------
(* Tickets and TicketDetail.                                               *)

fetchTickets(s) ==
    /\ view \in {"tickets", "ticket"} /\ task[s].op = "fetch"
    /\ \/ /\ task[s].at = "read" /\ Ends(s)
          /\ \/ /\ view = "tickets"
                /\ \E list \in {task[s].arg.list, ui.list} :
                      ui' = [ui EXCEPT !.loading = FALSE, !.list = list]
             \/ /\ view = "ticket"
                /\ ui' = [ui EXCEPT !.loading = FALSE, !.found = task[s].arg.list # {}]
          /\ UNCHANGED popup
       \/ /\ ui' = [ui EXCEPT !.loading = FALSE]
          /\ IF view = "tickets" THEN Fires(s, Alert) ELSE Ends(s) /\ UNCHANGED popup
    /\ UNCHANGED <<view, served>>

setShowModal(shown) ==
    /\ view = "tickets" /\ Usable /\ ~ui.submitting /\ ui.modal # shown
    /\ ui' = [ui EXCEPT !.modal = shown] /\ UNCHANGED <<task, view, popup, served>>
handleTicketSubmit ==
    /\ view = "tickets" /\ Usable /\ ui.modal /\ ~ui.submitting
    /\ \E s \in Slot : FreeSlot(s) /\ Start(s, "create", "sent", Ask(Nothing))
    /\ ui' = [ui EXCEPT !.submitting = TRUE] /\ UNCHANGED <<view, popup, served>>

\* A ticket created closes the form and the list is fetched again.
Created(u) == [u EXCEPT !.modal = FALSE, !.submitting = FALSE, !.loading = TRUE]
SubmitAnswered(s) ==
    /\ Awaits(s, "create", "sent")
    /\ \/ /\ \E t \in Item \ Existing : served' = [served EXCEPT ![t] = "open"]
          /\ ui' = Created(ui) /\ FiresAnd(s, FetchOf(Nothing))
       \/ /\ ui' = [ui EXCEPT !.submitting = FALSE] /\ Fires(s, Alert) /\ UNCHANGED served
    /\ UNCHANGED view

\* Only open tickets without a reply have the button; the list may be old.
handleDeleteTicket(t) ==
    /\ view = "tickets" /\ Usable /\ ~ui.modal /\ t \in ui.list
    /\ \E s \in Slot : FreeSlot(s) /\ Start(s, "delete", "dialog", Ask(t)) /\ popup' = s
    /\ UNCHANGED <<view, ui, served>>
DeleteAnswered(s) ==
    LET t == task[s].arg.t IN
    /\ Awaits(s, "delete", "sent")
    /\ \/ /\ served[t] = "open" /\ served' = [served EXCEPT ![t] = "none"]
          /\ ui' = [ui EXCEPT !.loading = TRUE] /\ FiresAnd(s, FetchOf(Nothing))
       \/ Fires(s, Alert) /\ UNCHANGED <<ui, served>>
    /\ UNCHANGED view

\* The organisers answer a ticket; it can no longer be deleted.
Replies(t) ==
    /\ view = "tickets" /\ served[t] = "open" /\ served' = [served EXCEPT ![t] = "replied"]
    /\ UNCHANGED <<task, view, ui, popup>>

-----------------------------------------------------------------------------
(* Instances.                                                              *)

fetchInstances(s) ==
    /\ view = "instances" /\ task[s].op = "fetch"
    /\ LET t == task[s].arg.t
           done == [ui EXCEPT !.loading = FALSE, !.refreshing = FALSE, !.stopping = @ \ {t}]
       IN \/ /\ task[s].at = "read" /\ Ends(s)
             /\ \E list \in {task[s].arg.list, ui.list} : ui' = [done EXCEPT !.list = list]
             /\ UNCHANGED popup
          \/ ui' = done /\ Fires(s, Alert)
    /\ UNCHANGED <<view, served>>
handleRefresh ==
    /\ view = "instances" /\ Usable /\ ~ui.refreshing
    /\ \E s \in Slot : FreeSlot(s) /\ Start(s, "fetch", "sent", Ask(Nothing))
    /\ ui' = [ui EXCEPT !.refreshing = TRUE] /\ UNCHANGED <<view, popup, served>>

\* The button is disabled while its challenge is being stopped.
Stoppable(i) == i \in ui.list \ ui.stopping
handleStop(i) ==
    /\ view = "instances" /\ Usable /\ Stoppable(i)
    /\ \E s \in Slot : FreeSlot(s) /\ Start(s, "stop", "dialog", Ask(i)) /\ popup' = s
    /\ UNCHANGED <<view, ui, served>>

\* After a stop the list is fetched by the same function, which then takes the
\* mark back; an error takes it back at once.
StopAnswered(s) ==
    LET i == task[s].arg.t IN
    /\ Awaits(s, "stop", "sent")
    /\ \/ /\ served' = [served EXCEPT ![i] = "none"]
          /\ ui' = [ui EXCEPT !.loading = TRUE] /\ FiresAnd(s, FetchOf(i))
       \/ /\ ui' = [ui EXCEPT !.stopping = @ \ {i}] /\ Fires(s, Alert) /\ UNCHANGED served
    /\ UNCHANGED view
Deploys(i) ==
    /\ view = "instances"
    /\ served' = [served EXCEPT ![i] = IF @ = "none" THEN "open" ELSE "none"]
    /\ UNCHANGED <<task, view, ui, popup>>

\* The confirmation of a stop or of a deletion.
Confirms(s) ==
    /\ task[s].at = "dialog" /\ popup = s /\ popup' = Nothing
    /\ Await(s, "sent", task[s].arg)
    /\ ui' = IF task[s].op = "stop" THEN [ui EXCEPT !.stopping = @ \cup {task[s].arg.t}] ELSE ui
    /\ UNCHANGED <<view, served>>
Cancels(s) ==
    /\ task[s].at = "dialog" /\ popup = s /\ popup' = Nothing /\ Ends(s)
    /\ UNCHANGED <<view, ui, served>>

-----------------------------------------------------------------------------
(* ActionLogs.                                                             *)

LogPages(u) == (u.found + u.rows - 1) \div u.rows
fetchActionLogs(s) ==
    /\ view = "logs" /\ task[s].op = "fetch" /\ task[s].at = "read" /\ Ends(s)
    /\ \E n \in Logs : ui' = [ui EXCEPT !.loading = FALSE, !.found = n]
    /\ UNCHANGED <<view, popup, served>>
handleChangePage(p) ==
    /\ view = "logs" /\ Usable /\ p \in 0..(LogPages(ui) - 1) /\ p \in {ui.page - 1, ui.page + 1}
    /\ ui' = [ui EXCEPT !.page = p] /\ UNCHANGED <<task, view, popup, served>>

\* The rows per page, the search and the two filters go back to the first page.
Filtered(u, n, r) == [u EXCEPT !.found = n, !.rows = r, !.page = 0]
handleFilterChange(n, r) ==
    /\ view = "logs" /\ Usable /\ ui' = Filtered(ui, n, r)
    /\ UNCHANGED <<task, view, popup, served>>

-----------------------------------------------------------------------------
(* Profile.                                                                *)

\* The three reads of fetchAllData; the page shows when all have ended, well or not.
fetchAllData(s) ==
    /\ Awaits(s, "reads", "sent")
    /\ \E r \in task[s].arg.list :
          IF task[s].arg.list = {r}
          THEN Ends(s) /\ ui' = [ui EXCEPT !.loading = FALSE]
          ELSE Await(s, "sent", [task[s].arg EXCEPT !.list = @ \ {r}]) /\ UNCHANGED ui
    /\ UNCHANGED <<view, popup, served>>
setShowPasswordModal(shown) ==
    /\ view = "profile" /\ Usable /\ ~ui.changing /\ ui.modal # shown
    /\ ui' = [ui EXCEPT !.modal = shown] /\ UNCHANGED <<task, view, popup, served>>

\* The criteria are those of the new password as it is typed.
BugTyped(u, field, p) == \* the criteria are computed from the state before the edit
    IF field = "new" THEN [u EXCEPT !.new = p, !.criteria = u.new \in Strong]
    ELSE [u EXCEPT ![field] = p]
Typed(u, field, p) ==
    IF field = "new" THEN [u EXCEPT !.new = p, !.criteria = p \in Strong]
    ELSE [u EXCEPT ![field] = p]
handlePasswordInputChange(field, p) ==
    /\ view = "profile" /\ Usable /\ ui.modal /\ ~ui.changing /\ p # ui[field]
    /\ ui' = Typed(ui, field, p) /\ UNCHANGED <<task, view, popup, served>>

\* What is not acceptable is an alert.
Acceptable(u) ==
    /\ Nothing \notin {u.old, u.new, u.confirm} /\ u.new = u.confirm
    /\ u.old # u.new /\ u.criteria
handleChangePassword ==
    /\ view = "profile" /\ Usable /\ ui.modal /\ ~ui.changing
    /\ Nothing \notin {ui.old, ui.new, ui.confirm} /\ ui.new = ui.confirm
    /\ IF Acceptable(ui)
       THEN /\ \E s \in Slot : FreeSlot(s) /\ Start(s, "change", "sent", Ask(ui.new))
            /\ ui' = [ui EXCEPT !.changing = TRUE] /\ UNCHANGED popup
       ELSE popup' = Alert /\ UNCHANGED <<task, ui>>
    /\ UNCHANGED <<view, served>>
ChangeAnswered(s) ==
    /\ Awaits(s, "change", "sent") /\ Fires(s, Alert)
    /\ \/ ui' = [Mounted("profile") EXCEPT !.loading = FALSE]
       \/ ui' = [ui EXCEPT !.changing = FALSE]
    /\ UNCHANGED <<view, served>>

-----------------------------------------------------------------------------
(* Register.                                                               *)

\* loadData: the page is left when registration is closed or its configuration
\* cannot be read; without metadata the form is there but refuses everything.
loadData(s) ==
    /\ task[s].op = "load"
    /\ \/ task[s].at = "config" /\ Await(s, "metadata", task[s].arg) /\ UNCHANGED ui
       \/ /\ task[s].at = "config" /\ Ends(s)
          /\ ui' = [ui EXCEPT !.left = TRUE, !.loading = FALSE]
       \/ /\ task[s].at = "metadata" /\ Ends(s)
          /\ \E ok \in BOOLEAN : ui' = [ui EXCEPT !.loading = FALSE, !.metadata = ok]
    /\ UNCHANGED <<view, popup, served>>
OnForm == view = "register" /\ ~ui.loading /\ ~ui.left
updateForm ==
    /\ OnForm /\ ~ui.submitting /\ ui' = [ui EXCEPT !.valid = ~@]
    /\ UNCHANGED <<task, view, popup, served>>

\* The captcha succeeds, expires or fails at any time.
handleCaptcha ==
    /\ OnForm /\ ui' = [ui EXCEPT !.captcha = ~@]
    /\ UNCHANGED <<task, view, popup, served>>

\* The form is checked before a frame is awaited, the captcha is read after it.
handleRegister ==
    /\ OnForm /\ ~ui.submitting /\ ui.metadata /\ ui.valid /\ ui.captcha
    /\ \E s \in Slot : FreeSlot(s) /\ Start(s, "register", "frame", Ask(Nothing))
    /\ ui' = [ui EXCEPT !.submitting = TRUE] /\ UNCHANGED <<view, popup, served>>
RegisterSends(s) ==
    /\ Awaits(s, "register", "frame")
    /\ Await(s, "sent", [task[s].arg EXCEPT !.list = IF ui.captcha THEN {"captcha"} ELSE {}])
    /\ UNCHANGED <<view, ui, popup, served>>
Registered(u) == [u EXCEPT !.captcha = FALSE, !.submitting = FALSE]
RegisterAnswered(s) ==
    /\ Awaits(s, "register", "sent") /\ Ends(s)
    /\ \/ task[s].arg.list # {} /\ ui' = [ui EXCEPT !.left = TRUE, !.submitting = FALSE]
       \/ ui' = Registered(ui)
    /\ UNCHANGED <<view, popup, served>>

-----------------------------------------------------------------------------
TeamMoves ==
    \/ \E shown \in BOOLEAN : setShowModal(shown) \/ setShowPasswordModal(shown)
    \/ handleTicketSubmit \/ handleRefresh \/ handleChangePassword
    \/ updateForm \/ handleCaptcha \/ handleRegister
    \/ \E t \in Item : handleDeleteTicket(t) \/ handleStop(t) \/ Replies(t) \/ Deploys(t)
    \/ \E p \in 0..(IF view = "logs" THEN ui.page + 1 ELSE 0) : handleChangePage(p)
    \/ \E n \in Logs, r \in LogRows : handleFilterChange(n, r)
    \/ \E f \in {"old", "new", "confirm"}, p \in Password : handlePasswordInputChange(f, p)

TeamAnswers ==
    \/ AlertCloses
    \/ \E s \in Slot :
        \/ ServerLists(s) \/ fetchTickets(s) \/ SubmitAnswered(s) \/ DeleteAnswered(s)
        \/ fetchInstances(s) \/ StopAnswered(s) \/ Confirms(s) \/ Cancels(s)
        \/ fetchActionLogs(s) \/ fetchAllData(s) \/ ChangeAnswered(s)
        \/ loadData(s) \/ RegisterSends(s) \/ RegisterAnswered(s)

TeamNext ==
    \/ Moved /\ TeamMoves
    \/ UNCHANGED moves /\ TeamAnswers

TeamSpec == TeamInit /\ [][TeamNext]_teamVars

-----------------------------------------------------------------------------
PendingOf(op, t) == {s \in Slot : task[s].op = op /\ task[s].arg.t = t}

(* Every flag that disables a button or hides a page has the functions     *)
(* pending that will take it back, exactly one where a second would end    *)
(* the other's flag: no second stop of a challenge that is being stopped,  *)
(* no second form in flight (finally blocks of the handlers).              *)
WaitsAreAttended ==
    /\ ui.loading => Tasks({"fetch", "reads", "load"}, {"sent", "read", "config", "metadata"}) # {}
    /\ view = "tickets" => ui.submitting <=> Cardinality(Tasks({"create"}, {"sent"})) = 1
    /\ view = "profile" => ui.changing <=> Cardinality(Tasks({"change"}, {"sent"})) = 1
    /\ view = "register" => ui.submitting <=> Cardinality(Tasks({"register"}, {"frame", "sent"})) = 1
    /\ view = "instances" => \A i \in Item :
          Cardinality({s \in PendingOf("stop", i) : task[s].at = "sent"}
                        \cup PendingOf("fetch", i)) = IF i \in ui.stopping THEN 1 ELSE 0

(* The criteria shown, which the button does not look at, are those of the *)
(* new password: what is sent meets them all and is not the old password,  *)
(* however often the form was edited, closed, refused and opened again     *)
(* (handlePasswordInputChange, handleChangePassword).                      *)
SentIsStrong == \A s \in Tasks({"change"}, {"sent"}) : task[s].arg.t \in Strong \ {ui.old}

(* The page of the log that is shown exists (handleChangePage and the      *)
(* handlers of the filters).                                               *)
LogPageExists == view = "logs" => ui.page = 0 \/ ui.page < LogPages(ui)
=============================================================================
