----------------------------- MODULE AdminPages -----------------------------
(***************************************************************************)
(* The administrators' pages of teams, users, submissions, challenges and  *)
(* the scoreboard: tables whose checked rows are deleted, corrected or     *)
(* edited by one request each (Promise.all), the export of users with new  *)
(* passwords, the form that moves users into a team, comments and the      *)
(* media library.  One page is modelled at a time; another administrator   *)
(* works on the same rows.                                                 *)
(***************************************************************************)
EXTENDS Tab

CONSTANTS
    Row         \* ids of the rows of a page: teams, users, submissions, ...

ASSUME AdminAssumption == Row \subseteq Nat \ {0}

VARIABLES
    screen,     \* the page
    adm,        \* its data
    srv         \* server: the state of each row, the contest, the passwords

adminVars == <<task, moves, screen, adm, srv>>

Tables == {"team", "user", "users", "teams", "submissions", "challenges", "scoreboard"}
States(p) ==
    CASE p \in {"team", "user"} -> {"solve", "fail", "award", "missing"}
      [] p = "submissions" -> {"solve", "fail"}
      [] p = "scoreboard" -> {"live", "hid"}
      [] p = "members" -> {"free", "other"}
      [] OTHER -> {"live"}

Req(kind, ids, value) == [kind |-> kind, ids |-> ids, left |-> ids, ok |-> TRUE,
                          value |-> value, listed |-> {}]
NoForm == -1        \* no dialog with a form has been opened on the page

\* The data of a page when it has been loaded.
Fresh(p, rows) ==
    CASE p = "members" -> [picked |-> {}, results |-> {}, value |-> Nothing,
                           awaiting |-> FALSE, query |-> {}]
      [] p = "comments" -> [page |-> 1, list |-> Nothing, pages |-> Nothing]
      [] p = "media" -> [files |-> {}, chosen |-> Nothing]
      [] OTHER -> [seen |-> rows, checked |-> {}, queries |-> {}, first |-> NoForm,
                   stats |-> FALSE, busy |-> FALSE, drop |-> FALSE, tick |-> FALSE,
                   locked |-> FALSE]
FirstLoad(p) == IF p \in {"comments", "media"}
                THEN [op |-> "load", at |-> "sent", arg |-> Req("load", {}, 1)] ELSE NoTask

AdminInit ==
    /\ screen \in Tables \cup {"members", "comments", "media"}
    /\ \E rows \in [Row -> States(screen)] :
          /\ srv = [row |-> rows, contest |-> "before", resets |-> 0]
          /\ adm = Fresh(screen, rows)
    /\ task = [NoTasks EXCEPT ![1] = FirstLoad(screen)]
    /\ moves = 0

-----------------------------------------------------------------------------
(* The page and its reload.                                                *)

\* What a request makes of a row; hiding is asked for by value 2 only.
Made(kind, value, was) ==
    CASE kind = "delete" -> "none"
      [] kind \in {"correct", "solve"} -> "solve"
      [] kind = "incorrect" -> "fail"
      [] kind = "toggle" -> IF value = 2 THEN "hid" ELSE "live"
      [] kind = "remove" -> "free"
      [] kind = "add" -> "ours"
      [] OTHER -> was
Applies(a, i) == srv' = [srv EXCEPT !.row[i] = Made(a.kind, a.value, @)]
Accepted(a, i) ==
    /\ srv.row[i] # "none"
    /\ a.kind = "remove" => <<i, srv.row[i]>> \in a.listed
    /\ a.kind = "add" => srv.row[i] = "free"

\* A reload, or the way to another page, forgets every function; a request that
\* has been sent may still reach the server.
Reloads(t, rows) ==
    /\ adm' = Fresh(screen, rows)
    /\ task' = [r \in Slot |-> IF t[r].op \in {"batch", "row"} THEN [t[r] EXCEPT !.at = "gone"]
                               ELSE IF FirstLoad(screen) # NoTask /\ r = 1 THEN FirstLoad(screen)
                               ELSE NoTask]
GoneApplied(s) ==
    LET a == task[s].arg IN
    /\ task[s].at = "gone" /\ Ends(s) /\ UNCHANGED <<screen, adm>>
    /\ \E X \in SUBSET {i \in a.left : Accepted(a, i)} :
          srv' = [srv EXCEPT !.row = [i \in Row |-> IF i \in X THEN Made(a.kind, a.value, @[i])
                                                    ELSE @[i]]]
anotherAdmin ==
    /\ screen \in Tables \cup {"members"}
    /\ \E i \in Row, st \in States(screen) \cup {"none"} :
          srv.row[i] # "none" /\ srv' = [srv EXCEPT !.row[i] = st]
    /\ UNCHANGED <<task, screen, adm>>

-----------------------------------------------------------------------------
(* Tables.                                                                 *)

checkRow(i) ==
    /\ screen \in Tables /\ adm.queries = {} /\ adm.seen[i] # "none"
    /\ adm' = [adm EXCEPT !.checked = IF i \in @ THEN @ \ {i} ELSE @ \cup {i}]
    /\ UNCHANGED <<task, screen, srv>>

\* A button opens a dialog about the rows checked by then.  A dialog that has been
\* answered stays in the document: its form is found first by its id, and the form
\* of a later dialog is not the one that is read.
Query(kind, ids, form) ==
    [kind |-> kind, ids |-> ids, form |-> form, mine |-> form /\ adm.first = NoForm]
Opened(kind, ids, form) ==
    adm' = [adm EXCEPT !.queries = @ \cup {Query(kind, ids, form)},
                       !.first = IF form /\ @ = NoForm THEN Nothing ELSE @]
Checked(from) == {i \in adm.checked : adm.seen[i] \in from}
OpensQuery(kind, from, form) ==
    /\ adm.queries = {} /\ Opened(kind, Checked(from), form) /\ UNCHANGED <<task, screen, srv>>

teamCorrect == screen = "team" /\ OpensQuery("correct", {"fail"}, FALSE)
teamDelete == screen = "team" /\ \E st \in {"solve", "fail"} : OpensQuery("delete", {st}, FALSE)
teamDeleteAwards == screen = "team" /\ OpensQuery("delete", {"award"}, FALSE)
teamSolves == screen = "team" /\ OpensQuery("members", {"missing"}, FALSE)
userCorrect == screen = "user" /\ OpensQuery("correct", {"fail"}, FALSE)
userDelete == screen = "user" /\ \E st \in {"solve", "fail"} : OpensQuery("delete", {st}, FALSE)
userDeleteAwards == screen = "user" /\ OpensQuery("delete", {"award"}, FALSE)
userSolves == screen = "user" /\ OpensQuery("solve", {"missing"}, FALSE)
deleteSelectedUsers == screen = "users" /\ OpensQuery("delete", {"live"}, FALSE)
bulkEditUsers == screen = "users" /\ OpensQuery("edit", {"live"}, TRUE)
deleteSelectedChallenges == screen = "challenges" /\ OpensQuery("delete", {"live"}, FALSE)
bulkEditChallenges == screen = "challenges" /\ OpensQuery("edit", {"live"}, TRUE)
deleteSelectedSubmissions == screen = "submissions" /\ OpensQuery("delete", {"solve", "fail"}, FALSE)
correctSubmissions ==
    screen = "submissions" /\ adm.checked # {} /\ OpensQuery("correct", {"solve", "fail"}, FALSE)
incorrectSubmissions ==
    screen = "submissions" /\ adm.checked # {} /\ OpensQuery("incorrect", {"solve", "fail"}, FALSE)
bulkToggleAccounts == screen = "scoreboard" /\ OpensQuery("toggle", {"live", "hid"}, TRUE)
deleteSelectedTeams == screen = "teams" /\ OpensQuery("delete", {"live"}, FALSE)

\* bulkEditTeams loads the brackets before its dialog, so that several may open.
bulkEditTeams ==
    /\ screen = "teams" /\ adm.queries = {} /\ UNCHANGED <<screen, adm, srv>>
    /\ \E s \in Slot : FreeSlot(s) /\ Start(s, "brackets", "sent", Req("edit", Checked({"live"}), 0))
BracketsKnown(s) ==
    /\ Awaits(s, "brackets", "sent") /\ Ends(s)
    /\ Opened("edit", task[s].arg.ids, TRUE) /\ UNCHANGED <<screen, srv>>

fillQuery(q, v) ==
    /\ q.mine /\ v # adm.first
    /\ adm' = [adm EXCEPT !.first = v] /\ UNCHANGED <<task, screen, srv>>

\* Yes: one request per row, together.  Solving for a team asks first for whom.
Sent(q) == Req(q.kind, q.ids, IF q.form THEN adm.first ELSE Nothing)
queryYes(q) ==
    LET closed == [adm EXCEPT !.queries = @ \ {q}] IN
    /\ UNCHANGED <<screen, srv>>
    /\ IF q.kind = "members"
       THEN /\ adm' = [closed EXCEPT !.queries = @ \cup {Query("solve", q.ids, TRUE)},
                                     !.first = IF @ = NoForm THEN Nothing ELSE @]
            /\ UNCHANGED task
       ELSE IF q.ids = {} THEN Reloads(task, srv.row)
       ELSE /\ adm' = closed
            /\ \E s \in Slot : FreeSlot(s) /\ Start(s, "batch", "sent", Sent(q))
queryNo(q) ==
    adm' = [adm EXCEPT !.queries = @ \ {q}] /\ UNCHANGED <<task, screen, srv>>

\* The page is loaded again when every request has been answered, by whatever; a
\* request that fails on the network stops that.
AnsweredOne(a, i, ok) == [a EXCEPT !.left = @ \ {i}, !.ok = @ /\ ok]
BatchAnswered(s, i) ==
    LET a == task[s].arg IN
    /\ Awaits(s, "batch", "sent") /\ screen \in Tables /\ i \in a.left
    /\ \E ok \in BOOLEAN :
          LET b == AnsweredOne(a, i, ok) IN
          /\ \/ ok /\ Accepted(a, i) /\ Applies(a, i)
             \/ UNCHANGED srv
          /\ IF b.left # {} THEN Await(s, "sent", b) /\ UNCHANGED adm
             ELSE IF ~b.ok THEN Ends(s) /\ UNCHANGED adm
             ELSE Reloads([task EXCEPT ![s] = NoTask], srv'.row)
    /\ UNCHANGED screen

\* One row at a time: the buttons of the scoreboard show a state once it has been
\* accepted; a member or a submission taken away leaves the table.
toggleAccount(i) ==
    /\ screen = "scoreboard" /\ adm.queries = {}
    /\ \E s \in Slot : FreeSlot(s)
          /\ Start(s, "row", "sent", Req("toggle", {i}, IF adm.seen[i] = "live" THEN 2 ELSE 1))
    /\ UNCHANGED <<screen, adm, srv>>
deleteRow(i) ==
    /\ screen \in {"team", "submissions"} /\ adm.queries = {} /\ adm.seen[i] # "none"
    /\ \E s \in Slot : FreeSlot(s) /\ Start(s, "row", "sent", Req("delete", {i}, Nothing))
    /\ UNCHANGED <<screen, adm, srv>>
RowAnswered(s) ==
    LET a == task[s].arg  i == CHOOSE j \in a.ids : TRUE IN
    /\ Awaits(s, "row", "sent") /\ Ends(s) /\ UNCHANGED screen
    /\ \/ /\ Accepted(a, i) /\ Applies(a, i)
          /\ adm' = [adm EXCEPT !.seen[i] = srv'.row[i],
                                !.checked = IF a.kind = "delete" THEN @ \ {i} ELSE @]
       \/ UNCHANGED <<adm, srv>>

\* The forms of teams and users: accepted, the page is loaded again or left; refused,
\* they show the errors and can be sent again.  The link of an invitation is shown.
SendsForm(p, kind) ==
    /\ screen = p /\ adm.queries = {} /\ UNCHANGED <<screen, adm, srv>>
    /\ \E s \in Slot : FreeSlot(s) /\ Start(s, "form", "sent", Req(kind, {}, Nothing))
updateTeam == SendsForm("team", "form")
setCaptain == SendsForm("team", "captain")
deleteTeam == SendsForm("team", "delete")
awardTeam == SendsForm("team", "award")
inviteTeam == SendsForm("team", "invite")
updateUser == SendsForm("user", "form")
deleteUser == SendsForm("user", "delete")
awardUser == SendsForm("user", "award")
FormAnswered(s) ==
    /\ Awaits(s, "form", "sent") /\ UNCHANGED <<screen, srv>>
    /\ \/ task[s].arg.kind # "invite" /\ Reloads([task EXCEPT ![s] = NoTask], srv.row)
       \/ Ends(s) /\ UNCHANGED adm

\* The statistics of a team or a user: graphs when shown, then again at intervals
\* until the dialog is hidden.
showStatistics ==
    /\ screen \in {"team", "user"} /\ adm.queries = {} /\ ~adm.stats
    /\ \E s \in Slot : FreeSlot(s) /\ Start(s, "poll", "timer", Req("poll", {}, Nothing))
    /\ adm' = [adm EXCEPT !.stats = TRUE] /\ UNCHANGED <<screen, srv>>
hideStatistics ==
    /\ screen \in {"team", "user"} /\ adm.queries = {} /\ adm.stats
    /\ task' = [r \in Slot |-> IF task[r].op = "poll" THEN NoTask ELSE task[r]]
    /\ adm' = [adm EXCEPT !.stats = FALSE] /\ UNCHANGED <<screen, srv>>

-----------------------------------------------------------------------------
(* The export of users.                                                    *)

\* The menu and the box ask whether the contest is active; so does the button when
\* the box is ticked, and only then.
isCtfActive(caller) ==
    \E s \in Slot : FreeSlot(s) /\ Start(s, "active", "start", Req(caller, {}, Nothing))
exportCsvMenu ==
    /\ screen = "users" /\ adm.queries = {}
    /\ IF adm.drop THEN UNCHANGED task ELSE isCtfActive("menu")
    /\ adm' = [adm EXCEPT !.drop = ~@] /\ UNCHANGED <<screen, srv>>
includePasswords ==
    /\ screen = "users" /\ adm.drop /\ ~adm.locked /\ adm.queries = {}
    /\ IF adm.tick THEN UNCHANGED task ELSE isCtfActive("box")
    /\ adm' = [adm EXCEPT !.tick = ~@] /\ UNCHANGED <<screen, srv>>
Exporting(e) == [e EXCEPT !.busy = TRUE, !.drop = FALSE]
exportClick ==
    /\ screen = "users" /\ adm.drop /\ ~adm.busy /\ adm.queries = {}
    /\ IF adm.tick THEN isCtfActive("button") /\ UNCHANGED adm
       ELSE /\ adm' = Exporting(adm)
            /\ \E s \in Slot : FreeSlot(s) /\ Start(s, "export", "sent", Req("plain", {}, Nothing))
    /\ UNCHANGED <<screen, srv>>

\* The answer: what the clock says of the contest when both requests have been
\* answered, and FALSE when one of them fails.
ActiveStep(s) ==
    /\ Awaits(s, "active", "start") /\ Await(s, "end", task[s].arg)
    /\ UNCHANGED <<screen, adm, srv>>
ActiveKnown(s) ==
    LET k == task[s].arg.kind IN
    /\ task[s].op = "active" /\ UNCHANGED <<screen, srv>>
    /\ \E active \in {FALSE} \cup IF task[s].at = "end" THEN {srv.contest = "active"} ELSE {} :
          CASE k = "menu" -> /\ adm' = [adm EXCEPT !.locked = active, !.tick = @ /\ ~active]
                             /\ Ends(s)
            [] k = "box" -> adm' = [adm EXCEPT !.tick = @ /\ ~active] /\ Ends(s)
            [] active -> Ends(s) /\ UNCHANGED adm
            [] OTHER -> /\ adm' = Exporting(adm)
                        /\ Start(s, "export", "sent", Req("passwords", {}, Nothing))

\* The server gives every user a new password and does not look at the contest.
ExportServed(s) ==
    /\ Awaits(s, "export", "sent") /\ Await(s, "csv", task[s].arg)
    /\ srv' = IF task[s].arg.kind = "passwords" THEN [srv EXCEPT !.resets = @ + 1] ELSE srv
    /\ UNCHANGED <<screen, adm>>

\* The buttons of the export and of the recalculation are free again whatever comes.
BugFreed(e, ok) == [e EXCEPT !.busy = @ /\ ~ok]
Freed(e, ok) == [e EXCEPT !.busy = FALSE]
ExportAnswered(s) ==
    /\ task[s].op = "export" /\ Ends(s) /\ UNCHANGED <<screen, srv>>
    /\ \E ok \in {FALSE} \cup IF task[s].at = "csv" THEN {TRUE} ELSE {} : adm' = Freed(adm, ok)
resyncDynamicChallenges ==
    /\ screen = "submissions" /\ adm.queries = {} /\ ~adm.busy /\ adm' = [adm EXCEPT !.busy = TRUE]
    /\ \E s \in Slot : FreeSlot(s) /\ Start(s, "resync", "sent", Req("resync", {}, Nothing))
    /\ UNCHANGED <<screen, srv>>
ResyncAnswered(s) ==
    /\ Awaits(s, "resync", "sent") /\ Ends(s) /\ UNCHANGED <<screen, srv>>
    /\ \E ok \in BOOLEAN : adm' = Freed(adm, ok)
ContestGoesOn ==
    /\ screen = "users" /\ srv.contest # "over" /\ UNCHANGED <<task, screen, adm>>
    /\ srv' = [srv EXCEPT !.contest = IF @ = "before" THEN "active" ELSE "over"]

-----------------------------------------------------------------------------
(* Users moved into a team: found by a search, which tells who has a team. *)

Found == {<<i, srv.row[i]>> : i \in {j \in Row : srv.row[j] # "none"}}
typesName(v) ==
    /\ screen = "members" /\ adm.query = {} /\ v # adm.value
    /\ adm' = [adm EXCEPT !.value = v, !.awaiting = TRUE]
    /\ IF adm.awaiting THEN UNCHANGED task
       ELSE \E s \in Slot : FreeSlot(s) /\ Start(s, "search", "timer", Req("search", {}, Nothing))
    /\ UNCHANGED <<screen, srv>>
searchUsers(s) ==
    /\ screen = "members" /\ Awaits(s, "search", "timer") /\ UNCHANGED <<screen, srv>>
    /\ IF adm.value = Nothing
       THEN Ends(s) /\ adm' = [adm EXCEPT !.awaiting = FALSE, !.results = {}]
       ELSE Await(s, "sent", task[s].arg) /\ adm' = [adm EXCEPT !.awaiting = FALSE]
UsersFound(s) ==
    /\ screen = "members" /\ Awaits(s, "search", "sent") /\ Ends(s) /\ UNCHANGED <<screen, srv>>
    /\ adm' \in {[adm EXCEPT !.results = Found], adm}

\* Choosing a user empties the search, which the watch on the text notices.
selectUser(u) ==
    /\ screen = "members" /\ adm.query = {} /\ u \in adm.results
    /\ adm' = [adm EXCEPT !.picked = IF \E v \in @ : v[1] = u[1] THEN @ ELSE @ \cup {u},
                          !.results = {}, !.value = Nothing,
                          !.awaiting = @ \/ adm.value # Nothing]
    /\ IF adm.value = Nothing \/ adm.awaiting THEN UNCHANGED task
       ELSE \E s \in Slot : FreeSlot(s) /\ Start(s, "search", "timer", Req("search", {}, Nothing))
    /\ UNCHANGED <<screen, srv>>
removeSelectedUser(u) ==
    /\ screen = "members" /\ adm.query = {} /\ u \in adm.picked
    /\ adm' = [adm EXCEPT !.picked = @ \ {u}] /\ UNCHANGED <<task, screen, srv>>

Ids(users) == {u[1] : u \in users}
Members(users) == {u \in users : u[2] # "free"}
BugInTeams(users) == LET ids == Ids(Members(users)) IN {i \in ids : \A j \in ids : i <= j}
InTeams(users) == Ids(Members(users))

\* addUsers names those who have a team and asks; yes removes everybody chosen from
\* the team known of them, then adds whoever is chosen by then, then reloads.
MembersSent(s, kind) ==
    IF adm.picked = {} THEN Reloads([task EXCEPT ![s] = NoTask], srv.row)
    ELSE /\ Start(s, "batch", "sent", [Req(kind, Ids(adm.picked), Nothing) EXCEPT
                                       !.listed = Members(adm.picked)])
         /\ UNCHANGED adm
addUsers ==
    /\ screen = "members" /\ adm.query = {} /\ UNCHANGED <<screen, srv>>
    /\ IF InTeams(adm.picked) # {}
       THEN adm' = [adm EXCEPT !.query = InTeams(adm.picked)] /\ UNCHANGED task
       ELSE \E s \in Slot : FreeSlot(s) /\ MembersSent(s, "add")
confirmMove ==
    /\ screen = "members" /\ adm.query # {} /\ UNCHANGED <<screen, srv>>
    /\ adm' = [adm EXCEPT !.query = {}]
    /\ \E s \in Slot : FreeSlot(s) /\ Start(s, "batch", "sent",
          [Req("remove", Ids(adm.picked), Nothing) EXCEPT
             !.listed = Members(adm.picked), !.value = adm.query])
cancelMove ==
    /\ screen = "members" /\ adm.query # {} /\ adm' = [adm EXCEPT !.query = {}]
    /\ UNCHANGED <<task, screen, srv>>
MemberAnswered(s, i) ==
    LET a == task[s].arg IN
    /\ screen = "members" /\ Awaits(s, "batch", "sent") /\ i \in a.left /\ UNCHANGED screen
    /\ \E ok \in BOOLEAN :
          LET b == AnsweredOne(a, i, ok) IN
          /\ \/ Accepted(a, i) /\ Applies(a, i)
             \/ UNCHANGED srv
          /\ IF b.left # {} THEN Await(s, "sent", b) /\ UNCHANGED adm
             ELSE IF ~b.ok THEN Ends(s) /\ UNCHANGED adm
             ELSE IF a.kind = "remove" THEN MembersSent(s, "add")
             ELSE Reloads([task EXCEPT ![s] = NoTask], srv'.row)

-----------------------------------------------------------------------------
(* Comments, 10 to a page, and the media library.                          *)

\* The pages and the rows of the server: a row is a comment, a file; one to a page.
CommentPages == Cardinality({i \in Row : srv.row[i] # "none"})
AsksPage(p) == \E s \in Slot : FreeSlot(s) /\ Start(s, "load", "sent", Req("load", {}, p))
turnPage(d) ==
    /\ screen = "comments" /\ adm.pages > 1
    /\ IF d = 1 THEN adm.list < adm.pages ELSE adm.list > 1
    /\ adm' = [adm EXCEPT !.page = @ + d] /\ AsksPage(adm.page + d) /\ UNCHANGED <<screen, srv>>
submitComment ==
    /\ screen = "comments" /\ UNCHANGED <<screen, adm, srv>>
    /\ \E s \in Slot : FreeSlot(s) /\ Start(s, "comment", "sent", Req("comment", {}, Nothing))
CommentAnswered(s) ==
    /\ Awaits(s, "comment", "sent") /\ UNCHANGED <<screen, adm>>
    /\ \/ Ends(s) /\ UNCHANGED srv
       \/ /\ Start(s, "load", "sent", Req("load", {}, adm.page))
          /\ \/ \E i \in Row : srv.row[i] = "none" /\ srv' = [srv EXCEPT !.row[i] = "live"]
             \/ UNCHANGED srv
CommentsLoaded(s) ==
    LET p == task[s].arg.value IN
    /\ screen = "comments" /\ Awaits(s, "load", "sent") /\ Ends(s) /\ UNCHANGED <<screen, srv>>
    /\ adm' \in {[page |-> p, list |-> p, pages |-> CommentPages], adm}
deleteComment(i) ==
    /\ screen \in {"comments", "media"} /\ (screen = "media" => i = adm.chosen)
    /\ \E s \in Slot : FreeSlot(s) /\ Start(s, "delete", "sent", Req("delete", {i}, Nothing))
    /\ UNCHANGED <<screen, adm, srv>>
DeletionAnswered(s) ==
    LET a == task[s].arg IN
    /\ Awaits(s, "delete", "sent") /\ UNCHANGED screen
    /\ \/ /\ \E i \in a.ids : Accepted(a, i) /\ Applies(a, i)
          /\ IF screen = "media"
             THEN /\ Start(s, "load", "sent", Req("load", {}, 1))
                  /\ adm' = [adm EXCEPT !.chosen = Nothing]
             ELSE Ends(s) /\ UNCHANGED adm
       \/ Ends(s) /\ UNCHANGED <<adm, srv>>

\* uploadChosenFiles does not load the files again: upload has no callback.
uploadChosenFiles ==
    /\ screen = "media" /\ UNCHANGED <<screen, adm, srv>>
    /\ \E s \in Slot : FreeSlot(s) /\ Start(s, "upload", "sent", Req("upload", {}, Nothing))
UploadAnswered(s) ==
    /\ Awaits(s, "upload", "sent") /\ Ends(s) /\ UNCHANGED <<screen, adm>>
    /\ \/ \E i \in Row : srv.row[i] = "none" /\ srv' = [srv EXCEPT !.row[i] = "live"]
       \/ UNCHANGED srv
FilesLoaded(s) ==
    /\ screen = "media" /\ Awaits(s, "load", "sent") /\ Ends(s) /\ UNCHANGED <<screen, srv>>
    /\ adm' \in {[adm EXCEPT !.files = {i \in Row : srv.row[i] # "none"}], adm}
selectFile(i) ==
    /\ screen = "media" /\ i \in adm.files
    /\ adm' = [adm EXCEPT !.chosen = i] /\ UNCHANGED <<task, screen, srv>>

-----------------------------------------------------------------------------
AdminMoves ==
    \/ teamCorrect \/ teamDelete \/ teamDeleteAwards \/ teamSolves
    \/ userCorrect \/ userDelete \/ userDeleteAwards \/ userSolves
    \/ deleteSelectedUsers \/ bulkEditUsers \/ deleteSelectedChallenges \/ bulkEditChallenges
    \/ deleteSelectedSubmissions \/ correctSubmissions \/ incorrectSubmissions
    \/ bulkToggleAccounts \/ deleteSelectedTeams \/ bulkEditTeams
    \/ updateTeam \/ setCaptain \/ deleteTeam \/ awardTeam \/ inviteTeam
    \/ updateUser \/ deleteUser \/ awardUser \/ showStatistics \/ hideStatistics
    \/ exportCsvMenu \/ includePasswords \/ exportClick \/ resyncDynamicChallenges
    \/ addUsers \/ confirmMove \/ cancelMove \/ submitComment \/ uploadChosenFiles
    \/ ContestGoesOn \/ anotherAdmin
    \/ \E i \in Row : \/ checkRow(i) \/ toggleAccount(i) \/ deleteRow(i) \/ deleteComment(i)
                      \/ selectFile(i)
    \/ \E v \in 0..2 : typesName(v)
    \/ \E d \in {-1, 1} : turnPage(d)
    \/ /\ screen \in Tables
       /\ \E q \in adm.queries : queryYes(q) \/ queryNo(q) \/ \E v \in 0..2 : fillQuery(q, v)
    \/ screen = "members" /\ \E u \in adm.results \cup adm.picked : selectUser(u) \/ removeSelectedUser(u)
AdminAnswers ==
    \E s \in Slot :
        \/ GoneApplied(s) \/ BracketsKnown(s) \/ RowAnswered(s) \/ FormAnswered(s)
        \/ ActiveStep(s) \/ ActiveKnown(s) \/ ExportServed(s) \/ ExportAnswered(s)
        \/ ResyncAnswered(s) \/ searchUsers(s) \/ UsersFound(s) \/ CommentAnswered(s)
        \/ CommentsLoaded(s) \/ DeletionAnswered(s) \/ UploadAnswered(s) \/ FilesLoaded(s)
        \/ \E i \in Row : BatchAnswered(s, i) \/ MemberAnswered(s, i)

AdminNext ==
    \/ Moved /\ AdminMoves
    \/ UNCHANGED moves /\ AdminAnswers

AdminSpec == AdminInit /\ [][AdminNext]_adminVars

-----------------------------------------------------------------------------
(* A button that a request has disabled is freed by an answer still to     *)
(* come, failures included (exportUsers, resyncDynamicChallenges); a       *)
(* search of users and the statistics have their one timer exactly when    *)
(* the page counts on it (watch searchedName, shown and hidden.bs.modal).  *)
AdminIsAttended ==
    /\ (screen \in Tables /\ adm.busy) => Tasks({"export", "resync"}, {"sent", "csv"}) # {}
    /\ screen \in Tables => Cardinality(Tasks({"poll"}, {"timer"})) = IF adm.stats THEN 1 ELSE 0
    /\ screen = "members" => Cardinality(Tasks({"search"}, {"timer"})) = IF adm.awaiting THEN 1 ELSE 0

(* A user loses a team, with all solves and awards, only after a dialog    *)
(* that has named them, whatever the searches and the other administrators *)
(* have done meanwhile (addUsers, handleRemoveUsersFromTeams).             *)
RemovedWasNamed ==
    \A s \in Slot : (task[s].op = "batch" /\ task[s].arg.kind = "remove")
                        => {i \in task[s].arg.left : Accepted(task[s].arg, i)} \subseteq task[s].arg.value

(* What the page tells the administrator: users cannot be exported with    *)
(* passwords, which resets them, while the contest is active.  Not so: the *)
(* contest may begin between the page's question and the export.           *)
ResetsWaitForTheEnd ==
    [][srv'.resets # srv.resets => srv.contest # "active"]_adminVars
=============================================================================
