---------------------------- MODULE PortalSession ----------------------------
(***************************************************************************)
(* The session of one contestant: the tabs of a browser share the token    *)
(* and the user in localStorage, the server keeps one current token per    *)
(* user and a cache entry per contest.  Signing in and selecting a contest *)
(* replace the token; every other request carries the token that was       *)
(* stored when it was sent, and a 401 ends the session.                    *)
(***************************************************************************)
EXTENDS Tab

CONSTANTS
    Window,     \* tabs of the browser
    Contest     \* ids of the contests the user takes part in

ASSUME SessionAssumption == Contest \subseteq Nat \ {0}

VARIABLES
    store,      \* localStorage: the token, and the contest of the stored user's team
    tab,        \* each tab: its route, and the React state of its pages
    db,         \* the current token of the user, by the order of issue
    issued,     \* the tokens issued so far
    cache       \* token in contest:{c}:auth:user:{id}

sessionVars == <<task, moves, store, tab, db, issued, cache>>

NoToken == [serial |-> 0, contest |-> Nothing]
NoUser == [known |-> FALSE, team |-> Nothing]
Cleared == [token |-> NoToken, user |-> NoUser]

\* busy is the function that ends the spinner of the mounted page, if it spins.
LoginPage == [page |-> "login", c |-> Nothing, auth |-> FALSE, busy |-> Nothing]

SessionTypeOK ==
    /\ store \in [token : [serial : 0..issued, contest : Contest \cup {Nothing}],
                  user : [known : BOOLEAN, team : Contest \cup {Nothing}]]
    /\ tab \in [Window -> [page : {"login", "contests", "contest", "denied"},
                           c : Contest \cup {Nothing}, auth : BOOLEAN,
                           busy : Slot \cup {Nothing}]]
    /\ db \in 0..issued /\ cache \in [Contest -> 0..issued]

SessionInit ==
    /\ task = NoTasks /\ moves = 0
    /\ store = Cleared /\ tab = [w \in Window |-> LoginPage]
    /\ db = 0 /\ issued = 0 /\ cache = [c \in Contest |-> 0]

-----------------------------------------------------------------------------
(* Requests.  A task of a tab holds the token it was sent with and the     *)
(* contest asked for.                                                      *)

Held(w, t, c) == [w |-> w, token |-> t, c |-> c]
Arg(s) == task[s].arg
TasksOf(w) == {s \in Slot : task[s] # NoTask /\ Arg(s).w = w}

\* A full page load ends the functions of the tab and reads the storage again.
Dropped(w) == [s \in Slot |-> IF s \in TasksOf(w) THEN NoTask ELSE task[s]]
Loads(w) == store.token.serial # 0 /\ store.user.known

\* What a page asks first: the list of contests, or for the page of a contest its
\* access, after selecting the contest the token is not of.
FirstOf(w, page, c, st) ==
    IF page = "contests" THEN [op |-> "list", at |-> "sent", arg |-> Held(w, st.token, Nothing)]
    ELSE IF st.token.contest # c
         THEN [op |-> "autoselect", at |-> "sent", arg |-> Held(w, st.token, c)]
         ELSE [op |-> "get", at |-> "sent", arg |-> Held(w, st.token, c)]

server == <<db, issued, cache>>

\* login: the form is busy until the answer.
handleSubmit(w) ==
    /\ tab[w].page = "login" /\ tab[w].busy = Nothing
    /\ \E s \in Slot : /\ FreeSlot(s) /\ Start(s, "login", "sent", Held(w, NoToken, Nothing))
                       /\ tab' = [tab EXCEPT ![w].busy = s]
    /\ UNCHANGED <<store, server>>

\* A click on a contest of the list; nothing keeps a second click away.
handleContestClick(w, c) ==
    /\ tab[w].page = "contests" /\ tab[w].busy = Nothing
    /\ \E s \in Slot : FreeSlot(s) /\ Start(s, "select", "sent", Held(w, store.token, c))
    /\ UNCHANGED <<store, tab, server>>

\* A request of the page of a contest, a click or the poll of its component, once
\* its contest is selected.
fetchWithAuth(w) ==
    /\ tab[w].page = "contest"
    /\ \A s \in TasksOf(w) : task[s].op # "autoselect"
    /\ \E s \in Slot : FreeSlot(s) /\ Start(s, "get", "sent", Held(w, store.token, tab[w].c))
    /\ UNCHANGED <<store, tab, server>>

\* The link back to the contests; the functions of the tab go on.
ToContests(w) ==
    /\ tab[w].page \in {"contest", "denied"}
    /\ \E s \in Slot :
          /\ FreeSlot(s) /\ task' = [task EXCEPT ![s] = FirstOf(w, "contests", Nothing, store)]
          /\ tab' = [tab EXCEPT ![w].page = "contests", ![w].c = Nothing, ![w].busy = s]
    /\ UNCHANGED <<store, server>>

\* A URL opened in the tab: PrivateRoute lets it in when the storage has both a
\* token and a user.
Opens(w, page, c) ==
    /\ IF Loads(w)
       THEN \E s \in Slot :
              /\ Dropped(w)[s] = NoTask
              /\ task' = [Dropped(w) EXCEPT ![s] = FirstOf(w, page, c, store)]
              /\ tab' = [tab EXCEPT ![w] =
                    [page |-> page, c |-> c, auth |-> TRUE,
                     busy |-> IF page = "contests" THEN s ELSE Nothing]]
       ELSE tab' = [tab EXCEPT ![w] = LoginPage] /\ task' = Dropped(w)
    /\ UNCHANGED <<store, server>>

\* handleLogout: without a token the session is cleared at once.
handleLogout(w) ==
    /\ tab[w].page # "login"
    /\ IF store.token.serial = 0
       THEN /\ store' = Cleared /\ UNCHANGED task
            /\ tab' = [tab EXCEPT ![w] = LoginPage]
       ELSE /\ \E s \in Slot : FreeSlot(s)
                  /\ Start(s, "logout", "sent", Held(w, store.token, Nothing))
            /\ UNCHANGED <<store, tab>>
    /\ UNCHANGED server

-----------------------------------------------------------------------------
(* The server.                                                             *)

Answers(s, at) == task' = [task EXCEPT ![s].at = at]
Authenticated == {"list", "get", "select", "autoselect", "logout"}

\* Requests that need no contest in the token.
AnyContest == Authenticated \ {"get"}

\* A token without a contest is compared with the current one.
AuthBasic(s) ==
    /\ task[s].op \in Authenticated /\ task[s].at = "sent"
    /\ Arg(s).token.contest = Nothing
    /\ Answers(s, IF task[s].op \in AnyContest /\ db # 0 /\ Arg(s).token.serial = db
                  THEN "admitted" ELSE "refused")
    /\ UNCHANGED <<store, tab, server>>

\* A token of a contest is compared with the cache entry of the contest.
AuthCached(s) ==
    LET t == Arg(s).token IN
    /\ task[s].op \in Authenticated /\ task[s].at = "sent" /\ t.contest # Nothing
    /\ cache[t.contest] # 0
    /\ Answers(s, IF cache[t.contest] = t.serial THEN "admitted" ELSE "refused")
    /\ UNCHANGED <<store, tab, server>>

\* Without an entry it is compared with the database, and the entry is written in
\* a later step.
AuthRead(s) ==
    LET t == Arg(s).token IN
    /\ task[s].op \in Authenticated /\ task[s].at = "sent" /\ t.contest # Nothing
    /\ cache[t.contest] = 0
    /\ Answers(s, IF db = t.serial THEN "fill" ELSE "refused")
    /\ UNCHANGED <<store, tab, server>>
AuthFill(s) ==
    /\ task[s].at = "fill"
    /\ cache' = [cache EXCEPT ![Arg(s).token.contest] = Arg(s).token.serial]
    /\ Answers(s, "admitted")
    /\ UNCHANGED <<store, tab, db, issued>>
CacheExpires(c) ==
    /\ cache[c] # 0 /\ cache' = [cache EXCEPT ![c] = 0]
    /\ UNCHANGED <<task, store, tab, db, issued>>

\* GenerateUserToken: the one row of the user gets a new value.
GenerateUserToken(s, c) ==
    /\ issued' = issued + 1 /\ db' = issued + 1
    /\ task' = [task EXCEPT ![s].at = IF c = Nothing THEN "ok" ELSE "drop",
                            ![s].arg.token = [serial |-> issued + 1, contest |-> c]]
    /\ UNCHANGED <<store, tab, cache>>
Login(s) == Awaits(s, "login", "sent") /\ GenerateUserToken(s, Nothing)
SelectContest(s) ==
    /\ task[s].op \in {"select", "autoselect"} /\ task[s].at = "admitted"
    /\ GenerateUserToken(s, Arg(s).c)

\* The entry of the contest selected is removed after the token is saved.
SelectDrops(s) ==
    /\ task[s].at = "drop" /\ Answers(s, "ok")
    /\ cache' = [cache EXCEPT ![Arg(s).c] = 0]
    /\ UNCHANGED <<store, tab, db, issued>>

\* Logout removes the row; the key it removes from the cache has no contest.
Logout(s) ==
    /\ Awaits(s, "logout", "admitted") /\ Answers(s, "ok") /\ db' = 0
    /\ UNCHANGED <<store, tab, issued, cache>>
Serves(s) ==
    /\ task[s].op \in {"list", "get"} /\ task[s].at = "admitted" /\ Answers(s, "ok")
    /\ UNCHANGED <<store, tab, server>>

-----------------------------------------------------------------------------
(* The answers.                                                            *)

\* Signed out by a 401: the storage is cleared and the tab loaded again.
Expelled(w) ==
    /\ store' = Cleared /\ task' = Dropped(w)
    /\ tab' = [tab EXCEPT ![w] = LoginPage]

\* A page whose contest cannot be selected shows an error and asks nothing more.
Denied(s) ==
    IF tab[Arg(s).w].page = "contest" /\ tab[Arg(s).w].c = Arg(s).c
    THEN [tab EXCEPT ![Arg(s).w].page = "denied"] ELSE tab

\* The spinner of a page that is no longer mounted is not there to stop.
BugUnspun(s) == \* the login form stays busy after an error
    IF task[s].op = "list" /\ tab[Arg(s).w].busy = s
    THEN [tab EXCEPT ![Arg(s).w].busy = Nothing] ELSE tab
Unspun(s) == IF tab[Arg(s).w].busy = s THEN [tab EXCEPT ![Arg(s).w].busy = Nothing] ELSE tab

\* The network fails or the request is timed out, whatever the server did of it.
Fails(s) ==
    /\ task[s].op # "none"
    /\ Ends(s) /\ UNCHANGED server
    /\ IF task[s].op = "logout"
       THEN store' = Cleared /\ tab' = [tab EXCEPT ![Arg(s).w] = LoginPage]
       ELSE /\ UNCHANGED store
            /\ tab' = IF task[s].op = "autoselect" THEN Denied(s) ELSE Unspun(s)

LoginAnswered(s) ==
    LET w == Arg(s).w
        st == [token |-> Arg(s).token, user |-> [known |-> TRUE, team |-> Nothing]]
    IN
    /\ Awaits(s, "login", "ok")
    /\ store' = st
    /\ tab' = [tab EXCEPT ![w] = [page |-> "contests", c |-> Nothing, auth |-> TRUE,
                                  busy |-> s]]
    /\ task' = [task EXCEPT ![s] = FirstOf(w, "contests", Nothing, st)]
    /\ UNCHANGED server

\* selectContest stores the token, and the team when there still is a user.
BugSelected(s) == \* the stored user keeps the team it had
    [store EXCEPT !.token = Arg(s).token]
Selected(s) ==
    [token |-> Arg(s).token,
     user |-> [store.user EXCEPT !.team = IF store.user.known THEN Arg(s).c ELSE @]]

\* After a click the tab goes to the page of the contest, unless it has been
\* signed out; the page then begins when its contest is another one.
SelectAnswered(s) ==
    LET w == Arg(s).w  c == Arg(s).c IN
    /\ Awaits(s, "select", "ok")
    /\ store' = Selected(s)
    /\ IF tab[w].auth /\ tab[w].c # c
       THEN /\ tab' = [tab EXCEPT ![w].page = "contest", ![w].c = c, ![w].busy = Nothing]
            /\ task' = [task EXCEPT ![s] = FirstOf(w, "contest", c, Selected(s))]
       ELSE /\ Ends(s)
            /\ tab' = IF tab[w].auth THEN tab ELSE [tab EXCEPT ![w] = LoginPage]
    /\ UNCHANGED server
AutoSelectAnswered(s) ==
    /\ Awaits(s, "autoselect", "ok")
    /\ store' = Selected(s)
    /\ task' = [task EXCEPT ![s] = FirstOf(Arg(s).w, "contest", Arg(s).c, Selected(s))]
    /\ UNCHANGED <<tab, server>>

\* A refused selection is an error message; the session stays.
SelectRefused(s) ==
    /\ task[s].op \in {"select", "autoselect"} /\ task[s].at = "refused"
    /\ tab' = IF task[s].op = "autoselect" THEN Denied(s) ELSE tab
    /\ Ends(s) /\ UNCHANGED <<store, server>>

\* The list of contests; on a 401 the tab goes to the login page from any route.
ListServed(s) ==
    /\ Awaits(s, "list", "ok") /\ Ends(s) /\ tab' = Unspun(s)
    /\ UNCHANGED <<store, server>>
ListRefused(s) == Awaits(s, "list", "refused") /\ Expelled(Arg(s).w) /\ UNCHANGED server

\* The requests of a contest page do so unless the tab is on the login page.
GetServed(s) == Awaits(s, "get", "ok") /\ Ends(s) /\ UNCHANGED <<store, tab, server>>
GetRefused(s) ==
    /\ Awaits(s, "get", "refused")
    /\ IF tab[Arg(s).w].page = "login" THEN Ends(s) /\ UNCHANGED <<store, tab>>
       ELSE Expelled(Arg(s).w)
    /\ UNCHANGED server

\* Whatever the server says, logout ends the session of the browser.
LogoutAnswered(s) ==
    /\ task[s].op = "logout" /\ task[s].at \in {"ok", "refused"}
    /\ Ends(s)
    /\ store' = Cleared /\ tab' = [tab EXCEPT ![Arg(s).w] = LoginPage]
    /\ UNCHANGED server

-----------------------------------------------------------------------------
SessionMoves ==
    \E w \in Window :
        \/ handleSubmit(w) \/ fetchWithAuth(w) \/ ToContests(w) \/ handleLogout(w)
        \/ Opens(w, "contests", Nothing)
        \/ \E c \in Contest : handleContestClick(w, c) \/ Opens(w, "contest", c)

SessionServer ==
    \/ \E s \in Slot :
        \/ AuthBasic(s) \/ AuthCached(s) \/ AuthRead(s) \/ AuthFill(s)
        \/ Login(s) \/ SelectContest(s) \/ SelectDrops(s) \/ Logout(s) \/ Serves(s)
    \/ \E c \in Contest : CacheExpires(c)

SessionAnswers ==
    \E s \in Slot :
        \/ Fails(s) \/ LoginAnswered(s) \/ SelectAnswered(s) \/ AutoSelectAnswered(s)
        \/ SelectRefused(s) \/ ListServed(s) \/ ListRefused(s) \/ GetServed(s)
        \/ GetRefused(s) \/ LogoutAnswered(s)

SessionNext ==
    \/ Moved /\ SessionMoves
    \/ UNCHANGED moves /\ (SessionServer \/ SessionAnswers)

SessionSpec == SessionInit /\ [][SessionNext]_sessionVars

-----------------------------------------------------------------------------
(* A stored user's team belongs to the contest of the stored token, over   *)
(* every order of answers, tabs and sign-outs: Layout and Profile read the *)
(* team from the one, the server reads the contest from the other          *)
(* (selectContest, login, clearSession).                                   *)
UserIsOfToken ==
    store.user.known => /\ store.token.serial # 0
                        /\ store.user.team = store.token.contest

(* A busy login form or a spinning list of contests has its own function   *)
(* pending, which will stop it: no overlapping logout, selection or full   *)
(* load leaves it spinning (handleSubmit and loadContests, finally).       *)
BusyIsAttended ==
    \A w \in Window : tab[w].busy # Nothing =>
        /\ task[tab[w].busy].op = (IF tab[w].page = "login" THEN "login" ELSE "list")
        /\ Arg(tab[w].busy).w = w

(* What the comment of fetchWithAuth says of a 401: the session it clears  *)
(* has a token that is already invalid.  Not so: the refused token may not *)
(* be the stored one any more, or was signed in without a contest.         *)
ExpelledIsDead ==
    [][\A s \in Slot :
        (/\ task[s].op \in {"get", "list"} /\ task[s].at = "refused"
         /\ task'[s] = NoTask /\ store' # store)
            => store.token.serial # db]_sessionVars
=============================================================================
