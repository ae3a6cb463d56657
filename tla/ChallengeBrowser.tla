-------------------------- MODULE ChallengeBrowser --------------------------
(***************************************************************************)
(* The challenge list of pages/Challenges.tsx around the detail panel: the *)
(* loading of the page, the categories, the prerequisite checks and their  *)
(* popup, the opening of a challenge by a click, by the URL, by the popup  *)
(* or by the panel's link to the next challenge, and the refresh the       *)
(* panel asks for; with the two reads of the server they depend on.        *)
(*                                                                         *)
(* A contest challenge has an id of its own and the id of the challenge of *)
(* the bank it is taken from; requirements name bank ids.                 *)
(***************************************************************************)
EXTENDS Tab

CONSTANTS
    Challenge,      \* ids of the contest's challenges
    Category,       \* categories in the order served: 1..n
    CategoryOf,     \* [Challenge -> Category]
    Bank,           \* bank id of a challenge
    Prereq,         \* bank ids in the requirements of a challenge
    Anonymized      \* challenges listed although locked

\* A contest takes a challenge of the bank once: both ways to add one look first.
ASSUME BrowserAssumption ==
    /\ Challenge \subseteq Nat \ {0} /\ Category \subseteq Nat \ {0}
    /\ CategoryOf \in [Challenge -> Category]
    /\ Bank \in [Challenge -> Nat] /\ \A c, d \in Challenge : Bank[c] = Bank[d] => c = d
    /\ Prereq \in [Challenge -> SUBSET Nat]
    /\ Anonymized \subseteq Challenge

VARIABLES
    solved,     \* server: the challenges the team has solved
    hidden,     \* server: the challenges the organisers have hidden
    url,        \* the search parameters category and challenge
    shelf,      \* React state of the list, and processedChallengeRef
    shown,      \* selectedChallenge, loadingChallengeDetail
    missed      \* challenges one of whose prerequisites could not be read

browserVars == <<task, solved, hidden, url, shelf, shown, moves, missed>>

Unloaded == {Nothing}

\* What a pending handler holds: the challenge, the category fetched, the
\* prerequisites still to ask and those found unsolved, whether the fetched list
\* has the challenge, the categories still to search, and the selectedCategory
\* its closure captured.
Holds == [c |-> Nothing, k |-> Nothing, todo |-> {}, bad |-> {}, has |-> FALSE,
          rest |-> {}, cat |-> Nothing]
Opening(c) == [Holds EXCEPT !.c = c, !.cat = shelf.cat]

Pairs(cs) == UNION {{<<c, p>> : p \in Prereq[c]} : c \in cs}

BrowserTypeOK ==
    /\ solved \subseteq Challenge /\ hidden \subseteq Challenge /\ missed \subseteq Challenge
    /\ url \in [cat : Category \cup {Nothing}, chal : Challenge \cup {Nothing}]
    /\ shelf \in [stage : {"loading", "ready", "error"}, view : BOOLEAN,
                  cats : SUBSET Category, cat : Category \cup {Nothing},
                  open : SUBSET Category,
                  loaded : [Category -> (SUBSET Challenge) \cup {Unloaded}],
                  busy : SUBSET Category, unmet : SUBSET Challenge,
                  processed : Challenge \cup {Nothing}, effect : BOOLEAN]
    /\ shown \in [id : Challenge \cup {Nothing}, served : BOOLEAN,
                  skeleton : BOOLEAN]

BrowserInit ==
    /\ task = [NoTasks EXCEPT ![1] = [op |-> "page", at |-> "select", arg |-> Holds]]
    /\ solved = {} /\ hidden = {}
    /\ url \in [cat : Category \cup {Nothing}, chal : Challenge \cup {Nothing}]
    /\ url.chal # Nothing => url.cat # Nothing
    /\ shelf = [stage |-> "loading", view |-> TRUE, cats |-> {}, cat |-> Nothing,
                open |-> {}, loaded |-> [k \in Category |-> Unloaded], busy |-> {},
                unmet |-> {}, processed |-> Nothing, effect |-> url.chal # Nothing]
    /\ shown = [id |-> Nothing, served |-> FALSE, skeleton |-> FALSE]
    /\ missed = {} /\ moves = 0

-----------------------------------------------------------------------------
(* The server.                                                             *)

\* IsUnlockedByPrerequisites: prerequisites that the contest does not offer
\* are skipped, the others must be solved.
BugUnlocked(c, done) == \* only the prerequisites that are not hidden count
    \A d \in Challenge \ hidden :
        Bank[d] \in Prereq[c] => \E e \in done : Bank[e] = Bank[d]
Unlocked(c, done) ==
    \A d \in Challenge : Bank[d] \in Prereq[c] => \E e \in done : Bank[e] = Bank[d]

\* The list of a category counts the solves of that category only.
ListedIn(k) == {c \in Challenge \ hidden : CategoryOf[c] = k
                  /\ (c \in Anonymized
                      \/ Unlocked(c, {d \in solved \ hidden : CategoryOf[d] = k}))}

\* GET of a challenge by its own id: 404, 403 or the challenge.
DetailOf(i) == IF i \notin Challenge \ hidden THEN "404"
               ELSE IF Unlocked(i, solved \ hidden) \/ i \in Anonymized THEN "ok"
               ELSE "403"

\* The team solves a challenge, here or in another session; the organisers hide
\* one.
TeamSolves ==
    /\ \E c \in Challenge \ (solved \cup hidden) :
          Unlocked(c, solved \ hidden) /\ solved' = solved \cup {c}
    /\ UNCHANGED <<task, hidden, url, shelf, shown, missed>>
Hide == /\ \E c \in Challenge \ hidden : hidden' = hidden \cup {c}
        /\ UNCHANGED <<task, solved, url, shelf, shown, missed>>

-----------------------------------------------------------------------------
(* The two reads every handler is built from.                              *)

\* fetchChallenges begins: the category spins and its list is requested.
Fetch(s, op, arg, k, sh) ==
    /\ Start(s, op, "list", [arg EXCEPT !.k = k])
    /\ shelf' = [sh EXCEPT !.busy = @ \cup {k}]

\* The effect on the URL runs at the mount and when the lists or the access change;
\* what it does is decided by that render.
Wanted(sh) == /\ url.chal # Nothing /\ shown.id = Nothing /\ ~shown.skeleton
              /\ sh.processed # url.chal
Rerender(sh) == shelf' = [sh EXCEPT !.effect = @ \/ Wanted(sh)]

\* The list is stored and its prerequisites are checked one by one; a failed
\* request is an empty list.
ListAnswered(s) ==
    LET a == task[s].arg IN
    /\ task[s].at = "list"
    /\ \E list \in {ListedIn(a.k), {}} :
          /\ Await(s, "prereqs", [a EXCEPT !.has = a.c \in list,
                                           !.todo = Pairs(list), !.bad = {}])
          /\ Rerender([shelf EXCEPT !.loaded[a.k] = list])
    /\ UNCHANGED <<solved, hidden, url, shown, missed>>

\* checkPrerequisites: the prerequisite is read as the challenge with that id;
\* no data, or an exception, counts as met.
checkPrerequisites(s) ==
    LET a == task[s].arg IN
    /\ task[s].at \in {"prereqs", "check"} /\ a.todo # {}
    /\ \E q \in a.todo :
          LET rest == [a EXCEPT !.todo = @ \ {q}] IN
          /\ \A x \in a.todo : q[1] < x[1] \/ (q[1] = x[1] /\ q[2] <= x[2])
          /\ \/ /\ DetailOf(q[2]) = "ok"
                /\ Await(s, task[s].at,
                         IF q[2] \in solved THEN rest
                         ELSE [rest EXCEPT !.bad = @ \cup {q}])
                /\ UNCHANGED missed
             \/ /\ Await(s, task[s].at, rest)
                /\ missed' = missed \cup {q[1]}
    /\ UNCHANGED <<solved, hidden, url, shelf, shown>>

\* loadPrerequisitesInfo ends: what was found is merged, and the category no
\* longer spins; the handler that awaited fetchChallenges goes on.
Loaded(s, op) == Awaits(s, op, "prereqs") /\ task[s].arg.todo = {}
BugMerged(s) ==
    [shelf EXCEPT !.unmet = {q[1] : q \in task[s].arg.bad},
                  !.busy = @ \ {task[s].arg.k}]
Merged(s) ==
    [shelf EXCEPT !.unmet = @ \cup {q[1] : q \in task[s].arg.bad},
                  !.busy = @ \ {task[s].arg.k}]

\* A new Swal dialog dismisses the one that is open: a handler that only waited
\* for it to close ends.
Popup(s, op, at, arg) ==
    task' = [t \in Slot |->
        IF t = s THEN [op |-> op, at |-> at, arg |-> arg]
        ELSE IF task[t].at \in {"locked", "notfound"} THEN NoTask ELSE task[t]]

-----------------------------------------------------------------------------
(* The page loads.                                                         *)

\* The token is exchanged if it is of another contest.
PageSelect(s) ==
    /\ Awaits(s, "page", "select")
    /\ \/ Await(s, "access", task[s].arg) /\ UNCHANGED shelf
       \/ Ends(s) /\ shelf' = [shelf EXCEPT !.stage = "error"]
    /\ UNCHANGED <<solved, hidden, url, shown, missed>>

PageAccess(s) ==
    /\ Awaits(s, "page", "access")
    /\ Await(s, "categories", task[s].arg)
    /\ \E v \in BOOLEAN :
          IF v = shelf.view THEN UNCHANGED shelf
          ELSE Rerender([shelf EXCEPT !.view = v])
    /\ UNCHANGED <<solved, hidden, url, shown, missed>>

\* The category of the URL if it is served, or else the first one.
InitialCategory(k, cats) == IF url.cat \in cats THEN k = url.cat ELSE \A x \in cats : k <= x

\* The categories; a failed request is an empty list.
PageCategories(s) ==
    /\ Awaits(s, "page", "categories")
    /\ \E cats \in {Category, {}} :
          LET sh == [shelf EXCEPT !.cats = cats] IN
          IF cats = {} THEN Ends(s) /\ shelf' = [sh EXCEPT !.stage = "ready"]
          ELSE \E k \in cats : /\ InitialCategory(k, cats)
                               /\ Fetch(s, "page", task[s].arg, k,
                                        [sh EXCEPT !.cat = k, !.open = {k}])
    /\ UNCHANGED <<solved, hidden, url, shown, missed>>

PageLoaded(s) ==
    /\ Loaded(s, "page")
    /\ Ends(s)
    /\ shelf' = [Merged(s) EXCEPT !.stage = "ready"]
    /\ UNCHANGED <<solved, hidden, url, shown, missed>>

fetchDataAsync(s) == PageSelect(s) \/ PageAccess(s) \/ PageCategories(s) \/ PageLoaded(s)

-----------------------------------------------------------------------------
(* A challenge opens.                                                      *)

\* handleChallengeClickInternal begins.
OpenWith(s, c, a, view) ==
    IF view THEN Start(s, "open", "check", [a EXCEPT !.c = c, !.todo = Pairs({c}),
                                                    !.bad = {}])
    ELSE Ends(s)

\* The effect on the URL.
OpenFromUrl(s) ==
    LET list == shelf.loaded[url.cat]
        sh == [shelf EXCEPT !.effect = FALSE, !.open = @ \cup {url.cat}]
    IN /\ shelf.effect /\ FreeSlot(s)
       /\ IF url.chal = Nothing THEN shelf' = [shelf EXCEPT !.effect = FALSE] /\ UNCHANGED task
          ELSE IF list = Unloaded THEN Fetch(s, "url", Holds, url.cat, sh)
          ELSE IF url.chal \notin list THEN shelf' = sh /\ UNCHANGED task
          ELSE /\ shelf' = [sh EXCEPT !.processed = url.chal]
               /\ OpenWith(s, url.chal, Opening(url.chal), shelf.view)
       /\ UNCHANGED <<solved, hidden, url, shown, missed>>
UrlLoaded(s) == /\ Loaded(s, "url") /\ Ends(s) /\ shelf' = Merged(s)
                /\ UNCHANGED <<solved, hidden, url, shown, missed>>

handleCategoryClick(s) ==
    /\ shelf.stage = "ready" /\ FreeSlot(s)
    /\ \E k \in shelf.cats :
          LET sh == [shelf EXCEPT !.cat = k, !.processed = Nothing] IN
          \/ /\ k \in shelf.open
             /\ shelf' = [sh EXCEPT !.open = @ \ {k}] /\ UNCHANGED task
          \/ /\ k \notin shelf.open /\ shelf.loaded[k] # Unloaded
             /\ shelf' = [sh EXCEPT !.open = @ \cup {k}] /\ UNCHANGED task
          \/ /\ k \notin shelf.open /\ shelf.loaded[k] = Unloaded
             /\ Fetch(s, "category", Holds, k, [shelf EXCEPT !.open = @ \cup {k}])
    /\ UNCHANGED <<solved, hidden, url, shown, missed>>
CategoryLoaded(s) ==
    /\ Loaded(s, "category") /\ Ends(s)
    /\ shelf' = [Merged(s) EXCEPT !.cat = task[s].arg.k, !.processed = Nothing]
    /\ UNCHANGED <<solved, hidden, url, shown, missed>>

\* What the page lets the user click: the items of the expanded categories that
\* do not spin, and the panel unless its skeleton is in its place.
Clickable == IF shelf.stage = "ready" /\ shelf.view
             THEN (UNION {shelf.loaded[k] : k \in (shelf.open \cap shelf.cats) \ shelf.busy})
                    \ Unloaded
             ELSE {}
PanelShown == shelf.stage = "ready" /\ shown.id # Nothing /\ ~shown.skeleton

handleChallengeClick(s) ==
    /\ FreeSlot(s)
    /\ \E c \in Clickable : /\ url' = [cat |-> shelf.cat, chal |-> c]
                            /\ OpenWith(s, c, Opening(c), TRUE)
    /\ shelf' = [shelf EXCEPT !.processed = Nothing]
    /\ UNCHANGED <<solved, hidden, shown, missed>>

\* The prerequisites have been read: the popup, or the request of the detail.
OpenChecked(s) ==
    /\ Awaits(s, "open", "check") /\ task[s].arg.todo = {}
    /\ \/ /\ task[s].arg.bad # {}
          /\ Popup(s, "open", "locked", task[s].arg) /\ UNCHANGED shown
       \/ /\ task[s].arg.bad = {}
          /\ Await(s, "detail", task[s].arg)
          /\ shown' = [shown EXCEPT !.skeleton = TRUE]
    /\ UNCHANGED <<solved, hidden, url, shelf, missed>>

\* The detail is answered: no guard tells the answer of the latest click.
OpenAnswered(s) ==
    LET a == task[s].arg IN
    /\ Awaits(s, "open", "detail")
    /\ \/ /\ DetailOf(a.c) = "ok" /\ Ends(s)
          /\ shown' = [id |-> a.c, served |-> TRUE, skeleton |-> FALSE]
          /\ UNCHANGED url
       \/ \* 403 or 404
          /\ DetailOf(a.c) # "ok" /\ Popup(s, "open", "refused", a) /\ UNCHANGED <<url, shown>>
       \/ \* another error status
          /\ Ends(s)
          /\ url' = [cat |-> a.cat, chal |-> Nothing]
          /\ shown' = [shown EXCEPT !.skeleton = FALSE]
       \/ \* an exception
          /\ Ends(s) /\ shown' = [shown EXCEPT !.skeleton = FALSE] /\ UNCHANGED url
    /\ UNCHANGED <<solved, hidden, shelf, missed>>
OpenRefused(s) ==
    /\ Awaits(s, "open", "refused")
    /\ Ends(s)
    /\ url' = [cat |-> task[s].arg.cat, chal |-> Nothing]
    /\ shown' = [shown EXCEPT !.skeleton = FALSE]
    /\ UNCHANGED <<solved, hidden, shelf, missed>>

-----------------------------------------------------------------------------
(* The popup of a locked challenge, and its links to the prerequisites.    *)

LockedClose(s) == /\ task[s].at \in {"locked", "notfound"} /\ Ends(s)
                  /\ UNCHANGED <<solved, hidden, url, shelf, shown, missed>>

\* A click on a prerequisite of the popup: its category is fetched again.
LockedNavigate(s) ==
    LET a == task[s].arg IN
    /\ Awaits(s, "open", "locked")
    /\ \E q \in a.bad :
          LET p == q[2]  k == CategoryOf[q[2]] IN
          Fetch(s, "nav", [a EXCEPT !.c = p, !.bad = {}], k,
                [shelf EXCEPT !.processed = p, !.cat = k, !.open = @ \cup {k}])
    /\ UNCHANGED <<solved, hidden, url, shown, missed>>

\* The prerequisite is looked up in the list, and checked in its turn.
NavLoaded(s) ==
    LET a == task[s].arg IN
    /\ Loaded(s, "nav")
    /\ shelf' = Merged(s)
    /\ IF a.has THEN Await(s, "check", [a EXCEPT !.todo = Pairs({a.c}), !.bad = {}])
       ELSE Ends(s)
    /\ UNCHANGED <<solved, hidden, url, shown, missed>>
NavChecked(s) ==
    LET a == task[s].arg IN
    /\ Awaits(s, "nav", "check") /\ a.todo = {}
    /\ url' = [cat |-> a.k, chal |-> a.c]
    /\ \/ /\ a.bad # {} /\ OpenWith(s, a.c, [a EXCEPT !.has = FALSE], TRUE)
          /\ UNCHANGED shown
       \/ /\ a.bad = {} /\ Await(s, "detail", a)
          /\ shown' = [shown EXCEPT !.skeleton = TRUE]
    /\ UNCHANGED <<solved, hidden, shelf, missed>>

\* Its detail; after an exception the panel opens with the list's own entry.
NavAnswered(s) ==
    LET a == task[s].arg IN
    /\ Awaits(s, "nav", "detail")
    /\ \/ /\ DetailOf(a.c) = "ok" /\ Ends(s)
          /\ shown' = [id |-> a.c, served |-> TRUE, skeleton |-> FALSE]
       \/ /\ DetailOf(a.c) # "ok" /\ Popup(s, "nav", "refused", [Holds EXCEPT !.c = a.c]) /\ UNCHANGED shown
       \/ /\ Ends(s) /\ shown' = [shown EXCEPT !.skeleton = FALSE]
       \/ /\ Ends(s)
          /\ shown' = [id |-> a.c, served |-> FALSE, skeleton |-> FALSE]
    /\ UNCHANGED <<solved, hidden, url, shelf, missed>>
NavRefused(s) ==
    /\ Awaits(s, "nav", "refused")
    /\ Ends(s)
    /\ shown' = [shown EXCEPT !.skeleton = FALSE]
    /\ UNCHANGED <<solved, hidden, url, shelf, missed>>

-----------------------------------------------------------------------------
(* The link of the panel to the next challenge.                            *)

GotoOpens(s, sh, c, k, a) ==
    /\ shelf' = [sh EXCEPT !.open = @ \cup {k}, !.cat = k, !.processed = Nothing]
    /\ url' = [cat |-> k, chal |-> c]
    /\ OpenWith(s, c, a, shelf.view)

\* The categories that the closure has not loaded are fetched in turn.
GotoNext(s, sh, a) ==
    IF a.rest = {} THEN Popup(s, "goto", "notfound", [a EXCEPT !.k = Nothing]) /\ shelf' = sh
    ELSE \E k \in a.rest : /\ \A x \in a.rest : k <= x
                           /\ Fetch(s, "goto", [a EXCEPT !.rest = @ \ {k}], k, sh)

handleNavigateToChallenge(s) ==
    /\ PanelShown /\ FreeSlot(s)
    /\ \E c \in Challenge :
          \/ /\ c \in UNION {shelf.loaded[k] : k \in Category}
             /\ GotoOpens(s, shelf, c, CategoryOf[c], Opening(c))
          \/ /\ c \notin UNION {shelf.loaded[k] : k \in Category}
             /\ GotoNext(s, shelf, [Opening(c) EXCEPT
                    !.rest = {k \in shelf.cats : shelf.loaded[k] = Unloaded}])
             /\ UNCHANGED url
    /\ UNCHANGED <<solved, hidden, shown, missed>>
GotoLoaded(s) ==
    LET a == task[s].arg IN
    /\ Loaded(s, "goto")
    /\ IF a.has THEN GotoOpens(s, Merged(s), a.c, a.k,
                               [a EXCEPT !.k = Nothing, !.has = FALSE, !.rest = {}])
       ELSE GotoNext(s, Merged(s), a) /\ UNCHANGED url
    /\ UNCHANGED <<solved, hidden, shown, missed>>

-----------------------------------------------------------------------------
(* The panel closes, or asks for a refresh.                                *)

ClosePanel ==
    /\ PanelShown
    /\ shown' = [shown EXCEPT !.id = Nothing, !.served = FALSE]
    /\ url' = [cat |-> shelf.cat, chal |-> Nothing]
    /\ UNCHANGED <<task, solved, hidden, shelf, missed>>

\* A handler of the panel that will call onFlagSuccess when it is done; by then
\* the panel may be gone.
PanelBusy(s) ==
    /\ PanelShown /\ FreeSlot(s)
    /\ Start(s, "refresh", "panel",
             [Opening(shown.id) EXCEPT
                !.rest = shelf.open \cap {shelf.cat}])
    /\ UNCHANGED <<solved, hidden, url, shelf, shown, missed>>
refreshChallengeData(s) ==
    LET a == task[s].arg IN
    /\ Awaits(s, "refresh", "panel")
    /\ IF a.rest # {} THEN Fetch(s, "refresh", [a EXCEPT !.rest = {}], a.cat, shelf)
       ELSE Await(s, "detail", [Holds EXCEPT !.c = a.c]) /\ UNCHANGED shelf
    /\ UNCHANGED <<solved, hidden, url, shown, missed>>

RefreshLoaded(s) ==
    /\ Loaded(s, "refresh")
    /\ shelf' = Merged(s)
    /\ Await(s, "detail", [Holds EXCEPT !.c = task[s].arg.c])
    /\ UNCHANGED <<solved, hidden, url, shown, missed>>

\* The challenge of the closure is shown again, whatever is shown by now.
RefreshAnswered(s) ==
    LET a == task[s].arg IN
    /\ Awaits(s, "refresh", "detail")
    /\ Ends(s)
    /\ \/ /\ DetailOf(a.c) = "ok"
          /\ shown' = [shown EXCEPT !.id = a.c, !.served = TRUE]
       \/ /\ DetailOf(a.c) # "ok"
          /\ shown' = [shown EXCEPT !.id = Nothing, !.served = FALSE]
       \/ UNCHANGED shown
    /\ UNCHANGED <<solved, hidden, url, shelf, missed>>

-----------------------------------------------------------------------------
BrowserMoves == \/ TeamSolves \/ Hide \/ ClosePanel
                \/ \E s \in Slot :
                     \/ handleCategoryClick(s) \/ handleChallengeClick(s)
                     \/ LockedNavigate(s) \/ handleNavigateToChallenge(s) \/ PanelBusy(s)
BrowserGoes == \E s \in Slot :
    \/ ListAnswered(s) \/ checkPrerequisites(s)
    \/ fetchDataAsync(s) \/ OpenFromUrl(s) \/ UrlLoaded(s) \/ CategoryLoaded(s)
    \/ OpenChecked(s) \/ OpenAnswered(s) \/ OpenRefused(s) \/ LockedClose(s)
    \/ NavLoaded(s) \/ NavChecked(s) \/ NavAnswered(s) \/ NavRefused(s)
    \/ GotoLoaded(s)
    \/ refreshChallengeData(s) \/ RefreshLoaded(s) \/ RefreshAnswered(s)
BrowserNext == \/ BrowserMoves /\ Moved
               \/ BrowserGoes /\ UNCHANGED moves

BrowserSpec == BrowserInit /\ [][BrowserNext]_browserVars

-----------------------------------------------------------------------------
(* Properties.                                                             *)

\* What the panel shows with data of the server is a challenge whose
\* prerequisites in the contest have all been solved, or one that is shown
\* anonymized, whatever is hidden meanwhile: neither the list nor GetById lets a
\* locked one through, and a late answer of an old click or of an old refresh is
\* still of a challenge the team may see.
ServedIsOpen ==
    shown.served => \/ shown.id \in Anonymized
                    \/ {d \in Challenge : Bank[d] \in Prereq[shown.id]} \subseteq solved

\* Every item of a loaded list that the portal knows to be locked has its lock,
\* also after other categories have been loaded (loadPrerequisitesInfo merges):
\* an item is without a lock only if its prerequisites are solved, if one of
\* them could not be read, or while the category is being fetched.  (The spinner
\* is no guide: the first of two fetches of a category to end removes it.)
Fetching(k) == \E s \in Slot : task[s].at \in {"list", "prereqs"} /\ task[s].arg.k = k
LocksAreShown ==
    \A k \in Category : \A c \in shelf.loaded[k] \ Unloaded :
        Fetching(k) \/ c \in shelf.unmet \/ c \in missed \/ Prereq[c] \subseteq solved

\* A skeleton or a spinner never stays for good: an answer that will remove it
\* is still pending (handleChallengeClickInternal's finally, fetchChallenges).
SpinnersAreAttended ==
    /\ shown.skeleton => Tasks({"open", "nav"},
                               {"detail", "refused"}) # {}
    /\ \A k \in shelf.busy : Fetching(k)
    /\ shelf.stage = "loading" => \E s \in Slot : task[s].op = "page"

\* The popup of a locked challenge appears only for a challenge the team may
\* not open yet (Challenges.tsx: "Check prerequisites directly from API to
\* ensure fresh data").  Not so: the code asks for the challenge whose own id is
\* the bank id of the prerequisite.
PopupIsRight ==
    \A s \in Tasks({"open"}, {"locked"}) : ~Unlocked(task[s].arg.c, solved)
=============================================================================
