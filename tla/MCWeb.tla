------------------------------- MODULE MCWeb -------------------------------
(***************************************************************************)
(* The pages that have a browser tab of their own, each alone in a tab:    *)
(* one instance for TLC of the contestants' ChallengeBrowser, HintDialog,  *)
(* PortalSession, Boards and TeamPages and of the administrators'          *)
(* ChallengeEditor, AdminPages, AdminChallenge and AdminConfigs.  The page *)
(* is chosen at the start; the state of the others keeps one value.        *)
(* PortalConfig, which all the contestants' pages use, counts as a page    *)
(* here.                                                                   *)
(***************************************************************************)
EXTENDS ChallengeBrowser, HintDialog, PortalSession, Boards, TeamPages,
        PortalConfig, ChallengeEditor, AdminPages, AdminChallenge, AdminConfigs, TLC

VARIABLE page   \* the page that was chosen

\* The second challenge needs the first, the third, in a category of its own,
\* needs the second; the bank ids are one off the contest's own ids.
CategoryOfDef == [c \in Challenge |-> IF c = 3 THEN 2 ELSE 1]
BankDef == [c \in Challenge |-> c + 1]
PrereqDef == [c \in Challenge |-> IF c = 1 THEN {} ELSE {c}]
PlanDef == {[start |-> 2, end |-> 3], [start |-> 0, end |-> 0]}
OffsetDef == [z \in Zone |-> IF z = "utc" THEN 0 ELSE 2]

Pages == {"browser", "hints", "session", "boards", "team", "portal",
          "editor", "admin", "challenge", "configs"}

\* Moves of people on each page; two users are moved into a team in six.
Limit == [browser |-> 3, hints |-> 4, session |-> 4, boards |-> 4, team |-> 6, portal |-> 3,
          editor |-> 4, challenge |-> 5, configs |-> 4,
          admin |-> CASE screen = "members" -> 6 [] screen = "users" -> 5 [] OTHER -> 3]

browserOnly == <<solved, hidden, url, shelf, shown, missed>>
hintsOnly == <<paid, dialog, panel, agreed>>
sessionOnly == <<store, tab, db, issued, cache>>
boardsOnly == <<board, pub>>
teamOnly == <<view, ui, popup, served>>
portalOnly == <<now, plan, enabled, tabStore, tabPage>>
editorOnly == <<part, edit, kept>>
adminOnly == <<screen, adm, srv>>
challengeOnly == <<sheet, form, chal>>
configsOnly == <<pane, conf, base>>
contestants == <<browserOnly, hintsOnly, sessionOnly, boardsOnly, teamOnly, portalOnly>>
administrators == <<editorOnly, adminOnly, challengeOnly, configsOnly>>
webVars == <<page, task, moves, contestants, administrators>>

NoBrowser == /\ solved = {} /\ hidden = {} /\ url = Nothing /\ missed = {}
             /\ shelf = [stage |-> "none", busy |-> {}, loaded |-> [k \in Category |-> {}]]
             /\ shown = [id |-> Nothing, served |-> FALSE, skeleton |-> FALSE]
NoHints == /\ paid = {} /\ dialog = NoDialog /\ agreed = {}
           /\ panel = [unlocking |-> Nothing, loading |-> FALSE]
NoSession == /\ store = Cleared /\ tab = [w \in Window |-> LoginPage]
             /\ db = 0 /\ issued = 0 /\ cache = Nothing
NoBoards == /\ board = [loading |-> FALSE, refreshing |-> FALSE, rows |-> 0, per |-> 1, page |-> 1]
            /\ pub = [loading |-> FALSE]
NoTeam == /\ view = "none" /\ ui = [loading |-> FALSE, old |-> Nothing]
          /\ popup = Nothing /\ served = Nothing
NoPortal == /\ now = 0 /\ plan = (CHOOSE p \in Plan : TRUE) /\ enabled = FALSE
            /\ tabStore = Nothing /\ tabPage = [w \in OpenTab |-> MountedAs("blank", 0)]
NoEditor == part = "none" /\ edit = Nothing /\ kept = Nothing
NoAdmin == screen = "none" /\ adm = Nothing /\ srv = [resets |-> 0]
NoChallenge == sheet = "none" /\ form = Nothing /\ chal = [version |-> "none"]
NoConfigs == pane = "none" /\ conf = [value |-> Blank] /\ base = Nothing

(* A flag that disables a form, a list or a button of a contestant's page, *)
(* or shows a spinner, is set only while a function that will reset it is  *)
(* pending: the challenge list, the session pages, the pages of the team   *)
(* and the boards (the finally blocks of Challenges, Login, ContestList,   *)
(* Tickets, Instances, Profile, Register, Scoreboard).                     *)
FlagsAreAttended ==
    SpinnersAreAttended /\ BusyIsAttended /\ WaitsAreAttended /\ BoardsAreAttended

(* The page numbers of every pagination lead to all its pages, and the     *)
(* page shown exists (getPageNumbers, handleChangePage).                   *)
PagesExist == PagesAreConnected /\ LogPageExists

WebInit ==
    /\ IF page = "browser" THEN BrowserInit ELSE NoBrowser
    /\ IF page = "hints" THEN HintDialogInit ELSE NoHints
    /\ IF page = "session" THEN SessionInit ELSE NoSession
    /\ IF page = "boards" THEN BoardsInit ELSE NoBoards
    /\ IF page = "team" THEN TeamInit ELSE NoTeam
    /\ IF page = "portal" THEN ConfigInit ELSE NoPortal
    /\ IF page = "editor" THEN EditorInit ELSE NoEditor
    /\ IF page = "admin" THEN AdminInit ELSE NoAdmin
    /\ IF page = "challenge" THEN ChallengeInit ELSE NoChallenge
    /\ IF page = "configs" THEN ConfigsInit ELSE NoConfigs

ContestantNext ==
    /\ UNCHANGED administrators
    /\ \/ /\ page = "browser" /\ BrowserNext
          /\ UNCHANGED <<hintsOnly, sessionOnly, boardsOnly, teamOnly, portalOnly>>
       \/ /\ page = "hints" /\ HintDialogNext
          /\ UNCHANGED <<browserOnly, sessionOnly, boardsOnly, teamOnly, portalOnly>>
       \/ /\ page = "session" /\ SessionNext
          /\ UNCHANGED <<browserOnly, hintsOnly, boardsOnly, teamOnly, portalOnly>>
       \/ /\ page = "boards" /\ BoardsNext
          /\ UNCHANGED <<browserOnly, hintsOnly, sessionOnly, teamOnly, portalOnly>>
       \/ /\ page = "team" /\ TeamNext
          /\ UNCHANGED <<browserOnly, hintsOnly, sessionOnly, boardsOnly, portalOnly>>
       \/ /\ page = "portal" /\ ConfigNext
          /\ UNCHANGED <<browserOnly, hintsOnly, sessionOnly, boardsOnly, teamOnly>>
AdministratorNext ==
    /\ UNCHANGED contestants
    /\ \/ page = "editor" /\ EditorNext /\ UNCHANGED <<adminOnly, challengeOnly, configsOnly>>
       \/ page = "admin" /\ AdminNext /\ UNCHANGED <<editorOnly, challengeOnly, configsOnly>>
       \/ page = "challenge" /\ ChallengeNext /\ UNCHANGED <<editorOnly, adminOnly, configsOnly>>
       \/ page = "configs" /\ ConfigsNext /\ UNCHANGED <<editorOnly, adminOnly, challengeOnly>>
WebNext ==
    /\ ContestantNext \/ AdministratorNext
    /\ moves' <= Limit[page] /\ UNCHANGED page

\* A tab of its own page.
TabInit == page \in Pages /\ WebInit
WebSpec == TabInit /\ [][WebNext]_webVars
=============================================================================
