---------------------------- MODULE PortalConfig ----------------------------
(***************************************************************************)
(* What the portal knows of the configuration: services/configService.ts   *)
(* keeps the dates of the event and the public settings in localStorage    *)
(* for five minutes, for all the tabs of a browser.  The header of the     *)
(* private pages (Layout) counts down to the dates, the login page shows a *)
(* link to the registration when it is enabled, and the registration page  *)
(* asks the server again before it shows its form.  Administrators change  *)
(* the dates and the setting meanwhile.                                    *)
(***************************************************************************)
EXTENDS Tab, Sequences

CONSTANTS
    OpenTab,    \* tabs of the browser
    Plan,       \* dates of the event the administrators may choose: start and end, 0 for none
    MaxNow,     \* bound on the clock
    Expiry      \* DATE_CONFIG_EXPIRY and PUB_CONFIG_EXPIRY

VARIABLES
    now,        \* the clock
    plan,       \* "start" and "end" of the server; 0 is unset
    enabled,    \* contestant_registration_enabled of the server
    tabStore,   \* localStorage: the two entries, and whether there is a session
    tabPage     \* the page of each tab and its React state

portalConfigVars == <<task, moves, now, plan, enabled, tabStore, tabPage>>

\* An entry has a timestamp; that of no entry is too old.
Cached(d) == [data |-> d, at |-> now]
NotCached(d) == [data |-> d, at |-> -Expiry - 1]
StillUsable(e) == now - e.at <= Expiry

\* Nothing answered yet: the body of an internal error has no dates either.
NoDates == [message |-> "none", start |-> 0, end |-> 0]
NothingOf(op) == IF op = "dates" THEN NoDates ELSE FALSE
Empty(token) == [dates |-> NotCached(NoDates), public |-> NotCached(FALSE), token |-> token]

\* An expired entry is removed by whoever reads it.
Read(e, d) == IF StillUsable(e) THEN e ELSE NotCached(d)

\* Which mount of a page it is (by the move that led to it), whether the login page
\* shows the link, whether the form is there, to what date the header counts, whether
\* it was told the dates, and whether registration was enabled since the mount.
MountedAs(name, m) ==
    [name |-> name, mount |-> m, link |-> FALSE, form |-> FALSE, target |-> Nothing,
     answered |-> FALSE, wasEnabled |-> enabled]

ConfigTypeOK ==
    /\ now \in 0..MaxNow /\ plan \in Plan /\ enabled \in BOOLEAN
    /\ tabStore.token \in BOOLEAN
    /\ \A w \in OpenTab :
          /\ tabPage[w].name \in {"blank", "login", "register", "home"}
          /\ {tabPage[w].link, tabPage[w].form, tabPage[w].answered, tabPage[w].wasEnabled}
                \subseteq BOOLEAN

ConfigInit ==
    /\ task = NoTasks /\ moves = 0 /\ now = 0
    /\ plan \in Plan /\ enabled \in BOOLEAN
    /\ tabStore = Empty(FALSE)
    /\ tabPage = [w \in OpenTab |-> MountedAs("blank", 0)]

-----------------------------------------------------------------------------
(* The dates of the event.                                                 *)

\* CtfEnded and CtfTime; a date that is 0 does not bound the event.
CtfEnded == plan.end > 0 /\ now > plan.end
CtfTime == (plan.start > 0 => plan.start < now) /\ (plan.end > 0 => now < plan.end)

\* GetDateTimeConfig; at the second of the end the event is neither on nor over.
DateConfig ==
    IF CtfEnded THEN [message |-> "ended", start |-> 0, end |-> 0]
    ELSE IF CtfTime THEN [message |-> "started", start |-> plan.start, end |-> plan.end]
    ELSE [message |-> "coming", start |-> plan.start, end |-> 0]

\* fetchContestStatus: the date the header counts down to, if any.
Target(d) ==
    LET date == CASE d.message = "not started" -> d.start
                  [] d.message = "started" -> d.end
                  [] OTHER -> 0
    IN  IF now < date THEN date ELSE Nothing
Headed(p, d) == [p EXCEPT !.target = Target(d), !.answered = d.message # "none"]

-----------------------------------------------------------------------------
(* Requests.                                                               *)

AskedFor(s) == task[s].arg
Request(op, w, name, m) ==
    [op |-> op, at |-> "sent", arg |-> [w |-> w, name |-> name, mount |-> m,
                                     data |-> NothingOf(op)]]

\* Whether the page that asked is still the page of the tab.
IsMounted(s) ==
    LET p == tabPage[AskedFor(s).w] IN p.mount = AskedFor(s).mount /\ p.name = AskedFor(s).name

FreeIn(ts) == {s \in Slot : ts[s] = NoTask}
NthFree(ts, n) ==
    CHOOSE s \in FreeIn(ts) : Cardinality({t \in FreeIn(ts) : t <= s}) = n

\* The functions ts with those of rs, in free slots.
With(ts, rs) ==
    [s \in Slot |-> IF \E n \in 1..Len(rs) : s = NthFree(ts, n)
                    THEN rs[CHOOSE n \in 1..Len(rs) : s = NthFree(ts, n)] ELSE ts[s]]
AsksFor(ts, rs) == Cardinality(FreeIn(ts)) >= Len(rs) /\ task' = With(ts, rs)

\* getPublicConfig and getDateConfig ask only without a usable entry ...
PublicRequest(w, name, m) ==
    IF StillUsable(tabStore.public) THEN <<>> ELSE <<Request("public", w, name, m)>>
DateRequest(w, m) ==
    IF StillUsable(tabStore.dates) THEN <<>> ELSE <<Request("dates", w, "home", m)>>

\* ... except for the registration, which forces a refresh.
BugRegisterRequest(w, m) == \* an entry that says enabled is taken for an answer
    IF StillUsable(tabStore.public) /\ tabStore.public.data
    THEN <<[Request("public", w, "register", m) EXCEPT !.at = "metadata"]>>
    ELSE <<Request("public", w, "register", m)>>
RegisterRequest(w, m) == <<Request("public", w, "register", m)>>

-----------------------------------------------------------------------------
(* Pages.  ts are the functions of the browser that go on.                 *)

MountLogin(ts, w, m, st) ==
    /\ tabPage' = [tabPage EXCEPT ![w] =
          [MountedAs("login", m) EXCEPT !.link = StillUsable(st.public) /\ st.public.data]]
    /\ tabStore' = [st EXCEPT !.public = Read(@, FALSE)]
    /\ AsksFor(ts, IF StillUsable(st.public) THEN <<>>
                   ELSE <<Request("public", w, "login", m)>>)
MountRegister(ts, w, m) ==
    /\ tabPage' = [tabPage EXCEPT ![w] = MountedAs("register", m)]
    /\ AsksFor(ts, RegisterRequest(w, m)) /\ UNCHANGED tabStore
MountHome(ts, w, m) ==
    /\ tabPage' = [tabPage EXCEPT ![w] =
          IF StillUsable(tabStore.dates) THEN Headed(MountedAs("home", m), tabStore.dates.data)
          ELSE MountedAs("home", m)]
    /\ tabStore' = [dates |-> Read(tabStore.dates, NoDates),
                   public |-> Read(tabStore.public, FALSE), token |-> TRUE]
    /\ AsksFor(ts, DateRequest(w, m) \o PublicRequest(w, "home", m))

\* A URL opened in the tab ends the functions of the tab.  A private page is
\* there only with a session.
WithoutTab(w) ==
    [s \in Slot |-> IF task[s] # NoTask /\ AskedFor(s).w = w THEN NoTask ELSE task[s]]
LoadsPage(w) ==
    \/ MountRegister(WithoutTab(w), w, moves + 1)
    \/ tabStore.token /\ MountHome(WithoutTab(w), w, moves + 1)
    \/ MountLogin(WithoutTab(w), w, moves + 1, tabStore)

\* The links between login and registration; signing in; signing out, which
\* clears the storage.
FollowsLink(w) ==
    \/ /\ tabPage[w].name = "login" /\ tabPage[w].link
       /\ MountRegister(task, w, moves + 1)
    \/ /\ tabPage[w].name = "register" /\ tabPage[w].form
       /\ MountLogin(task, w, moves + 1, tabStore)
SignsIn(w) == tabPage[w].name = "login" /\ MountHome(task, w, moves + 1)
SignsOut(w) ==
    /\ tabPage[w].name = "home"
    /\ MountLogin(task, w, moves + 1, Empty(FALSE))

\* Administrators.
Reschedules == \E p \in Plan : plan' = p /\ UNCHANGED <<task, enabled, tabStore, tabPage>>
Switches ==
    /\ enabled' = ~enabled
    /\ tabPage' = [w \in OpenTab |-> [tabPage[w] EXCEPT !.wasEnabled = @ \/ enabled']]
    /\ UNCHANGED <<task, plan, tabStore>>

-----------------------------------------------------------------------------
(* The server and the answers.                                             *)

AnswersWith(s, d) == task' = [task EXCEPT ![s].at = "answered", ![s].arg.data = d]
\* getDateConfig takes the body of an internal error for a configuration, too.
ServesDates(s) ==
    /\ Awaits(s, "dates", "sent") /\ \E d \in {DateConfig, NoDates} : AnswersWith(s, d)
    /\ UNCHANGED <<plan, enabled, tabStore, tabPage>>
ServesPublic(s) ==
    /\ Awaits(s, "public", "sent") /\ AnswersWith(s, enabled)
    /\ UNCHANGED <<plan, enabled, tabStore, tabPage>>

\* getDateConfig stores the answer; the header that asked uses it.
DatesAnswered(s) ==
    /\ Awaits(s, "dates", "answered") /\ Ends(s)
    /\ tabStore' = [tabStore EXCEPT !.dates = Cached(AskedFor(s).data)]
    /\ tabPage' = IF IsMounted(s)
                  THEN [tabPage EXCEPT ![AskedFor(s).w] = Headed(@, AskedFor(s).data)]
                  ELSE tabPage
    /\ UNCHANGED <<plan, enabled>>

\* getPublicConfig likewise, for the link of the login page and the logo.
PublicAnswered(s) ==
    /\ Awaits(s, "public", "answered") /\ AskedFor(s).name # "register" /\ Ends(s)
    /\ tabStore' = [tabStore EXCEPT !.public = Cached(AskedFor(s).data)]
    /\ tabPage' = IF IsMounted(s) /\ AskedFor(s).name = "login"
                  THEN [tabPage EXCEPT ![AskedFor(s).w].link = AskedFor(s).data] ELSE tabPage
    /\ UNCHANGED <<plan, enabled>>

\* navigate('/login') of the registration page, which nobody leaves before its answer
\* without loading another.
ToLogin(s, st) == MountLogin([task EXCEPT ![s] = NoTask], AskedFor(s).w, moves, st)

\* loadData of Register: enabled, it asks for the fields of the form, which is shown
\* in the end, without them if they are refused.
RegistrationAnswered(s) ==
    LET st == [tabStore EXCEPT !.public = Cached(AskedFor(s).data)] IN
    /\ Awaits(s, "public", "answered") /\ AskedFor(s).name = "register"
    /\ IF AskedFor(s).data
       THEN Await(s, "metadata", AskedFor(s)) /\ tabStore' = st /\ UNCHANGED tabPage
       ELSE ToLogin(s, st)
    /\ UNCHANGED <<plan, enabled>>
MetadataAnswered(s) ==
    /\ Awaits(s, "public", "metadata") /\ Ends(s)
    /\ tabPage' = [tabPage EXCEPT ![AskedFor(s).w].form = TRUE]
    /\ UNCHANGED <<plan, enabled, tabStore>>

\* The request fails: null instead of a configuration.
RequestFails(s) ==
    /\ task[s].at = "sent"
    /\ IF AskedFor(s).name = "register" THEN ToLogin(s, tabStore)
       ELSE Ends(s) /\ UNCHANGED <<tabStore, tabPage>>
    /\ UNCHANGED <<plan, enabled>>

\* The interval of a header stops at its date.
Ticks ==
    /\ now < MaxNow /\ now' = now + 1
    /\ tabPage' = [w \in OpenTab |->
                     IF tabPage[w].target <= now' THEN [tabPage[w] EXCEPT !.target = Nothing]
                     ELSE tabPage[w]]
    /\ UNCHANGED <<task, moves, plan, enabled, tabStore>>

-----------------------------------------------------------------------------
ConfigMoves ==
    \/ \E w \in OpenTab :
          /\ LoadsPage(w) \/ FollowsLink(w) \/ SignsIn(w) \/ SignsOut(w)
          /\ UNCHANGED <<plan, enabled>>
    \/ Reschedules \/ Switches
ConfigAnswers ==
    \E s \in Slot :
        \/ ServesDates(s) \/ ServesPublic(s) \/ RequestFails(s)
        \/ DatesAnswered(s) \/ PublicAnswered(s)
        \/ RegistrationAnswered(s) \/ MetadataAnswered(s)

ConfigNext ==
    \/ Moved /\ ConfigMoves /\ UNCHANGED now
    \/ ConfigAnswers /\ UNCHANGED <<moves, now>>
    \/ Ticks

ConfigSpec == ConfigInit /\ [][ConfigNext]_portalConfigVars

-----------------------------------------------------------------------------
(* Whoever sees the registration form has it from a server that had        *)
(* registration enabled at some time since the page was opened, whatever   *)
(* other tabs, older visits and the login page have left in the cache      *)
(* (loadData of Register, getPublicConfig with forceRefresh).              *)
FormWasEnabled == \A w \in OpenTab : tabPage[w].form => tabPage[w].wasEnabled

(* "Contest countdown (Starts in or Ends in) when event timing is active": *)
(* a header that was told the dates counts down before the start and, when *)
(* there is an end, until the end.  Not so: the header waits for another   *)
(* message than the one the server sends before the start.                 *)
CountdownIsShown ==
    \A w \in OpenTab :
        /\ tabPage[w].name = "home" /\ tabPage[w].answered
        /\ now < plan.start \/ (CtfTime /\ plan.end > 0)
        => tabPage[w].target # Nothing
=============================================================================
