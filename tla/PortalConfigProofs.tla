------------------------- MODULE PortalConfigProofs -------------------------
(***************************************************************************)
(* Proofs about the configuration that the tabs of a browser share, for    *)
(* every number of tabs, pending functions and moves, every expiry and     *)
(* every set of plans: its types, and that a registration form is shown    *)
(* only on a page that was open while the server had it enabled.           *)
(***************************************************************************)
EXTENDS PortalConfig, TLAPS

\* The plans are dates, and the clock is one.
PlansAreDates == MaxNow \in Nat /\ Expiry \in Int /\ Plan \subseteq [start : Nat, end : Nat]

\* The requests and what they hold; only the registration asks for the fields.
Dates == [message : {"none", "ended", "started", "coming"}, start : Nat, end : Nat]
DateRequests ==
    [op : {"dates"}, at : {"sent", "answered"},
     arg : [w : OpenTab, name : {"home"}, mount : Nat, data : Dates]]
PublicRequests ==
    [op : {"public"}, at : {"sent", "answered"},
     arg : [w : OpenTab, name : {"login", "home", "register"}, mount : Nat, data : BOOLEAN]]
FieldRequests ==
    [op : {"public"}, at : {"metadata"},
     arg : [w : OpenTab, name : {"register"}, mount : Nat, data : BOOLEAN]]
Functions == {NoTask} \cup DateRequests \cup PublicRequests \cup FieldRequests

TabPages == [name : {"blank", "login", "register", "home"}, mount : Nat, link : BOOLEAN,
          form : BOOLEAN, target : Nat, answered : BOOLEAN, wasEnabled : BOOLEAN]
Stores == [dates : [data : Dates, at : Int], public : [data : BOOLEAN, at : Int],
           token : BOOLEAN]

Shared == /\ now \in 0..MaxNow /\ plan \in Plan /\ enabled \in BOOLEAN /\ moves \in Nat
          /\ tabStore \in Stores
          /\ tabPage \in [OpenTab -> TabPages]
          /\ task \in [Slot -> Functions]

\* A registration page is the only one with a pending function of its kind, has one
\* at most, and none once the form is there.
Registers(t, w) == t # NoTask /\ t.arg.w = w /\ t.arg.name = "register"
AsksOnce == \A w \in OpenTab, s, t \in Slot :
    Registers(task[s], w) /\ Registers(task[t], w) => s = t
AsksBeforeTheForm == \A w \in OpenTab, s \in Slot :
    Registers(task[s], w) => tabPage[w].name = "register" /\ ~tabPage[w].form

\* A page knows that registration is enabled, and an answer that says so is true of
\* the page that waits for it.
EnabledIsSeen == \A w \in OpenTab : enabled => tabPage[w].wasEnabled
AnswersWereTrue == \A w \in OpenTab, s \in Slot :
    Registers(task[s], w) /\ task[s].at # "sent" /\ task[s].arg.data => tabPage[w].wasEnabled
FieldsWereAllowed == \A s \in Slot : task[s].at = "metadata" => task[s].arg.data

\* The inductive invariant.
ConfigInv == /\ Shared /\ AsksOnce /\ AsksBeforeTheForm
             /\ EnabledIsSeen /\ AnswersWereTrue /\ FieldsWereAllowed /\ FormWasEnabled

-----------------------------------------------------------------------------
(* The operators of the module.                                            *)

LEMMA WithOf ==
    ASSUME NEW ts, NEW rs, NEW s \in Slot
    PROVE  \/ With(ts, rs)[s] = ts[s]
           \/ \E n \in 1..Len(rs) : With(ts, rs)[s] = rs[n]
BY DEF With

LEMMA WithOne ==
    ASSUME NEW ts, NEW r, NEW s \in Slot
    PROVE  With(ts, <<r>>)[s] = IF s = NthFree(ts, 1) THEN r ELSE ts[s]
<1>1. Len(<<r>>) = 1 /\ <<r>>[1] = r /\ 1..1 = {1}
  OBVIOUS
<1> QED
  BY <1>1 DEF With

\* Requests of a page that has just been mounted.
LEMMA RequestTyped ==
    ASSUME NEW w \in OpenTab, NEW m \in Nat
    PROVE  /\ Request("dates", w, "home", m) \in DateRequests
           /\ \A name \in {"login", "home", "register"} :
                 Request("public", w, name, m) \in PublicRequests
BY DEF Request, DateRequests, PublicRequests, NothingOf, NoDates, Dates

LEMMA FunctionFacts ==
    /\ NoTask \notin DateRequests \cup PublicRequests \cup FieldRequests
    /\ NoTask.op = "none" /\ NoTask.at = "none"
BY DEF NoTask, DateRequests, PublicRequests, FieldRequests

LEMMA MountedTyped ==
    ASSUME Shared, NEW name \in {"blank", "login", "register", "home"}, NEW m \in Nat
    PROVE  /\ MountedAs(name, m) \in TabPages
           /\ MountedAs(name, m).name = name /\ MountedAs(name, m).form = FALSE
           /\ MountedAs(name, m).wasEnabled = enabled
BY DEF Shared, MountedAs, TabPages, Nothing

LEMMA StoredTyped ==
    ASSUME Shared, PlansAreDates
    PROVE  /\ \A t \in BOOLEAN : Empty(t) \in Stores
           /\ \A d \in Dates : Cached(d) \in [data : Dates, at : Int]
           /\ \A d \in BOOLEAN : Cached(d) \in [data : BOOLEAN, at : Int]
           /\ \A e \in [data : Dates, at : Int] : Read(e, NoDates) \in [data : Dates, at : Int]
           /\ \A e \in [data : BOOLEAN, at : Int] : Read(e, FALSE) \in [data : BOOLEAN, at : Int]
<1>1. now \in Int /\ -Expiry - 1 \in Int /\ NoDates \in Dates
  BY DEF Shared, PlansAreDates, NoDates, Dates
<1>2. NotCached(NoDates) \in [data : Dates, at : Int] /\ NotCached(FALSE) \in [data : BOOLEAN, at : Int]
  BY <1>1 DEF NotCached
<1> QED
  BY <1>1, <1>2 DEF Empty, Cached, Read, Stores

LEMMA HeadedTyped ==
    ASSUME Shared, PlansAreDates, NEW p \in TabPages, NEW d \in Dates
    PROVE  /\ Headed(p, d) \in TabPages
           /\ Headed(p, d).name = p.name /\ Headed(p, d).form = p.form
           /\ Headed(p, d).wasEnabled = p.wasEnabled
<1>1. Target(d) \in Nat
  BY DEF Target, Dates, Nothing
<1> QED
  BY <1>1 DEF Headed, TabPages

LEMMA ConfigOfDates ==
    ASSUME Shared, PlansAreDates
    PROVE  DateConfig \in Dates /\ NoDates \in Dates
BY DEF DateConfig, NoDates, Dates, Shared, PlansAreDates

-----------------------------------------------------------------------------
(* Mounts.                                                                 *)

\* What a mount of a page in w leaves of the other functions, and what it asks.
Rest(ts, w) ==
    /\ ts \in [Slot -> Functions]
    /\ \A s \in Slot : ts[s] = NoTask \/ ts[s] = task[s]
    /\ \A s \in Slot : ~Registers(ts[s], w)
AskedBy(t, w, name) == t.at = "sent" /\ t.arg.w = w /\ t.arg.name = name

\* The step adds requests to ts, and for a registration page one only.
Adds(ts, w, name, free) ==
    \A s \in Slot : \/ task'[s] = ts[s]
                    \/ AskedBy(task'[s], w, name) /\ (name = "register" => s = free)

LEMMA RequestsTyped ==
    ASSUME Shared, NEW w \in OpenTab, NEW m \in Nat, NEW ts \in [Slot -> Functions], NEW rs,
           NEW name \in {"login", "home", "register"}, task' = With(ts, rs),
           \A n \in 1..Len(rs) : rs[n] \in (IF name = "home" THEN {Request("dates", w, "home", m)}
                                            ELSE {}) \cup {Request("public", w, name, m)}
    PROVE  /\ task' \in [Slot -> Functions]
           /\ \A s \in Slot : task'[s] = ts[s] \/ AskedBy(task'[s], w, name)
<1>1. task' = [s \in Slot |-> With(ts, rs)[s]]
  BY DEF With
<1>2. \A s \in Slot : task'[s] = ts[s] \/ \E n \in 1..Len(rs) : task'[s] = rs[n]
  BY <1>1, WithOf
<1>3. \A n \in 1..Len(rs) : rs[n] \in Functions /\ AskedBy(rs[n], w, name)
  <2>1. \A nm : AskedBy(Request("public", w, nm, m), w, nm) /\ AskedBy(Request("dates", w, nm, m), w, nm)
    BY DEF Request, AskedBy
  <2> QED
    BY <2>1, RequestTyped DEF Functions
<1> QED
  BY <1>1, <1>2, <1>3

LEMMA MountKeeps ==
    ASSUME ConfigInv, NEW w \in OpenTab, NEW ts, Rest(ts, w), NEW p \in TabPages, NEW free,
           Shared', UNCHANGED enabled, tabPage' = [tabPage EXCEPT ![w] = p],
           p.form = FALSE, p.wasEnabled = enabled, Adds(ts, w, p.name, free)
    PROVE  ConfigInv'
<1>1. /\ AsksOnce /\ AsksBeforeTheForm /\ EnabledIsSeen /\ AnswersWereTrue
      /\ FieldsWereAllowed /\ FormWasEnabled /\ Shared
  BY DEF ConfigInv
<1>2. \A v \in OpenTab : tabPage'[v] = IF v = w THEN p ELSE tabPage[v]
  BY <1>1 DEF Shared
<1>3. ASSUME NEW v \in OpenTab, v # w, NEW s \in Slot, Registers(task'[s], v)
      PROVE  task'[s] = task[s]
  BY <1>3 DEF Rest, Registers, Adds, AskedBy
<1>4. ASSUME NEW s \in Slot, Registers(task'[s], w)
      PROVE  s = free /\ p.name = "register" /\ task'[s].at = "sent"
  BY <1>4 DEF Rest, Registers, Adds, AskedBy
<1>5. AsksOnce'
  BY <1>1, <1>3, <1>4 DEF AsksOnce
<1>6. AsksBeforeTheForm'
  BY <1>1, <1>2, <1>3, <1>4 DEF AsksBeforeTheForm
<1>7. EnabledIsSeen' /\ FormWasEnabled'
  BY <1>1, <1>2 DEF EnabledIsSeen, FormWasEnabled
<1>8. AnswersWereTrue'
  BY <1>1, <1>2, <1>3, <1>4 DEF AnswersWereTrue
<1>9. FieldsWereAllowed'
  BY <1>1, FunctionFacts DEF FieldsWereAllowed, Rest, Adds, AskedBy
<1> QED
  BY <1>5, <1>6, <1>7, <1>8, <1>9 DEF ConfigInv

LEMMA LoginKeeps ==
    ASSUME ConfigInv, PlansAreDates, NEW w \in OpenTab, NEW ts, Rest(ts, w), NEW m \in Nat,
           NEW st \in Stores, MountLogin(ts, w, m, st), moves' \in Nat,
           UNCHANGED <<now, plan, enabled>>
    PROVE  ConfigInv'
<1>1. Shared /\ ts \in [Slot -> Functions]
  BY DEF ConfigInv, Rest
<1>2. PICK p \in TabPages : /\ tabPage' = [tabPage EXCEPT ![w] = p] /\ p.name = "login"
                         /\ p.form = FALSE /\ p.wasEnabled = enabled
  <2> DEFINE q == MountedAs("login", m)
             p == [q EXCEPT !.link = StillUsable(st.public) /\ st.public.data]
  <2>1. st.public.data \in BOOLEAN
    BY DEF Stores
  <2>2. (StillUsable(st.public) /\ st.public.data) \in BOOLEAN
    OBVIOUS
  <2>3. q \in TabPages /\ q.name = "login" /\ q.form = FALSE /\ q.wasEnabled = enabled
    BY <1>1, MountedTyped
  <2>4. tabPage' = [tabPage EXCEPT ![w] = p]
    BY DEF MountLogin
  <2> HIDE DEF q
  <2>5. p \in TabPages /\ p.name = "login" /\ p.form = FALSE /\ p.wasEnabled = enabled
    BY <2>2, <2>3 DEF TabPages
  <2> HIDE DEF p
  <2> QED
    BY <2>4, <2>5
<1>3. tabStore' \in Stores
  <2>1. st.public \in [data : BOOLEAN, at : Int] /\ "public" \in DOMAIN st
    BY DEF Stores
  <2>2. tabStore' = [st EXCEPT !.public = Read(st.public, FALSE)]
    BY DEF MountLogin
  <2>3. Read(st.public, FALSE) \in [data : BOOLEAN, at : Int]
    BY <1>1, <2>1, StoredTyped
  <2> QED
    BY <2>2, <2>3 DEF Stores
<1>4. PICK rs : /\ task' = With(ts, rs)
                /\ \A n \in 1..Len(rs) : rs[n] = Request("public", w, "login", m)
  BY DEF MountLogin, AsksFor
<1>5. task' \in [Slot -> Functions] /\ \A s \in Slot : task'[s] = ts[s] \/ AskedBy(task'[s], w, "login")
  BY <1>1, <1>4, RequestsTyped
<1>6. Shared'
  BY <1>1, <1>2, <1>3, <1>5 DEF Shared
<1>7. Adds(ts, w, p.name, 0)
  BY <1>2, <1>5 DEF Adds
<1> QED
  BY <1>2, <1>6, <1>7, MountKeeps

LEMMA HomeKeeps ==
    ASSUME ConfigInv, PlansAreDates, NEW w \in OpenTab, NEW ts, Rest(ts, w), NEW m \in Nat,
           MountHome(ts, w, m), moves' \in Nat, UNCHANGED <<now, plan, enabled>>
    PROVE  ConfigInv'
<1>1. Shared /\ ts \in [Slot -> Functions] /\ tabStore \in Stores
  BY DEF ConfigInv, Rest, Shared
<1>2. PICK p \in TabPages : /\ tabPage' = [tabPage EXCEPT ![w] = p] /\ p.name = "home"
                         /\ p.form = FALSE /\ p.wasEnabled = enabled
  <2> DEFINE q == MountedAs("home", m)
             p == IF StillUsable(tabStore.dates) THEN Headed(q, tabStore.dates.data) ELSE q
  <2>1. q \in TabPages /\ q.name = "home" /\ q.form = FALSE /\ q.wasEnabled = enabled
    BY <1>1, MountedTyped
  <2>2. tabStore.dates.data \in Dates
    BY <1>1 DEF Stores
  <2>3. tabPage' = [tabPage EXCEPT ![w] = p]
    BY DEF MountHome
  <2> HIDE DEF q
  <2>4. p \in TabPages /\ p.name = "home" /\ p.form = FALSE /\ p.wasEnabled = enabled
    BY <1>1, <2>1, <2>2, HeadedTyped
  <2> HIDE DEF p
  <2> QED
    BY <2>3, <2>4
<1>3. tabStore' \in Stores
  <2>1. tabStore.dates \in [data : Dates, at : Int] /\ tabStore.public \in [data : BOOLEAN, at : Int]
    BY <1>1 DEF Stores
  <2> QED
    BY <1>1, <2>1, StoredTyped DEF MountHome, Stores
<1>4. PICK rs : /\ task' = With(ts, rs)
                /\ \A n \in 1..Len(rs) : rs[n] \in {Request("dates", w, "home", m),
                                                    Request("public", w, "home", m)}
  <2> DEFINE d == DateRequest(w, m)
             q == PublicRequest(w, "home", m)
             D == Request("dates", w, "home", m)
             Q == Request("public", w, "home", m)
  <2>1. d \in {<<>>, <<D>>} /\ q \in {<<>>, <<Q>>}
    BY DEF DateRequest, PublicRequest
  <2>2. task' = With(ts, d \o q)
    BY DEF MountHome, AsksFor
  <2> HIDE DEF d, q, D, Q
  <2>3. \A n \in 1..Len(d \o q) : (d \o q)[n] \in {D, Q}
    BY <2>1
  <2> QED
    BY <2>2, <2>3 DEF D, Q
<1>5. task' \in [Slot -> Functions] /\ \A s \in Slot : task'[s] = ts[s] \/ AskedBy(task'[s], w, "home")
  BY <1>1, <1>4, RequestsTyped
<1>6. Shared'
  BY <1>1, <1>2, <1>3, <1>5 DEF Shared
<1>7. Adds(ts, w, p.name, 0)
  BY <1>2, <1>5 DEF Adds
<1> QED
  BY <1>2, <1>6, <1>7, MountKeeps

LEMMA RegisterKeeps ==
    ASSUME ConfigInv, PlansAreDates, NEW w \in OpenTab, NEW ts, Rest(ts, w), NEW m \in Nat,
           MountRegister(ts, w, m), moves' \in Nat, UNCHANGED <<now, plan, enabled>>
    PROVE  ConfigInv'
<1>1. Shared /\ ts \in [Slot -> Functions]
  BY DEF ConfigInv, Rest
<1>2. PICK p \in TabPages : /\ tabPage' = [tabPage EXCEPT ![w] = p] /\ p.name = "register"
                         /\ p.form = FALSE /\ p.wasEnabled = enabled
  BY <1>1, MountedTyped DEF MountRegister
<1>3. UNCHANGED tabStore
  BY DEF MountRegister
<1> DEFINE r == Request("public", w, "register", m)
<1>4. task' = With(ts, <<r>>)
  BY DEF MountRegister, AsksFor, RegisterRequest
<1>5. \A n \in 1..Len(<<r>>) : <<r>>[n] = r
  OBVIOUS
<1>6. task' \in [Slot -> Functions] /\ \A s \in Slot : task'[s] = ts[s] \/ AskedBy(task'[s], w, "register")
  BY <1>1, <1>4, <1>5, RequestsTyped
<1>7. PICK free : \A s \in Slot : task'[s] = ts[s] \/ s = free
  BY <1>4, WithOne
<1>8. Shared'
  BY <1>1, <1>2, <1>3, <1>6 DEF Shared
<1>9. Adds(ts, w, p.name, free)
  BY <1>2, <1>6, <1>7 DEF Adds
<1> QED
  BY <1>2, <1>8, <1>9, MountKeeps

-----------------------------------------------------------------------------
(* Moves.                                                                  *)

LEMMA AnyRest ==
    ASSUME ConfigInv, NEW w \in OpenTab
    PROVE  /\ Rest(WithoutTab(w), w)
           /\ tabPage[w].name # "register" \/ tabPage[w].form => Rest(task, w)
           /\ \A s \in Slot : Registers(task[s], w) => Rest([task EXCEPT ![s] = NoTask], w)
<1>1. task \in [Slot -> Functions] /\ NoTask \in Functions
  BY DEF ConfigInv, Shared, Functions
<1>2. Rest(WithoutTab(w), w)
  BY <1>1 DEF Rest, WithoutTab, Registers, AskedFor
<1>3. tabPage[w].name # "register" \/ tabPage[w].form => Rest(task, w)
  BY <1>1 DEF ConfigInv, AsksBeforeTheForm, Rest
<1>4. ASSUME NEW s \in Slot, Registers(task[s], w) PROVE Rest([task EXCEPT ![s] = NoTask], w)
  BY <1>1, <1>4 DEF ConfigInv, AsksOnce, Rest, Registers
<1> QED
  BY <1>2, <1>3, <1>4

LEMMA WindowMoves ==
    ASSUME ConfigInv, PlansAreDates, NEW w \in OpenTab, moves' = moves + 1,
           LoadsPage(w) \/ FollowsLink(w) \/ SignsIn(w) \/ SignsOut(w),
           UNCHANGED <<now, plan, enabled>>
    PROVE  ConfigInv'
<1>1. moves \in Nat /\ tabStore \in Stores /\ Shared
  BY DEF ConfigInv, Shared
<1>2. moves + 1 \in Nat /\ moves' \in Nat /\ Empty(FALSE) \in Stores
  <2>1. \A t \in BOOLEAN : Empty(t) \in Stores
    BY <1>1, StoredTyped
  <2>2. Empty(FALSE) \in Stores
    BY <2>1, Zenon
  <2>3. moves + 1 \in Nat
    BY <1>1
  <2> QED
    BY <2>2, <2>3, Zenon
<1>3. CASE LoadsPage(w)
  BY <1>1, <1>2, <1>3, AnyRest, RegisterKeeps, HomeKeeps, LoginKeeps DEF LoadsPage
<1>4. CASE FollowsLink(w)
  BY <1>1, <1>2, <1>4, AnyRest, RegisterKeeps, LoginKeeps DEF FollowsLink
<1>5. CASE SignsIn(w)
  BY <1>1, <1>2, <1>5, AnyRest, HomeKeeps DEF SignsIn
<1>6. CASE SignsOut(w)
  BY <1>1, <1>2, <1>6, AnyRest, LoginKeeps DEF SignsOut
<1> QED
  BY <1>3, <1>4, <1>5, <1>6

LEMMA SwitchKeeps ==
    ASSUME ConfigInv, Switches, moves' \in Nat, UNCHANGED now
    PROVE  ConfigInv'
<1>1. /\ AsksOnce /\ AsksBeforeTheForm /\ EnabledIsSeen /\ AnswersWereTrue
      /\ FieldsWereAllowed /\ FormWasEnabled /\ Shared
  BY DEF ConfigInv
<1>2. UNCHANGED <<task, plan, tabStore>> /\ enabled' = ~enabled /\ enabled \in BOOLEAN
  BY <1>1 DEF Switches, Shared
<1>3. \A w \in OpenTab :
         tabPage'[w] = [tabPage[w] EXCEPT !.wasEnabled = tabPage[w].wasEnabled \/ enabled']
  BY DEF Switches
<1>4. \A w \in OpenTab : tabPage[w] \in TabPages
  BY <1>1 DEF Shared
<1>5. \A w \in OpenTab : /\ tabPage'[w] \in TabPages /\ tabPage'[w].name = tabPage[w].name
                        /\ tabPage'[w].form = tabPage[w].form
                        /\ tabPage'[w].wasEnabled = (tabPage[w].wasEnabled \/ enabled')
  BY <1>2, <1>3, <1>4 DEF TabPages
<1>6. Shared'
  <2>1. tabPage' = [w \in OpenTab |-> tabPage'[w]]
    BY DEF Switches
  <2> QED
    BY <1>1, <1>2, <1>5, <2>1 DEF Shared
<1>7. AsksOnce' /\ AsksBeforeTheForm' /\ FieldsWereAllowed'
  BY <1>1, <1>2, <1>5 DEF AsksOnce, AsksBeforeTheForm, FieldsWereAllowed
<1>8. EnabledIsSeen' /\ AnswersWereTrue' /\ FormWasEnabled'
  BY <1>1, <1>2, <1>5 DEF EnabledIsSeen, AnswersWereTrue, FormWasEnabled
<1> QED
  BY <1>6, <1>7, <1>8 DEF ConfigInv

\* What only changes what a page shows, the clock or the plan.
LEMMA ViewKeeps ==
    ASSUME ConfigInv, Shared', UNCHANGED <<task, enabled>>,
           \A w \in OpenTab :
              /\ tabPage'[w].name = tabPage[w].name /\ tabPage'[w].form = tabPage[w].form
              /\ tabPage'[w].wasEnabled = tabPage[w].wasEnabled
    PROVE  ConfigInv'
BY DEF ConfigInv, AsksOnce, AsksBeforeTheForm, EnabledIsSeen, AnswersWereTrue,
   FieldsWereAllowed, FormWasEnabled

LEMMA MovesKeep ==
    ASSUME ConfigInv, PlansAreDates, Moved, ConfigMoves, UNCHANGED now
    PROVE  ConfigInv'
<1>1. Shared /\ moves' = moves + 1 /\ moves' \in Nat
  BY DEF ConfigInv, Shared, Moved
<1>2. CASE \E w \in OpenTab : /\ LoadsPage(w) \/ FollowsLink(w) \/ SignsIn(w) \/ SignsOut(w)
                             /\ UNCHANGED <<plan, enabled>>
  BY <1>1, <1>2, WindowMoves
<1>3. CASE Reschedules
  <2>1. Shared' /\ UNCHANGED <<task, enabled, tabPage>>
    BY <1>1, <1>3 DEF Reschedules, Shared
  <2> QED
    BY <2>1, ViewKeeps
<1>4. CASE Switches
  BY <1>1, <1>4, SwitchKeeps
<1> QED
  BY <1>2, <1>3, <1>4 DEF ConfigMoves

LEMMA TicksKeep ==
    ASSUME ConfigInv, PlansAreDates, Ticks
    PROVE  ConfigInv'
<1>1. Shared /\ UNCHANGED <<task, moves, plan, enabled, tabStore>> /\ now' \in 0..MaxNow
  BY DEF ConfigInv, Shared, Ticks, PlansAreDates
<1>2. \A w \in OpenTab : tabPage[w] \in TabPages
  BY <1>1 DEF Shared
<1>3. \A w \in OpenTab : tabPage'[w] = tabPage[w] \/ tabPage'[w] = [tabPage[w] EXCEPT !.target = Nothing]
  BY DEF Ticks
<1>4. \A w \in OpenTab : /\ tabPage'[w] \in TabPages /\ tabPage'[w].name = tabPage[w].name
                        /\ tabPage'[w].form = tabPage[w].form
                        /\ tabPage'[w].wasEnabled = tabPage[w].wasEnabled
  <2>1. ASSUME NEW p \in TabPages, NEW q, q = [p EXCEPT !.target = 0]
        PROVE  /\ q \in TabPages /\ q.name = p.name
               /\ q.form = p.form /\ q.wasEnabled = p.wasEnabled
    BY <2>1 DEF TabPages
  <2> QED
    BY <1>2, <1>3, <2>1 DEF Nothing
<1>5. Shared'
  <2>1. tabPage' = [w \in OpenTab |-> tabPage'[w]]
    BY DEF Ticks
  <2> QED
    BY <1>1, <1>4, <2>1 DEF Shared
<1> QED
  BY <1>1, <1>4, <1>5, ViewKeeps

-----------------------------------------------------------------------------
(* The server and the answers.                                             *)

\* A function that goes on, of the same page, with what it now holds.
LEMMA TaskKeeps ==
    ASSUME ConfigInv, NEW s \in Slot, NEW t \in Functions, task' = [task EXCEPT ![s] = t],
           Shared', UNCHANGED enabled,
           \A w \in OpenTab :
              /\ tabPage'[w].name = tabPage[w].name /\ tabPage'[w].form = tabPage[w].form
              /\ tabPage'[w].wasEnabled = tabPage[w].wasEnabled,
           \A w \in OpenTab : Registers(t, w) =>
              /\ Registers(task[s], w)
              /\ t.at # "sent" /\ t.arg.data => tabPage[w].wasEnabled,
           t.at = "metadata" => t.arg.data
    PROVE  ConfigInv'
<1>1. /\ AsksOnce /\ AsksBeforeTheForm /\ EnabledIsSeen /\ AnswersWereTrue
      /\ FieldsWereAllowed /\ FormWasEnabled
  BY DEF ConfigInv
<1>2. \A r \in Slot : task'[r] = IF r = s THEN t ELSE task[r]
  BY DEF ConfigInv, Shared
<1>3. AsksOnce' /\ AsksBeforeTheForm'
  BY <1>1, <1>2 DEF AsksOnce, AsksBeforeTheForm
<1>4. EnabledIsSeen' /\ FormWasEnabled' /\ FieldsWereAllowed'
  BY <1>1, <1>2 DEF EnabledIsSeen, FormWasEnabled, FieldsWereAllowed
<1>5. AnswersWereTrue'
  BY <1>1, <1>2 DEF AnswersWereTrue
<1> QED
  BY <1>3, <1>4, <1>5 DEF ConfigInv

LEMMA EndKeeps ==
    ASSUME ConfigInv, NEW s \in Slot, Ends(s), Shared', UNCHANGED enabled,
           \A w \in OpenTab :
              /\ tabPage'[w].name = tabPage[w].name /\ tabPage'[w].form = tabPage[w].form
              /\ tabPage'[w].wasEnabled = tabPage[w].wasEnabled
    PROVE  ConfigInv'
<1>1. NoTask \in Functions /\ NoTask.at = "none" /\ \A w \in OpenTab : ~Registers(NoTask, w)
  BY FunctionFacts DEF Functions, Registers
<1> QED
  BY <1>1, TaskKeeps DEF Ends

\* What a function is, by what it awaits.
LEMMA FunctionOf ==
    ASSUME ConfigInv, NEW s \in Slot
    PROVE  /\ Awaits(s, "dates", "sent") \/ Awaits(s, "dates", "answered") => task[s] \in DateRequests
           /\ Awaits(s, "public", "sent") \/ Awaits(s, "public", "answered") => task[s] \in PublicRequests
           /\ Awaits(s, "public", "metadata") => task[s] \in FieldRequests
           /\ task[s].at = "sent" => task[s] \in DateRequests \cup PublicRequests
<1>1. task[s] \in Functions
  BY DEF ConfigInv, Shared
<1> QED
  BY <1>1, FunctionFacts DEF Functions, DateRequests, PublicRequests, FieldRequests, Awaits

LEMMA ServerKeeps ==
    ASSUME ConfigInv, PlansAreDates, NEW s \in Slot, ServesDates(s) \/ ServesPublic(s),
           UNCHANGED <<moves, now>>
    PROVE  ConfigInv'
<1>1. UNCHANGED <<plan, enabled, tabStore, tabPage>> /\ Shared /\ UNCHANGED enabled
  BY DEF ServesDates, ServesPublic, ConfigInv
<1>2. PICK t \in Functions : /\ task' = [task EXCEPT ![s] = t] /\ t.at = "answered"
                             /\ t.arg.w = task[s].arg.w /\ t.arg.name = task[s].arg.name
                             /\ t.arg.name = "register" => t.arg.data = enabled
                             /\ task[s] # NoTask
  <2>1. CASE ServesDates(s)
    <3>1. task[s] \in DateRequests
      BY <2>1, FunctionOf DEF ServesDates
    <3>2. PICK d \in Dates : AnswersWith(s, d)
      BY <1>1, <2>1, ConfigOfDates DEF ServesDates
    <3> DEFINE t == [task[s] EXCEPT !.at = "answered", !.arg.data = d]
    <3>3. task' = [task EXCEPT ![s] = t]
      BY <1>1, <3>2 DEF AnswersWith, Shared
    <3>4. t \in DateRequests /\ t.at = "answered" /\ t.arg.w = task[s].arg.w
          /\ t.arg.name = task[s].arg.name /\ t.arg.name # "register"
      BY <3>1 DEF DateRequests
    <3> HIDE DEF t
    <3> QED
      BY <3>1, <3>3, <3>4, FunctionFacts DEF Functions
  <2>2. CASE ServesPublic(s)
    <3>1. task[s] \in PublicRequests
      BY <2>2, FunctionOf DEF ServesPublic
    <3>2. AnswersWith(s, enabled) /\ enabled \in BOOLEAN
      BY <1>1, <2>2 DEF ServesPublic, Shared
    <3> DEFINE t == [task[s] EXCEPT !.at = "answered", !.arg.data = enabled]
    <3>3. task' = [task EXCEPT ![s] = t]
      BY <1>1, <3>2 DEF AnswersWith, Shared
    <3>4. t \in PublicRequests /\ t.at = "answered" /\ t.arg.w = task[s].arg.w
          /\ t.arg.name = task[s].arg.name /\ t.arg.data = enabled
      BY <3>1, <3>2 DEF PublicRequests
    <3> HIDE DEF t
    <3> QED
      BY <3>1, <3>3, <3>4, FunctionFacts DEF Functions
  <2> QED
    BY <2>1, <2>2
<1>3. Shared'
  BY <1>1, <1>2 DEF Shared
<1>4. \A w \in OpenTab : Registers(t, w) =>
         /\ Registers(task[s], w)
         /\ t.arg.data => tabPage[w].wasEnabled
  BY <1>2 DEF Registers, ConfigInv, EnabledIsSeen
<1> QED
  BY <1>1, <1>2, <1>3, <1>4, TaskKeeps

\* The answers that a header, the login page or nobody takes.
LEMMA ViewAnswersKeep ==
    ASSUME ConfigInv, PlansAreDates, NEW s \in Slot, DatesAnswered(s) \/ PublicAnswered(s),
           UNCHANGED <<moves, now>>
    PROVE  ConfigInv'
<1>1. /\ Shared /\ UNCHANGED <<plan, enabled>> /\ UNCHANGED enabled /\ Ends(s)
      /\ tabStore \in Stores /\ NoTask \in Functions /\ task \in [Slot -> Functions]
      /\ tabPage \in [OpenTab -> TabPages]
  BY DEF DatesAnswered, PublicAnswered, ConfigInv, Shared, Functions
<1>2. task' \in [Slot -> Functions]
  BY <1>1 DEF Ends
<1>3. CASE DatesAnswered(s)
  <2>1. task[s] \in DateRequests
    BY <1>3, FunctionOf DEF DatesAnswered
  <2>2. AskedFor(s).data \in Dates /\ AskedFor(s).w \in OpenTab
    BY <2>1 DEF DateRequests, AskedFor
  <2>3. tabStore' \in Stores
    <3>1. Cached(AskedFor(s).data) \in [data : Dates, at : Int]
      BY <1>1, <2>2, StoredTyped
    <3> QED
      BY <1>1, <1>3, <3>1 DEF DatesAnswered, Stores
  <2>4. PICK q : /\ tabPage' = tabPage \/ tabPage' = [tabPage EXCEPT ![AskedFor(s).w] = q]
                 /\ q = Headed(tabPage[AskedFor(s).w], AskedFor(s).data)
    BY <1>3 DEF DatesAnswered
  <2>5. /\ q \in TabPages /\ q.name = tabPage[AskedFor(s).w].name /\ q.form = tabPage[AskedFor(s).w].form
        /\ q.wasEnabled = tabPage[AskedFor(s).w].wasEnabled
    BY <1>1, <2>2, <2>4, HeadedTyped
  <2>6. tabPage' \in [OpenTab -> TabPages]
        /\ \A w \in OpenTab :
              /\ tabPage'[w].name = tabPage[w].name /\ tabPage'[w].form = tabPage[w].form
              /\ tabPage'[w].wasEnabled = tabPage[w].wasEnabled
    BY <1>1, <2>2, <2>4, <2>5
  <2>7. Shared'
    BY <1>1, <1>2, <2>3, <2>6 DEF Shared
  <2> QED
    BY <1>1, <2>6, <2>7, EndKeeps
<1>4. CASE PublicAnswered(s)
  <2>1. task[s] \in PublicRequests
    BY <1>4, FunctionOf DEF PublicAnswered
  <2>2. AskedFor(s).data \in BOOLEAN /\ AskedFor(s).w \in OpenTab
    BY <2>1 DEF PublicRequests, AskedFor
  <2>3. tabStore' \in Stores
    <3>1. Cached(AskedFor(s).data) \in [data : BOOLEAN, at : Int]
      BY <1>1, <2>2, StoredTyped
    <3> QED
      BY <1>1, <1>4, <3>1 DEF PublicAnswered, Stores
  <2>4. PICK q : /\ tabPage' = tabPage \/ tabPage' = [tabPage EXCEPT ![AskedFor(s).w] = q]
                 /\ q = [tabPage[AskedFor(s).w] EXCEPT !.link = AskedFor(s).data]
    BY <1>4 DEF PublicAnswered
  <2>5. /\ q \in TabPages /\ q.name = tabPage[AskedFor(s).w].name /\ q.form = tabPage[AskedFor(s).w].form
        /\ q.wasEnabled = tabPage[AskedFor(s).w].wasEnabled
    BY <1>1, <2>2, <2>4 DEF TabPages
  <2>6. tabPage' \in [OpenTab -> TabPages]
        /\ \A w \in OpenTab :
              /\ tabPage'[w].name = tabPage[w].name /\ tabPage'[w].form = tabPage[w].form
              /\ tabPage'[w].wasEnabled = tabPage[w].wasEnabled
    BY <1>1, <2>2, <2>4, <2>5
  <2>7. Shared'
    BY <1>1, <1>2, <2>3, <2>6 DEF Shared
  <2> QED
    BY <1>1, <2>6, <2>7, EndKeeps
<1> QED
  BY <1>3, <1>4

LEMMA ToLoginKeeps ==
    ASSUME ConfigInv, PlansAreDates, NEW s \in Slot, task[s] \in PublicRequests,
           AskedFor(s).name = "register", NEW st \in Stores, ToLogin(s, st),
           UNCHANGED <<moves, now, plan, enabled>>
    PROVE  ConfigInv'
<1>1. Registers(task[s], AskedFor(s).w) /\ AskedFor(s).w \in OpenTab
  BY FunctionFacts DEF Registers, AskedFor, PublicRequests
<1>2. moves \in Nat /\ moves' \in Nat
  BY DEF ConfigInv, Shared
<1>3. Rest([task EXCEPT ![s] = NoTask], AskedFor(s).w)
  BY <1>1, AnyRest
<1> QED
  BY <1>1, <1>2, <1>3, LoginKeeps DEF ToLogin

LEMMA RegisterAnswersKeep ==
    ASSUME ConfigInv, PlansAreDates, NEW s \in Slot, RegistrationAnswered(s),
           UNCHANGED <<moves, now>>
    PROVE  ConfigInv'
<1>1. /\ Shared /\ UNCHANGED <<plan, enabled>> /\ UNCHANGED enabled /\ tabStore \in Stores
      /\ task \in [Slot -> Functions]
  BY DEF RegistrationAnswered, ConfigInv, Shared
<1>2. task[s] \in PublicRequests /\ AskedFor(s).name = "register" /\ task[s].at = "answered"
  BY FunctionOf DEF RegistrationAnswered, Awaits
<1>3. AskedFor(s).data \in BOOLEAN
  BY <1>2 DEF PublicRequests, AskedFor
<1> DEFINE st == [tabStore EXCEPT !.public = Cached(AskedFor(s).data)]
<1>4. st \in Stores
  <2>1. Cached(AskedFor(s).data) \in [data : BOOLEAN, at : Int]
    BY <1>1, <1>3, StoredTyped
  <2> QED
    BY <1>1, <2>1 DEF Stores
<1>5. CASE AskedFor(s).data
  <2>1. Await(s, "metadata", AskedFor(s)) /\ tabStore' = st /\ UNCHANGED tabPage
    BY <1>5 DEF RegistrationAnswered
  <2> DEFINE t == [task[s] EXCEPT !.at = "metadata", !.arg = task[s].arg]
  <2>2. task' = [task EXCEPT ![s] = t]
    BY <1>1, <2>1 DEF Await, AskedFor
  <2>3. t \in FieldRequests /\ t.at = "metadata" /\ t.arg = task[s].arg
    BY <1>2 DEF PublicRequests, FieldRequests, AskedFor
  <2> HIDE DEF t, st
  <2>4. Shared'
    <3>1. task' \in [Slot -> Functions]
      BY <1>1, <2>2, <2>3 DEF Functions
    <3> QED
      BY <1>1, <1>4, <2>1, <3>1 DEF Shared
  <2>5. \A w \in OpenTab : Registers(t, w) => Registers(task[s], w) /\ tabPage[w].wasEnabled
    BY <1>2, <1>5, <2>3, FunctionFacts DEF Registers, ConfigInv, AnswersWereTrue, AskedFor
  <2>6. t \in Functions /\ t.arg.data
    BY <1>5, <2>3 DEF Functions, AskedFor
  <2> QED
    BY <1>1, <2>1, <2>2, <2>4, <2>5, <2>6, TaskKeeps
<1>6. CASE ~AskedFor(s).data
  <2>1. ToLogin(s, st)
    BY <1>6 DEF RegistrationAnswered
  <2> HIDE DEF st
  <2> QED
    BY <1>1, <1>2, <1>4, <2>1, ToLoginKeeps
<1> QED
  BY <1>5, <1>6

LEMMA FieldsKeep ==
    ASSUME ConfigInv, NEW s \in Slot, MetadataAnswered(s), UNCHANGED <<moves, now>>
    PROVE  ConfigInv'
<1>1. /\ AsksOnce /\ AsksBeforeTheForm /\ EnabledIsSeen /\ AnswersWereTrue
      /\ FieldsWereAllowed /\ FormWasEnabled /\ Shared
  BY DEF ConfigInv
<1>2. /\ UNCHANGED <<plan, enabled, tabStore>> /\ Ends(s) /\ task[s] \in FieldRequests
      /\ tabPage' = [tabPage EXCEPT ![AskedFor(s).w].form = TRUE]
  BY FunctionOf DEF MetadataAnswered
<1>3. PICK v \in OpenTab : v = AskedFor(s).w /\ Registers(task[s], v) /\ task[s].at = "metadata"
  BY <1>2, FunctionFacts DEF FieldRequests, Registers, AskedFor
<1>4. tabPage[v].wasEnabled
  BY <1>1, <1>3 DEF AnswersWereTrue, FieldsWereAllowed
<1>5. /\ tabPage \in [OpenTab -> TabPages] /\ task \in [Slot -> Functions] /\ NoTask \in Functions
  BY <1>1 DEF Shared, Functions
<1>6. \A w \in OpenTab : /\ tabPage'[w] \in TabPages /\ tabPage'[w].name = tabPage[w].name
                        /\ tabPage'[w].form = (w = v \/ tabPage[w].form)
                        /\ tabPage'[w].wasEnabled = tabPage[w].wasEnabled
  <2>1. tabPage[v] \in TabPages /\ tabPage'[v] = [tabPage[v] EXCEPT !.form = TRUE]
    BY <1>2, <1>3, <1>5
  <2>2. /\ tabPage'[v] \in TabPages /\ tabPage'[v].name = tabPage[v].name /\ tabPage'[v].form = TRUE
        /\ tabPage'[v].wasEnabled = tabPage[v].wasEnabled
    BY <2>1 DEF TabPages
  <2>3. \A w \in OpenTab : w # v => tabPage'[w] = tabPage[w]
    BY <1>2, <1>3, <1>5
  <2> QED
    BY <1>5, <2>2, <2>3 DEF TabPages
<1>7. task' \in [Slot -> Functions] /\ \A r \in Slot : task'[r] = IF r = s THEN NoTask ELSE task[r]
  BY <1>2, <1>5 DEF Ends
<1>8. Shared'
  <2>1. tabPage' = [w \in OpenTab |-> tabPage'[w]]
    BY <1>2, <1>5
  <2> QED
    BY <1>1, <1>2, <1>6, <1>7, <2>1 DEF Shared
<1>9. \A r \in Slot, w \in OpenTab : Registers(task'[r], w) => /\ r # s /\ task'[r] = task[r]
                                                              /\ w # v
  BY <1>1, <1>3, <1>7 DEF Registers, AsksOnce
<1>10. AsksOnce' /\ AsksBeforeTheForm'
  BY <1>1, <1>6, <1>9 DEF AsksOnce, AsksBeforeTheForm
<1>11. EnabledIsSeen' /\ AnswersWereTrue' /\ FormWasEnabled'
  BY <1>1, <1>2, <1>4, <1>6, <1>9 DEF EnabledIsSeen, AnswersWereTrue, FormWasEnabled
<1>12. FieldsWereAllowed'
  BY <1>1, <1>7, FunctionFacts DEF FieldsWereAllowed
<1> QED
  BY <1>8, <1>10, <1>11, <1>12 DEF ConfigInv

LEMMA FailsKeeps ==
    ASSUME ConfigInv, PlansAreDates, NEW s \in Slot, RequestFails(s), UNCHANGED <<moves, now>>
    PROVE  ConfigInv'
<1>1. /\ Shared /\ UNCHANGED <<plan, enabled>> /\ UNCHANGED enabled /\ tabStore \in Stores
      /\ task \in [Slot -> Functions] /\ NoTask \in Functions
  BY DEF RequestFails, ConfigInv, Shared, Functions
<1>2. CASE AskedFor(s).name = "register"
  <2>1. task[s] \in PublicRequests
    BY <1>2, FunctionOf DEF RequestFails, DateRequests, AskedFor
  <2> QED
    BY <1>1, <1>2, <2>1, ToLoginKeeps DEF RequestFails
<1>3. CASE AskedFor(s).name # "register"
  <2>1. Ends(s) /\ UNCHANGED <<tabStore, tabPage>>
    BY <1>3 DEF RequestFails
  <2>2. Shared'
    BY <1>1, <2>1 DEF Shared, Ends
  <2> QED
    BY <1>1, <2>1, <2>2, EndKeeps
<1> QED
  BY <1>2, <1>3

-----------------------------------------------------------------------------
LEMMA ConfigInitInv ==
    ASSUME PlansAreDates
    PROVE  ConfigInit => ConfigInv
<1> SUFFICES ASSUME ConfigInit PROVE ConfigInv
  OBVIOUS
<1>1. NoTask \in Functions /\ NoTask.at = "none" /\ \A w : ~Registers(NoTask, w)
  BY FunctionFacts DEF Functions, Registers
<1>2. \A s \in Slot : task[s] = NoTask
  BY DEF ConfigInit, NoTasks
<1>3. task \in [Slot -> Functions]
  BY <1>1 DEF ConfigInit, NoTasks
<1>4. tabStore \in Stores
  BY DEF ConfigInit, Empty, NotCached, NoDates, Stores, Dates, PlansAreDates
<1>5. \A w \in OpenTab : tabPage[w] = MountedAs("blank", 0)
  BY DEF ConfigInit
<1>6. \A w \in OpenTab : tabPage[w] \in TabPages /\ tabPage[w].form = FALSE /\ tabPage[w].wasEnabled = enabled
  BY <1>5 DEF ConfigInit, MountedAs, TabPages, Nothing
<1>7. tabPage \in [OpenTab -> TabPages]
  BY <1>6 DEF ConfigInit
<1>8. now \in 0..MaxNow /\ plan \in Plan /\ enabled \in BOOLEAN /\ moves \in Nat
  BY DEF ConfigInit, PlansAreDates
<1>9. Shared
  BY <1>3, <1>4, <1>7, <1>8 DEF Shared
<1> QED
  BY <1>1, <1>2, <1>6, <1>9 DEF ConfigInv, AsksOnce, AsksBeforeTheForm, EnabledIsSeen,
     AnswersWereTrue, FieldsWereAllowed, FormWasEnabled

LEMMA ConfigStepInv ==
    ASSUME PlansAreDates
    PROVE  ConfigInv /\ [ConfigNext]_portalConfigVars => ConfigInv'
<1> SUFFICES ASSUME ConfigInv, [ConfigNext]_portalConfigVars PROVE ConfigInv'
  OBVIOUS
<1>1. CASE UNCHANGED portalConfigVars
  BY <1>1 DEF portalConfigVars, ConfigInv, Shared, AsksOnce, AsksBeforeTheForm, EnabledIsSeen,
     AnswersWereTrue, FieldsWereAllowed, FormWasEnabled, Registers
<1>2. CASE Moved /\ ConfigMoves /\ UNCHANGED now
  BY <1>2, MovesKeep
<1>3. CASE ConfigAnswers /\ UNCHANGED <<moves, now>>
  BY <1>3, ServerKeeps, ViewAnswersKeep, RegisterAnswersKeep, FieldsKeep, FailsKeeps
     DEF ConfigAnswers
<1>4. CASE Ticks
  BY <1>4, TicksKeep
<1> QED
  BY <1>1, <1>2, <1>3, <1>4 DEF ConfigNext

LEMMA ConfigInvariant ==
    ASSUME PlansAreDates
    PROVE  ConfigSpec => []ConfigInv
<1> QED
  BY ConfigInitInv, ConfigStepInv, PTL DEF ConfigSpec

(* The state of the portal's configuration stays of its types, whatever    *)
(* the tabs of the browser, the administrators and the clock do.           *)
THEOREM ConfigTyped ==
    ASSUME PlansAreDates
    PROVE  ConfigSpec => []ConfigTypeOK
<1>1. ConfigInv => ConfigTypeOK
  BY DEF ConfigInv, Shared, ConfigTypeOK, Stores, TabPages
<1> QED
  BY <1>1, ConfigInvariant, PTL

(* No cache entry, late answer or change of page shows the registration    *)
(* form to a page that was never open while the server had registration    *)
(* enabled (loadData of Register, getPublicConfig with forceRefresh).      *)
THEOREM FormsWereAllowed ==
    ASSUME PlansAreDates
    PROVE  ConfigSpec => []FormWasEnabled
<1>1. ConfigInv => FormWasEnabled
  BY DEF ConfigInv
<1> QED
  BY <1>1, ConfigInvariant, PTL
=============================================================================
