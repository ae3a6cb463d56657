----------------------------- MODULE TabMaster -----------------------------
(***************************************************************************)
(* The administrators' tabs choose one of them, the master, to listen to   *)
(* the server's events: compat/wc.js and compat/events.js.  Each tab has a *)
(* random number; the least number that a tab has heard of lately wins.    *)
(* The tabs talk through one key of localStorage, "broadcast": a new value *)
(* raises a storage event in every other tab, the value already there      *)
(* raises none.  Clocks are left out: an entry that is 23 s old is "stale".*)
(* What the master does then (events.js: connect, disconnect) is left out. *)
(***************************************************************************)
EXTENDS Integers, Sequences, FiniteSets

CONSTANTS
    Window,     \* the numbers of the tabs that are ever opened
    MaxLate,    \* bound on the pings that come too late: timers of a hidden tab
    MaxBox      \* bound on the events on their way when a tab opens or closes

ASSUME MasterAssumption == Window \subseteq Nat /\ MaxLate \in Nat /\ MaxBox \in Nat \ {0}

VARIABLES
    life,       \* of each tab: "unopened", "open" or "gone"
    tab,        \* its WindowController: others and isMaster, and which others are stale
    cell,       \* the value of the key "broadcast"
    inbox,      \* the storage events on their way to each tab
    late        \* the late pings so far

masterVars == <<life, tab, cell, inbox, late>>

Open == {w \in Window : life[w] = "open"}
Message == [id : Window, type : {"hello", "ping", "bye"}]
NoMessage == [id |-> -1, type |-> "none"]

NewTab == [others |-> {}, stale |-> {}, isMaster |-> FALSE]

MasterTypeOK ==
    /\ life \in [Window -> {"unopened", "open", "gone"}]
    /\ tab \in [Window -> [others : SUBSET Window, stale : SUBSET Window, isMaster : BOOLEAN]]
    /\ cell \in Message \cup {NoMessage}
    /\ inbox \in [Window -> Seq(Message)]
    /\ late \in 0..MaxLate

MasterInit ==
    /\ life = [w \in Window |-> "unopened"]
    /\ tab = [w \in Window |-> NewTab]
    /\ cell = NoMessage /\ inbox = [w \in Window |-> <<>>]
    /\ late = 0

-----------------------------------------------------------------------------
\* broadcast: the events of a message m written while the tabs ws are open.
Raised(boxes, ws, m) ==
    IF m = cell THEN boxes
    ELSE [v \in Window |-> IF v \in ws \ {m.id} THEN Append(boxes[v], m) ELSE boxes[v]]
Says(w, type) == [id |-> w, type |-> type]

\* check of a tab w that is in state t.
BugRechecked(t, w) == \* a stale entry still counts
    [t EXCEPT !.isMaster = \A v \in t.others : v > w]
Rechecked(t, w) ==
    LET kept == t.others \ t.stale
    IN  [others |-> kept, stale |-> {}, isMaster |-> \A v \in kept : v > w]

\* ping: the sender was heard of just now.
Noted(t, v) == [t EXCEPT !.others = @ \cup {v}, !.stale = @ \ {v}]
Forgotten(t, v) == [t EXCEPT !.others = @ \ {v}, !.stale = @ \ {v}]

-----------------------------------------------------------------------------
(* The tabs.                                                               *)

Calm == Cardinality({p \in Window \X (1..MaxBox) : p[2] <= Len(inbox[p[1]])}) < MaxBox

\* WindowController: a tab says hello once it listens.
Opens(w) ==
    /\ life[w] = "unopened" /\ Calm
    /\ life' = [life EXCEPT ![w] = "open"]
    /\ inbox' = Raised(inbox, Open, Says(w, "hello")) /\ cell' = Says(w, "hello")
    /\ UNCHANGED <<tab, late>>

Leaves(w) ==
    /\ w \in Open /\ Calm
    /\ life' = [life EXCEPT ![w] = "gone"]
    /\ tab' = [tab EXCEPT ![w] = NewTab]
    /\ UNCHANGED late

\* destroy, on unload; and a tab that is killed before it can say so.
destroy(w) ==
    /\ Leaves(w)
    /\ inbox' = [Raised(inbox, Open, Says(w, "bye")) EXCEPT ![w] = <<>>]
    /\ cell' = Says(w, "bye")
Killed(w) == Leaves(w) /\ inbox' = [inbox EXCEPT ![w] = <<>>] /\ UNCHANGED cell

\* The timer of 500 ms, then 9 s.
check(w) ==
    /\ w \in Open /\ tab' = [tab EXCEPT ![w] = Rechecked(@, w)]
    /\ UNCHANGED <<life, cell, inbox, late>>

\* The timer of 17 s; the events of the ping before have been delivered.
sendPing(w) ==
    /\ w \in Open
    /\ \A v \in Open : \A i \in 1..Len(inbox[v]) : inbox[v][i] # Says(w, "ping")
    /\ inbox' = Raised(inbox, Open, Says(w, "ping")) /\ cell' = Says(w, "ping")
    /\ UNCHANGED <<life, tab, late>>

\* handleEvent: the oldest event of the tab.  A larger number that says hello is
\* answered, so that it learns of this tab; a smaller one may take the master's place.
Received(w, m) == inbox[w] # <<>> /\ m = Head(inbox[w]) /\ w \in Open
Rest(w) == [inbox EXCEPT ![w] = Tail(@)]
hello(w) ==
    \E v \in Window :
        /\ Received(w, Says(v, "hello"))
        /\ IF v < w
           THEN /\ tab' = [tab EXCEPT ![w] = Rechecked(Noted(@, v), w)]
                /\ inbox' = Rest(w) /\ UNCHANGED cell
           ELSE /\ tab' = [tab EXCEPT ![w] = Noted(@, v)]
                /\ inbox' = Raised(Rest(w), Open, Says(w, "ping")) /\ cell' = Says(w, "ping")
        /\ UNCHANGED <<life, late>>
ping(w) ==
    \E v \in Window :
        /\ Received(w, Says(v, "ping"))
        /\ tab' = [tab EXCEPT ![w] = Noted(@, v)]
        /\ inbox' = Rest(w) /\ UNCHANGED <<life, cell, late>>
bye(w) ==
    \E v \in Window :
        /\ Received(w, Says(v, "bye"))
        /\ tab' = [tab EXCEPT ![w] = Rechecked(Forgotten(@, v), w)]
        /\ inbox' = Rest(w) /\ UNCHANGED <<life, cell, late>>
handleEvent(w) == hello(w) \/ ping(w) \/ bye(w)

\* 23 s without a ping of v: v is gone, or its ping is late.  No event is under way
\* for that long.
GoesStale(w, v) ==
    /\ w \in Open /\ v \in tab[w].others \ tab[w].stale
    /\ tab' = [tab EXCEPT ![w].stale = @ \cup {v}]
    /\ UNCHANGED <<life, cell, inbox>>
Silent(w, v) == life[v] = "gone" /\ GoesStale(w, v) /\ UNCHANGED late
Late(w, v) ==
    /\ v \in Open /\ late < MaxLate /\ \A u \in Window : inbox[u] = <<>>
    /\ GoesStale(w, v) /\ late' = late + 1

-----------------------------------------------------------------------------
MasterNext ==
    \E w \in Window :
        \/ Opens(w) \/ destroy(w) \/ Killed(w)
        \/ check(w) \/ sendPing(w) \/ handleEvent(w)
        \/ \E v \in Window : Silent(w, v) \/ Late(w, v)

\* The timers of an open tab go off again and again, time passes, and the browser
\* delivers its events.
MasterFairness ==
    \A w \in Window :
        /\ WF_masterVars(check(w)) /\ WF_masterVars(sendPing(w))
        /\ WF_masterVars(handleEvent(w)) /\ WF_masterVars(\E v \in Window : Silent(w, v))
MasterSpec == MasterInit /\ [][MasterNext]_masterVars /\ MasterFairness

-----------------------------------------------------------------------------
Masters == {w \in Open : tab[w].isMaster}
Least == CHOOSE w \in Open : \A v \in Open : w <= v

\* Every open tab knows all others and who is the master, and no event on its way
\* says otherwise.
Settled ==
    \A w \in Open :
        /\ tab[w].others = Open \ {w} /\ tab[w].stale = {}
        /\ tab[w].isMaster <=> \A v \in Open : w <= v
        /\ \A i \in 1..Len(inbox[w]) : inbox[w][i].type = "bye" <=> inbox[w][i].id \notin Open

OneMaster == Open # {} => Masters = {Least}

(* No event, ping or check reopens an election that is over: only a tab    *)
(* that comes or goes or whose ping is late does (hello, ping, bye and     *)
(* check of wc.js).                                                        *)
SettledStays == [][Settled /\ UNCHANGED <<life, late>> => Settled']_masterVars

(* However tabs come, go and are killed, and however pings are late, once  *)
(* that has stopped they agree on exactly one of the open tabs, the one    *)
(* with the least number, for good (hello, ping, bye and check of wc.js).  *)
OneMasterAtLast == <>[](Settled /\ OneMaster)
=============================================================================
