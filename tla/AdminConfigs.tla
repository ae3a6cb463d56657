---------------------------- MODULE AdminConfigs ----------------------------
(***************************************************************************)
(* The administrators' settings and statistics: the lists of custom fields *)
(* and of brackets, the times of the contest, the forms of the settings    *)
(* with their uploads and imports, and the analytics of challenges with    *)
(* their cache of 60 s.  One part of a page is modelled at a time.         *)
(***************************************************************************)
EXTENDS Tab, Sequences

CONSTANTS
    Key,        \* identities of the rows of a list on the page
    Zone,       \* time zones, and their offset in half minutes
    Offset,
    Instant,    \* times of the server, in half minutes
    CacheAge,   \* analyticsCacheMs, in ticks of the clock
    Ages        \* clock readings

ASSUME ConfigsAssumption ==
    /\ Key \subseteq Nat \ {0} /\ Offset \in [Zone -> Nat] /\ Instant \subseteq Nat
    /\ \A z \in Zone : Offset[z] % 2 = 0
    /\ CacheAge \in Nat /\ Ages \subseteq Nat

VARIABLES
    pane,       \* the part: "fields", "brackets", "time", "settings" or "stats"
    conf,       \* its data
    base        \* server: the ids saved, the stored time, the logo, the clock

configVars == <<task, moves, pane, conf, base>>

Seqs == INSTANCE SequencesExt

Blank == -1         \* an empty input
Never == -1         \* no request has been made
Setting(k, v) == [key |-> k, value |-> v]
FirstFields(p) == IF p \in {"fields", "brackets"}
                 THEN [op |-> "fields", at |-> "sent", arg |-> Setting(Nothing, Nothing)] ELSE NoTask

\* A time shown: the minute of its parts, or Blank when one is missing, its zone,
\* and the value that is sent.  Stored times have seconds, the parts have none.
loadDateValues(e) == [e EXCEPT !.value = IF e.parts = Blank THEN Blank
                                         ELSE 2 * e.parts - Offset[e.zone]]
loadTimestamp(e, v) == loadDateValues([e EXCEPT !.parts = (v + Offset[e.zone]) \div 2])
TimeShown(z, v) ==
    LET e == [parts |-> Blank, zone |-> z, value |-> Blank] IN
    IF v = Blank THEN e ELSE loadTimestamp(e, v)

NoRows == [list |-> <<>>, index |-> <<>>, known |-> {}, deleted |-> {}, replaced |-> {}]

ConfigsInit ==
    /\ pane \in {"fields", "brackets", "time", "settings", "stats"}
    /\ \E v \in Instant \cup {Blank}, z \in Zone :
          /\ base = [saved |-> {}, next |-> 1, stored |-> IF pane = "time" THEN v ELSE Blank,
                     logo |-> Nothing, now |-> 0]
          /\ conf = CASE pane \in {"fields", "brackets"} -> NoRows
                      [] pane = "time" -> TimeShown(z, v)
                      [] pane = "settings" -> [progress |-> FALSE, tab |-> Nothing]
                      [] OTHER -> [at |-> Never, asks |-> 0, waits |-> {}, table |-> 0]
    /\ task = [NoTasks EXCEPT ![1] = FirstFields(pane)]
    /\ moves = 0

-----------------------------------------------------------------------------
(* Fields and brackets: a row of the page, not saved while its id is below *)
(* 1 (Nothing).  Each mounted row has its place as a property, "index".    *)

Keys(list) == {list[n].key : n \in DOMAIN list}

\* A change of the list renders it, before the next answer is handled: the rows
\* that stay learn their places.
BugRendered(list) ==
    [k \in Keys(list) |-> IF k \in DOMAIN conf.index THEN conf.index[k]
                          ELSE CHOOSE n \in DOMAIN list : list[n].key = k]
Rendered(list) == [k \in Keys(list) |-> CHOOSE n \in DOMAIN list : list[n].key = k]
Shows(list) == [conf EXCEPT !.list = list, !.index = Rendered(list)]

\* The rows of the server replace what has been added before they come; the
\* components of the rows replaced are destroyed, and emit nothing any more.
loadFields(s) ==
    /\ Awaits(s, "fields", "sent") /\ Ends(s) /\ UNCHANGED <<pane, base>>
    /\ \/ \E n \in 0..2 :
             LET used == Cardinality(conf.known)
                 rows == [j \in 1..n |-> [key |-> used + j, id |-> 100 + j]]
             IN  /\ Keys(rows) \subseteq Key
                 /\ conf' = [Shows(rows) EXCEPT !.known = @ \cup Keys(rows),
                                                !.replaced = @ \cup Keys(conf.list)]
       \/ UNCHANGED conf
addField ==
    /\ pane \in {"fields", "brackets"}
    /\ \E k \in Key \ conf.known :
          /\ k = Cardinality(conf.known) + 1
          /\ conf' = [Shows(Append(conf.list, [key |-> k, id |-> Nothing]))
                         EXCEPT !.known = @ \cup {k}]
    /\ UNCHANGED <<task, pane, base>>
saveField(n) ==
    /\ pane \in {"fields", "brackets"} /\ n \in DOMAIN conf.list
    /\ \E s \in Slot : FreeSlot(s) /\ Start(s, "save", "sent", Setting(conf.list[n].key, conf.list[n].id))
    /\ UNCHANGED <<pane, conf, base>>

\* A field learns its id from the answer; a bracket stores it in another place and
\* stays unsaved for the page.
Learns(k, id) ==
    IF pane = "brackets" THEN conf
    ELSE [conf EXCEPT !.list = [n \in DOMAIN @ |-> IF @[n].key = k THEN [@[n] EXCEPT !.id = id] ELSE @[n]]]
FieldSaved(s) ==
    LET a == task[s].arg IN
    /\ Awaits(s, "save", "sent") /\ Ends(s) /\ UNCHANGED pane
    /\ \/ /\ a.value = Nothing
          /\ base' = [base EXCEPT !.saved = @ \cup {base.next}, !.next = @ + 1]
          /\ conf' = Learns(a.key, base.next)
       \/ a.value # Nothing /\ conf' = Learns(a.key, a.value) /\ UNCHANGED base
       \/ UNCHANGED <<conf, base>>

\* The component of a row says that it is deleted by its index, whatever is at
\* that place by then; a destroyed one says nothing.
removeField(place) == Shows(Seqs!RemoveAt(conf.list, place))
RowDeleted(k) ==
    conf' = [(IF k \in Keys(conf.list) THEN removeField(conf.index[k]) ELSE conf)
                EXCEPT !.deleted = @ \cup {k}]

\* An unsaved row is deleted at once; of the others the server deletes each once.
deleteField(n) ==
    /\ pane \in {"fields", "brackets"} /\ n \in DOMAIN conf.list /\ UNCHANGED <<pane, base>>
    /\ IF conf.list[n].id = Nothing THEN RowDeleted(conf.list[n].key) /\ UNCHANGED task
       ELSE /\ UNCHANGED conf
            /\ \E s \in Slot : FreeSlot(s) /\ Start(s, "delete", "sent",
                                                   Setting(conf.list[n].key, Nothing))
FieldDeleted(s) ==
    LET k == task[s].arg.key IN
    /\ Awaits(s, "delete", "sent") /\ Ends(s) /\ UNCHANGED <<pane, base>>
    /\ \/ k \notin conf.deleted /\ RowDeleted(k)
       \/ UNCHANGED conf

-----------------------------------------------------------------------------
(* Times.                                                                  *)

\* The value can be typed too: its parts follow, unless it is empty.
typesTimestamp(v) ==
    /\ pane = "time" /\ v # conf.value
    /\ conf' = IF v = Blank THEN [conf EXCEPT !.value = Blank] ELSE loadTimestamp(conf, v)
    /\ UNCHANGED <<task, pane, base>>
typesPart(m) ==
    /\ pane = "time" /\ m # conf.parts /\ conf' = loadDateValues([conf EXCEPT !.parts = m])
    /\ UNCHANGED <<task, pane, base>>
Zoned(e, z) == loadDateValues([e EXCEPT !.zone = z])
choosesZone(z) ==
    /\ pane = "time" /\ z # conf.zone /\ conf' = Zoned(conf, z) /\ UNCHANGED <<task, pane, base>>

-----------------------------------------------------------------------------
(* Settings.                                                               *)

\* The URL keeps the tab; a form that is accepted loads the page again, which
\* forgets an upload that is between its two requests.
setUrl(t) ==
    /\ pane = "settings" /\ conf' = [conf EXCEPT !.tab = t] /\ UNCHANGED <<task, pane, base>>
updateConfigs ==
    /\ pane \in {"settings", "time"} /\ UNCHANGED <<pane, conf, base>>
    /\ \E s \in Slot : FreeSlot(s) /\ Start(s, "config", "sent",
                          Setting("config", IF pane = "time" THEN conf.value ELSE Nothing))
ConfigsUpdated(s) ==
    LET v == task[s].arg.value IN
    /\ Awaits(s, "config", "sent") /\ UNCHANGED pane
    /\ \/ /\ task' = NoTasks
          /\ base' = IF pane = "time" THEN [base EXCEPT !.stored = v] ELSE base
          /\ conf' = IF pane = "time" THEN TimeShown(conf.zone, v) ELSE [conf EXCEPT !.progress = FALSE]
       \/ Ends(s) /\ UNCHANGED <<conf, base>>
uploadLogo(f) ==
    /\ pane = "settings" /\ UNCHANGED <<pane, conf, base>>
    /\ \E s \in Slot : FreeSlot(s) /\ Start(s, "logo", "upload", Setting("logo", f))
smallIconUpload(f) ==
    /\ pane = "settings" /\ UNCHANGED <<pane, conf, base>>
    /\ \E s \in Slot : FreeSlot(s) /\ Start(s, "logo", "image", Setting("icon", f))
ImageRead(s) ==
    /\ Awaits(s, "logo", "image") /\ UNCHANGED <<pane, conf, base>>
    /\ Ends(s) \/ Await(s, "upload", task[s].arg)
LogoUploaded(s) ==
    /\ Awaits(s, "logo", "upload") /\ UNCHANGED <<pane, conf, base>>
    /\ Ends(s) \/ Await(s, "sent", task[s].arg)
removeLogo ==
    /\ pane = "settings" /\ UNCHANGED <<pane, conf, base>>
    /\ \E s \in Slot : FreeSlot(s) /\ Start(s, "logo", "sent", Setting("none", Nothing))
LogoStored(s) ==
    LET a == task[s].arg IN
    /\ Awaits(s, "logo", "sent") /\ UNCHANGED pane
    /\ \/ /\ base' = IF a.key = "icon" THEN base ELSE [base EXCEPT !.logo = a.value]
          /\ task' = NoTasks /\ conf' = [conf EXCEPT !.progress = FALSE]
       \/ UNCHANGED base /\ IF a.key = "none"
                            THEN task' = NoTasks /\ conf' = [conf EXCEPT !.progress = FALSE]
                            ELSE Ends(s) /\ UNCHANGED conf

\* An import shows its progress; refused, the dialog of a CSV closes after a while,
\* accepted the page is loaded again.
importCSV(kind) ==
    /\ pane = "settings" /\ ~conf.progress /\ conf' = [conf EXCEPT !.progress = TRUE]
    /\ \E s \in Slot : FreeSlot(s) /\ Start(s, "import", "sent", Setting(kind, Nothing))
    /\ UNCHANGED <<pane, base>>
ImportAnswered(s) ==
    /\ Awaits(s, "import", "sent") /\ UNCHANGED <<pane, conf, base>>
    /\ \/ Await(s, "hide", task[s].arg) \/ Await(s, "reload", task[s].arg) \/ Ends(s)
ImportEnds(s) ==
    /\ task[s].op = "import" /\ task[s].at \in {"hide", "reload"} /\ UNCHANGED <<pane, base>>
    /\ IF task[s].at = "reload" THEN task' = NoTasks ELSE Ends(s)
    /\ conf' = [conf EXCEPT !.progress = @ /\ task[s].at = "hide" /\ task[s].arg.key # "csv"]

-----------------------------------------------------------------------------
(* Statistics: every reader waits for the answer of the cached request.    *)

\* A request older than CacheAge, or a forced one, is replaced by a new one.
AskAnalytics(e, who, force) ==
    LET new == force \/ e.at = Never \/ base.now - e.at > CacheAge
        at == IF new THEN base.now ELSE e.at
        n == IF new THEN e.asks + 1 ELSE e.asks
    IN  [e EXCEPT !.asks = n, !.at = at,
                  !.waits = @ \cup {[who |-> who, asked |-> base.now, n |-> n, at |-> at]}]
createGraphs ==
    /\ pane = "stats" /\ conf.at = Never
    /\ conf' = AskAnalytics(AskAnalytics(conf, "graph", FALSE), "table", FALSE)
    /\ UNCHANGED <<task, pane, base>>
updateGraphs ==
    /\ pane = "stats" /\ conf.at # Never
    /\ conf' = AskAnalytics(AskAnalytics(conf, "graph", FALSE), "table", TRUE)
    /\ UNCHANGED <<task, pane, base>>
exportChallengeAnalytics ==
    /\ pane = "stats" /\ conf.at # Never /\ conf' = AskAnalytics(conf, "export", FALSE)
    /\ UNCHANGED <<task, pane, base>>

\* Every reader of a request sees its answer; a request that fails stays cached.
AnalyticsAnswered(n) ==
    LET mine == {w \in conf.waits : w.n = n} IN
    /\ pane = "stats" /\ mine # {} /\ UNCHANGED <<task, pane, base>>
    /\ \E ok \in BOOLEAN :
          conf' = [conf EXCEPT !.waits = @ \ mine,
                      !.table = IF ok /\ \E w \in mine : w.who = "table" THEN n ELSE @]
ClockTicks ==
    /\ pane = "stats" /\ base.now + 1 \in Ages /\ base' = [base EXCEPT !.now = @ + 1]
    /\ UNCHANGED <<task, pane, conf>>

-----------------------------------------------------------------------------
ConfigsMoves ==
    \/ addField \/ updateConfigs \/ removeLogo \/ createGraphs \/ updateGraphs
    \/ exportChallengeAnalytics
    \/ \E n \in 1..Cardinality(Key) : saveField(n) \/ deleteField(n)
    \/ \E m \in Instant \cup {Blank} : typesPart(m) \/ typesTimestamp(m)
    \/ \E z \in Zone : choosesZone(z)
    \/ \E f \in {1, 2} : setUrl(f) \/ uploadLogo(f) \/ smallIconUpload(f)
    \/ \E k \in {"csv", "backup"} : importCSV(k)
ConfigsAnswers ==
    \/ ClockTicks
    \/ pane = "stats" /\ \E n \in 1..conf.asks : AnalyticsAnswered(n)
    \/ \E s \in Slot :
          \/ loadFields(s) \/ FieldSaved(s) \/ FieldDeleted(s) \/ ConfigsUpdated(s) \/ ImageRead(s)
          \/ LogoUploaded(s) \/ LogoStored(s) \/ ImportAnswered(s) \/ ImportEnds(s)

ConfigsNext ==
    \/ Moved /\ ConfigsMoves
    \/ UNCHANGED moves /\ ConfigsAnswers

ConfigsSpec == ConfigsInit /\ [][ConfigsNext]_configVars

-----------------------------------------------------------------------------
(* The row that leaves a list is the one whose deletion was accepted: it is *)
(* removed by its place (removeField), which other deletions, additions and *)
(* a late list may have moved between the request and the answer.  The only *)
(* other way to leave is to be replaced by the list of the server.          *)
GoneIsDeleted ==
    pane \in {"fields", "brackets"} =>
        Keys(conf.list) = conf.known \ (conf.deleted \cup conf.replaced)
=============================================================================
