--------------------------- MODULE AdminChallenge ---------------------------
(***************************************************************************)
(* What an administrator does with one challenge outside the components of *)
(* ChallengeEditor: its preview, polled from the list of challenges; its   *)
(* creation, in two forms with an upload in each; its update, its scoring  *)
(* and its deletion.                                                       *)
(***************************************************************************)
EXTENDS Tab

CONSTANTS
    MaxChecks,  \* maxChecks: checks of a preview, 40 in the code
    Loops       \* bound on the previews of one page load

ASSUME ChallengeAssumption == MaxChecks \in Nat \ {0} /\ Loops \subseteq Nat \ {0}

VARIABLES
    sheet,      \* the page: "list", "create" or "update"
    form,       \* its data
    chal        \* server: the challenge and its environment

challengeVars == <<task, moves, sheet, form, chal>>

Off == -1           \* a loop that is not running
Small == {"none", "small"}

\* successShown_, the dialogs that have told an address, by start answers and by
\* checks, and the intervals with their count of answers; the creation: its two forms; the update: the badge, a question.
NewForm(p) ==
    CASE p = "list" -> [shown |-> FALSE, told |-> [start |-> 0, check |-> 0], loops |-> [l \in Loops |-> Off],
                        used |-> 0, busy |-> FALSE, shared |-> FALSE]
      [] p = "create" -> [name |-> "ok", file |-> "none", blocked |-> FALSE, id |-> Nothing,
                          opened |-> FALSE, busy |-> FALSE, left |-> FALSE]
      [] OTHER -> [badge |-> "hidden", scoring |-> "standard", left |-> FALSE]
Sheet(k, v) == [kind |-> k, flag |-> "none", patch |-> "none", file |-> v]

ChallengeInit ==
    /\ sheet \in {"list", "create", "update"}
    /\ form = NewForm(sheet)
    /\ chal = [env |-> "off", made |-> 0, refused |-> FALSE, options |-> FALSE, version |-> "none",
               files |-> {}, flags |-> 0, state |-> "hidden"]
    /\ task = [NoTasks EXCEPT ![1] = IF sheet = "create"
                                     THEN [op |-> "types", at |-> "sent", arg |-> Sheet("", "")]
                                     ELSE NoTask]
    /\ moves = 0

-----------------------------------------------------------------------------
(* Preview.                                                                *)

previewChallenge ==
    /\ sheet = "list" /\ ~form.busy /\ form' = [form EXCEPT !.busy = TRUE]
    /\ \E s \in Slot : FreeSlot(s) /\ Start(s, "start", "sent", Sheet("preview", ""))
    /\ UNCHANGED <<sheet, chal>>
startSharedChallenge ==
    /\ sheet = "list" /\ ~form.shared /\ form' = [form EXCEPT !.shared = TRUE]
    /\ \E s \in Slot : FreeSlot(s) /\ Start(s, "start", "sent", Sheet("shared", ""))
    /\ UNCHANGED <<sheet, chal>>

\* The answer of a start carries the address of what runs already, and its dialog
\* tells it, without a look at successShown_.
Told(carried) == [form.told EXCEPT !.start = IF carried THEN @ + 1 ELSE @]

\* A preview that has started is polled in any case, by an interval of its own; the
\* flag that its success has been shown is never taken back.
StartAnswered(s) ==
    LET k == task[s].arg.kind IN
    /\ Awaits(s, "start", "sent") /\ Ends(s) /\ UNCHANGED sheet
    /\ \/ /\ k = "preview" /\ form.used + 1 \in Loops
          /\ chal' = [chal EXCEPT !.env = IF @ = "off" THEN "starting" ELSE @]
          /\ \E carried \in {FALSE, chal.env = "running"} :
                form' = [form EXCEPT !.busy = FALSE, !.told = Told(carried),
                                     !.loops[form.used + 1] = 0, !.used = @ + 1]
       \/ /\ k = "preview" /\ form' = [form EXCEPT !.busy = FALSE] /\ UNCHANGED chal
       \/ /\ k = "shared" /\ UNCHANGED chal
          /\ \E carried \in BOOLEAN :
                form' = [form EXCEPT !.shared = FALSE, !.told = Told(carried)]

\* Each tick checks without waiting for the checks before it, so that more than
\* MaxChecks may be sent: the answers are counted.
LoopCheckingStatus(l) ==
    /\ sheet = "list" /\ form.loops[l] # Off /\ UNCHANGED <<sheet, chal>>
    /\ IF form.shown THEN form' = [form EXCEPT !.loops[l] = Off] /\ UNCHANGED task
       ELSE /\ UNCHANGED form
            /\ \E s \in Slot : FreeSlot(s) /\ Start(s, "check", "sent", Sheet("check", l))

\* The check that finds an address first tells it; the rest see the flag.  The
\* interval ends with an address or with the last answer that it counts.
BugTelling(f, ready) == ready
Telling(f, ready) == ready /\ ~f.shown
CheckingStatus(s) ==
    LET l == task[s].arg.file IN
    /\ Awaits(s, "check", "sent") /\ Ends(s) /\ UNCHANGED <<sheet, chal>>
    /\ \E ready \in {FALSE, chal.env = "running"} :
          LET n == form.loops[l] + 1
              over == ready \/ n >= MaxChecks
          IN  form' = [form EXCEPT
                 !.shown = @ \/ Telling(form, ready),
                 !.told.check = @ + IF Telling(form, ready) THEN 1 ELSE 0,
                 !.loops[l] = IF @ = Off \/ over THEN Off ELSE n]
EnvironmentGoesOn ==
    /\ sheet = "list" /\ chal.env # "off" /\ UNCHANGED <<task, sheet, form>>
    /\ \E e \in {"off", "running"} : chal' = [chal EXCEPT !.env = e]

-----------------------------------------------------------------------------
(* Creation.                                                               *)

\* The form comes from the server; changing the type makes it anew.
loadChalTemplate(s) ==
    /\ Awaits(s, "types", "sent") /\ Ends(s) /\ UNCHANGED <<sheet, chal>>
    /\ form' = [form EXCEPT !.name = "ok", !.file = "none", !.blocked = FALSE, !.opened = TRUE]
changeType ==
    /\ sheet = "create" /\ form.opened /\ form.id = Nothing /\ UNCHANGED <<sheet, form, chal>>
    /\ \E s \in Slot : FreeSlot(s) /\ Start(s, "types", "sent", Sheet("", ""))

\* A name may be too long and a file too large, which blocks the button.
editName ==
    /\ sheet = "create" /\ form.opened /\ ~form.left
    /\ form' = [form EXCEPT !.name = IF @ = "ok" THEN "long" ELSE "ok"]
    /\ UNCHANGED <<task, sheet, chal>>
chooseFile(f) ==
    /\ sheet = "create" /\ form.opened /\ ~form.left /\ f # form.file
    /\ form' = [form EXCEPT !.file = f, !.blocked = f = "large"]
    /\ UNCHANGED <<task, sheet, chal>>
createSubmit ==
    /\ sheet = "create" /\ form.opened /\ ~form.left /\ ~form.blocked
    /\ form.name = "ok" /\ form.file \in Small
    /\ \E s \in Slot : FreeSlot(s) /\ Start(s, "create", "sent", Sheet("create", ""))
    /\ UNCHANGED <<sheet, form, chal>>

\* The challenge is made first; then the files that the form holds by then.
CreateAnswered(s) ==
    /\ Awaits(s, "create", "sent") /\ UNCHANGED sheet
    /\ \/ /\ chal' = [chal EXCEPT !.made = @ + 1, !.options = FALSE, !.version = "none"]
          /\ form' = [form EXCEPT !.id = chal.made + 1]
          /\ Await(s, "upload", Sheet("create", form.file))
       \/ Ends(s) /\ UNCHANGED <<form, chal>>
CreateUploaded(s) ==
    /\ Awaits(s, "create", "upload") /\ Ends(s) /\ UNCHANGED <<sheet, form>>
    /\ \/ chal' = [chal EXCEPT !.files = @ \cup ({task[s].arg.file} \ {"none"})]
       \/ UNCHANGED chal

\* The second form: the flag and the options are sent together, and the files when
\* both have been answered; a network failure of the flag is never noticed.
handleChallengeOptions ==
    /\ sheet = "create" /\ form.id # Nothing /\ ~form.left /\ ~form.busy
    /\ \E flag \in {"none", "sent"}, s \in Slot :
          FreeSlot(s) /\ Start(s, "options", "both",
                               [Sheet("options", form.id) EXCEPT !.flag = flag, !.patch = "sent"])
    /\ UNCHANGED <<sheet, form, chal>>
BugBoth(a) == a.flag # "sent" \/ a.patch # "sent"
Both(a) == a.flag # "sent" /\ a.patch # "sent"
Joined(s, a) ==
    IF Both(a) THEN Await(s, "upload", a) /\ form' = [form EXCEPT !.busy = TRUE]
    ELSE Await(s, "both", a) /\ UNCHANGED form
FlagAnswered(s) ==
    LET a == task[s].arg IN
    /\ Awaits(s, "options", "both") /\ a.flag = "sent" /\ UNCHANGED sheet
    /\ chal' \in {[chal EXCEPT !.flags = @ + 1], chal}
    /\ Joined(s, [a EXCEPT !.flag = "answered"])
PatchAnswered(s) ==
    LET a == task[s].arg IN
    /\ Awaits(s, "options", "both") /\ a.patch = "sent" /\ UNCHANGED sheet
    /\ \/ /\ chal' = IF a.file = chal.made THEN [chal EXCEPT !.options = TRUE] ELSE chal
          /\ Joined(s, [a EXCEPT !.patch = "ok"])
       \/ chal' = [chal EXCEPT !.refused = TRUE] /\ Joined(s, [a EXCEPT !.patch = "refused"])
OptionsFail(s) ==
    LET a == task[s].arg IN
    /\ Awaits(s, "options", "both") /\ a.patch = "sent" /\ Ends(s)
    /\ UNCHANGED <<sheet, form, chal>>

\* The server makes a version of the environment from the options it has.
OptionsUploaded(s) ==
    LET a == task[s].arg IN
    /\ Awaits(s, "options", "upload") /\ Await(s, "timer", a)
    /\ form' = [form EXCEPT !.busy = FALSE] /\ UNCHANGED sheet
    /\ \/ /\ a.file = chal.made
          /\ chal' = [chal EXCEPT !.version = IF chal.options THEN "options" ELSE "defaults"]
       \/ UNCHANGED chal
OptionsLeave(s) ==
    /\ Awaits(s, "options", "timer") /\ task' = NoTasks
    /\ form' = [form EXCEPT !.left = TRUE] /\ UNCHANGED <<sheet, chal>>

-----------------------------------------------------------------------------
(* Update.                                                                 *)

\* The flags are asked for before the state sent is known to need a confirmation.
updateSubmit(st) ==
    /\ sheet = "update" /\ ~form.left /\ UNCHANGED <<sheet, form, chal>>
    /\ \E s \in Slot : FreeSlot(s) /\ Start(s, "update", "flags", Sheet(st, ""))
FlagsRead(s) ==
    /\ Awaits(s, "update", "flags") /\ UNCHANGED <<sheet, form, chal>>
    /\ \/ Await(s, IF chal.flags = 0 /\ task[s].arg.kind = "visible" THEN "asked" ELSE "sent",
                task[s].arg)
       \/ Ends(s)
MissingFlags(s, yes) ==
    /\ Awaits(s, "update", "asked") /\ UNCHANGED <<sheet, form, chal>>
    /\ IF yes THEN Await(s, "sent", task[s].arg) ELSE Ends(s)
UpdateAnswered(s) ==
    LET st == task[s].arg.kind IN
    /\ Awaits(s, "update", "sent") /\ Ends(s) /\ UNCHANGED sheet
    /\ \/ chal' = [chal EXCEPT !.state = st] /\ form' = [form EXCEPT !.badge = st]
       \/ UNCHANGED <<form, chal>>
FlagsChange ==
    /\ sheet = "update" /\ UNCHANGED <<task, sheet, form>>
    /\ chal' = [chal EXCEPT !.flags = 1 - @]
toggleScoringType ==
    /\ sheet = "update" /\ ~form.left
    /\ form' = [form EXCEPT !.scoring = IF @ = "standard" THEN "dynamic" ELSE "standard"]
    /\ UNCHANGED <<task, sheet, chal>>
deleteChallenge ==
    /\ sheet = "update" /\ ~form.left /\ UNCHANGED <<sheet, form, chal>>
    /\ \E s \in Slot : FreeSlot(s) /\ Start(s, "remove", "sent", Sheet("", ""))
ChallengeDeleted(s) ==
    /\ Awaits(s, "remove", "sent") /\ UNCHANGED <<sheet, chal>>
    /\ \/ task' = NoTasks /\ form' = [form EXCEPT !.left = TRUE]
       \/ Ends(s) /\ UNCHANGED form

-----------------------------------------------------------------------------
ChallengeMoves ==
    \/ previewChallenge \/ startSharedChallenge \/ EnvironmentGoesOn \/ changeType \/ editName
    \/ createSubmit \/ handleChallengeOptions \/ FlagsChange \/ toggleScoringType \/ deleteChallenge
    \/ \E f \in {"none", "small", "large"} : chooseFile(f)
    \/ \E st \in {"hidden", "visible"} : updateSubmit(st)
ChallengeAnswers ==
    \/ \E l \in Loops : LoopCheckingStatus(l)
    \/ \E s \in Slot :
          \/ StartAnswered(s) \/ CheckingStatus(s) \/ loadChalTemplate(s) \/ CreateAnswered(s)
          \/ CreateUploaded(s) \/ FlagAnswered(s) \/ PatchAnswered(s) \/ OptionsFail(s)
          \/ OptionsUploaded(s) \/ OptionsLeave(s) \/ FlagsRead(s) \/ UpdateAnswered(s)
          \/ ChallengeDeleted(s) \/ \E yes \in BOOLEAN : MissingFlags(s, yes)

ChallengeNext ==
    \/ Moved /\ ChallengeMoves
    \/ UNCHANGED moves /\ ChallengeAnswers

ChallengeSpec == ChallengeInit /\ [][ChallengeNext]_challengeVars

-----------------------------------------------------------------------------
(* However many previews are polled and however many checks are on their   *)
(* way, of all the checks one tells the address (successShown_), and a     *)
(* loop that goes on has had fewer answers than maxChecks.  The dialog of  *)
(* a start answer that carries the address is not counted here: it does    *)
(* not set the flag, so that the first check tells the address once more.  *)
ChecksTellOnce ==
    sheet = "list" => /\ form.told.check = IF form.shown THEN 1 ELSE 0
                      /\ \A l \in Loops : form.loops[l] < MaxChecks

(* The order that a comment of handleChallengeOptions asks for: the        *)
(* version of the environment is built from the options of the form, since *)
(* the upload follows the options, unless the server has refused them.     *)
VersionFollowsOptions == chal.version = "defaults" => chal.refused
=============================================================================
