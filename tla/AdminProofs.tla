---------------------------- MODULE AdminProofs -----------------------------
(***************************************************************************)
(* Proofs about the pages of the management platform.                      *)
(***************************************************************************)
EXTENDS ChallengeEditor, AdminChallenge, AdminPages, AdminConfigs, TabMaster, FiniteSetTheorems,
        SequenceTheorems, WellFoundedInduction, TLAPS

-----------------------------------------------------------------------------
(***************************************************************************)
(* The tag picker of ChallengeEditor, for every set of tags and texts and  *)
(* any number of requests: the hidden field that is sent with the search   *)
(* never differs from the tags on the screen.                              *)
(***************************************************************************)

\* The picker only loads its suggestions and creates tags.
PickerTasks ==
    /\ task = [s \in Slot |-> [op |-> task[s].op, at |-> task[s].at, arg |-> task[s].arg]]
    /\ \A s \in Slot : task[s].op \in {"none", "load", "create"}

\* Its data has its fields, of which hidden follows selected.
PickerData ==
    \E value, suggested, selected :
        edit = [value |-> value, suggested |-> suggested, selected |-> selected,
                hidden |-> Values(selected)]

\* The inductive invariant.
PickerInv == part = "picker" => PickerTasks /\ PickerData

LEMMA EditorInitInv == EditorInit => PickerInv
<1> SUFFICES ASSUME EditorInit, part = "picker" PROVE PickerTasks /\ PickerData
  BY DEF PickerInv
<1>1. PickerTasks
  <2>1. part \notin Choices
    BY DEF Choices
  <2>2. task = [NoTasks EXCEPT ![1] = Loading(Nothing), ![2] = NoTask]
    BY <2>1 DEF EditorInit
  <2> QED
    BY <2>2 DEF PickerTasks, NoTasks, NoTask, Loading
<1>2. PickerData
  <2>1. PICK w \in SUBSET (Word \ {Nothing}) :
            edit = [NewData(part) EXCEPT !.selected = {<<Nothing, v>> : v \in w}, !.hidden = w]
    BY DEF EditorInit
  <2>2. NewData(part) = [value |-> Nothing, suggested |-> {}, selected |-> {}, hidden |-> {}]
    BY DEF NewData, Choices
  <2>3. Values({<<Nothing, v>> : v \in w}) = w
    <3> DEFINE S == {<<Nothing, v>> : v \in w}
    <3>1. ASSUME NEW v \in w PROVE v \in Values(S)
      <4>1. <<Nothing, v>> \in S /\ <<Nothing, v>>[2] = v
        OBVIOUS
      <4> HIDE DEF S
      <4> QED
        BY <4>1 DEF Values
    <3>2. ASSUME NEW v \in Values(S) PROVE v \in w
      BY <3>2 DEF Values
    <3> QED
      BY <3>1, <3>2
  <2>4. edit = [value |-> Nothing, suggested |-> {}, selected |-> {<<Nothing, v>> : v \in w},
                hidden |-> w]
    <3>1. \A chosen, values : [NewData(part) EXCEPT !.selected = chosen, !.hidden = values]
             = [value |-> Nothing, suggested |-> {}, selected |-> chosen, hidden |-> values]
      <4> TAKE chosen, values
      <4>1. [NewData(part) EXCEPT !.selected = chosen]
               = [value |-> Nothing, suggested |-> {}, selected |-> chosen, hidden |-> {}]
        BY <2>2
      <4>2. [[value |-> Nothing, suggested |-> {}, selected |-> chosen, hidden |-> {}]
                EXCEPT !.hidden = values]
               = [value |-> Nothing, suggested |-> {}, selected |-> chosen, hidden |-> values]
        OBVIOUS
      <4> QED
        BY <4>1, <4>2
    <3> QED
      BY <2>1, <3>1
  <2> QED
    BY <2>3, <2>4 DEF PickerData
<1> QED
  BY <1>1, <1>2

-----------------------------------------------------------------------------
\* Whatever is selected, Hidden copies its values (updateHiddenInput).
LEMMA HiddenKeepsData ==
    ASSUME NEW e, NEW value, NEW suggested, NEW selected, NEW hidden,
           e = [value |-> value, suggested |-> suggested, selected |-> selected,
                hidden |-> hidden]
    PROVE  Hidden(e) = [value |-> value, suggested |-> suggested, selected |-> selected,
                        hidden |-> Values(selected)]
  BY DEF Hidden

\* toggleSelect ends with Hidden.
LEMMA ToggleKeepsData ==
    ASSUME NEW e, NEW tag, NEW value, NEW suggested, NEW selected, NEW hidden,
           e = [value |-> value, suggested |-> suggested, selected |-> selected,
                hidden |-> hidden]
    PROVE  \E now : toggleSelect(e, tag) = [value |-> value, suggested |-> suggested,
                                            selected |-> now, hidden |-> Values(now)]
<1> DEFINE same == {t \in e.selected : t[1] = tag[1] \/ t[2] = tag[2]}
           now == IF same # {} THEN selected \ same ELSE selected \cup {tag}
           f == [e EXCEPT !.selected = IF same # {} THEN @ \ same ELSE @ \cup {tag}]
<1>1. f = [value |-> value, suggested |-> suggested, selected |-> now, hidden |-> hidden]
  <2>1. same = {t \in selected : t[1] = tag[1] \/ t[2] = tag[2]}
    OBVIOUS
  <2>2. \A other : [e EXCEPT !.selected = other]
                     = [value |-> value, suggested |-> suggested, selected |-> other,
                        hidden |-> hidden]
    OBVIOUS
  <2>3. f = [e EXCEPT !.selected = now]
    <3> HIDE DEF same
    <3>1. e.selected = selected
      OBVIOUS
    <3> QED
      BY <3>1
  <2> HIDE DEF f, now
  <2> QED
    BY <2>2, <2>3
<1>2. toggleSelect(e, tag) = Hidden(f)
  BY DEF toggleSelect
<1>3. Hidden(f) = [value |-> value, suggested |-> suggested, selected |-> now,
                   hidden |-> Values(now)]
  <2> HIDE DEF f, now
  <2> QED
    BY <1>1, HiddenKeepsData
<1> QED
  BY <1>2, <1>3

\* Emptying the text afterwards changes nothing else.
LEMMA ToggledKeepsData ==
    ASSUME NEW e, NEW tag, NEW value, NEW suggested, NEW selected, NEW hidden,
           e = [value |-> value, suggested |-> suggested, selected |-> selected,
                hidden |-> hidden],
           edit' = [toggleSelect(e, tag) EXCEPT !.value = Nothing]
    PROVE  PickerData'
<1>1. PICK now : toggleSelect(e, tag) = [value |-> value, suggested |-> suggested,
                                         selected |-> now, hidden |-> Values(now)]
  BY ToggleKeepsData
<1>2. edit' = [value |-> Nothing, suggested |-> suggested, selected |-> now,
               hidden |-> Values(now)]
  BY <1>1
<1> QED
  BY <1>2 DEF PickerData, Values

-----------------------------------------------------------------------------
\* What the administrator does in the picker.
LEMMA PickerMoves ==
    ASSUME part = "picker", PickerTasks, PickerData, EditorMoves
    PROVE  PickerTasks' /\ PickerData'
<1>1. PICK value, suggested, selected :
          edit = [value |-> value, suggested |-> suggested, selected |-> selected,
                  hidden |-> Values(selected)]
  BY DEF PickerData
<1>2. \/ \E w \in Word : PickerTyped(w)
      \/ \E t \in edit.suggested \cup edit.selected : selectSuggestion(t) \/ deleteTag(t)
      \/ addTag
  BY DEF EditorMoves, addEntry, closeModal, submitEntry, updateEntry, OtherAdmin, addFiles,
         moveCursor, saveChoice, editEntry, deleteEntry, selectChallenge, typesTopic, Lists, Choices
<1>3. ASSUME NEW w \in Word, PickerTyped(w)
      PROVE  PickerTasks' /\ PickerData'
  <2>1. UNCHANGED task /\ edit' = [value |-> w, suggested |-> suggested, selected |-> selected,
                                   hidden |-> Values(selected)]
    BY <1>1, <1>3 DEF PickerTyped
  <2> QED
    BY <2>1 DEF PickerTasks, PickerData, Values
<1>4. ASSUME NEW t, selectSuggestion(t)
      PROVE  PickerTasks' /\ PickerData'
  <2>1. UNCHANGED task /\ edit' = [toggleSelect(edit, t) EXCEPT !.value = Nothing]
    BY <1>4 DEF selectSuggestion
  <2> QED
    BY <1>1, <2>1, ToggledKeepsData DEF PickerTasks
<1>5. ASSUME NEW t, deleteTag(t)
      PROVE  PickerTasks' /\ PickerData'
  <2>1. UNCHANGED task /\ edit' = Hidden([edit EXCEPT !.selected = @ \ {t}])
    BY <1>5 DEF deleteTag, Deselected
  <2>2. [edit EXCEPT !.selected = @ \ {t}]
           = [value |-> value, suggested |-> suggested, selected |-> selected \ {t},
              hidden |-> Values(selected)]
    BY <1>1
  <2>3. edit' = [value |-> value, suggested |-> suggested, selected |-> selected \ {t},
                 hidden |-> Values(selected \ {t})]
    BY <2>1, <2>2, HiddenKeepsData
  <2> QED
    BY <2>1, <2>3 DEF PickerTasks, PickerData, Values
<1>6. CASE addTag
  <2>1. CASE \E t : /\ edit' = [toggleSelect(edit, t) EXCEPT !.value = Nothing]
                    /\ UNCHANGED task
    BY <1>1, <2>1, ToggledKeepsData DEF PickerTasks
  <2>2. CASE /\ \E s \in Slot : Start(s, "create", "sent", About(edit.value, Nothing))
             /\ UNCHANGED edit
    <3>1. PickerTasks'
      BY <2>2 DEF PickerTasks, Start
    <3> QED
      BY <2>2, <3>1 DEF PickerData, Values
  <2> QED
    BY <1>6, <2>1, <2>2 DEF addTag
<1> QED
  BY <1>2, <1>3, <1>4, <1>5, <1>6

\* The answers it gets: the tags read and received, and a tag created.
LEMMA PickerAnswers ==
    ASSUME part = "picker", PickerTasks, PickerData, EditorAnswers
    PROVE  PickerTasks' /\ PickerData'
<1>1. PICK value, suggested, selected :
          edit = [value |-> value, suggested |-> suggested, selected |-> selected,
                  hidden |-> Values(selected)]
  BY DEF PickerData
<1>2. PICK s \in Slot : ServerReads(s) \/ Suggested(s) \/ TagCreated(s)
  BY DEF EditorAnswers, PickerTasks, ListShown, FormFilled, Changed, Deleted, Uploaded,
         UploadShown, searchTopics, SearchAnswered, ChallengesOffered, ChoiceShown, ChoiceSaved,
         Awaits, Lists, Choices
<1>3. CASE ServerReads(s)
  <2>1. Await(s, "read", [task[s].arg EXCEPT !.set = Entries]) /\ UNCHANGED edit
    BY <1>3 DEF ServerReads
  <2>2. PickerTasks'
    <3>1. task' = [task EXCEPT ![s].at = "read", ![s].arg = task'[s].arg]
      BY <2>1 DEF PickerTasks, Await
    <3> QED
      BY <3>1 DEF PickerTasks
  <2> QED
    BY <2>1, <2>2 DEF PickerData, Values
<1>4. ASSUME Ends(s)
      PROVE  PickerTasks'
  BY <1>4 DEF PickerTasks, Ends, NoTask
<1>5. CASE Suggested(s)
  <2>1. PICK all : edit' = Resolved(edit, all) \/ UNCHANGED edit
    BY <1>5 DEF Suggested
  <2>2. CASE edit' = Resolved(edit, all)
    <3> DEFINE now == {IF \E u \in all : u[2] = t[2] THEN First({u \in all : u[2] = t[2]}) ELSE t
                          : t \in selected}
    <3>1. ASSUME NEW found
          PROVE  [edit EXCEPT !.suggested = all, !.selected = found]
                    = [value |-> value, suggested |-> all, selected |-> found,
                       hidden |-> Values(selected)]
      <4> DEFINE hidden == Values(selected)
      <4>1. edit = [value |-> value, suggested |-> suggested, selected |-> selected,
                    hidden |-> hidden]
        BY <1>1
      <4> HIDE DEF hidden
      <4>2. [edit EXCEPT !.suggested = all]
               = [value |-> value, suggested |-> all, selected |-> selected, hidden |-> hidden]
        BY <4>1
      <4>3. [[value |-> value, suggested |-> all, selected |-> selected, hidden |-> hidden]
                EXCEPT !.selected = found]
               = [value |-> value, suggested |-> all, selected |-> found, hidden |-> hidden]
        OBVIOUS
      <4>4. [edit EXCEPT !.suggested = all, !.selected = found]
               = [value |-> value, suggested |-> all, selected |-> found, hidden |-> hidden]
        BY <4>2, <4>3
      <4> QED
        BY <4>4 DEF hidden
    <3>3. edit' = Hidden([edit EXCEPT !.suggested = all, !.selected = now])
      <4>1. edit.selected = selected
        BY <1>1
      <4> QED
        BY <2>2, <4>1 DEF Resolved
    <3>2. edit' = [value |-> value, suggested |-> all, selected |-> now, hidden |-> Values(now)]
      <4> HIDE DEF now
      <4> QED
        <5> DEFINE e == [edit EXCEPT !.suggested = all, !.selected = now]
        <5>1. e = [value |-> value, suggested |-> all, selected |-> now,
                   hidden |-> Values(selected)]
          BY <3>1
        <5>2. edit' = Hidden(e)
          BY <3>3
        <5> HIDE DEF e
        <5> QED
          BY <5>1, <5>2, HiddenKeepsData
    <3> QED
      BY <1>4, <1>5, <3>2 DEF Suggested, PickerData, Values
  <2>3. CASE UNCHANGED edit
    BY <1>4, <1>5, <2>3 DEF Suggested, PickerData, Values
  <2> QED
    BY <2>1, <2>2, <2>3
<1>6. CASE TagCreated(s)
  <2>1. PickerTasks'
    BY <1>4, <1>6 DEF TagCreated
  <2>2. CASE UNCHANGED edit
    BY <2>1, <2>2 DEF PickerData, Values
  <2>3. ASSUME NEW tag,
               edit' = [toggleSelect([edit EXCEPT !.suggested = @ \cup {tag}], tag)
                           EXCEPT !.value = Nothing]
        PROVE  PickerData'
    <3>1. [edit EXCEPT !.suggested = @ \cup {tag}]
             = [value |-> value, suggested |-> suggested \cup {tag}, selected |-> selected,
                hidden |-> Values(selected)]
      BY <1>1
    <3> QED
      BY <2>3, <3>1, ToggledKeepsData
  <2> QED
    BY <1>6, <2>1, <2>2, <2>3 DEF TagCreated
<1> QED
  BY <1>2, <1>3, <1>5, <1>6

LEMMA EditorKeepsPart == EditorNext => UNCHANGED part
  BY DEF EditorNext, EditorMoves, EditorAnswers, addEntry, closeModal, submitEntry, updateEntry,
         OtherAdmin, addFiles, moveCursor, saveChoice, addTag, editEntry, deleteEntry,
         selectChallenge, typesTopic, PickerTyped, selectSuggestion, deleteTag, ServerReads,
         ListShown, FormFilled, Changed, Deleted, Uploaded, UploadShown, searchTopics,
         SearchAnswered, ChallengesOffered, ChoiceShown, ChoiceSaved, Suggested, TagCreated

LEMMA EditorInductive == PickerInv /\ [EditorNext]_editorVars => PickerInv'
<1> SUFFICES ASSUME PickerInv, [EditorNext]_editorVars, part' = "picker"
             PROVE  PickerTasks' /\ PickerData'
  BY DEF PickerInv
<1>1. part = "picker"
  BY EditorKeepsPart DEF editorVars
<1>2. CASE UNCHANGED editorVars
  BY <1>1, <1>2 DEF editorVars, PickerInv, PickerTasks, PickerData, Values
<1> QED
  BY <1>1, <1>2, PickerMoves, PickerAnswers DEF EditorNext, PickerInv

\* Over late suggestions, late creations and duplicates, the hidden field that the
\* search form sends holds exactly the tags shown (TagsList.vue:228-232,
\* updateHiddenInput).
THEOREM SentTagsAreShown == EditorSpec => []HiddenIsSelected
<1>1. PickerInv => HiddenIsSelected
  BY DEF PickerInv, PickerData, HiddenIsSelected
<1> QED
  BY <1>1, EditorInitInv, EditorInductive, PTL DEF EditorSpec

-----------------------------------------------------------------------------
(***************************************************************************)
(* AdminChallenge, for every number of previews, checks and pending        *)
(* requests: an address is told once, and a version of the environment     *)
(* follows the options it was made from.                                   *)
(***************************************************************************)

Is(r, fields) == DOMAIN r = fields

\* Each page starts functions of its own, with an argument of one form.
OpsOf(p) == CASE p = "list" -> {"start", "check"}
              [] p = "create" -> {"types", "create", "options"}
              [] p = "update" -> {"update", "remove"}
TaskOf(p, t) ==
    /\ Is(t, {"op", "at", "arg"})
    /\ t.op \in OpsOf(p) \cup {"none"}
    /\ t.op # "none" => Is(t.arg, {"kind", "flag", "patch", "file"})

ChalFields == Is(chal, {"env", "made", "refused", "options", "version", "files", "flags", "state"})

\* The list: a check is of a loop, and a loop has had less than its answers.
ListInv ==
    /\ chal.version = "none"
    /\ \A s \in Slot : task[s].op = "check" => task[s].arg.file \in Loops
    /\ Is(form, {"shown", "told", "loops", "used", "busy", "shared"})
    /\ Is(form.told, {"start", "check"})
    /\ form.shown \in BOOLEAN /\ form.loops \in [Loops -> Int]
    /\ ChecksTellOnce

\* What the server has answered to the options of a form.
OptionsOf(t, c) ==
    /\ t.arg.file \in Nat /\ t.arg.file <= c.made
    /\ t.at # "both" => t.arg.patch # "sent"
    /\ t.arg.patch \in {"sent", "ok", "refused"}
    /\ t.arg.patch = "ok" /\ t.arg.file = c.made => c.options
    /\ t.arg.patch = "refused" => c.refused
CreateInv ==
    /\ chal.made \in Nat /\ chal.refused \in BOOLEAN /\ chal.options \in BOOLEAN
    /\ Is(form, {"name", "file", "blocked", "id", "opened", "busy", "left"})
    /\ form.id \in Nat /\ form.id <= chal.made
    /\ \A s \in Slot : task[s].op = "options" => OptionsOf(task[s], chal)
    /\ VersionFollowsOptions

\* The inductive invariant.
ChallengeInv ==
    /\ sheet \in {"list", "create", "update"}
    /\ DOMAIN task = Slot /\ \A s \in Slot : TaskOf(sheet, task[s])
    /\ ChalFields
    /\ CASE sheet = "list" -> ListInv
         [] sheet = "create" -> CreateInv
         [] sheet = "update" -> chal.version = "none"

-----------------------------------------------------------------------------
(* What happens to the tasks.                                              *)

Tasked(p) == DOMAIN task = Slot /\ \A s \in Slot : TaskOf(p, task[s])

LEMMA StartBecomes ==
    ASSUME NEW p \in {"list", "create", "update"}, Tasked(p), NEW s \in Slot,
           NEW op \in OpsOf(p), NEW at, NEW arg, Start(s, op, at, arg),
           Is(arg, {"kind", "flag", "patch", "file"})
    PROVE  /\ Tasked(p)'
           /\ task'[s] = [op |-> op, at |-> at, arg |-> arg]
           /\ \A u \in Slot : u # s => task'[u] = task[u]
<1>1. DOMAIN task' = Slot
  BY DEF Tasked, Start
<1>2. \A u \in Slot : task'[u] = IF u = s THEN [op |-> op, at |-> at, arg |-> arg] ELSE task[u]
  BY DEF Tasked, Start
<1>3. TaskOf(p, [op |-> op, at |-> at, arg |-> arg])
  BY DEF TaskOf, Is
<1> QED
  BY <1>1, <1>2, <1>3 DEF Tasked

LEMMA AwaitBecomes ==
    ASSUME NEW p \in {"list", "create", "update"}, Tasked(p), NEW s \in Slot,
           NEW at, NEW arg, Await(s, at, arg),
           Is(arg, {"kind", "flag", "patch", "file"})
    PROVE  /\ Tasked(p)'
           /\ task'[s].op = task[s].op /\ task'[s].at = at /\ task'[s].arg = arg
           /\ \A u \in Slot : u # s => task'[u] = task[u]
<1>1. DOMAIN task' = Slot
  BY DEF Tasked, Await
<1>2. \A u \in Slot : u # s => task'[u] = task[u]
  BY DEF Tasked, Await
<1>3. /\ DOMAIN task'[s] = {"op", "at", "arg"}
      /\ task'[s].op = task[s].op /\ task'[s].at = at /\ task'[s].arg = arg
  <2>1. DOMAIN task[s] = {"op", "at", "arg"}
    BY DEF Tasked, TaskOf, Is
  <2> QED
    BY <2>1 DEF Tasked, Await
<1>4. TaskOf(p, task'[s])
  BY <1>3 DEF Tasked, TaskOf, Is
<1> QED
  BY <1>1, <1>2, <1>3, <1>4 DEF Tasked

LEMMA EndsBecomes ==
    ASSUME NEW p \in {"list", "create", "update"}, Tasked(p), NEW s \in Slot, Ends(s)
    PROVE  /\ Tasked(p)'
           /\ task'[s].op = "none"
           /\ \A u \in Slot : u # s => task'[u] = task[u]
<1>1. TaskOf(p, NoTask) /\ NoTask.op = "none"
  BY DEF TaskOf, Is, NoTask
<1> QED
  BY <1>1 DEF Tasked, Ends

LEMMA NoTasksBecome ==
    ASSUME NEW p \in {"list", "create", "update"}, task' = NoTasks
    PROVE  Tasked(p)' /\ \A u \in Slot : task'[u].op = "none"
  BY DEF Tasked, NoTasks, NoTask, TaskOf, Is

LEMMA SheetIs == ASSUME NEW k, NEW v PROVE Is(Sheet(k, v), {"kind", "flag", "patch", "file"})
  BY DEF Sheet, Is

-----------------------------------------------------------------------------
(* The actions of each page.                                               *)

LEMMA ListActions ==
    ASSUME sheet = "list", Tasked("list"), ChallengeNext
    PROVE  \/ previewChallenge \/ startSharedChallenge \/ EnvironmentGoesOn
           \/ \E l \in Loops : LoopCheckingStatus(l)
           \/ \E s \in Slot : StartAnswered(s) \/ CheckingStatus(s)
<1>1. \A s \in Slot : task[s].op \in {"none", "start", "check"}
  BY DEF Tasked, TaskOf, OpsOf
<1> QED
  BY <1>1 DEF ChallengeNext, ChallengeMoves, ChallengeAnswers, changeType, editName, createSubmit,
     handleChallengeOptions, FlagsChange, toggleScoringType, deleteChallenge, chooseFile,
     updateSubmit, loadChalTemplate, CreateAnswered, CreateUploaded, FlagAnswered, PatchAnswered,
     OptionsFail, OptionsUploaded, OptionsLeave, FlagsRead, UpdateAnswered, ChallengeDeleted,
     MissingFlags, Awaits

LEMMA CreateActions ==
    ASSUME sheet = "create", Tasked("create"), ChallengeNext
    PROVE  \/ changeType \/ editName \/ createSubmit \/ handleChallengeOptions
           \/ \E f : chooseFile(f)
           \/ \E s \in Slot :
                 \/ loadChalTemplate(s) \/ CreateAnswered(s) \/ CreateUploaded(s)
                 \/ FlagAnswered(s) \/ PatchAnswered(s) \/ OptionsFail(s)
                 \/ OptionsUploaded(s) \/ OptionsLeave(s)
<1>1. \A s \in Slot : task[s].op \in {"none", "types", "create", "options"}
  BY DEF Tasked, TaskOf, OpsOf
<1> QED
  BY <1>1 DEF ChallengeNext, ChallengeMoves, ChallengeAnswers, previewChallenge,
     startSharedChallenge, EnvironmentGoesOn, FlagsChange, toggleScoringType, deleteChallenge,
     updateSubmit, LoopCheckingStatus, StartAnswered, CheckingStatus, FlagsRead, UpdateAnswered,
     ChallengeDeleted, MissingFlags, Awaits

LEMMA UpdateActions ==
    ASSUME sheet = "update", Tasked("update"), ChallengeNext
    PROVE  \/ FlagsChange \/ toggleScoringType \/ deleteChallenge
           \/ \E st : updateSubmit(st)
           \/ \E s \in Slot :
                 \/ FlagsRead(s) \/ UpdateAnswered(s) \/ ChallengeDeleted(s)
                 \/ \E yes \in BOOLEAN : MissingFlags(s, yes)
<1>1. \A s \in Slot : task[s].op \in {"none", "update", "remove"}
  BY DEF Tasked, TaskOf, OpsOf
<1> QED
  BY <1>1 DEF ChallengeNext, ChallengeMoves, ChallengeAnswers, previewChallenge,
     startSharedChallenge, EnvironmentGoesOn, changeType, editName, createSubmit,
     handleChallengeOptions, chooseFile, LoopCheckingStatus, StartAnswered, CheckingStatus,
     loadChalTemplate, CreateAnswered, CreateUploaded, FlagAnswered, PatchAnswered, OptionsFail,
     OptionsUploaded, OptionsLeave, Awaits

LEMMA SheetStays == ChallengeNext => UNCHANGED sheet
  BY DEF ChallengeNext, ChallengeMoves, ChallengeAnswers, previewChallenge,
     startSharedChallenge, EnvironmentGoesOn, changeType, editName, createSubmit,
     handleChallengeOptions, FlagsChange, toggleScoringType, deleteChallenge, chooseFile,
     updateSubmit, LoopCheckingStatus, StartAnswered, CheckingStatus,
     loadChalTemplate, CreateAnswered, CreateUploaded, FlagAnswered, PatchAnswered, OptionsFail,
     OptionsUploaded, OptionsLeave, FlagsRead, UpdateAnswered, ChallengeDeleted, MissingFlags

-----------------------------------------------------------------------------
(* The list.                                                               *)

\* The loops and the flag, when only other fields of the form change.
ListForm == /\ Is(form, {"shown", "told", "loops", "used", "busy", "shared"})
            /\ Is(form.told, {"start", "check"})
            /\ form.shown \in BOOLEAN /\ form.loops \in [Loops -> Int]
            /\ ChecksTellOnce
ListChecks == \A s \in Slot : task[s].op = "check" => task[s].arg.file \in Loops

LEMMA ListKept ==
    ASSUME sheet = "list", Tasked("list"), ChalFields, ListInv, ChallengeNext
    PROVE  Tasked("list")' /\ ChalFields' /\ ListInv'
<1> "list" \in {"list", "create", "update"} /\ "start" \in OpsOf("list") /\ "check" \in OpsOf("list")
  BY DEF OpsOf
<1>1. sheet' = "list"
  BY SheetStays
<1>2. ChalFields' /\ chal'.version = "none"
  BY ListActions DEF ListInv, ChalFields, Is, previewChallenge, startSharedChallenge,
     EnvironmentGoesOn, LoopCheckingStatus, StartAnswered, CheckingStatus
<1>3. Tasked("list")' /\ ListChecks'
  <2>1. ASSUME UNCHANGED task PROVE Tasked("list")' /\ ListChecks'
    BY <2>1 DEF Tasked, ListInv, ListChecks
  <2>2. ASSUME NEW s \in Slot, Ends(s) PROVE Tasked("list")' /\ ListChecks'
    BY <2>2, EndsBecomes DEF ListInv, ListChecks
  <2>3. ASSUME NEW s \in Slot, NEW k, NEW v, Start(s, "start", "sent", Sheet(k, v))
        PROVE  Tasked("list")' /\ ListChecks'
    <3>1. /\ Tasked("list")'
          /\ task'[s] = [op |-> "start", at |-> "sent", arg |-> Sheet(k, v)]
          /\ \A u \in Slot : u # s => task'[u] = task[u]
      <4>1. Is(Sheet(k, v), {"kind", "flag", "patch", "file"})
        BY SheetIs
      <4> QED
        BY <2>3, <4>1, StartBecomes
    <3> QED
      BY <3>1 DEF ListInv, ListChecks
  <2>4. ASSUME NEW s \in Slot, NEW l \in Loops, Start(s, "check", "sent", Sheet("check", l))
        PROVE  Tasked("list")' /\ ListChecks'
    <3>1. Sheet("check", l).file = l
      BY DEF Sheet
    <3>2. /\ Tasked("list")'
          /\ task'[s] = [op |-> "check", at |-> "sent", arg |-> Sheet("check", l)]
          /\ \A u \in Slot : u # s => task'[u] = task[u]
      <4>1. Is(Sheet("check", l), {"kind", "flag", "patch", "file"})
        BY SheetIs
      <4> QED
        BY <2>4, <4>1, StartBecomes
    <3> QED
      BY <3>1, <3>2 DEF ListInv, ListChecks
  <2> QED
    BY <2>1, <2>2, <2>3, <2>4, ListActions DEF previewChallenge, startSharedChallenge,
       EnvironmentGoesOn, LoopCheckingStatus, StartAnswered, CheckingStatus
<1>4. ListForm'
  <2>1. CASE UNCHANGED form
    BY <1>1, <2>1 DEF ListForm, ListInv, ChecksTellOnce
  <2>2. CASE previewChallenge
    BY <1>1, <2>2 DEF previewChallenge, ListForm, ListInv, ChecksTellOnce, Is
  <2>3. CASE startSharedChallenge
    BY <1>1, <2>3 DEF startSharedChallenge, ListForm, ListInv, ChecksTellOnce, Is
  <2>4. ASSUME NEW l \in Loops, LoopCheckingStatus(l), ~UNCHANGED form
        PROVE  ListForm'
    BY <1>1, <2>4, ChallengeAssumption
    DEF LoopCheckingStatus, ListForm, ListInv, ChecksTellOnce, Is, Off
  <2>5. ASSUME NEW s \in Slot, StartAnswered(s)
        PROVE  ListForm'
    <3>3. ASSUME NEW carried
          PROVE  Is(Told(carried), {"start", "check"}) /\ Told(carried).check = form.told.check
      BY DEF Told, ListInv, Is
    <3>1. ASSUME NEW carried,
                 form' = [form EXCEPT !.busy = FALSE, !.told = Told(carried),
                                      !.loops[form.used + 1] = 0, !.used = @ + 1]
          PROVE  ListForm'
      <4>1. /\ Is(form', {"shown", "told", "loops", "used", "busy", "shared"})
            /\ form'.shown = form.shown /\ form'.told = Told(carried)
            /\ form'.loops = [form.loops EXCEPT ![form.used + 1] = 0]
        BY <3>1 DEF ListInv, Is
      <4> QED
        <5>1. form'.loops \in [Loops -> Int] /\ \A l \in Loops : form'.loops[l] < MaxChecks
          <6> DEFINE next == form.used + 1
          <6>1. form'.loops = [form.loops EXCEPT ![next] = 0]
            BY <4>1
          <6>2. form.loops \in [Loops -> Int] /\ \A l \in Loops : form.loops[l] < MaxChecks
            BY DEF ListInv, ChecksTellOnce
          <6> HIDE DEF next
          <6>3. \A l \in Loops : form'.loops[l] \in {0, form.loops[l]}
            BY <6>1, <6>2
          <6>4. form'.loops \in [Loops -> Int]
            <7>1. form'.loops = [u \in Loops |-> IF u = next THEN 0 ELSE form.loops[u]]
              BY <6>1, <6>2
            <7>2. \A u \in Loops : (IF u = next THEN 0 ELSE form.loops[u]) \in Int
              BY <6>2
            <7> QED
              BY <7>1, <7>2
          <6>5. 0 < MaxChecks
            BY ChallengeAssumption
          <6>6. ASSUME NEW l \in Loops PROVE form'.loops[l] < MaxChecks
            <7>1. form'.loops[l] = 0 \/ form'.loops[l] = form.loops[l]
              BY <6>3
            <7> QED
              BY <6>2, <6>5, <7>1
          <6> QED
            BY <6>4, <6>6
        <5>2. /\ form'.shown \in BOOLEAN /\ Is(form'.told, {"start", "check"})
              /\ form'.told.check = IF form'.shown THEN 1 ELSE 0
          BY <3>3, <4>1 DEF ListInv, ChecksTellOnce
        <5> QED
          BY <4>1, <5>1, <5>2 DEF ListForm, ChecksTellOnce
    <3>2. CASE form' = [form EXCEPT !.busy = FALSE]
      BY <1>1, <3>2 DEF ListForm, ListInv, ChecksTellOnce, Is
    <3>4. ASSUME NEW carried, form' = [form EXCEPT !.shared = FALSE, !.told = Told(carried)]
          PROVE  ListForm'
      <4>1. /\ Is(form', {"shown", "told", "loops", "used", "busy", "shared"})
            /\ form'.shown = form.shown /\ form'.told = Told(carried)
            /\ form'.loops = form.loops
        BY <3>4 DEF ListInv, Is
      <4> QED
        BY <1>1, <3>3, <4>1 DEF ListForm, ListInv, ChecksTellOnce
    <3> QED
      BY <2>5, <3>1, <3>2, <3>4 DEF StartAnswered
  <2>6. ASSUME NEW s \in Slot, CheckingStatus(s)
        PROVE  ListForm'
    <3> DEFINE l == task[s].arg.file
               n == form.loops[l] + 1
    <3>1. l \in Loops /\ form.loops[l] \in Int
      BY <2>6 DEF CheckingStatus, Awaits, ListInv
    <3>2. PICK ready \in {FALSE, chal.env = "running"} :
             form' = [form EXCEPT
                 !.shown = @ \/ Telling(form, ready),
                 !.told.check = @ + IF Telling(form, ready) THEN 1 ELSE 0,
                 !.loops[l] = IF @ = Off \/ ready \/ n >= MaxChecks THEN Off ELSE n]
      BY <2>6 DEF CheckingStatus
    <3>3. /\ Is(form', {"shown", "told", "loops", "used", "busy", "shared"})
          /\ form'.shown = (form.shown \/ Telling(form, ready))
          /\ Is(form'.told, {"start", "check"})
          /\ form'.told.check = form.told.check + IF Telling(form, ready) THEN 1 ELSE 0
          /\ form'.loops = [form.loops EXCEPT
                               ![l] = IF @ = Off \/ ready \/ n >= MaxChecks THEN Off ELSE n]
      BY <3>2 DEF ListInv, Is
    <3>4. form'.shown \in BOOLEAN /\ form'.told.check = IF form'.shown THEN 1 ELSE 0
      <4>1. form.shown \in BOOLEAN /\ form.told.check = IF form.shown THEN 1 ELSE 0
        BY DEF ListInv, ChecksTellOnce
      <4>2. CASE Telling(form, ready)
        <5>1. form.shown = FALSE
          BY <4>1, <4>2 DEF Telling
        <5>2. form.told.check = 0
          BY <4>1, <5>1
        <5>3. form'.told.check = 1
          BY <3>3, <4>2, <5>2
        <5>4. form'.shown = TRUE
          BY <3>3, <4>2
        <5> QED
          BY <5>3, <5>4
      <4>3. CASE ~Telling(form, ready)
        BY <3>3, <4>1, <4>3
      <4> QED
        BY <4>2, <4>3
    <3>5. form'.loops \in [Loops -> Int] /\ \A k \in Loops : form'.loops[k] < MaxChecks
      BY <3>1, <3>3, ChallengeAssumption DEF ListInv, ChecksTellOnce, Off
    <3> QED
      BY <3>3, <3>4, <3>5 DEF ListForm, ChecksTellOnce
  <2> QED
    BY <2>1, <2>2, <2>3, <2>4, <2>5, <2>6, ListActions DEF EnvironmentGoesOn
<1> QED
  BY <1>2, <1>3, <1>4 DEF ListInv, ListForm, ListChecks

-----------------------------------------------------------------------------
(* The creation.                                                           *)

\* A newer challenge, or the same one with more of its options.
Grows(c, d) ==
    /\ c.made \in Nat /\ d.made \in Nat
    /\ d.made > c.made \/ (d.made = c.made /\ (c.options => d.options))
    /\ c.refused => d.refused

LEMMA OptionsStay ==
    ASSUME NEW t, NEW c, NEW d, OptionsOf(t, c), Grows(c, d)
    PROVE  OptionsOf(t, d)
  BY DEF OptionsOf, Grows

CreateOptions == \A s \in Slot : task[s].op = "options" => OptionsOf(task[s], chal)
CreateForm == /\ Is(form, {"name", "file", "blocked", "id", "opened", "busy", "left"})
              /\ form.id \in Nat /\ form.id <= chal.made
CreateChal == /\ ChalFields
              /\ chal.made \in Nat /\ chal.refused \in BOOLEAN /\ chal.options \in BOOLEAN
              /\ VersionFollowsOptions

\* One task changes, the others are still of what the server has.
LEMMA OthersStay ==
    ASSUME CreateOptions, Grows(chal, chal'), NEW s \in Slot,
           \A u \in Slot : u # s => task'[u] = task[u],
           task'[s].op = "options" => OptionsOf(task'[s], chal')
    PROVE  CreateOptions'
  BY OptionsStay DEF CreateOptions

\* The answers to the flag and to the options are joined.
LEMMA JoinedBecomes ==
    ASSUME Tasked("create"), NEW s \in Slot, NEW a, Joined(s, a),
           Is(a, {"kind", "flag", "patch", "file"}),
           Is(form, {"name", "file", "blocked", "id", "opened", "busy", "left"})
    PROVE  /\ Tasked("create")'
           /\ task'[s].arg = a
           /\ task'[s].at # "both" => a.patch # "sent"
           /\ \A u \in Slot : u # s => task'[u] = task[u]
           /\ Is(form', {"name", "file", "blocked", "id", "opened", "busy", "left"})
           /\ form'.id = form.id
<1> "create" \in {"list", "create", "update"}
  OBVIOUS
<1>1. PICK at \in {"upload", "both"} : Await(s, at, a) /\ (at = "upload" => a.patch # "sent")
  BY DEF Joined, Both
<1>2. /\ Tasked("create")'
      /\ task'[s].at = at /\ task'[s].arg = a
      /\ \A u \in Slot : u # s => task'[u] = task[u]
  BY <1>1, AwaitBecomes
<1>3. /\ Is(form', {"name", "file", "blocked", "id", "opened", "busy", "left"})
      /\ form'.id = form.id
  BY DEF Joined, Is
<1> QED
  BY <1>1, <1>2, <1>3

LEMMA CreateKept ==
    ASSUME sheet = "create", Tasked("create"), ChalFields, CreateInv, ChallengeNext
    PROVE  Tasked("create")' /\ ChalFields' /\ CreateInv'
<1> "create" \in {"list", "create", "update"}
  OBVIOUS
<1> SUFFICES Tasked("create")' /\ CreateOptions' /\ CreateForm' /\ CreateChal'
  BY DEF CreateInv, CreateOptions, CreateForm, CreateChal
<1>0. CreateOptions /\ CreateForm /\ CreateChal
  BY DEF CreateInv, CreateOptions, CreateForm, CreateChal
<1>1. ASSUME UNCHANGED chal
      PROVE  CreateChal' /\ Grows(chal, chal')
  BY <1>0, <1>1 DEF CreateChal, ChalFields, Is, VersionFollowsOptions, Grows
<1>2. ASSUME NEW s \in Slot, Ends(s), Grows(chal, chal')
      PROVE  Tasked("create")' /\ CreateOptions'
  <2>1. /\ Tasked("create")' /\ task'[s].op = "none"
        /\ \A u \in Slot : u # s => task'[u] = task[u]
    BY <1>2, EndsBecomes
  <2> QED
    BY <1>0, <1>2, <2>1, OthersStay
<1>3. ASSUME NEW s \in Slot, NEW op \in {"types", "create"}, NEW k, NEW v,
             Start(s, op, "sent", Sheet(k, v)), UNCHANGED chal
      PROVE  Tasked("create")' /\ CreateOptions'
  <2>1. Is(Sheet(k, v), {"kind", "flag", "patch", "file"})
    BY SheetIs
  <2>2. op \in OpsOf("create")
    BY DEF OpsOf
  <2>3. /\ Tasked("create")' /\ task'[s] = [op |-> op, at |-> "sent", arg |-> Sheet(k, v)]
        /\ \A u \in Slot : u # s => task'[u] = task[u]
    BY <1>3, <2>1, <2>2, StartBecomes
  <2> QED
    BY <1>0, <1>1, <1>3, <2>3, OthersStay
<1>4. ASSUME UNCHANGED <<form, chal>>
      PROVE  CreateForm'
  BY <1>0, <1>4 DEF CreateForm, Is
<1>5. CASE changeType \/ createSubmit
  BY <1>1, <1>3, <1>4, <1>5 DEF changeType, createSubmit
<1>6. ASSUME editName \/ \E f : chooseFile(f)
      PROVE  Tasked("create")' /\ CreateOptions' /\ CreateForm' /\ CreateChal'
  <2>1. UNCHANGED <<task, chal>>
    BY <1>6 DEF editName, chooseFile
  <2>2. CreateForm'
    BY <1>0, <1>6, <2>1 DEF editName, chooseFile, CreateForm, Is
  <2>3. Tasked("create")' /\ CreateOptions'
    BY <1>0, <2>1 DEF Tasked, CreateOptions
  <2> QED
    BY <1>1, <2>1, <2>2, <2>3
<1>7. CASE handleChallengeOptions
  <2>1. PICK flag \in {"none", "sent"}, s \in Slot :
           Start(s, "options", "both",
                 [Sheet("options", form.id) EXCEPT !.flag = flag, !.patch = "sent"])
    BY <1>7 DEF handleChallengeOptions
  <2> DEFINE a == [Sheet("options", form.id) EXCEPT !.flag = flag, !.patch = "sent"]
  <2>2. Is(a, {"kind", "flag", "patch", "file"}) /\ a.patch = "sent" /\ a.file = form.id
    BY DEF Is, Sheet
  <2>3. "options" \in OpsOf("create")
    BY DEF OpsOf
  <2> HIDE DEF a
  <2>4. /\ Tasked("create")' /\ task'[s] = [op |-> "options", at |-> "both", arg |-> a]
        /\ \A u \in Slot : u # s => task'[u] = task[u]
    BY <2>1, <2>2, <2>3, StartBecomes DEF a
  <2>5. UNCHANGED <<form, chal>>
    BY <1>7 DEF handleChallengeOptions
  <2>6. OptionsOf(task'[s], chal')
    BY <1>0, <2>2, <2>4, <2>5 DEF OptionsOf, CreateForm
  <2> QED
    BY <1>0, <1>1, <1>4, <2>4, <2>5, <2>6, OthersStay
<1>8. ASSUME NEW s \in Slot, loadChalTemplate(s)
      PROVE  Tasked("create")' /\ CreateOptions' /\ CreateForm' /\ CreateChal'
  <2>1. CreateForm'
    BY <1>0, <1>8 DEF loadChalTemplate, CreateForm, Is
  <2> QED
    BY <1>1, <1>2, <1>8, <2>1 DEF loadChalTemplate
<1>9. ASSUME NEW s \in Slot, CreateAnswered(s)
      PROVE  Tasked("create")' /\ CreateOptions' /\ CreateForm' /\ CreateChal'
  <2>1. CASE Ends(s) /\ UNCHANGED <<form, chal>>
    BY <1>1, <1>2, <1>4, <2>1
  <2>2. CASE /\ chal' = [chal EXCEPT !.made = @ + 1, !.options = FALSE, !.version = "none"]
             /\ form' = [form EXCEPT !.id = chal.made + 1]
             /\ Await(s, "upload", Sheet("create", form.file))
    <3>1. /\ ChalFields' /\ chal'.made = chal.made + 1 /\ chal'.options = FALSE
          /\ chal'.version = "none" /\ chal'.refused = chal.refused
      BY <1>0, <2>2 DEF CreateChal, ChalFields, Is
    <3>2. CreateChal' /\ Grows(chal, chal')
      <4>1. CreateChal'
        <5>1. chal'.made \in Nat
          BY <1>0, <3>1 DEF CreateChal
        <5>2. chal'.refused \in BOOLEAN /\ chal'.options \in BOOLEAN
          BY <1>0, <3>1 DEF CreateChal
        <5>3. VersionFollowsOptions'
          BY <3>1 DEF VersionFollowsOptions
        <5> QED
          BY <3>1, <5>1, <5>2, <5>3 DEF CreateChal
      <4>2. Grows(chal, chal')
        BY <1>0, <3>1 DEF CreateChal, Grows
      <4> QED
        BY <4>1, <4>2
    <3>3. CreateForm'
      BY <1>0, <2>2, <3>1 DEF CreateForm, CreateChal, Is
    <3>4. Is(Sheet("create", form.file), {"kind", "flag", "patch", "file"})
      BY SheetIs
    <3>5. /\ Tasked("create")' /\ task'[s].op = task[s].op
          /\ \A u \in Slot : u # s => task'[u] = task[u]
      BY <2>2, <3>4, AwaitBecomes
    <3>6. task[s].op = "create"
      BY <1>9 DEF CreateAnswered, Awaits
    <3> QED
      BY <1>0, <3>2, <3>3, <3>5, <3>6, OthersStay
  <2> QED
    BY <1>9, <2>1, <2>2 DEF CreateAnswered
<1>10. ASSUME NEW s \in Slot, CreateUploaded(s)
       PROVE  Tasked("create")' /\ CreateOptions' /\ CreateForm' /\ CreateChal'
  <2>1. /\ ChalFields' /\ chal'.made = chal.made /\ chal'.options = chal.options
        /\ chal'.version = chal.version /\ chal'.refused = chal.refused
    BY <1>0, <1>10 DEF CreateUploaded, CreateChal, ChalFields, Is
  <2>2. CreateChal' /\ Grows(chal, chal')
    BY <1>0, <2>1 DEF CreateChal, VersionFollowsOptions, Grows
  <2>3. CreateForm'
    BY <1>0, <1>10, <2>1 DEF CreateUploaded, CreateForm, Is
  <2> QED
    BY <1>2, <1>10, <2>2, <2>3 DEF CreateUploaded
<1>11. ASSUME NEW s \in Slot, FlagAnswered(s) \/ PatchAnswered(s)
       PROVE  Tasked("create")' /\ CreateOptions' /\ CreateForm' /\ CreateChal'
  <2>1. /\ task[s].op = "options" /\ OptionsOf(task[s], chal)
        /\ Is(task[s].arg, {"kind", "flag", "patch", "file"})
    BY <1>0, <1>11 DEF FlagAnswered, PatchAnswered, Awaits, CreateOptions, Tasked, TaskOf
  <2>2. PICK a : /\ Joined(s, a) /\ Is(a, {"kind", "flag", "patch", "file"})
                 /\ a.file = task[s].arg.file
                 /\ \/ a.patch = task[s].arg.patch /\ FlagAnswered(s)
                    \/ /\ a.patch = "ok"
                       /\ chal' = IF a.file = chal.made THEN [chal EXCEPT !.options = TRUE]
                                                        ELSE chal
                    \/ /\ a.patch = "refused"
                       /\ chal' = [chal EXCEPT !.refused = TRUE]
    <3> DEFINE a == task[s].arg
    <3>1. \A f : /\ Is([a EXCEPT !.flag = f], {"kind", "flag", "patch", "file"})
                 /\ [a EXCEPT !.flag = f].file = a.file /\ [a EXCEPT !.flag = f].patch = a.patch
      BY <2>1 DEF Is
    <3>2. \A f : /\ Is([a EXCEPT !.patch = f], {"kind", "flag", "patch", "file"})
                 /\ [a EXCEPT !.patch = f].file = a.file /\ [a EXCEPT !.patch = f].patch = f
      BY <2>1 DEF Is
    <3>3. CASE FlagAnswered(s)
      <4>1. Joined(s, [a EXCEPT !.flag = "answered"])
        BY <3>3 DEF FlagAnswered
      <4> QED
        BY <3>1, <3>3, <4>1
    <3>4. CASE PatchAnswered(s)
      <4>1. CASE /\ chal' = IF a.file = chal.made THEN [chal EXCEPT !.options = TRUE] ELSE chal
                 /\ Joined(s, [a EXCEPT !.patch = "ok"])
        <5> DEFINE b == [a EXCEPT !.patch = "ok"]
        <5>1. /\ Is(b, {"kind", "flag", "patch", "file"}) /\ b.file = a.file /\ b.patch = "ok"
              /\ Joined(s, b)
          BY <3>2, <4>1
        <5> HIDE DEF b
        <5> QED
          BY <4>1, <5>1
      <4>2. CASE chal' = [chal EXCEPT !.refused = TRUE] /\ Joined(s, [a EXCEPT !.patch = "refused"])
        <5> DEFINE b == [a EXCEPT !.patch = "refused"]
        <5>1. /\ Is(b, {"kind", "flag", "patch", "file"}) /\ b.file = a.file
              /\ b.patch = "refused" /\ Joined(s, b)
          BY <3>2, <4>2
        <5> HIDE DEF b
        <5> QED
          BY <4>2, <5>1
      <4> QED
        BY <3>4, <4>1, <4>2 DEF PatchAnswered
    <3> QED
      BY <1>11, <3>3, <3>4
  <2>3. /\ Tasked("create")' /\ task'[s].arg = a
        /\ task'[s].at # "both" => a.patch # "sent"
        /\ \A u \in Slot : u # s => task'[u] = task[u]
        /\ Is(form', {"name", "file", "blocked", "id", "opened", "busy", "left"})
        /\ form'.id = form.id
    BY <1>0, <2>2, JoinedBecomes DEF CreateForm
  <2>4. /\ ChalFields' /\ chal'.made = chal.made /\ chal'.version = chal.version
        /\ chal'.options \in {chal.options, TRUE} /\ chal'.refused \in {chal.refused, TRUE}
        /\ a.patch = "ok" /\ a.file = chal.made => chal'.options
        /\ a.patch = "refused" => chal'.refused
    <3>1. CASE a.patch = task[s].arg.patch /\ FlagAnswered(s)
      <4>1. /\ ChalFields' /\ chal'.made = chal.made /\ chal'.version = chal.version
            /\ chal'.options = chal.options /\ chal'.refused = chal.refused
        BY <1>0, <3>1 DEF FlagAnswered, CreateChal, ChalFields, Is
      <4> QED
        BY <2>1, <2>2, <3>1, <4>1 DEF OptionsOf
    <3>2. CASE a.patch = "ok" /\ chal' = IF a.file = chal.made THEN [chal EXCEPT !.options = TRUE]
                                                               ELSE chal
      BY <1>0, <3>2 DEF CreateChal, ChalFields, Is
    <3>3. CASE a.patch = "refused" /\ chal' = [chal EXCEPT !.refused = TRUE]
      BY <1>0, <3>3 DEF CreateChal, ChalFields, Is
    <3> QED
      BY <2>2, <3>1, <3>2, <3>3
  <2>5. CreateChal' /\ Grows(chal, chal')
    BY <1>0, <2>4 DEF CreateChal, VersionFollowsOptions, Grows
  <2>6. OptionsOf(task'[s], chal')
    <3>1. a.file \in Nat /\ a.file <= chal.made /\ a.patch \in {"sent", "ok", "refused"}
      BY <2>1, <2>2 DEF OptionsOf
    <3> QED
      BY <2>3, <2>4, <3>1 DEF OptionsOf
  <2>7. CreateForm'
    BY <1>0, <2>3, <2>4 DEF CreateForm
  <2> QED
    BY <1>0, <2>3, <2>5, <2>6, <2>7, OthersStay
<1>12. ASSUME NEW s \in Slot, OptionsFail(s)
       PROVE  Tasked("create")' /\ CreateOptions' /\ CreateForm' /\ CreateChal'
  BY <1>1, <1>2, <1>4, <1>12 DEF OptionsFail
<1>13. ASSUME NEW s \in Slot, OptionsUploaded(s)
       PROVE  Tasked("create")' /\ CreateOptions' /\ CreateForm' /\ CreateChal'
  <2> DEFINE a == task[s].arg
  <2>1. /\ task[s].op = "options" /\ task[s].at = "upload" /\ OptionsOf(task[s], chal)
        /\ Is(a, {"kind", "flag", "patch", "file"})
    BY <1>0, <1>13 DEF OptionsUploaded, Awaits, CreateOptions, Tasked, TaskOf
  <2>2. /\ Tasked("create")' /\ task'[s].at = "timer" /\ task'[s].arg = a
        /\ \A u \in Slot : u # s => task'[u] = task[u]
    BY <1>13, <2>1, AwaitBecomes DEF OptionsUploaded
  <2>3. /\ ChalFields' /\ chal'.made = chal.made /\ chal'.refused = chal.refused
        /\ chal'.options = chal.options
    BY <1>0, <1>13 DEF OptionsUploaded, CreateChal, ChalFields, Is
  <2>4. Grows(chal, chal')
    BY <1>0, <2>3 DEF CreateChal, Grows
  <2>5. VersionFollowsOptions'
    <3>1. CASE a.file = chal.made /\ chal' = [chal EXCEPT !.version = IF chal.options THEN "options"
                                                                      ELSE "defaults"]
      <4>1. chal'.version = IF chal.options THEN "options" ELSE "defaults"
        BY <1>0, <3>1 DEF CreateChal, ChalFields, Is
      <4>2. chal.options \/ chal.refused
        BY <2>1, <3>1 DEF OptionsOf
      <4> QED
        BY <2>3, <4>1, <4>2 DEF VersionFollowsOptions
    <3>2. CASE UNCHANGED chal
      BY <1>0, <3>2 DEF CreateChal, VersionFollowsOptions
    <3> QED
      BY <1>13, <3>1, <3>2 DEF OptionsUploaded
  <2>6. CreateForm'
    BY <1>0, <1>13, <2>3 DEF OptionsUploaded, CreateForm, Is
  <2>7. OptionsOf(task'[s], chal')
    BY <2>1, <2>2, <2>3 DEF OptionsOf
  <2> QED
    BY <1>0, <2>2, <2>3, <2>4, <2>5, <2>6, <2>7, OthersStay DEF CreateChal
<1>14. ASSUME NEW s \in Slot, OptionsLeave(s)
       PROVE  Tasked("create")' /\ CreateOptions' /\ CreateForm' /\ CreateChal'
  <2>1. Tasked("create")' /\ \A u \in Slot : task'[u].op = "none"
    BY <1>14, NoTasksBecome DEF OptionsLeave
  <2>2. CreateForm'
    BY <1>0, <1>14 DEF OptionsLeave, CreateForm, Is
  <2> QED
    BY <1>1, <1>14, <2>1, <2>2 DEF OptionsLeave, CreateOptions
<1> QED
  BY <1>5, <1>6, <1>7, <1>8, <1>9, <1>10, <1>11, <1>12, <1>13, <1>14, CreateActions

-----------------------------------------------------------------------------
(* The update, and the whole.                                              *)

LEMMA UpdateKept ==
    ASSUME sheet = "update", Tasked("update"), ChalFields, chal.version = "none", ChallengeNext
    PROVE  Tasked("update")' /\ ChalFields' /\ chal'.version = "none"
<1> "update" \in {"list", "create", "update"}
  OBVIOUS
<1>1. ChalFields' /\ chal'.version = "none"
  BY UpdateActions DEF ChalFields, Is, FlagsChange, toggleScoringType, deleteChallenge,
     updateSubmit, FlagsRead, UpdateAnswered, ChallengeDeleted, MissingFlags
<1>2. ASSUME UNCHANGED task PROVE Tasked("update")'
  BY <1>2 DEF Tasked
<1>3. ASSUME NEW s \in Slot, NEW op \in {"update", "remove"}, NEW at, NEW k, NEW v,
             Start(s, op, at, Sheet(k, v))
      PROVE  Tasked("update")'
  <2>1. Is(Sheet(k, v), {"kind", "flag", "patch", "file"}) /\ op \in OpsOf("update")
    BY SheetIs DEF OpsOf
  <2> QED
    BY <1>3, <2>1, StartBecomes
<1>4. ASSUME NEW s \in Slot, NEW at, task[s].op = "update", Await(s, at, task[s].arg)
      PROVE  Tasked("update")'
  <2>1. Is(task[s].arg, {"kind", "flag", "patch", "file"})
    BY <1>4 DEF Tasked, TaskOf
  <2> QED
    BY <1>4, <2>1, AwaitBecomes
<1>5. CASE toggleScoringType \/ FlagsChange
  BY <1>1, <1>2, <1>5 DEF toggleScoringType, FlagsChange
<1>6. ASSUME deleteChallenge \/ \E st : updateSubmit(st)
      PROVE  Tasked("update")'
  BY <1>3, <1>6 DEF deleteChallenge, updateSubmit
<1>7. ASSUME NEW s \in Slot, FlagsRead(s) \/ \E yes \in BOOLEAN : MissingFlags(s, yes)
      PROVE  Tasked("update")'
  <2>1. task[s].op = "update"
    BY <1>7 DEF FlagsRead, MissingFlags, Awaits
  <2>2. Ends(s) \/ \E at : Await(s, at, task[s].arg)
    BY <1>7 DEF FlagsRead, MissingFlags
  <2> QED
    BY <1>4, <2>1, <2>2, EndsBecomes
<1>8. ASSUME NEW s \in Slot, UpdateAnswered(s) \/ ChallengeDeleted(s)
      PROVE  Tasked("update")'
  <2>1. Ends(s) \/ task' = NoTasks
    BY <1>8 DEF UpdateAnswered, ChallengeDeleted
  <2> QED
    BY <2>1, EndsBecomes, NoTasksBecome
<1> QED
  BY <1>1, <1>5, <1>6, <1>7, <1>8, UpdateActions

LEMMA ChallengeInitInv == ChallengeInit => ChallengeInv
<1> SUFFICES ASSUME ChallengeInit PROVE ChallengeInv
  OBVIOUS
<1>1. ChalFields /\ chal.version = "none" /\ chal.made = 0 /\ chal.refused = FALSE
      /\ chal.options = FALSE
  BY DEF ChallengeInit, ChalFields, Is
<1>2. CASE sheet = "list"
  <2>1. form = [shown |-> FALSE, told |-> [start |-> 0, check |-> 0],
                loops |-> [l \in Loops |-> Off], used |-> 0, busy |-> FALSE, shared |-> FALSE]
    BY <1>2 DEF ChallengeInit, NewForm
  <2>2. DOMAIN task = Slot /\ \A s \in Slot : task[s] = NoTask
    BY <1>2 DEF ChallengeInit, NoTasks
  <2>3. \A s \in Slot : TaskOf("list", task[s]) /\ task[s].op = "none"
    BY <2>2 DEF TaskOf, Is, NoTask
  <2>4. ChecksTellOnce
    BY <2>1, ChallengeAssumption DEF ChecksTellOnce, Off
  <2>5. ListInv
    BY <1>1, <2>1, <2>3, <2>4 DEF ListInv, Is, Off
  <2> QED
    BY <1>1, <1>2, <2>2, <2>3, <2>5 DEF ChallengeInv
<1>3. CASE sheet = "create"
  <2> DEFINE types == [op |-> "types", at |-> "sent", arg |-> Sheet("", "")]
  <2>1. form = [name |-> "ok", file |-> "none", blocked |-> FALSE, id |-> Nothing,
                opened |-> FALSE, busy |-> FALSE, left |-> FALSE]
    BY <1>3 DEF ChallengeInit, NewForm
  <2>2. DOMAIN task = Slot /\ \A s \in Slot : task[s] \in {types, NoTask}
    BY <1>3 DEF ChallengeInit, NoTasks
  <2>3. TaskOf("create", types) /\ types.op = "types"
    BY SheetIs DEF TaskOf, Is, OpsOf
  <2>4. TaskOf("create", NoTask) /\ NoTask.op = "none"
    BY DEF TaskOf, Is, NoTask
  <2> HIDE DEF types
  <2>5. \A s \in Slot : TaskOf("create", task[s]) /\ task[s].op # "options"
    BY <2>2, <2>3, <2>4
  <2>6. CreateInv
    <3>1. /\ Is(form, {"name", "file", "blocked", "id", "opened", "busy", "left"})
          /\ form.id = 0
      BY <2>1 DEF Is, Nothing
    <3>2. VersionFollowsOptions
      BY <1>1 DEF VersionFollowsOptions
    <3>3. chal.made \in Nat /\ chal.refused \in BOOLEAN /\ chal.options \in BOOLEAN
      BY DEF ChallengeInit
    <3>4. form.id \in Nat /\ form.id <= chal.made
      BY <1>1, <3>1
    <3> QED
      BY <2>5, <3>1, <3>2, <3>3, <3>4 DEF CreateInv
  <2> QED
    BY <1>1, <1>3, <2>2, <2>5, <2>6 DEF ChallengeInv
<1>4. CASE sheet = "update"
  <2>1. DOMAIN task = Slot /\ \A s \in Slot : task[s] = NoTask
    BY <1>4 DEF ChallengeInit, NoTasks
  <2>2. TaskOf("update", NoTask)
    BY DEF TaskOf, Is, NoTask
  <2> QED
    BY <1>1, <1>4, <2>1, <2>2 DEF ChallengeInv
<1> QED
  BY <1>2, <1>3, <1>4 DEF ChallengeInit

LEMMA ChallengeInductive == ChallengeInv /\ [ChallengeNext]_challengeVars => ChallengeInv'
<1> SUFFICES ASSUME ChallengeInv, [ChallengeNext]_challengeVars PROVE ChallengeInv'
  OBVIOUS
<1>1. CASE UNCHANGED challengeVars
  BY <1>1 DEF challengeVars, ChallengeInv, ChalFields, ListInv, CreateInv, ChecksTellOnce,
     VersionFollowsOptions
<1>2. CASE ChallengeNext
  <2>1. UNCHANGED sheet /\ Tasked(sheet) /\ ChalFields
    BY <1>2, SheetStays DEF ChallengeInv, Tasked
  <2>2. CASE sheet = "list"
    BY <1>2, <2>1, <2>2, ListKept DEF ChallengeInv, Tasked
  <2>3. CASE sheet = "create"
    BY <1>2, <2>1, <2>3, CreateKept DEF ChallengeInv, Tasked
  <2>4. CASE sheet = "update"
    BY <1>2, <2>1, <2>4, UpdateKept DEF ChallengeInv, Tasked
  <2> QED
    BY <2>2, <2>3, <2>4 DEF ChallengeInv
<1> QED
  BY <1>1, <1>2

\* However many previews are polled by however many loops, of all their checks one
\* tells the address, and a loop that goes on has had fewer answers than maxChecks
\* (challenges.js, CheckingStatus).  Start answers that carry the address tell it too.
THEOREM ToldOnce == ChallengeSpec => []ChecksTellOnce
<1>1. ChallengeInv => ChecksTellOnce
  BY DEF ChallengeInv, ListInv, ChecksTellOnce
<1> QED
  BY <1>1, ChallengeInitInv, ChallengeInductive, PTL DEF ChallengeSpec

\* Over every order of flags, options, uploads and new challenges, a version made
\* from the defaults means that the server has refused options
\* (handleChallengeOptions).
THEOREM VersionIsOfOptions == ChallengeSpec => []VersionFollowsOptions
<1>1. ChallengeInv => VersionFollowsOptions
  BY DEF ChallengeInv, ListInv, CreateInv, VersionFollowsOptions
<1> QED
  BY <1>1, ChallengeInitInv, ChallengeInductive, PTL DEF ChallengeSpec

-----------------------------------------------------------------------------
(***************************************************************************)
(* The form of AdminPages that moves users into a team, for any number of  *)
(* users, of searches and of administrators: nobody is taken out of a team *)
(* whom the dialog has not named.                                          *)
(***************************************************************************)

\* The requests that take users out of their teams were named in the dialog.
Named(a) ==
    /\ {"kind", "value", "listed"} \subseteq DOMAIN a
    /\ a.kind = "remove" => Ids(a.listed) \subseteq a.value
Batches ==
    /\ task = [s \in Slot |-> task[s]]
    /\ \A s \in Slot : /\ task[s] = [op |-> task[s].op, at |-> task[s].at, arg |-> task[s].arg]
                       /\ task[s].op = "batch" => Named(task[s].arg)

\* The tables take nobody out of a team.
TableData ==
    /\ "queries" \in DOMAIN adm
    /\ \A q \in adm.queries : q.kind # "remove"

\* The dialog, while it is open, names those chosen who have a team.
MembersData ==
    /\ {"picked", "query"} \subseteq DOMAIN adm
    /\ adm.query \in {{}, InTeams(adm.picked)}
    /\ \A s \in Slot : task[s].op \in {"none", "batch", "search"}

\* The inductive invariant.
MoveInv ==
    /\ Batches
    /\ screen \in Tables => TableData
    /\ screen = "members" => MembersData

LEMMA FreshIsNamed ==
    ASSUME NEW p, NEW rows
    PROVE  /\ p \in Tables => /\ "queries" \in DOMAIN Fresh(p, rows)
                              /\ Fresh(p, rows).queries = {}
           /\ p = "members" => /\ {"picked", "query"} \subseteq DOMAIN Fresh(p, rows)
                               /\ Fresh(p, rows).query = {}
<1>1. CASE p \in Tables
  <2>1. p \notin {"members", "comments", "media"}
    BY <1>1 DEF Tables
  <2>2. Fresh(p, rows) = [seen |-> rows, checked |-> {}, queries |-> {}, first |-> NoForm,
                          stats |-> FALSE, busy |-> FALSE, drop |-> FALSE, tick |-> FALSE,
                          locked |-> FALSE]
    BY <2>1 DEF Fresh
  <2> QED
    BY <2>1, <2>2
<1>2. CASE p = "members"
  <2>1. Fresh(p, rows) = [picked |-> {}, results |-> {}, value |-> Nothing, awaiting |-> FALSE,
                          query |-> {}]
    BY <1>2 DEF Fresh
  <2> QED
    BY <1>2, <2>1 DEF Tables
<1> QED
  BY <1>1, <1>2

LEMMA AdminInitInv == AdminInit => MoveInv
<1> SUFFICES ASSUME AdminInit PROVE MoveInv
  OBVIOUS
<1>1. task = [NoTasks EXCEPT ![1] = FirstLoad(screen)]
      /\ \E rows : adm = Fresh(screen, rows)
  BY DEF AdminInit
<1>2. /\ FirstLoad(screen) = [op |-> FirstLoad(screen).op, at |-> FirstLoad(screen).at,
                              arg |-> FirstLoad(screen).arg]
      /\ FirstLoad(screen).op # "batch"
      /\ screen = "members" => FirstLoad(screen).op = "none"
  BY DEF FirstLoad, NoTask
<1>3. NoTask = [op |-> NoTask.op, at |-> NoTask.at, arg |-> NoTask.arg] /\ NoTask.op = "none"
  BY DEF NoTask
<1>4. Batches /\ (screen = "members" => \A s \in Slot : task[s].op = "none")
  BY <1>1, <1>2, <1>3 DEF Batches, NoTasks
<1>5. screen \in Tables => TableData
  BY <1>1, FreshIsNamed DEF TableData
<1>6. screen = "members" => MembersData
  BY <1>1, <1>4, FreshIsNamed DEF MembersData
<1> QED
  BY <1>4, <1>5, <1>6 DEF MoveInv

\* What a step of any page does to its functions.
Reloaded == \E s \in Slot : \E rows : Reloads(task, rows) \/ Reloads([task EXCEPT ![s] = NoTask], rows)
Started(ops) ==
    \E s \in Slot, op \in ops : \E at, arg : Start(s, op, at, arg) /\ (op = "batch" => Named(arg))
GoesOn == \/ UNCHANGED task
          \/ \E s \in Slot : Ends(s)
          \/ \E s \in Slot : \E at : Await(s, at, task[s].arg)
          \/ \E s \in Slot : \E i, ok : Await(s, "sent", AnsweredOne(task[s].arg, i, ok))
          \/ task' = [r \in Slot |-> IF task[r].op = "poll" THEN NoTask ELSE task[r]]

LEMMA AnswerKeepsNames ==
    ASSUME NEW a, Named(a), NEW i, NEW ok
    PROVE  Named(AnsweredOne(a, i, ok))
<1> DEFINE l == a.left \ {i}
           o == a.ok /\ ok
<1>1. AnsweredOne(a, i, ok) = [a EXCEPT !.left = l, !.ok = o]
  BY Zenon DEF AnsweredOne
<1> HIDE DEF l, o
<1> QED
  BY <1>1 DEF Named

LEMMA BatchesStay ==
    ASSUME Batches, NEW ops, GoesOn \/ Started(ops) \/ Reloaded
    PROVE  Batches'
<1>1. NoTask = [op |-> NoTask.op, at |-> NoTask.at, arg |-> NoTask.arg] /\ NoTask.op = "none"
  BY DEF NoTask
<1>2. ASSUME UNCHANGED task PROVE Batches'
  BY <1>2 DEF Batches
<1>3. ASSUME NEW s \in Slot, Ends(s) PROVE Batches'
  BY <1>1, <1>3 DEF Batches, Ends
<1>4. ASSUME NEW s \in Slot, NEW at, NEW arg, Await(s, at, arg),
             task[s].op = "batch" => Named(arg)
      PROVE  Batches'
  <2>1. /\ task'[s] = [task[s] EXCEPT !.at = at, !.arg = arg]
        /\ task' = [r \in Slot |-> task'[r]] /\ \A r \in Slot \ {s} : task'[r] = task[r]
    BY <1>4 DEF Batches, Await
  <2>2. task'[s] = [op |-> task[s].op, at |-> at, arg |-> arg]
    BY <2>1 DEF Batches
  <2> QED
    BY <1>4, <2>1, <2>2 DEF Batches
<1>5. ASSUME NEW s \in Slot, NEW i, NEW ok, task[s].op = "batch"
      PROVE  Named(AnsweredOne(task[s].arg, i, ok))
  BY <1>5, AnswerKeepsNames DEF Batches
<1>6. ASSUME task' = [r \in Slot |-> IF task[r].op = "poll" THEN NoTask ELSE task[r]]
      PROVE  Batches'
  BY <1>1, <1>6 DEF Batches
<1>7. CASE GoesOn
  BY <1>2, <1>3, <1>4, <1>5, <1>6, <1>7 DEF GoesOn, Batches
<1>8. CASE Started(ops)
  BY <1>8 DEF Started, Start, Batches
<1>9. ASSUME NEW t, NEW rows, Reloads(t, rows),
             \A s \in Slot : t[s] = [op |-> t[s].op, at |-> t[s].at, arg |-> t[s].arg],
             \A s \in Slot : t[s].op = "batch" => Named(t[s].arg)
      PROVE  Batches'
  <2>1. /\ FirstLoad(screen) = [op |-> FirstLoad(screen).op, at |-> FirstLoad(screen).at,
                                arg |-> FirstLoad(screen).arg]
        /\ FirstLoad(screen).op # "batch"
    BY DEF FirstLoad, NoTask
  <2>2. \A s \in Slot : [t[s] EXCEPT !.at = "gone"]
                          = [op |-> t[s].op, at |-> "gone", arg |-> t[s].arg]
    <3> TAKE s \in Slot
    <3>1. PICK op, at, arg : t[s] = [op |-> op, at |-> at, arg |-> arg]
      BY <1>9
    <3> QED
      BY <3>1
  <2> QED
    BY <1>1, <1>9, <2>1, <2>2 DEF Reloads, Batches
<1>10. CASE Reloaded
  <2>0. PICK s \in Slot : \E rows : Reloads(task, rows) \/ Reloads([task EXCEPT ![s] = NoTask], rows)
    BY <1>10 DEF Reloaded
  <2>1. PICK rows : Reloads(task, rows) \/ Reloads([task EXCEPT ![s] = NoTask], rows)
    BY <2>0
  <2>2. CASE Reloads(task, rows)
    BY <1>9, <2>2 DEF Batches
  <2>3. CASE Reloads([task EXCEPT ![s] = NoTask], rows)
    <3> DEFINE t == [task EXCEPT ![s] = NoTask]
    <3>1. /\ \A r \in Slot : t[r] = [op |-> t[r].op, at |-> t[r].at, arg |-> t[r].arg]
          /\ \A r \in Slot : t[r].op = "batch" => Named(t[r].arg)
      BY <1>1 DEF Batches
    <3> HIDE DEF t
    <3>2. Reloads(t, rows)
      BY <2>3 DEF t
    <3> QED
      BY <1>9, <3>1, <3>2
  <2> QED
    BY <2>1, <2>2, <2>3
<1> QED
  BY <1>7, <1>8, <1>10

\* What happens on every page.
LEMMA PageStays ==
    ASSUME MoveInv, AdminNext
    PROVE  screen' = screen
BY DEF AdminNext, AdminMoves, AdminAnswers, teamCorrect, teamDelete, teamDeleteAwards, teamSolves,
   userCorrect, userDelete, userDeleteAwards, userSolves, deleteSelectedUsers, bulkEditUsers,
   deleteSelectedChallenges, bulkEditChallenges, deleteSelectedSubmissions, correctSubmissions,
   incorrectSubmissions, bulkToggleAccounts, deleteSelectedTeams, bulkEditTeams, OpensQuery,
   updateTeam, setCaptain, deleteTeam, awardTeam, inviteTeam, updateUser, deleteUser, awardUser,
   SendsForm, showStatistics, hideStatistics, exportCsvMenu, includePasswords, exportClick,
   resyncDynamicChallenges, addUsers, confirmMove, cancelMove, submitComment, uploadChosenFiles,
   ContestGoesOn, anotherAdmin, checkRow, toggleAccount, deleteRow, deleteComment, selectFile,
   typesName, turnPage, queryYes, queryNo, fillQuery, selectUser, removeSelectedUser,
   GoneApplied, BracketsKnown, RowAnswered, FormAnswered, ActiveStep, ActiveKnown, ExportServed,
   ExportAnswered, ResyncAnswered, searchUsers, UsersFound, CommentAnswered, CommentsLoaded,
   DeletionAnswered, UploadAnswered, FilesLoaded, BatchAnswered, MemberAnswered

AnyOps == {"batch", "row", "form", "brackets", "poll", "active", "export", "resync", "load",
           "comment", "delete", "upload", "search"}
Batched == GoesOn \/ Started(AnyOps) \/ Reloaded

LEMMA OpensNoMove ==
    ASSUME \/ teamCorrect \/ teamDelete \/ teamDeleteAwards \/ teamSolves
           \/ userCorrect \/ userDelete \/ userDeleteAwards \/ userSolves
           \/ deleteSelectedUsers \/ bulkEditUsers \/ deleteSelectedChallenges
           \/ bulkEditChallenges \/ deleteSelectedSubmissions \/ correctSubmissions
           \/ incorrectSubmissions \/ bulkToggleAccounts \/ deleteSelectedTeams
    PROVE  \E kind, from, field : kind # "remove" /\ OpensQuery(kind, from, field)
<1>1. CASE teamCorrect \/ teamDelete \/ teamDeleteAwards \/ teamSolves
  BY <1>1 DEF teamCorrect, teamDelete, teamDeleteAwards, teamSolves
<1>2. CASE userCorrect \/ userDelete \/ userDeleteAwards \/ userSolves
  BY <1>2 DEF userCorrect, userDelete, userDeleteAwards, userSolves
<1>3. CASE \/ deleteSelectedUsers \/ bulkEditUsers \/ deleteSelectedChallenges
           \/ bulkEditChallenges \/ deleteSelectedTeams
  BY <1>3 DEF deleteSelectedUsers, bulkEditUsers, deleteSelectedChallenges, bulkEditChallenges,
     deleteSelectedTeams
<1>4. CASE \/ deleteSelectedSubmissions \/ correctSubmissions \/ incorrectSubmissions
           \/ bulkToggleAccounts
  BY <1>4 DEF deleteSelectedSubmissions, correctSubmissions, incorrectSubmissions,
     bulkToggleAccounts
<1> QED
  BY <1>1, <1>2, <1>3, <1>4

LEMMA OpenedIsNoMove ==
    ASSUME TableData, NEW kind, kind # "remove", NEW ids, NEW field, Opened(kind, ids, field)
    PROVE  TableData'
<1>1. Query(kind, ids, field).kind = kind
  BY DEF Query
<1>2. adm'.queries = adm.queries \cup {Query(kind, ids, field)} /\ "queries" \in DOMAIN adm'
  BY DEF TableData, Opened
<1> QED
  BY <1>1, <1>2 DEF TableData

\* The moves of people at a table.
LEMMA TableMoves ==
    ASSUME Batches, TableData, screen \in Tables, AdminMoves
    PROVE  Batched /\ TableData'
<1>1. screen \notin {"members", "comments", "media"}
  BY DEF Tables
<1>2. ASSUME NEW s \in Slot, NEW op \in AnyOps \ {"batch"}, NEW at, NEW arg, Start(s, op, at, arg)
      PROVE  Batched
  BY <1>2 DEF Batched, Started
<1>3. ASSUME UNCHANGED task PROVE Batched
  BY <1>3 DEF Batched, GoesOn
<1>4. ASSUME UNCHANGED adm PROVE TableData'
  BY <1>4 DEF TableData
<1>5. ASSUME NEW kind, NEW from, NEW field, kind # "remove", OpensQuery(kind, from, field)
      PROVE  Batched /\ TableData'
  BY <1>3, <1>5, OpenedIsNoMove DEF OpensQuery
<1>6. ASSUME NEW p, NEW kind, SendsForm(p, kind) PROVE Batched /\ TableData'
  BY <1>2, <1>4, <1>6 DEF SendsForm, AnyOps
<1>7. ASSUME bulkEditTeams \/ \E i \in Row : toggleAccount(i) \/ deleteRow(i)
      PROVE  Batched /\ TableData'
  BY <1>2, <1>4, <1>7 DEF bulkEditTeams, toggleAccount, deleteRow, AnyOps
<1>8. CASE showStatistics
  BY <1>2, <1>8 DEF showStatistics, TableData, AnyOps
<1>9. CASE hideStatistics
  BY <1>9 DEF hideStatistics, TableData, Batched, GoesOn
<1>10. ASSUME NEW caller, isCtfActive(caller) PROVE Batched
  BY <1>2, <1>10 DEF isCtfActive, AnyOps
<1>11. CASE exportCsvMenu \/ includePasswords
  BY <1>3, <1>10, <1>11 DEF exportCsvMenu, includePasswords, TableData
<1>12. CASE exportClick
  BY <1>2, <1>10, <1>12 DEF exportClick, Exporting, TableData, AnyOps
<1>13. CASE resyncDynamicChallenges
  BY <1>2, <1>13 DEF resyncDynamicChallenges, TableData, AnyOps
<1>14. ASSUME NEW i, checkRow(i) PROVE Batched /\ TableData'
  BY <1>3, <1>14 DEF checkRow, TableData
<1>15. ASSUME NEW q \in adm.queries, queryYes(q) \/ queryNo(q) \/ \E v : fillQuery(q, v)
       PROVE  Batched /\ TableData'
  <2>1. CASE queryNo(q) \/ \E v : fillQuery(q, v)
    BY <1>3, <2>1 DEF queryNo, fillQuery, TableData
  <2>2. CASE queryYes(q)
    <3>1. CASE q.kind = "members"
      <4>1. /\ \A r \in adm'.queries : r \in adm.queries \/ r = Query("solve", q.ids, TRUE)
            /\ "queries" \in DOMAIN adm' /\ UNCHANGED task
        <5> DEFINE closed == [adm EXCEPT !.queries = @ \ {q}]
        <5>1. \A r \in closed.queries : r \in adm.queries
          BY DEF TableData
        <5>2. "queries" \in DOMAIN closed
          BY DEF TableData
        <5>3. adm' = [closed EXCEPT !.queries = @ \cup {Query("solve", q.ids, TRUE)},
                                    !.first = IF @ = NoForm THEN Nothing ELSE @]
              /\ UNCHANGED task
          BY <2>2, <3>1, Zenon DEF queryYes
        <5> HIDE DEF closed
        <5> QED
          BY <5>1, <5>2, <5>3
      <4>2. Query("solve", q.ids, TRUE).kind = "solve"
        BY DEF Query
      <4> QED
        BY <1>3, <4>1, <4>2 DEF TableData
    <3>2. CASE Reloads(task, srv.row)
      <4>1. adm' = Fresh(screen', srv.row) /\ screen' = screen
        BY <2>2, <3>2 DEF Reloads, queryYes
      <4>2. TableData'
        BY <4>1, FreshIsNamed DEF TableData
      <4> QED
        BY <3>2, <4>2, TabAssumption DEF Batched, Reloaded
    <3>3. CASE /\ adm' = [adm EXCEPT !.queries = @ \ {q}]
               /\ \E s \in Slot : Start(s, "batch", "sent", Sent(q))
      <4>1. TableData'
        BY <3>3 DEF TableData
      <4>2. Named(Sent(q))
        BY DEF TableData, Named, Sent, Req
      <4> QED
        BY <3>3, <4>1, <4>2 DEF Batched, Started, AnyOps
    <3> QED
      BY <2>2, <3>1, <3>2, <3>3 DEF queryYes
  <2> QED
    BY <1>15, <2>1, <2>2
<1>16. CASE ContestGoesOn \/ anotherAdmin
  BY <1>3, <1>4, <1>16 DEF ContestGoesOn, anotherAdmin
<1>17. /\ ~(addUsers \/ confirmMove \/ cancelMove \/ submitComment \/ uploadChosenFiles)
       /\ \A i \in Row : ~(deleteComment(i) \/ selectFile(i))
       /\ \A v : ~typesName(v) /\ ~turnPage(v)
  BY <1>1 DEF addUsers, confirmMove, cancelMove, submitComment, uploadChosenFiles, deleteComment,
     selectFile, typesName, turnPage
<1>18. ASSUME \/ updateTeam \/ setCaptain \/ deleteTeam \/ awardTeam \/ inviteTeam
              \/ updateUser \/ deleteUser \/ awardUser
       PROVE  Batched /\ TableData'
  BY <1>6, <1>18 DEF updateTeam, setCaptain, deleteTeam, awardTeam, inviteTeam, updateUser,
     deleteUser, awardUser
<1> QED
  BY <1>1, <1>5, <1>7, <1>8, <1>9, <1>11, <1>12, <1>13, <1>14, <1>15, <1>16, <1>17, <1>18,
     OpensNoMove DEF AdminMoves

\* The answers at any page but the form of the members.
LEMMA OtherAnswers ==
    ASSUME Batches, screen # "members", AdminAnswers
    PROVE  Batched
<1>1. ASSUME NEW s \in Slot, NEW op \in AnyOps \ {"batch"}, NEW at, NEW arg, Start(s, op, at, arg)
      PROVE  Batched
  BY <1>1 DEF Batched, Started
<1>2. ASSUME NEW s \in Slot, Ends(s) \/ \E at : Await(s, at, task[s].arg) PROVE Batched
  BY <1>2 DEF Batched, GoesOn
<1>3. ASSUME NEW s \in Slot, NEW rows, Reloads([task EXCEPT ![s] = NoTask], rows) PROVE Batched
  BY <1>3 DEF Batched, Reloaded
<1> SUFFICES ASSUME NEW s \in Slot,
                    \/ GoneApplied(s) \/ BracketsKnown(s) \/ RowAnswered(s) \/ FormAnswered(s)
                    \/ ActiveStep(s) \/ ActiveKnown(s) \/ ExportServed(s) \/ ExportAnswered(s)
                    \/ ResyncAnswered(s) \/ searchUsers(s) \/ UsersFound(s) \/ CommentAnswered(s)
                    \/ CommentsLoaded(s) \/ DeletionAnswered(s) \/ UploadAnswered(s)
                    \/ FilesLoaded(s) \/ \E i \in Row : BatchAnswered(s, i) \/ MemberAnswered(s, i)
             PROVE  Batched
  BY DEF AdminAnswers
<1>4. CASE \/ GoneApplied(s) \/ BracketsKnown(s) \/ RowAnswered(s) \/ ActiveStep(s)
           \/ ExportServed(s) \/ ExportAnswered(s) \/ ResyncAnswered(s)
  BY <1>2, <1>4 DEF GoneApplied, BracketsKnown, RowAnswered, ActiveStep, ExportServed,
     ExportAnswered, ResyncAnswered
<1>5. CASE FormAnswered(s)
  BY <1>2, <1>3, <1>5 DEF FormAnswered
<1>6. CASE ActiveKnown(s)
  BY <1>1, <1>2, <1>6 DEF ActiveKnown, AnyOps
<1>7. CASE CommentAnswered(s) \/ DeletionAnswered(s)
  BY <1>1, <1>2, <1>7 DEF CommentAnswered, DeletionAnswered, AnyOps
<1>8. CASE UploadAnswered(s) \/ FilesLoaded(s) \/ CommentsLoaded(s)
  BY <1>2, <1>8 DEF UploadAnswered, FilesLoaded, CommentsLoaded
<1>9. ~searchUsers(s) /\ ~UsersFound(s) /\ \A i \in Row : ~MemberAnswered(s, i)
  BY DEF searchUsers, UsersFound, MemberAnswered
<1>10. ASSUME NEW i \in Row, BatchAnswered(s, i) PROVE Batched
  <2>1. PICK ok \in BOOLEAN : \/ Await(s, "sent", AnsweredOne(task[s].arg, i, ok))
                              \/ Ends(s)
                              \/ Reloads([task EXCEPT ![s] = NoTask], srv'.row)
    BY <1>10 DEF BatchAnswered
  <2>2. CASE Await(s, "sent", AnsweredOne(task[s].arg, i, ok))
    BY <2>2 DEF Batched, GoesOn
  <2> QED
    BY <1>2, <1>3, <2>1, <2>2
<1> QED
  BY <1>4, <1>5, <1>6, <1>7, <1>8, <1>9, <1>10

\* What the answer about the contest can do, the clicks that asked for it aside.
LEMMA ActiveKnownDoes ==
    ASSUME NEW s, ActiveKnown(s)
    PROVE  \/ /\ Ends(s)
              /\ \/ UNCHANGED adm \/ \E x : adm' = [adm EXCEPT !.tick = x]
                 \/ \E x, y : adm' = [adm EXCEPT !.locked = x, !.tick = y]
           \/ adm' = Exporting(adm) /\ Start(s, "export", "sent", Req("passwords", {}, Nothing))
<1>1. PICK active :
         \/ adm' = [adm EXCEPT !.locked = active, !.tick = @ /\ ~active] /\ Ends(s)
         \/ adm' = [adm EXCEPT !.tick = @ /\ ~active] /\ Ends(s)
         \/ Ends(s) /\ UNCHANGED adm
         \/ adm' = Exporting(adm) /\ Start(s, "export", "sent", Req("passwords", {}, Nothing))
  BY Zenon DEF ActiveKnown
<1> QED
  BY <1>1, Zenon

LEMMA TableAnswers ==
    ASSUME TableData, screen \in Tables, AdminAnswers
    PROVE  TableData'
<1>1. screen \notin {"members", "comments", "media"}
  BY DEF Tables
<1>2. ASSUME UNCHANGED adm PROVE TableData'
  BY <1>2 DEF TableData
<1>3. ASSUME NEW t, NEW rows, Reloads(t, rows), screen' = screen PROVE TableData'
  BY <1>3, FreshIsNamed DEF Reloads, TableData
<1> SUFFICES ASSUME NEW s \in Slot,
                    \/ GoneApplied(s) \/ BracketsKnown(s) \/ RowAnswered(s) \/ FormAnswered(s)
                    \/ ActiveStep(s) \/ ActiveKnown(s) \/ ExportServed(s) \/ ExportAnswered(s)
                    \/ ResyncAnswered(s) \/ searchUsers(s) \/ UsersFound(s) \/ CommentAnswered(s)
                    \/ CommentsLoaded(s) \/ DeletionAnswered(s) \/ UploadAnswered(s)
                    \/ FilesLoaded(s) \/ \E i \in Row : BatchAnswered(s, i) \/ MemberAnswered(s, i)
             PROVE  TableData'
  BY DEF AdminAnswers
<1>4. CASE \/ GoneApplied(s) \/ ActiveStep(s) \/ ExportServed(s) \/ CommentAnswered(s)
           \/ DeletionAnswered(s) \/ UploadAnswered(s)
  BY <1>1, <1>2, <1>4 DEF GoneApplied, ActiveStep, ExportServed, CommentAnswered,
     DeletionAnswered, UploadAnswered
<1>5. CASE BracketsKnown(s)
  <2>1. Opened("edit", task[s].arg.ids, TRUE)
    BY <1>5 DEF BracketsKnown
  <2> QED
    BY <2>1, OpenedIsNoMove
<1>6. CASE RowAnswered(s)
  BY <1>2, <1>6 DEF RowAnswered, TableData
<1>7. CASE FormAnswered(s)
  BY <1>2, <1>3, <1>7 DEF FormAnswered
<1>8. CASE ActiveKnown(s)
  <2>1. \/ UNCHANGED adm \/ adm' = Exporting(adm) \/ \E x : adm' = [adm EXCEPT !.tick = x]
        \/ \E x, y : adm' = [adm EXCEPT !.locked = x, !.tick = y]
    BY <1>8, ActiveKnownDoes, Zenon
  <2> QED
    BY <1>2, <2>1 DEF TableData, Exporting
<1>9. CASE ExportAnswered(s) \/ ResyncAnswered(s)
  BY <1>9 DEF ExportAnswered, ResyncAnswered, Freed, TableData
<1>10. ASSUME NEW i \in Row, BatchAnswered(s, i) PROVE TableData'
  <2>1. UNCHANGED adm \/ \E t, rows : Reloads(t, rows)
    BY <1>10 DEF BatchAnswered
  <2>2. screen' = screen
    BY <1>10 DEF BatchAnswered
  <2> QED
    BY <1>2, <1>3, <2>1, <2>2
<1>11. /\ ~searchUsers(s) /\ ~UsersFound(s) /\ \A i \in Row : ~MemberAnswered(s, i)
       /\ ~CommentsLoaded(s) /\ ~FilesLoaded(s)
  BY <1>1 DEF searchUsers, UsersFound, MemberAnswered, CommentsLoaded, FilesLoaded
<1> QED
  BY <1>4, <1>5, <1>6, <1>7, <1>8, <1>9, <1>10, <1>11

\* The comments and the files have no such requests.
LEMMA OtherMoves ==
    ASSUME Batches, screen \notin Tables \cup {"members"}, AdminMoves
    PROVE  Batched
<1>1. ASSUME NEW s \in Slot, NEW op \in AnyOps \ {"batch"}, NEW at, NEW arg, Start(s, op, at, arg)
      PROVE  Batched
  BY <1>1 DEF Batched, Started
<1>2. ASSUME UNCHANGED task PROVE Batched
  BY <1>2 DEF Batched, GoesOn
<1>3. CASE submitComment \/ uploadChosenFiles
  BY <1>1, <1>3 DEF submitComment, uploadChosenFiles, AnyOps
<1>4. ASSUME NEW i, deleteComment(i) \/ selectFile(i) PROVE Batched
  BY <1>1, <1>2, <1>4 DEF deleteComment, selectFile, AnyOps
<1>5. ASSUME NEW d, turnPage(d) PROVE Batched
  BY <1>1, <1>5 DEF turnPage, AsksPage, AnyOps
<1>6. /\ ~(\/ teamCorrect \/ teamDelete \/ teamDeleteAwards \/ teamSolves \/ userCorrect
           \/ userDelete \/ userDeleteAwards \/ userSolves \/ deleteSelectedUsers
           \/ bulkEditUsers \/ deleteSelectedChallenges \/ bulkEditChallenges
           \/ deleteSelectedSubmissions \/ correctSubmissions \/ incorrectSubmissions
           \/ bulkToggleAccounts \/ deleteSelectedTeams \/ bulkEditTeams)
  BY DEF Tables, teamCorrect, teamDelete, teamDeleteAwards, teamSolves, userCorrect, userDelete,
     userDeleteAwards, userSolves, deleteSelectedUsers, bulkEditUsers, deleteSelectedChallenges,
     bulkEditChallenges, deleteSelectedSubmissions, correctSubmissions, incorrectSubmissions,
     bulkToggleAccounts, deleteSelectedTeams, bulkEditTeams
<1>7. ~(\/ updateTeam \/ setCaptain \/ deleteTeam \/ awardTeam \/ inviteTeam \/ updateUser
        \/ deleteUser \/ awardUser \/ showStatistics \/ hideStatistics \/ exportCsvMenu
        \/ includePasswords \/ exportClick \/ resyncDynamicChallenges \/ addUsers \/ confirmMove
        \/ cancelMove \/ ContestGoesOn \/ anotherAdmin)
  BY DEF Tables, updateTeam, setCaptain, deleteTeam, awardTeam, inviteTeam, updateUser,
     deleteUser, awardUser, SendsForm, showStatistics, hideStatistics, exportCsvMenu,
     includePasswords, exportClick, resyncDynamicChallenges, addUsers, confirmMove, cancelMove,
     ContestGoesOn, anotherAdmin
<1>8. \A i \in Row : ~(checkRow(i) \/ toggleAccount(i) \/ deleteRow(i))
  BY DEF Tables, checkRow, toggleAccount, deleteRow
<1>9. \A v \in 0..2 : ~typesName(v)
  BY DEF typesName
<1> QED
  BY <1>3, <1>4, <1>5, <1>6, <1>7, <1>8, <1>9 DEF AdminMoves

\* What the form of the members sends.
LEMMA MembersRequests ==
    ASSUME NEW kind, NEW ids, NEW listed
    PROVE  /\ kind # "remove" => Named([Req(kind, ids, Nothing) EXCEPT !.listed = listed])
           /\ Named([Req(kind, ids, Nothing) EXCEPT !.listed = listed, !.value = Ids(listed)])
<1> DEFINE r == Req(kind, ids, Nothing)
<1>1. {"kind", "value", "listed"} \subseteq DOMAIN r /\ r.kind = kind
  BY DEF Req
<1> HIDE DEF r
<1>2. kind # "remove" => Named([r EXCEPT !.listed = listed])
  BY <1>1 DEF Named
<1>3. Named([r EXCEPT !.listed = listed, !.value = Ids(listed)])
  BY <1>1 DEF Named
<1> QED
  BY <1>2, <1>3 DEF r

LEMMA MembersTasks ==
    ASSUME Batches, MembersData, screen = "members",
           GoesOn \/ Started({"batch", "search"}) \/ Reloaded
    PROVE  \A s \in Slot : task'[s].op \in {"none", "batch", "search"}
<1>1. \A s \in Slot : task[s].op \in {"none", "batch", "search"}
  BY DEF MembersData
<1>2. NoTask.op = "none"
  BY DEF NoTask
<1>3. ASSUME NEW s \in Slot, NEW at, NEW arg, Await(s, at, arg)
      PROVE  \A r \in Slot : task'[r].op = task[r].op
  <2>1. task'[s] = [task[s] EXCEPT !.at = at, !.arg = arg]
        /\ \A r \in Slot \ {s} : task'[r] = task[r]
    BY <1>3 DEF Batches, Await
  <2>2. task'[s] = [op |-> task[s].op, at |-> at, arg |-> arg]
    BY <2>1 DEF Batches
  <2> QED
    BY <2>1, <2>2
<1>4. CASE GoesOn
  <2>1. ASSUME NEW s \in Slot, Ends(s)
        PROVE  \A r \in Slot : task'[r].op \in {task[r].op, "none"}
    BY <1>2, <2>1 DEF Batches, Ends
  <2>2. ASSUME task' = [r \in Slot |-> IF task[r].op = "poll" THEN NoTask ELSE task[r]]
        PROVE  \A r \in Slot : task'[r].op \in {task[r].op, "none"}
    BY <1>2, <2>2
  <2> QED
    BY <1>1, <1>3, <1>4, <2>1, <2>2 DEF GoesOn
<1>5. CASE Started({"batch", "search"})
  BY <1>1, <1>5 DEF Started, Start, Batches
<1>6. ASSUME NEW t, NEW rows, Reloads(t, rows), \A s \in Slot : t[s].op \in {task[s].op, "none"},
             \A s \in Slot : t[s] = [op |-> t[s].op, at |-> t[s].at, arg |-> t[s].arg]
      PROVE  \A s \in Slot : task'[s].op \in {"none", "batch", "search"}
  <2>1. FirstLoad(screen) = NoTask
    BY DEF FirstLoad
  <2>2. \A s \in Slot : task'[s] \in {[t[s] EXCEPT !.at = "gone"], NoTask}
    BY <1>6, <2>1 DEF Reloads
  <2>3. \A s \in Slot : [t[s] EXCEPT !.at = "gone"].op = t[s].op
    <3> TAKE s \in Slot
    <3>1. PICK op, at, arg : t[s] = [op |-> op, at |-> at, arg |-> arg]
      BY <1>6
    <3> QED
      BY <3>1
  <2> QED
    BY <1>1, <1>2, <1>6, <2>2, <2>3
<1>7. CASE Reloaded
  <2>0. PICK s \in Slot : \E rows : Reloads(task, rows) \/ Reloads([task EXCEPT ![s] = NoTask], rows)
    BY <1>7 DEF Reloaded
  <2>1. PICK rows : Reloads(task, rows) \/ Reloads([task EXCEPT ![s] = NoTask], rows)
    BY <2>0
  <2>2. CASE Reloads(task, rows)
    BY <1>6, <2>2 DEF Batches
  <2>3. CASE Reloads([task EXCEPT ![s] = NoTask], rows)
    <3> DEFINE t == [task EXCEPT ![s] = NoTask]
    <3>1. /\ \A r \in Slot : t[r] = [op |-> t[r].op, at |-> t[r].at, arg |-> t[r].arg]
          /\ \A r \in Slot : t[r].op \in {task[r].op, "none"}
      BY DEF Batches, NoTask
    <3> HIDE DEF t
    <3>2. Reloads(t, rows)
      BY <2>3 DEF t
    <3> QED
      BY <1>6, <3>1, <3>2
  <2> QED
    BY <2>1, <2>2, <2>3
<1> QED
  BY <1>4, <1>5, <1>7

LEMMA SentIsNamed ==
    ASSUME screen' = screen, screen = "members", MembersData, NEW s \in Slot, MembersSent(s, "add")
    PROVE  /\ Started({"batch", "search"}) \/ Reloaded
           /\ {"picked", "query"} \subseteq DOMAIN adm'
           /\ adm'.query \in {{}, InTeams(adm'.picked)}
<1>1. CASE adm.picked = {}
  <2>1. Reloads([task EXCEPT ![s] = NoTask], srv.row)
    BY <1>1 DEF MembersSent
  <2>2. adm' = Fresh("members", srv.row)
    BY <2>1 DEF Reloads
  <2>3. Reloaded
    BY <2>1 DEF Reloaded
  <2>4. {"picked", "query"} \subseteq DOMAIN adm' /\ adm'.query = {}
    BY <2>2, FreshIsNamed
  <2> QED
    BY <2>3, <2>4
<1>2. CASE adm.picked # {}
  <2>1. /\ Start(s, "batch", "sent", [Req("add", Ids(adm.picked), Nothing) EXCEPT
                                    !.listed = Members(adm.picked)])
        /\ UNCHANGED adm
    BY <1>2 DEF MembersSent
  <2>2. Named([Req("add", Ids(adm.picked), Nothing) EXCEPT !.listed = Members(adm.picked)])
    BY MembersRequests
  <2> QED
    BY <2>1, <2>2 DEF Started, MembersData
<1> QED
  BY <1>1, <1>2

\* What can happen at the form.
LEMMA MembersOnly ==
    ASSUME screen = "members", AdminMoves
    PROVE  \/ addUsers \/ confirmMove \/ cancelMove \/ ContestGoesOn \/ anotherAdmin
           \/ (\E v : typesName(v)) \/ \E u : selectUser(u) \/ removeSelectedUser(u)
<1>1. screen \notin Tables /\ screen \notin {"comments", "media"}
  BY DEF Tables
<1>2. ~(\/ teamCorrect \/ teamDelete \/ teamDeleteAwards \/ teamSolves \/ userCorrect
        \/ userDelete \/ userDeleteAwards \/ userSolves \/ deleteSelectedUsers
        \/ bulkEditUsers \/ deleteSelectedChallenges \/ bulkEditChallenges
        \/ deleteSelectedSubmissions \/ correctSubmissions \/ incorrectSubmissions
        \/ bulkToggleAccounts \/ deleteSelectedTeams \/ bulkEditTeams)
  BY <1>1 DEF teamCorrect, teamDelete, teamDeleteAwards, teamSolves, userCorrect,
     userDelete, userDeleteAwards, userSolves, deleteSelectedUsers, bulkEditUsers,
     deleteSelectedChallenges, bulkEditChallenges, deleteSelectedSubmissions, correctSubmissions,
     incorrectSubmissions, bulkToggleAccounts, deleteSelectedTeams, bulkEditTeams
<1>3. ~(\/ updateTeam \/ setCaptain \/ deleteTeam \/ awardTeam \/ inviteTeam \/ updateUser
        \/ deleteUser \/ awardUser \/ showStatistics \/ hideStatistics \/ exportCsvMenu
        \/ includePasswords \/ exportClick \/ resyncDynamicChallenges \/ submitComment
        \/ uploadChosenFiles)
  BY <1>1 DEF updateTeam, setCaptain, deleteTeam, awardTeam, inviteTeam, updateUser,
     deleteUser, awardUser, SendsForm, showStatistics, hideStatistics, exportCsvMenu,
     includePasswords, exportClick, resyncDynamicChallenges, submitComment, uploadChosenFiles
<1>4. \A i \in Row : ~(\/ checkRow(i) \/ toggleAccount(i) \/ deleteRow(i) \/ deleteComment(i)
                      \/ selectFile(i))
  BY <1>1 DEF checkRow, toggleAccount, deleteRow, deleteComment, selectFile
<1>5. \A d : ~turnPage(d)
  BY DEF turnPage
<1> QED
  BY <1>1, <1>2, <1>3, <1>4, <1>5 DEF AdminMoves

LEMMA MembersOnlyAnswers ==
    ASSUME screen = "members", MembersData, AdminAnswers
    PROVE  \E s \in Slot : \/ GoneApplied(s) \/ searchUsers(s) \/ UsersFound(s)
                          \/ \E i \in Row : MemberAnswered(s, i)
<1>1. screen \notin Tables
  BY DEF Tables
<1>2. \A s \in Slot : task[s].op \in {"none", "batch", "search"}
  BY DEF MembersData
<1>3. \A s \in Slot : ~(\/ BracketsKnown(s) \/ RowAnswered(s) \/ FormAnswered(s) \/ ActiveStep(s)
                       \/ ActiveKnown(s) \/ ExportServed(s) \/ ExportAnswered(s)
                       \/ ResyncAnswered(s) \/ CommentAnswered(s) \/ CommentsLoaded(s)
                       \/ DeletionAnswered(s) \/ UploadAnswered(s) \/ FilesLoaded(s))
  BY <1>2 DEF BracketsKnown, RowAnswered, FormAnswered, ActiveStep, ActiveKnown, ExportServed,
     ExportAnswered, ResyncAnswered, CommentAnswered, CommentsLoaded, DeletionAnswered,
     UploadAnswered, FilesLoaded, Awaits
<1>4. \A s \in Slot, i \in Row : ~BatchAnswered(s, i)
  BY <1>1 DEF BatchAnswered
<1> QED
  BY <1>3, <1>4 DEF AdminAnswers

LEMMA MembersStep ==
    ASSUME Batches, MembersData, screen = "members", screen' = screen, AdminNext
    PROVE  Batches' /\ MembersData'
<1> DEFINE Asked == /\ {"picked", "query"} \subseteq DOMAIN adm
                   /\ adm.query \in {{}, InTeams(adm.picked)}
           MemberOps == {"batch", "search"}
           Goes == GoesOn \/ Started(MemberOps) \/ Reloaded
<1>1. screen \notin Tables /\ screen \notin {"comments", "media"} /\ Asked
  BY DEF Tables, MembersData
<1>2. ASSUME Goes, Asked' PROVE Batches' /\ MembersData'
  <2>1. Batches'
    BY <1>2, BatchesStay
  <2>2. \A s \in Slot : task'[s].op \in {"none", "batch", "search"}
    BY <1>2, MembersTasks
  <2> QED
    BY <1>2, <2>1, <2>2 DEF MembersData
<1>3. ASSUME UNCHANGED task PROVE Goes
  BY <1>3 DEF GoesOn
<1>4. ASSUME UNCHANGED adm PROVE Asked'
  BY <1>1, <1>4
<1>5. ASSUME NEW s \in Slot, Start(s, "search", "timer", Req("search", {}, Nothing)) PROVE Goes
  BY <1>5 DEF Started
<1>6. ASSUME NEW s \in Slot, Ends(s) \/ \E at : Await(s, at, task[s].arg) PROVE Goes
  BY <1>6 DEF GoesOn
<1>7. ASSUME NEW s \in Slot, MembersSent(s, "add") PROVE Goes /\ Asked'
  BY <1>7, SentIsNamed
<1>8. ASSUME NEW s \in Slot, NEW rows, Reloads([task EXCEPT ![s] = NoTask], rows)
      PROVE  Goes /\ Asked'
  <2>1. adm' = Fresh("members", rows)
    BY <1>8 DEF Reloads
  <2>2. {"picked", "query"} \subseteq DOMAIN adm' /\ adm'.query = {}
    BY <2>1, FreshIsNamed
  <2>3. Goes
    BY <1>8 DEF Reloaded
  <2> QED
    BY <2>2, <2>3
<1>9. ASSUME NEW v, typesName(v) PROVE Goes /\ Asked'
  <2>1. Goes
    BY <1>3, <1>5, <1>9 DEF typesName
  <2> QED
    BY <1>1, <1>9, <2>1 DEF typesName
<1>10. ASSUME NEW u, selectUser(u) \/ removeSelectedUser(u) PROVE Goes /\ Asked'
  <2>1. Goes
    BY <1>3, <1>5, <1>10 DEF selectUser, removeSelectedUser
  <2>2. adm'.query = {} /\ {"picked", "query"} \subseteq DOMAIN adm'
    BY <1>1, <1>10 DEF selectUser, removeSelectedUser
  <2> QED
    BY <2>1, <2>2
<1>11. CASE addUsers
  <2>1. CASE adm' = [adm EXCEPT !.query = InTeams(adm.picked)] /\ UNCHANGED task
    BY <1>1, <1>2, <1>3, <2>1
  <2>2. CASE \E s \in Slot : MembersSent(s, "add")
    BY <1>2, <1>7, <2>2
  <2> QED
    BY <1>11, <2>1, <2>2 DEF addUsers
<1>12. CASE confirmMove
  <2>1. adm.query = Ids(Members(adm.picked))
    BY <1>1, <1>12 DEF confirmMove, InTeams
  <2>2. \E s \in Slot : Start(s, "batch", "sent",
           [Req("remove", Ids(adm.picked), Nothing) EXCEPT
              !.listed = Members(adm.picked), !.value = Ids(Members(adm.picked))])
    BY <1>12, <2>1 DEF confirmMove
  <2>3. Goes
    BY <2>2, MembersRequests DEF Started
  <2>4. adm'.query = {} /\ {"picked", "query"} \subseteq DOMAIN adm'
    BY <1>1, <1>12 DEF confirmMove
  <2> QED
    BY <1>2, <2>3, <2>4
<1>13. CASE cancelMove
  BY <1>1, <1>2, <1>3, <1>13 DEF cancelMove
<1>14. ASSUME NEW s \in Slot, searchUsers(s) \/ UsersFound(s) PROVE Goes /\ Asked'
  <2>1. Goes
    BY <1>6, <1>14 DEF searchUsers, UsersFound
  <2>2. adm'.query = adm.query /\ adm'.picked = adm.picked
        /\ {"picked", "query"} \subseteq DOMAIN adm'
    BY <1>1, <1>14 DEF searchUsers, UsersFound
  <2> QED
    BY <1>1, <2>1, <2>2
<1>15. ASSUME NEW s \in Slot, NEW i, MemberAnswered(s, i) PROVE Goes /\ Asked'
  <2>1. PICK ok \in BOOLEAN : \/ Await(s, "sent", AnsweredOne(task[s].arg, i, ok)) /\ UNCHANGED adm
                              \/ Ends(s) /\ UNCHANGED adm
                              \/ MembersSent(s, "add")
                              \/ Reloads([task EXCEPT ![s] = NoTask], srv'.row)
    BY <1>15 DEF MemberAnswered
  <2>2. CASE Await(s, "sent", AnsweredOne(task[s].arg, i, ok)) /\ UNCHANGED adm
    BY <1>4, <2>2 DEF GoesOn
  <2> QED
    BY <1>4, <1>6, <1>7, <1>8, <2>1, <2>2
<1>16. CASE ContestGoesOn \/ anotherAdmin
  BY <1>2, <1>3, <1>4, <1>16 DEF ContestGoesOn, anotherAdmin
<1>17. ASSUME NEW s \in Slot, GoneApplied(s) PROVE Goes /\ Asked'
  BY <1>4, <1>6, <1>17 DEF GoneApplied
<1>18. CASE AdminMoves
  <2>1. \/ addUsers \/ confirmMove \/ cancelMove \/ ContestGoesOn \/ anotherAdmin
        \/ (\E v : typesName(v)) \/ \E u : selectUser(u) \/ removeSelectedUser(u)
    BY <1>18, MembersOnly
  <2> QED
    BY <1>2, <1>9, <1>10, <1>11, <1>12, <1>13, <1>16, <2>1
<1>19. CASE AdminAnswers
  <2>1. \E s \in Slot : \/ GoneApplied(s) \/ searchUsers(s) \/ UsersFound(s)
                         \/ \E i \in Row : MemberAnswered(s, i)
    BY <1>19, MembersOnlyAnswers
  <2> QED
    BY <1>2, <1>14, <1>15, <1>17, <2>1
<1> QED
  BY <1>18, <1>19 DEF AdminNext

LEMMA MoveStepInv == MoveInv /\ [AdminNext]_adminVars => MoveInv'
<1>1. ASSUME MoveInv, UNCHANGED adminVars PROVE MoveInv'
  <2>1. UNCHANGED <<task, screen, adm>>
    BY <1>1 DEF adminVars
  <2> QED
    BY <1>1, <2>1 DEF MoveInv, Batches, TableData, MembersData
<1>2. ASSUME MoveInv, AdminNext PROVE MoveInv'
  <2>1. Batches /\ screen' = screen
    BY <1>2, PageStays DEF MoveInv
  <2>2. CASE screen \in Tables
    <3>1. TableData /\ screen # "members"
      BY <1>2, <2>2 DEF MoveInv, Tables
    <3>2. Batched /\ TableData'
      BY <1>2, <2>1, <2>2, <3>1, TableMoves, TableAnswers, OtherAnswers DEF AdminNext
    <3>3. Batches'
      BY <2>1, <3>2, BatchesStay DEF Batched
    <3> QED
      BY <2>1, <3>1, <3>2, <3>3 DEF MoveInv
  <2>3. CASE screen = "members"
    <3>1. Batches' /\ MembersData'
      BY <1>2, <2>1, <2>3, MembersStep DEF MoveInv
    <3> QED
      BY <2>1, <2>3, <3>1 DEF MoveInv, Tables
  <2>4. CASE screen \notin Tables \cup {"members"}
    <3>1. Batched
      BY <1>2, <2>1, <2>4, OtherMoves, OtherAnswers DEF AdminNext
    <3>2. Batches'
      BY <2>1, <3>1, BatchesStay DEF Batched
    <3> QED
      BY <2>1, <2>4, <3>2 DEF MoveInv
  <2> QED
    BY <2>2, <2>3, <2>4
<1> QED
  BY <1>1, <1>2

(* Whoever loses a team, with all solves and awards, has been named in a   *)
(* dialog, whatever the searches have found before, whoever else moves     *)
(* users and however late the requests arrive (addUsers,                   *)
(* handleRemoveUsersFromTeams).                                            *)
THEOREM OnlyNamedLeave == AdminSpec => []RemovedWasNamed
<1>1. MoveInv => RemovedWasNamed
  <2> SUFFICES ASSUME MoveInv, NEW s \in Slot, task[s].op = "batch", task[s].arg.kind = "remove",
                      NEW i \in task[s].arg.left, Accepted(task[s].arg, i)
               PROVE  i \in task[s].arg.value
    BY DEF RemovedWasNamed
  <2>1. Ids(task[s].arg.listed) \subseteq task[s].arg.value
    BY DEF MoveInv, Batches, Named
  <2>2. <<i, srv.row[i]>> \in task[s].arg.listed /\ <<i, srv.row[i]>>[1] = i
    BY DEF Accepted
  <2>3. i \in Ids(task[s].arg.listed)
    BY <2>2 DEF Ids
  <2> QED
    BY <2>1, <2>3
<1> QED
  BY <1>1, AdminInitInv, MoveStepInv, PTL DEF AdminSpec

-----------------------------------------------------------------------------
(***************************************************************************)
(* What the tables and the form of AdminPages wait for, for any number of  *)
(* pending requests: the requests that free the buttons, the one timer of  *)
(* the statistics and the one of the search.                               *)
(***************************************************************************)

Polls == Tasks({"poll"}, {"timer"})
Typings == Tasks({"search"}, {"timer"})
Busied == Tasks({"export", "resync"}, {"sent", "csv"})
WaitOps == {"poll", "search", "export", "resync"}

Exactly(S, on) == IF on THEN \E s \in Slot : S = {s} ELSE S = {}

TableFlags == /\ {"busy", "stats"} \subseteq DOMAIN adm
              /\ adm.busy \in BOOLEAN /\ adm.stats \in BOOLEAN
TableWaits == /\ TableFlags
              /\ adm.busy => Busied # {}
              /\ Exactly(Polls, adm.stats)
SearchWaits == /\ "awaiting" \in DOMAIN adm /\ adm.awaiting \in BOOLEAN
               /\ Exactly(Typings, adm.awaiting)

\* The inductive invariant.
WaitInv == /\ MoveInv
           /\ screen \in Tables => TableWaits
           /\ screen = "members" => SearchWaits

\* A step that leaves what is waited for alone, in the tasks and in the data.
Aside == Polls' = Polls /\ Typings' = Typings /\ Busied' = Busied
SameFlags == TableFlags' /\ adm'.busy = adm.busy /\ adm'.stats = adm.stats

LEMMA OneTask ==
    ASSUME NEW s \in Slot, \A r \in Slot \ {s} : task'[r] = task[r],
           task[s].op \notin WaitOps, task'[s].op \notin WaitOps
    PROVE  Aside
BY DEF Aside, Polls, Typings, Busied, Tasks, WaitOps

LEMMA StartsAside ==
    ASSUME Batches, NEW s \in Slot, task[s].op \notin WaitOps, NEW op, op \notin WaitOps, NEW at,
           NEW arg, Start(s, op, at, arg)
    PROVE  Aside
<1>1. task'[s].op = op /\ \A r \in Slot \ {s} : task'[r] = task[r]
  BY DEF Batches, Start
<1> QED
  BY <1>1, OneTask

LEMMA GoesAside ==
    ASSUME Batches, NEW s \in Slot, task[s].op \notin WaitOps,
           Ends(s) \/ \E at, arg : Await(s, at, arg)
    PROVE  Aside
<1>1. \A r \in Slot \ {s} : task'[r] = task[r]
  BY DEF Batches, Ends, Await
<1>2. CASE Ends(s)
  <2>1. task'[s].op = "none"
    BY <1>2 DEF Batches, Ends, NoTask
  <2> QED
    BY <1>1, <2>1, OneTask DEF WaitOps
<1>3. ASSUME NEW at, NEW arg, Await(s, at, arg) PROVE Aside
  <2>1. task'[s] = [task[s] EXCEPT !.at = at, !.arg = arg]
    BY <1>3 DEF Batches, Await
  <2>2. task'[s] = [op |-> task[s].op, at |-> at, arg |-> arg]
    BY <2>1 DEF Batches
  <2> QED
    BY <1>1, <2>2, OneTask
<1> QED
  BY <1>2, <1>3

LEMMA UnchangedAside == ASSUME UNCHANGED task PROVE Aside
BY DEF Aside, Polls, Typings, Busied, Tasks

LEMMA TableRests ==
    ASSUME TableWaits, SameFlags, Aside
    PROVE  TableWaits'
BY DEF TableWaits, SameFlags, Aside, Exactly

\* A reload begins anew.
LEMMA ReloadedWaits ==
    ASSUME NEW t, NEW rows, Reloads(t, rows), screen' = screen,
           \A s \in Slot : t[s] = [op |-> t[s].op, at |-> t[s].at, arg |-> t[s].arg]
    PROVE  /\ screen \in Tables => TableWaits'
           /\ screen = "members" => SearchWaits'
<1>1. CASE screen \in Tables \cup {"members"}
  <2>1. screen \notin {"comments", "media"}
    BY <1>1 DEF Tables
  <2>2. \A s \in Slot : task'[s] = IF t[s].op \in {"batch", "row"} THEN [t[s] EXCEPT !.at = "gone"]
                                   ELSE NoTask
    BY <2>1 DEF Reloads, FirstLoad
  <2>3. \A s \in Slot : task'[s].op \in {"batch", "row", "none"}
    <3> TAKE s \in Slot
    <3>1. PICK op, at, arg : t[s] = [op |-> op, at |-> at, arg |-> arg]
      OBVIOUS
    <3>2. [t[s] EXCEPT !.at = "gone"].op = op /\ t[s].op = op
      BY <3>1
    <3>3. CASE op \in {"batch", "row"}
      BY <2>2, <3>2, <3>3
    <3>4. CASE op \notin {"batch", "row"}
      <4>1. task'[s] = NoTask
        BY <2>2, <3>2, <3>4
      <4> QED
        BY <4>1 DEF NoTask
    <3> QED
      BY <3>3, <3>4
  <2>4. Polls' = {} /\ Typings' = {}
    BY <2>3 DEF Polls, Typings, Tasks
  <2>5. adm' = Fresh(screen, rows)
    BY DEF Reloads
  <2>6. screen \in Tables => TableFlags' /\ ~adm'.busy /\ ~adm'.stats
    BY <2>5 DEF Fresh, Tables, TableFlags
  <2>7. screen = "members" => "awaiting" \in DOMAIN adm' /\ adm'.awaiting = FALSE
    BY <2>5 DEF Fresh
  <2> QED
    BY <2>4, <2>6, <2>7 DEF TableWaits, SearchWaits, Exactly
<1> QED
  BY <1>1

LEMMA RefreshedWaits ==
    ASSUME Batches, NEW s \in Slot, NEW rows, screen' = screen,
           Reloads(task, rows) \/ Reloads([task EXCEPT ![s] = NoTask], rows)
    PROVE  /\ screen \in Tables => TableWaits'
           /\ screen = "members" => SearchWaits'
<1>1. CASE Reloads(task, rows)
  BY <1>1, ReloadedWaits DEF Batches
<1>2. CASE Reloads([task EXCEPT ![s] = NoTask], rows)
  <2> DEFINE t == [task EXCEPT ![s] = NoTask]
  <2>1. \A r \in Slot : t[r] = [op |-> t[r].op, at |-> t[r].at, arg |-> t[r].arg]
    BY DEF Batches, NoTask
  <2> HIDE DEF t
  <2>2. Reloads(t, rows)
    BY <1>2 DEF t
  <2> QED
    BY <2>1, <2>2, ReloadedWaits
<1> QED
  BY <1>1, <1>2

\* A table's buttons.
LEMMA OpensWaits ==
    ASSUME TableWaits, UNCHANGED task, NEW kind, NEW ids, NEW field,
           Opened(kind, ids, field)
    PROVE  TableWaits'
<1>1. SameFlags
  BY DEF Opened, TableWaits, TableFlags, SameFlags
<1> QED
  BY <1>1, UnchangedAside, TableRests

LEMMA TableWaitMoves ==
    ASSUME Batches, TableWaits, screen \in Tables, screen' = screen, AdminMoves
    PROVE  TableWaits'
<1>1. screen \notin {"members", "comments", "media"}
  BY DEF Tables
<1>2. ASSUME NEW s \in Slot, FreeSlot(s), NEW op, op \notin WaitOps, NEW at, NEW arg,
             Start(s, op, at, arg), SameFlags
      PROVE  TableWaits'
  <2>1. task[s].op \notin WaitOps
    BY <1>2 DEF FreeSlot, WaitOps
  <2> QED
    BY <1>2, <2>1, StartsAside, TableRests
<1>3. ASSUME UNCHANGED task, SameFlags PROVE TableWaits'
  BY <1>3, UnchangedAside, TableRests
<1>4. ASSUME UNCHANGED adm PROVE SameFlags
  BY <1>4 DEF TableWaits, TableFlags, SameFlags
<1>5. ASSUME NEW kind, NEW from, NEW field, OpensQuery(kind, from, field)
      PROVE  TableWaits'
  BY <1>5, OpensWaits DEF OpensQuery
<1>6. ASSUME NEW p, NEW kind, SendsForm(p, kind) PROVE TableWaits'
  BY <1>2, <1>4, <1>6 DEF SendsForm, WaitOps
<1>7. ASSUME bulkEditTeams \/ \E i \in Row : toggleAccount(i) \/ deleteRow(i)
      PROVE  TableWaits'
  BY <1>2, <1>4, <1>7 DEF bulkEditTeams, toggleAccount, deleteRow, WaitOps
<1>8. CASE showStatistics
  <2>1. PICK s \in Slot : FreeSlot(s) /\ Start(s, "poll", "timer", Req("poll", {}, Nothing))
    BY <1>8 DEF showStatistics
  <2>2. task[s].op = "none" /\ task'[s].op = "poll" /\ task'[s].at = "timer"
        /\ \A r \in Slot \ {s} : task'[r] = task[r]
    BY <2>1 DEF FreeSlot, Start, Batches
  <2>3. Polls' = Polls \cup {s} /\ Busied' = Busied
    BY <2>2 DEF Polls, Busied, Tasks
  <2>4. TableFlags' /\ adm'.busy = adm.busy /\ ~adm.stats /\ adm'.stats = TRUE
    BY <1>8 DEF showStatistics, TableWaits, TableFlags
  <2>5. Polls = {}
    BY <2>4 DEF TableWaits, Exactly
  <2> QED
    BY <2>3, <2>4, <2>5 DEF TableWaits, Exactly
<1>9. CASE hideStatistics
  <2>1. Polls' = {} /\ Busied' = Busied
    BY <1>9 DEF hideStatistics, Polls, Busied, Tasks, NoTask
  <2>2. TableFlags' /\ adm'.busy = adm.busy /\ adm'.stats = FALSE
    BY <1>9 DEF hideStatistics, TableWaits, TableFlags
  <2> QED
    BY <2>1, <2>2 DEF TableWaits, Exactly
<1>10. ASSUME NEW caller, isCtfActive(caller), SameFlags PROVE TableWaits'
  BY <1>2, <1>10 DEF isCtfActive, WaitOps
<1>11. CASE exportCsvMenu \/ includePasswords
  <2>1. SameFlags
    BY <1>11 DEF exportCsvMenu, includePasswords, TableWaits, TableFlags, SameFlags
  <2> QED
    BY <1>3, <1>10, <1>11, <2>1 DEF exportCsvMenu, includePasswords
<1>12. ASSUME NEW s \in Slot, FreeSlot(s), NEW op \in {"export", "resync"}, NEW arg,
              Start(s, op, "sent", arg), TableFlags', adm'.stats = adm.stats
       PROVE  TableWaits'
  <2>1. task[s].op = "none" /\ task'[s].op = op /\ task'[s].at = "sent"
        /\ \A r \in Slot \ {s} : task'[r] = task[r]
    BY <1>12 DEF FreeSlot, Start, Batches
  <2>2. Polls' = Polls /\ s \in Busied'
    BY <2>1 DEF Polls, Busied, Tasks
  <2> QED
    BY <1>12, <2>2 DEF TableWaits, Exactly
<1>13. CASE exportClick
  <2>1. CASE adm.tick
    BY <1>4, <1>10, <1>13, <2>1 DEF exportClick
  <2>2. CASE ~adm.tick
    <3>1. TableFlags' /\ adm'.stats = adm.stats
      BY <1>13, <2>2 DEF exportClick, Exporting, TableWaits, TableFlags
    <3> QED
      BY <1>12, <1>13, <2>2, <3>1 DEF exportClick
  <2> QED
    BY <2>1, <2>2
<1>14. CASE resyncDynamicChallenges
  <2>1. TableFlags' /\ adm'.stats = adm.stats
    BY <1>14 DEF resyncDynamicChallenges, TableWaits, TableFlags
  <2> QED
    BY <1>12, <1>14, <2>1 DEF resyncDynamicChallenges
<1>15. ASSUME NEW i, checkRow(i) PROVE TableWaits'
  BY <1>3, <1>15 DEF checkRow, TableWaits, TableFlags, SameFlags
<1>16. ASSUME NEW q \in adm.queries, queryYes(q) \/ queryNo(q) \/ \E v : fillQuery(q, v)
       PROVE  TableWaits'
  <2>1. CASE queryNo(q) \/ \E v : fillQuery(q, v)
    BY <1>3, <2>1 DEF queryNo, fillQuery, TableWaits, TableFlags, SameFlags
  <2> DEFINE closed == [adm EXCEPT !.queries = @ \ {q}]
  <2>2. /\ {"busy", "stats"} \subseteq DOMAIN closed
        /\ closed.busy = adm.busy /\ closed.stats = adm.stats
    BY DEF TableWaits, TableFlags
  <2>3. ASSUME queryYes(q), q.kind = "members"
        PROVE  /\ adm' = [closed EXCEPT !.queries = @ \cup {Query("solve", q.ids, TRUE)},
                                        !.first = IF @ = NoForm THEN Nothing ELSE @]
               /\ UNCHANGED task
    BY <2>3, Zenon DEF queryYes
  <2>4. ASSUME queryYes(q), q.kind # "members"
        PROVE  \/ Reloads(task, srv.row)
               \/ /\ adm' = closed
                  /\ \E s \in Slot : FreeSlot(s) /\ Start(s, "batch", "sent", Sent(q))
    BY <2>4, Zenon DEF queryYes
  <2> HIDE DEF closed
  <2>5. ASSUME queryYes(q), q.kind = "members" PROVE SameFlags
    BY <2>2, <2>3, <2>5 DEF TableWaits, TableFlags, SameFlags
  <2>6. ASSUME adm' = closed PROVE SameFlags
    BY <2>2, <2>6 DEF TableWaits, TableFlags, SameFlags
  <2>7. CASE Reloads(task, srv.row)
    BY <2>7, RefreshedWaits, TabAssumption
  <2> QED
    BY <1>2, <1>3, <1>16, <2>1, <2>3, <2>4, <2>5, <2>6, <2>7 DEF WaitOps
<1>17. CASE ContestGoesOn \/ anotherAdmin
  BY <1>3, <1>4, <1>17 DEF ContestGoesOn, anotherAdmin
<1>18. /\ ~(addUsers \/ confirmMove \/ cancelMove \/ submitComment \/ uploadChosenFiles)
       /\ \A i \in Row : ~(deleteComment(i) \/ selectFile(i))
       /\ \A v : ~typesName(v) /\ ~turnPage(v)
  BY <1>1 DEF addUsers, confirmMove, cancelMove, submitComment, uploadChosenFiles, deleteComment,
     selectFile, typesName, turnPage
<1>19. ASSUME \/ updateTeam \/ setCaptain \/ deleteTeam \/ awardTeam \/ inviteTeam
              \/ updateUser \/ deleteUser \/ awardUser
       PROVE  TableWaits'
  BY <1>6, <1>19 DEF updateTeam, setCaptain, deleteTeam, awardTeam, inviteTeam, updateUser,
     deleteUser, awardUser
<1> QED
  BY <1>1, <1>5, <1>7, <1>8, <1>9, <1>11, <1>13, <1>14, <1>15, <1>16, <1>17, <1>18, <1>19,
     OpensNoMove DEF AdminMoves

LEMMA TableWaitAnswers ==
    ASSUME Batches, TableWaits, screen \in Tables, screen' = screen, AdminAnswers
    PROVE  TableWaits'
<1>1. screen \notin {"members", "comments", "media"}
  BY DEF Tables
<1>2. ASSUME NEW s \in Slot, task[s].op \notin WaitOps, Ends(s) \/ \E at, arg : Await(s, at, arg),
             SameFlags
      PROVE  TableWaits'
  BY <1>2, GoesAside, TableRests
<1>3. ASSUME NEW s \in Slot, task[s].op \notin WaitOps, NEW op, op \notin WaitOps, NEW at, NEW arg,
             Start(s, op, at, arg), SameFlags
      PROVE  TableWaits'
  BY <1>3, StartsAside, TableRests
<1>4. ASSUME UNCHANGED adm PROVE SameFlags
  BY <1>4 DEF TableWaits, TableFlags, SameFlags
<1> SUFFICES ASSUME NEW s \in Slot,
                    \/ GoneApplied(s) \/ BracketsKnown(s) \/ RowAnswered(s) \/ FormAnswered(s)
                    \/ ActiveStep(s) \/ ActiveKnown(s) \/ ExportServed(s) \/ ExportAnswered(s)
                    \/ ResyncAnswered(s) \/ searchUsers(s) \/ UsersFound(s) \/ CommentAnswered(s)
                    \/ CommentsLoaded(s) \/ DeletionAnswered(s) \/ UploadAnswered(s)
                    \/ FilesLoaded(s) \/ \E i \in Row : BatchAnswered(s, i) \/ MemberAnswered(s, i)
             PROVE  TableWaits'
  BY DEF AdminAnswers
<1>5. CASE GoneApplied(s)
  <2>1. UNCHANGED adm /\ Ends(s) /\ task[s].at = "gone"
    BY <1>5 DEF GoneApplied
  <2>2. /\ task'[s].op = "none" /\ \A r \in Slot \ {s} : task'[r] = task[r]
    BY <2>1 DEF Batches, Ends, NoTask
  <2>3. Aside
    BY <2>1, <2>2 DEF Aside, Polls, Typings, Busied, Tasks
  <2> QED
    BY <1>4, <2>1, <2>3, TableRests
<1>6. CASE BracketsKnown(s)
  <2>1. /\ task[s].op \notin WaitOps /\ Ends(s) /\ Opened("edit", task[s].arg.ids, TRUE)
    BY <1>6 DEF BracketsKnown, Awaits, WaitOps
  <2>2. SameFlags
    BY <2>1 DEF Opened, TableWaits, TableFlags, SameFlags
  <2> QED
    BY <1>2, <2>1, <2>2
<1>7. CASE RowAnswered(s)
  <2>1. /\ task[s].op \notin WaitOps /\ Ends(s)
    BY <1>7 DEF RowAnswered, Awaits, WaitOps
  <2>2. SameFlags
    BY <1>7, <1>4 DEF RowAnswered, TableWaits, TableFlags, SameFlags
  <2> QED
    BY <1>2, <2>1, <2>2
<1>8. CASE FormAnswered(s)
  <2>1. task[s].op \notin WaitOps
    BY <1>8 DEF FormAnswered, Awaits, WaitOps
  <2> QED
    BY <1>2, <1>4, <1>8, <2>1, RefreshedWaits DEF FormAnswered
<1>9. CASE ActiveStep(s) \/ CommentAnswered(s) \/ UploadAnswered(s)
  <2>1. task[s].op \notin WaitOps /\ UNCHANGED adm
    BY <1>9 DEF ActiveStep, CommentAnswered, UploadAnswered, Awaits, WaitOps
  <2> QED
    BY <1>2, <1>3, <1>4, <1>9, <2>1 DEF ActiveStep, CommentAnswered, UploadAnswered, WaitOps
<1>10. CASE DeletionAnswered(s)
  <2>1. task[s].op \notin WaitOps /\ UNCHANGED adm /\ Ends(s)
    BY <1>1, <1>10 DEF DeletionAnswered, Awaits, WaitOps
  <2> QED
    BY <1>2, <1>4, <2>1
<1>11. CASE ActiveKnown(s)
  <2>1. task[s].op = "active"
    BY <1>11 DEF ActiveKnown
  <2>2. \/ /\ Ends(s)
           /\ \/ UNCHANGED adm \/ \E x : adm' = [adm EXCEPT !.tick = x]
              \/ \E x, y : adm' = [adm EXCEPT !.locked = x, !.tick = y]
        \/ adm' = Exporting(adm) /\ Start(s, "export", "sent", Req("passwords", {}, Nothing))
    BY <1>11, ActiveKnownDoes
  <2>3. CASE Ends(s) /\ SameFlags
    BY <1>2, <2>1, <2>3 DEF WaitOps
  <2>4. ASSUME \/ UNCHANGED adm \/ \E x : adm' = [adm EXCEPT !.tick = x]
               \/ \E x, y : adm' = [adm EXCEPT !.locked = x, !.tick = y]
        PROVE  SameFlags
    BY <2>4 DEF TableWaits, TableFlags, SameFlags
  <2>5. CASE adm' = Exporting(adm) /\ Start(s, "export", "sent", Req("passwords", {}, Nothing))
    <3>1. /\ task'[s].op = "export" /\ task'[s].at = "sent"
          /\ \A r \in Slot \ {s} : task'[r] = task[r]
      BY <2>5 DEF Start, Batches
    <3>2. Polls' = Polls /\ s \in Busied'
      BY <2>1, <3>1 DEF Polls, Busied, Tasks
    <3>3. TableFlags' /\ adm'.stats = adm.stats
      BY <2>5 DEF Exporting, TableWaits, TableFlags
    <3> QED
      BY <3>2, <3>3 DEF TableWaits, Exactly
  <2> QED
    BY <2>2, <2>3, <2>4, <2>5
<1>12. CASE ExportServed(s)
  <2>1. /\ task[s].op = "export" /\ UNCHANGED adm /\ Await(s, "csv", task[s].arg)
    BY <1>12 DEF ExportServed, Awaits
  <2>2. task'[s] = [task[s] EXCEPT !.at = "csv", !.arg = task[s].arg]
        /\ \A r \in Slot \ {s} : task'[r] = task[r]
    BY <2>1 DEF Batches, Await
  <2>3. task'[s].op = "export" /\ task'[s].at = "csv"
    BY <2>1, <2>2 DEF Batches
  <2>4. Polls' = Polls /\ s \in Busied'
    BY <2>1, <2>2, <2>3 DEF Polls, Busied, Tasks
  <2> QED
    BY <1>4, <2>1, <2>4 DEF SameFlags, TableWaits, Exactly
<1>13. CASE ExportAnswered(s) \/ ResyncAnswered(s)
  <2>1. task[s].op \in {"export", "resync"} /\ Ends(s) /\ \E ok : adm' = Freed(adm, ok)
    BY <1>13 DEF ExportAnswered, ResyncAnswered, Awaits
  <2>2. /\ task'[s].op = "none" /\ \A r \in Slot \ {s} : task'[r] = task[r]
    BY <2>1 DEF Batches, Ends, NoTask
  <2>3. Polls' = Polls
    BY <2>1, <2>2 DEF Polls, Tasks
  <2>4. TableFlags' /\ adm'.busy = FALSE /\ adm'.stats = adm.stats
    BY <2>1 DEF Freed, TableWaits, TableFlags
  <2> QED
    BY <2>3, <2>4 DEF TableWaits, Exactly
<1>14. ASSUME NEW i \in Row, BatchAnswered(s, i) PROVE TableWaits'
  <2>1. task[s].op \notin WaitOps
    BY <1>14 DEF BatchAnswered, Awaits, WaitOps
  <2>2. \/ UNCHANGED adm /\ (Ends(s) \/ \E b : Await(s, "sent", b))
        \/ \E rows : Reloads([task EXCEPT ![s] = NoTask], rows)
    BY <1>14 DEF BatchAnswered
  <2> QED
    BY <1>2, <1>4, <2>1, <2>2, RefreshedWaits
<1>15. /\ ~searchUsers(s) /\ ~UsersFound(s) /\ \A i \in Row : ~MemberAnswered(s, i)
       /\ ~CommentsLoaded(s) /\ ~FilesLoaded(s)
  BY <1>1 DEF searchUsers, UsersFound, MemberAnswered, CommentsLoaded, FilesLoaded
<1> QED
  BY <1>5, <1>6, <1>7, <1>8, <1>9, <1>10, <1>11, <1>12, <1>13, <1>14, <1>15

\* The form of the members: its moves.
LEMMA SearchRests ==
    ASSUME SearchWaits, Aside, "awaiting" \in DOMAIN adm', adm'.awaiting = adm.awaiting
    PROVE  SearchWaits'
BY DEF SearchWaits, Aside, Exactly

LEMMA SearchStarts ==
    ASSUME Batches, SearchWaits, ~adm.awaiting, NEW s \in Slot, FreeSlot(s),
           Start(s, "search", "timer", Req("search", {}, Nothing)),
           "awaiting" \in DOMAIN adm', adm'.awaiting = TRUE
    PROVE  SearchWaits'
<1>1. task[s].op = "none" /\ task'[s].op = "search" /\ task'[s].at = "timer"
      /\ \A r \in Slot \ {s} : task'[r] = task[r]
  BY DEF FreeSlot, Start, Batches
<1>2. Typings = {}
  BY DEF SearchWaits, Exactly
<1>3. Typings' = {s}
  BY <1>1, <1>2 DEF Typings, Tasks
<1> QED
  BY <1>3 DEF SearchWaits, Exactly

LEMMA SearchAddsUsers ==
    ASSUME Batches, SearchWaits, screen = "members", screen' = screen, NEW s \in Slot,
           task[s].op \notin WaitOps, MembersSent(s, "add")
    PROVE  SearchWaits'
<1>1. CASE adm.picked = {}
  BY <1>1, RefreshedWaits DEF MembersSent
<1>2. CASE adm.picked # {}
  <2>1. UNCHANGED adm /\ \E arg : Start(s, "batch", "sent", arg)
    BY <1>2 DEF MembersSent
  <2>2. Aside
    BY <2>1, StartsAside DEF WaitOps
  <2> QED
    BY <2>1, <2>2, SearchRests DEF SearchWaits
<1> QED
  BY <1>1, <1>2

LEMMA MembersWaits ==
    ASSUME Batches, MembersData, SearchWaits, screen = "members", screen' = screen, AdminNext
    PROVE  SearchWaits'
<1>1. screen \notin Tables /\ screen \notin {"comments", "media"}
  BY DEF Tables
<1>2. ASSUME Aside, "awaiting" \in DOMAIN adm', adm'.awaiting = adm.awaiting PROVE SearchWaits'
  BY <1>2, SearchRests
<1>3. ASSUME Aside, UNCHANGED adm PROVE SearchWaits'
  BY <1>3, SearchRests DEF SearchWaits
<1>4. \A s \in Slot : FreeSlot(s) => task[s].op \notin WaitOps
  BY DEF FreeSlot, WaitOps
<1>5. ASSUME NEW v, typesName(v) PROVE SearchWaits'
  <2>1. "awaiting" \in DOMAIN adm' /\ adm'.awaiting = TRUE
    BY <1>5 DEF typesName, SearchWaits
  <2>2. CASE adm.awaiting
    <3>1. UNCHANGED task
      BY <1>5, <2>2 DEF typesName
    <3> QED
      BY <1>2, <2>1, <2>2, <3>1, UnchangedAside DEF SearchWaits
  <2>3. CASE ~adm.awaiting
    BY <1>5, <2>1, <2>3, SearchStarts DEF typesName
  <2> QED
    BY <2>2, <2>3
<1>6. ASSUME NEW u, selectUser(u) PROVE SearchWaits'
  <2>1. "awaiting" \in DOMAIN adm'
        /\ adm'.awaiting = (adm.awaiting \/ adm.value # Nothing)
    BY <1>6 DEF selectUser, SearchWaits
  <2>2. CASE adm.value = Nothing \/ adm.awaiting
    <3>1. UNCHANGED task
      BY <1>6, <2>2 DEF selectUser
    <3>2. adm'.awaiting = adm.awaiting
      BY <2>1, <2>2 DEF SearchWaits
    <3> QED
      BY <1>2, <2>1, <3>1, <3>2, UnchangedAside
  <2>3. CASE ~(adm.value = Nothing \/ adm.awaiting)
    <3>1. adm'.awaiting = TRUE
      BY <2>1, <2>3
    <3> QED
      BY <1>6, <2>1, <2>3, <3>1, SearchStarts DEF selectUser
  <2> QED
    BY <2>2, <2>3
<1>7. ASSUME (\E u : removeSelectedUser(u)) \/ cancelMove PROVE SearchWaits'
  <2>1. UNCHANGED task /\ "awaiting" \in DOMAIN adm' /\ adm'.awaiting = adm.awaiting
    BY <1>7 DEF removeSelectedUser, cancelMove, SearchWaits
  <2> QED
    BY <1>2, <2>1, UnchangedAside
<1>8. CASE addUsers
  <2>1. CASE adm' = [adm EXCEPT !.query = InTeams(adm.picked)] /\ UNCHANGED task
    <3>1. "awaiting" \in DOMAIN adm' /\ adm'.awaiting = adm.awaiting
      BY <2>1 DEF SearchWaits
    <3> QED
      BY <1>2, <2>1, <3>1, UnchangedAside
  <2>2. CASE \E s \in Slot : FreeSlot(s) /\ MembersSent(s, "add")
    BY <1>4, <2>2, SearchAddsUsers
  <2> QED
    BY <1>8, <2>1, <2>2 DEF addUsers
<1>9. CASE confirmMove
  <2>1. /\ "awaiting" \in DOMAIN adm' /\ adm'.awaiting = adm.awaiting
        /\ \E s \in Slot : FreeSlot(s) /\ \E arg : Start(s, "batch", "sent", arg)
    BY <1>9 DEF confirmMove, SearchWaits
  <2>2. Aside
    BY <1>4, <2>1, StartsAside DEF WaitOps
  <2> QED
    BY <1>2, <2>1, <2>2
<1>10. CASE ContestGoesOn \/ anotherAdmin
  BY <1>3, <1>10, UnchangedAside DEF ContestGoesOn, anotherAdmin
<1>11. ASSUME NEW s \in Slot, searchUsers(s) PROVE SearchWaits'
  <2>1. task[s].op = "search" /\ task[s].at = "timer"
    BY <1>11 DEF searchUsers, Awaits
  <2>2. /\ \A r \in Slot \ {s} : task'[r] = task[r]
        /\ task'[s].op = "none" \/ task'[s].at = "sent"
    <3>1. CASE Ends(s)
      BY <3>1 DEF Batches, Ends, NoTask
    <3>2. CASE Await(s, "sent", task[s].arg)
      <4>1. task'[s] = [task[s] EXCEPT !.at = "sent", !.arg = task[s].arg]
            /\ \A r \in Slot \ {s} : task'[r] = task[r]
        BY <3>2 DEF Batches, Await
      <4>2. task'[s].at = "sent"
        BY <4>1 DEF Batches
      <4> QED
        BY <4>1, <4>2
    <3> QED
      BY <1>11, <3>1, <3>2 DEF searchUsers
  <2>3. Typings = {s}
    BY <2>1 DEF SearchWaits, Exactly, Typings, Tasks
  <2>4. Typings' = {}
    BY <2>2, <2>3 DEF Typings, Tasks
  <2>5. "awaiting" \in DOMAIN adm' /\ adm'.awaiting = FALSE
    BY <1>11 DEF searchUsers, SearchWaits
  <2> QED
    BY <2>4, <2>5 DEF SearchWaits, Exactly
<1>12. ASSUME NEW s \in Slot, UsersFound(s) PROVE SearchWaits'
  <2>1. task[s].at = "sent" /\ Ends(s)
    BY <1>12 DEF UsersFound, Awaits
  <2>2. task'[s].op = "none" /\ \A r \in Slot \ {s} : task'[r] = task[r]
    BY <2>1 DEF Batches, Ends, NoTask
  <2>3. Typings' = Typings
    BY <2>1, <2>2 DEF Typings, Tasks
  <2>4. "awaiting" \in DOMAIN adm' /\ adm'.awaiting = adm.awaiting
    BY <1>12 DEF UsersFound, SearchWaits
  <2> QED
    BY <2>3, <2>4 DEF SearchWaits, Exactly
<1>13. ASSUME NEW s \in Slot, NEW i, MemberAnswered(s, i) PROVE SearchWaits'
  <2>1. task[s].op \notin WaitOps
    BY <1>13 DEF MemberAnswered, Awaits, WaitOps
  <2>2. \/ UNCHANGED adm /\ (Ends(s) \/ \E b : Await(s, "sent", b))
        \/ MembersSent(s, "add")
        \/ \E rows : Reloads([task EXCEPT ![s] = NoTask], rows)
    BY <1>13 DEF MemberAnswered
  <2>3. CASE UNCHANGED adm /\ (Ends(s) \/ \E b : Await(s, "sent", b))
    BY <1>3, <2>1, <2>3, GoesAside
  <2> QED
    BY <2>1, <2>2, <2>3, RefreshedWaits, SearchAddsUsers
<1>14. ASSUME NEW s \in Slot, GoneApplied(s) PROVE SearchWaits'
  <2>1. UNCHANGED adm /\ Ends(s) /\ task[s].at = "gone"
    BY <1>14 DEF GoneApplied
  <2>2. task'[s].op = "none" /\ \A r \in Slot \ {s} : task'[r] = task[r]
    BY <2>1 DEF Batches, Ends, NoTask
  <2>3. Aside
    BY <2>1, <2>2 DEF Aside, Polls, Typings, Busied, Tasks
  <2> QED
    BY <1>3, <2>1, <2>3
<1>15. CASE AdminMoves
  <2>1. addUsers \/ confirmMove \/ cancelMove \/ ContestGoesOn \/ anotherAdmin
        \/ (\E v : typesName(v)) \/ \E u : selectUser(u) \/ removeSelectedUser(u)
    BY <1>15, MembersOnly
  <2> QED
    BY <1>5, <1>6, <1>7, <1>8, <1>9, <1>10, <2>1
<1>16. CASE AdminAnswers
  <2>1. \E s \in Slot : \/ GoneApplied(s) \/ searchUsers(s) \/ UsersFound(s)
                         \/ \E i \in Row : MemberAnswered(s, i)
    BY <1>16, MembersOnlyAnswers
  <2> QED
    BY <1>11, <1>12, <1>13, <1>14, <2>1
<1> QED
  BY <1>15, <1>16 DEF AdminNext

LEMMA WaitInit == AdminInit => WaitInv
<1> SUFFICES ASSUME AdminInit PROVE WaitInv
  OBVIOUS
<1>1. MoveInv
  BY AdminInitInv
<1>2. PICK rows : adm = Fresh(screen, rows)
  BY DEF AdminInit
<1>3. CASE screen \in Tables \cup {"members"}
  <2>1. screen \notin {"comments", "media"}
    BY <1>3 DEF Tables
  <2>2. \A s \in Slot : task[s] = NoTask
    BY <2>1 DEF AdminInit, NoTasks, FirstLoad
  <2>3. Polls = {} /\ Typings = {}
    BY <2>2 DEF NoTask, Polls, Typings, Tasks
  <2>4. screen \in Tables => TableFlags /\ ~adm.busy /\ ~adm.stats
    BY <1>2, <2>1 DEF Fresh, Tables, TableFlags
  <2>5. screen = "members" => "awaiting" \in DOMAIN adm /\ adm.awaiting = FALSE
    BY <1>2 DEF Fresh
  <2> QED
    BY <1>1, <2>3, <2>4, <2>5 DEF WaitInv, TableWaits, SearchWaits, Exactly
<1> QED
  BY <1>1, <1>3 DEF WaitInv

LEMMA WaitStep == WaitInv /\ [AdminNext]_adminVars => WaitInv'
<1>1. ASSUME WaitInv, UNCHANGED adminVars PROVE WaitInv'
  <2>1. UNCHANGED <<task, screen, adm>> /\ MoveInv'
    BY <1>1, MoveStepInv DEF adminVars, WaitInv
  <2>2. Aside
    BY <2>1, UnchangedAside
  <2> QED
    BY <1>1, <2>1, <2>2 DEF WaitInv, TableWaits, TableFlags, SearchWaits, Exactly, Aside
<1>2. ASSUME WaitInv, AdminNext PROVE WaitInv'
  <2>1. Batches /\ screen' = screen /\ MoveInv'
    BY <1>2, PageStays, MoveStepInv DEF WaitInv, MoveInv
  <2>2. screen \in Tables => TableWaits'
    BY <1>2, <2>1, TableWaitMoves, TableWaitAnswers DEF WaitInv, AdminNext
  <2>3. screen = "members" => SearchWaits'
    BY <1>2, <2>1, MembersWaits DEF WaitInv, MoveInv
  <2> QED
    BY <2>1, <2>2, <2>3 DEF WaitInv
<1> QED
  BY <1>1, <1>2

(* What a request has disabled is freed by an answer still to come, and    *)
(* the statistics and the search of users have one timer each exactly      *)
(* while the page counts on it, however they are shown, hidden, typed and  *)
(* chosen (exportUsers, resyncDynamicChallenges, searchedName, shown and   *)
(* hidden.bs.modal).                                                       *)
THEOREM WaitsAreAnswered == AdminSpec => []AdminIsAttended
<1>1. WaitInv => AdminIsAttended
  <2> SUFFICES ASSUME WaitInv PROVE AdminIsAttended
    OBVIOUS
  <2>1. ASSUME NEW S, NEW on \in BOOLEAN, Exactly(S, on)
        PROVE  Cardinality(S) = IF on THEN 1 ELSE 0
    BY <2>1, FS_EmptySet, FS_Singleton DEF Exactly
  <2> QED
    BY <2>1 DEF WaitInv, AdminIsAttended, TableWaits, TableFlags, SearchWaits, Polls, Typings,
       Busied
<1> QED
  BY <1>1, WaitInit, WaitStep, PTL DEF AdminSpec

-----------------------------------------------------------------------------
(***************************************************************************)
(* The lists of AdminConfigs, for any number of rows and of requests: the  *)
(* index of a row is its place, so that the row removed is the one deleted. *)
(***************************************************************************)

Rows == [key : Nat, id : Nat]
OnList == pane \in {"fields", "brackets"}

\* A list only loads, saves and deletes.
RowTasks ==
    /\ task = [s \in Slot |-> task[s]]
    /\ \A s \in Slot : /\ task[s].op \in {"none", "fields", "save", "delete"}
                       /\ task[s].op = "save" => task[s].arg.value \in Nat
                       /\ task[s].op = "delete" => task[s].arg.key \in conf.known

\* The identities are given in order and never twice.
ListData ==
    /\ DOMAIN conf = {"list", "index", "known", "deleted", "replaced"}
    /\ conf.list \in Seq(Rows)
    /\ conf.deleted \subseteq conf.known /\ conf.replaced \subseteq conf.known
    /\ \E n \in Nat : conf.known = 1..n
    /\ \A m, n \in 1..Len(conf.list) : conf.list[m].key = conf.list[n].key => m = n
    /\ \A n \in 1..Len(conf.list) : conf.index[conf.list[n].key] = n
    /\ Keys(conf.list) = conf.known \ (conf.deleted \cup conf.replaced)

ListServer == /\ base = [saved |-> base.saved, next |-> base.next, stored |-> base.stored,
                          logo |-> base.logo, now |-> base.now]
              /\ base.next \in Nat

\* The inductive invariant.
RowsInv == OnList => RowTasks /\ ListData /\ ListServer

LEMMA RowTakenAway ==
    ASSUME NEW S, NEW q \in Seq(S), NEW n \in 1..Len(q)
    PROVE  /\ Seqs!RemoveAt(q, n) \in Seq(S)
           /\ Len(Seqs!RemoveAt(q, n)) = Len(q) - 1
           /\ \A i \in 1..(Len(q) - 1) : Seqs!RemoveAt(q, n)[i] = IF i < n THEN q[i] ELSE q[i + 1]
<1>1. Len(q) \in Nat
  OBVIOUS
<1>2. SubSeq(q, 1, n - 1) \in Seq(S) /\ Len(SubSeq(q, 1, n - 1)) = n - 1
      /\ \A i \in 1..(n - 1) : SubSeq(q, 1, n - 1)[i] = q[i]
  BY <1>1
<1>3. SubSeq(q, n + 1, Len(q)) \in Seq(S) /\ Len(SubSeq(q, n + 1, Len(q))) = Len(q) - n
      /\ \A i \in 1..(Len(q) - n) : SubSeq(q, n + 1, Len(q))[i] = q[n + i]
  BY <1>1
<1> DEFINE a == SubSeq(q, 1, n - 1)
           b == SubSeq(q, n + 1, Len(q))
<1>4. Seqs!RemoveAt(q, n) = a \o b
  BY DEF Seqs!RemoveAt
<1> HIDE DEF a, b
<1>5. a \in Seq(S) /\ b \in Seq(S) /\ Len(a) = n - 1 /\ Len(b) = Len(q) - n
  BY <1>2, <1>3 DEF a, b
<1>6. a \o b \in Seq(S) /\ Len(a \o b) = Len(q) - 1
  BY <1>1, <1>5
<1>7. \A i \in 1..(Len(q) - 1) : (a \o b)[i] = IF i < n THEN a[i] ELSE b[i - (n - 1)]
  BY <1>1, <1>5
<1>8. \A i \in 1..(n - 1) : a[i] = q[i]
  BY <1>2 DEF a
<1>9. \A i \in 1..(Len(q) - n) : b[i] = q[n + i]
  BY <1>3 DEF b
<1>10. ASSUME NEW i \in 1..(Len(q) - 1)
       PROVE  (a \o b)[i] = IF i < n THEN q[i] ELSE q[i + 1]
  <2>1. CASE i < n
    <3>1. i \in 1..(n - 1)
      BY <1>1, <2>1
    <3> QED
      BY <1>7, <1>8, <2>1, <3>1
  <2>2. CASE ~(i < n)
    <3>1. i - (n - 1) \in 1..(Len(q) - n) /\ n + (i - (n - 1)) = i + 1
      BY <1>1, <2>2
    <3> QED
      BY <1>7, <1>9, <2>2, <3>1
  <2> QED
    BY <2>1, <2>2
<1> QED
  BY <1>4, <1>6, <1>10

\* Rendered, a row of a list without two rows of one identity has its place.
LEMMA RenderedPlaces ==
    ASSUME NEW list, NEW N \in Nat, DOMAIN list = 1..N,
           \A i, j \in 1..N : list[i].key = list[j].key => i = j
    PROVE  \A n \in 1..N : Rendered(list)[list[n].key] = n
<1> TAKE n \in 1..N
<1>1. list[n].key \in Keys(list)
  BY DEF Keys
<1>2. Rendered(list)[list[n].key] = CHOOSE m \in DOMAIN list : list[m].key = list[n].key
  BY <1>1 DEF Rendered
<1> QED
  BY <1>2

\* What a change of the list leaves to show.
LEMMA ShownList ==
    ASSUME ListData, NEW r \in Seq(Rows),
           \A i, j \in 1..Len(r) : r[i].key = r[j].key => i = j
    PROVE  /\ DOMAIN Shows(r) = {"list", "index", "known", "deleted", "replaced"}
           /\ Shows(r).list = r /\ Shows(r).known = conf.known
           /\ Shows(r).deleted = conf.deleted /\ Shows(r).replaced = conf.replaced
           /\ \A n \in 1..Len(r) : Shows(r).index[r[n].key] = n
<1>1. /\ DOMAIN Shows(r) = {"list", "index", "known", "deleted", "replaced"}
      /\ Shows(r).list = r /\ Shows(r).known = conf.known
      /\ Shows(r).deleted = conf.deleted /\ Shows(r).replaced = conf.replaced
      /\ Shows(r).index = Rendered(r)
  BY DEF Shows, ListData
<1>2. DOMAIN r = 1..Len(r) /\ Len(r) \in Nat
  OBVIOUS
<1>3. \A n \in 1..Len(r) : Rendered(r)[r[n].key] = n
  BY <1>2, RenderedPlaces
<1> QED
  BY <1>1, <1>3

LEMMA DeletedLeaves ==
    ASSUME ListData, NEW k \in conf.known, RowDeleted(k)
    PROVE  ListData' /\ conf'.known = conf.known
<1> DEFINE q == conf.list
<1>2. Len(q) \in Nat /\ DOMAIN q = 1..Len(q)
  BY DEF ListData
<1>3. CASE k \notin Keys(q)
  <2>1. conf' = [conf EXCEPT !.deleted = @ \cup {k}]
    BY <1>3 DEF RowDeleted
  <2>2. /\ DOMAIN conf' = {"list", "index", "known", "deleted", "replaced"}
        /\ conf'.list = q /\ conf'.known = conf.known /\ conf'.index = conf.index
        /\ conf'.deleted = conf.deleted \cup {k} /\ conf'.replaced = conf.replaced
    BY <2>1 DEF ListData
  <2>3. Keys(conf.list)' = conf.known \ (conf.deleted \cup {k} \cup conf.replaced)
    <3>1. Keys(conf.list)' = Keys(q)
      BY <2>2 DEF Keys
    <3> QED
      BY <1>3, <3>1 DEF ListData
  <2> QED
    BY <2>2, <2>3 DEF ListData
<1>4. CASE k \in Keys(q)
  <2> DEFINE n == conf.index[k]
             r == Seqs!RemoveAt(q, n)
  <2>1. PICK p \in 1..Len(q) : q[p].key = k
    BY <1>2, <1>4 DEF Keys
  <2>2. n \in 1..Len(q) /\ q[n].key = k
    <3>1. n = p
      BY <2>1 DEF ListData
    <3> QED
      BY <2>1, <3>1
  <2>3. q \in Seq(Rows)
    BY DEF ListData
  <2>4. /\ r \in Seq(Rows) /\ Len(r) = Len(q) - 1
        /\ \A i \in 1..(Len(q) - 1) : r[i] = IF i < n THEN q[i] ELSE q[i + 1]
    <3>1. PICK t \in Seq(Rows) : t = q
      BY <2>3
    <3>2. PICK m \in 1..Len(t) : m = n
      BY <2>2, <3>1
    <3>3. /\ Seqs!RemoveAt(t, m) \in Seq(Rows) /\ Len(Seqs!RemoveAt(t, m)) = Len(t) - 1
          /\ \A i \in 1..(Len(t) - 1) :
                Seqs!RemoveAt(t, m)[i] = IF i < m THEN t[i] ELSE t[i + 1]
      BY RowTakenAway
    <3> QED
      BY <3>1, <3>2, <3>3
  <2>5. \A i, j \in 1..Len(q) : q[i].key = q[j].key => i = j
    BY DEF ListData
  <2>6. /\ Keys(q) = conf.known \ (conf.deleted \cup conf.replaced)
        /\ conf.deleted \subseteq conf.known /\ conf.replaced \subseteq conf.known
        /\ \E m \in Nat : conf.known = 1..m
    BY DEF ListData
  <2>14. conf' = [Shows(r) EXCEPT !.deleted = @ \cup {k}]
    BY <1>4 DEF RowDeleted, removeField
  <2> HIDE DEF q, r, n
  <2>7. \A i \in 1..Len(r) : \E j \in 1..Len(q) : j # n /\ r[i] = q[j] /\ j = IF i < n THEN i ELSE i + 1
    BY <1>2, <2>2, <2>4
  <2>8. \A j \in 1..Len(q) : j # n => \E i \in 1..Len(r) : r[i] = q[j]
    <3> TAKE j \in 1..Len(q)
    <3> HAVE j # n
    <3>1. CASE j < n
      BY <1>2, <2>2, <2>4, <3>1
    <3>2. CASE j > n
      <4>1. j - 1 \in 1..Len(r) /\ ~(j - 1 < n) /\ (j - 1) + 1 = j
        BY <1>2, <2>2, <2>4, <3>2
      <4> QED
        BY <2>4, <4>1
    <3> QED
      BY <1>2, <2>2, <3>1, <3>2
  <2>9. \A i, j \in 1..Len(r) : r[i].key = r[j].key => i = j
    <3> TAKE i, j \in 1..Len(r)
    <3> HAVE r[i].key = r[j].key
    <3>1. PICK u \in 1..Len(q) : r[i] = q[u] /\ u = IF i < n THEN i ELSE i + 1
      BY <2>7
    <3>2. PICK v \in 1..Len(q) : r[j] = q[v] /\ v = IF j < n THEN j ELSE j + 1
      BY <2>7
    <3>3. u = v
      BY <2>5, <3>1, <3>2
    <3>4. i \in Nat /\ j \in Nat /\ n \in Nat
      BY <1>2, <2>2
    <3> QED
      BY <3>1, <3>2, <3>3, <3>4
  <2>10. DOMAIN r = 1..Len(r)
    BY <2>4
  <2>11. Keys(r) = Keys(q) \ {k}
    <3>1. ASSUME NEW x \in Keys(r) PROVE x \in Keys(q) /\ x # k
      <4>1. PICK i \in 1..Len(r) : x = r[i].key
        BY <2>10 DEF Keys
      <4>2. PICK j \in 1..Len(q) : j # n /\ r[i] = q[j]
        BY <2>7
      <4>3. x # k
        BY <2>2, <2>5, <4>1, <4>2
      <4> QED
        BY <1>2, <4>1, <4>2, <4>3 DEF Keys
    <3>2. ASSUME NEW x \in Keys(q), x # k PROVE x \in Keys(r)
      <4>1. PICK j \in 1..Len(q) : x = q[j].key
        BY <1>2 DEF Keys
      <4>2. PICK i \in 1..Len(r) : r[i] = q[j]
        BY <2>2, <2>8, <3>2, <4>1
      <4> QED
        BY <2>10, <4>1, <4>2 DEF Keys
    <3> QED
      BY <3>1, <3>2
  <2>12. Keys(r) = conf.known \ (conf.deleted \cup {k} \cup conf.replaced)
    BY <2>6, <2>11
  <2>13. /\ DOMAIN conf' = {"list", "index", "known", "deleted", "replaced"}
         /\ conf'.list = r /\ conf'.known = conf.known
         /\ conf'.deleted = conf.deleted \cup {k} /\ conf'.replaced = conf.replaced
         /\ \A i \in 1..Len(r) : conf'.index[r[i].key] = i
    <3>1. PICK t \in Seq(Rows) : t = r
      BY <2>4
    <3>2. /\ DOMAIN Shows(t) = {"list", "index", "known", "deleted", "replaced"}
          /\ Shows(t).list = t /\ Shows(t).known = conf.known
          /\ Shows(t).deleted = conf.deleted /\ Shows(t).replaced = conf.replaced
          /\ \A i \in 1..Len(t) : Shows(t).index[t[i].key] = i
      BY <2>9, <3>1, ShownList
    <3> QED
      BY <2>14, <3>1, <3>2
  <2>15. Keys(conf.list)' = Keys(r)
    BY <2>13 DEF Keys
  <2> QED
    BY <2>4, <2>6, <2>9, <2>12, <2>13, <2>15 DEF ListData
<1> QED
  BY <1>3, <1>4

LEMMA ListInitInv == ConfigsInit => RowsInv
<1> SUFFICES ASSUME ConfigsInit, OnList
             PROVE  RowTasks /\ ListData /\ ListServer
  BY DEF RowsInv
<1>1. conf = NoRows
  BY DEF ConfigsInit, OnList
<1>2. ListData
  <2>1. Keys(<<>>) = {}
    BY DEF Keys
  <2>2. {} = 1..0
    OBVIOUS
  <2> QED
    BY <1>1, <2>1, <2>2 DEF ListData, NoRows
<1>3. \E v, z : base = [saved |-> {}, next |-> 1, stored |-> v, logo |-> Nothing, now |-> 0]
  BY DEF ConfigsInit
<1>4. RowTasks
  <2>1. task = [NoTasks EXCEPT ![1] = FirstFields(pane)]
    BY DEF ConfigsInit
  <2>2. FirstFields(pane).op \in {"fields", "none"} /\ NoTask.op = "none"
    BY DEF FirstFields, NoTask
  <2> QED
    BY <2>1, <2>2 DEF RowTasks, NoTasks
<1> QED
  BY <1>2, <1>3, <1>4 DEF ListServer

LEMMA LoadKeepsList ==
    ASSUME ListData, NEW s, loadFields(s)
    PROVE  ListData'
<1>1. CASE UNCHANGED conf
  BY <1>1 DEF ListData, Keys
<1>2. ASSUME NEW n \in 0..2, NEW used, used = Cardinality(conf.known), NEW rows,
             rows = [j \in 1..n |-> [key |-> used + j, id |-> 100 + j]],
             conf' = [Shows(rows) EXCEPT !.known = @ \cup Keys(rows),
                                         !.replaced = @ \cup Keys(conf.list)]
      PROVE  ListData'
  <2>1. PICK m \in Nat : conf.known = 1..m
    BY DEF ListData
  <2>2. used = m
    <3>1. Cardinality(conf.known) = m
      BY <2>1, FS_Interval
    <3> QED
      BY <1>2, <3>1
  <2>3. rows \in Seq(Rows) /\ Len(rows) = n /\ DOMAIN rows = 1..n
    <3>1. \A j \in 1..n : [key |-> used + j, id |-> 100 + j] \in Rows
      BY <2>2 DEF Rows
    <3> QED
      BY <1>2, <3>1
  <2>4. \A j \in 1..n : rows[j].key = m + j
    BY <1>2, <2>2
  <2>5. Keys(rows) = (m + 1)..(m + n)
    <3>1. ASSUME NEW x \in Keys(rows) PROVE x \in (m + 1)..(m + n)
      <4>1. PICK j \in 1..n : x = rows[j].key
        BY <2>3 DEF Keys
      <4> QED
        BY <2>4, <4>1
    <3>2. ASSUME NEW x \in (m + 1)..(m + n) PROVE x \in Keys(rows)
      <4>1. x - m \in 1..n /\ m + (x - m) = x
        BY <1>2
      <4> QED
        BY <2>3, <2>4, <4>1 DEF Keys
    <3> QED
      BY <3>1, <3>2
  <2>6. conf.known \cup Keys(rows) = 1..(m + n) /\ m + n \in Nat
    BY <2>1, <2>5
  <2>7. /\ Keys(rows) = (conf.known \cup Keys(rows))
                            \ (conf.deleted \cup conf.replaced \cup Keys(conf.list))
        /\ conf.deleted \subseteq conf.known /\ conf.replaced \subseteq conf.known
        /\ Keys(conf.list) \subseteq conf.known
    <3>1. /\ Keys(conf.list) = conf.known \ (conf.deleted \cup conf.replaced)
          /\ conf.deleted \subseteq conf.known /\ conf.replaced \subseteq conf.known
      BY DEF ListData
    <3>2. conf.known = conf.deleted \cup conf.replaced \cup Keys(conf.list)
      BY <3>1
    <3>3. Keys(rows) \cap conf.known = {}
      BY <2>1, <2>5
    <3> QED
      BY <3>1, <3>2, <3>3
  <2>8. \A i, j \in 1..Len(rows) : rows[i].key = rows[j].key => i = j
    BY <2>3, <2>4
  <2>9. /\ DOMAIN conf' = {"list", "index", "known", "deleted", "replaced"}
        /\ conf'.list = rows /\ conf'.known = conf.known \cup Keys(rows)
        /\ conf'.deleted = conf.deleted
        /\ conf'.replaced = conf.replaced \cup Keys(conf.list)
        /\ \A i \in 1..Len(rows) : conf'.index[rows[i].key] = i
    <3>1. /\ DOMAIN Shows(rows) = {"list", "index", "known", "deleted", "replaced"}
          /\ Shows(rows).list = rows /\ Shows(rows).known = conf.known
          /\ Shows(rows).deleted = conf.deleted /\ Shows(rows).replaced = conf.replaced
          /\ \A i \in 1..Len(rows) : Shows(rows).index[rows[i].key] = i
      BY <2>3, <2>8, ShownList
    <3> QED
      BY <1>2, <3>1
  <2>10. /\ conf'.list \in Seq(Rows)
         /\ conf'.deleted \subseteq conf'.known /\ conf'.replaced \subseteq conf'.known
         /\ Keys(conf'.list) = conf'.known \ (conf'.deleted \cup conf'.replaced)
    BY <2>3, <2>7, <2>9
  <2>11. \E k \in Nat : conf'.known = 1..k
    BY <2>6, <2>9
  <2>12. /\ \A i, j \in 1..Len(conf'.list) : conf'.list[i].key = conf'.list[j].key => i = j
         /\ \A i \in 1..Len(conf'.list) : conf'.index[conf'.list[i].key] = i
    BY <2>8, <2>9
  <2>13. Keys(conf.list)' = Keys(conf'.list)
    BY DEF Keys
  <2> QED
    BY <2>9, <2>10, <2>11, <2>12, <2>13 DEF ListData
<1> QED
  BY <1>1, <1>2 DEF loadFields

LEMMA AddKeepsList ==
    ASSUME ListData, addField
    PROVE  ListData'
<1>1. PICK m \in Nat : conf.known = 1..m
  BY DEF ListData
<1>2. Cardinality(conf.known) = m
  BY <1>1, FS_Interval
<1> DEFINE q == conf.list
           row == [key |-> m + 1, id |-> Nothing]
<1>3. conf' = [Shows(Append(q, row)) EXCEPT !.known = @ \cup {m + 1}]
  BY <1>2 DEF addField, ListData
<1>4. q \in Seq(Rows) /\ row \in Rows
      /\ Keys(q) = conf.known \ (conf.deleted \cup conf.replaced)
      /\ \A i, j \in 1..Len(q) : q[i].key = q[j].key => i = j
  BY <1>1 DEF ListData, Rows, Nothing
<1>5. row.key = m + 1 /\ Len(q) \in Nat /\ DOMAIN q = 1..Len(q)
      /\ conf.deleted \subseteq 1..m /\ conf.replaced \subseteq 1..m
  BY <1>1, <1>4 DEF ListData
<1> DEFINE r == Append(q, row)
<1>6. /\ r \in Seq(Rows) /\ Len(r) = Len(q) + 1 /\ DOMAIN r = 1..Len(r)
      /\ r[Len(q) + 1] = row /\ \A i \in 1..Len(q) : r[i] = q[i]
  BY <1>4
<1>7. \A i \in 1..Len(q) : q[i].key \in 1..m
  BY <1>1, <1>4, <1>5 DEF Keys
<1> HIDE DEF q, row, r
<1>8. Keys(r) = Keys(q) \cup {m + 1}
  <2>1. ASSUME NEW x \in Keys(r) PROVE x \in Keys(q) \cup {m + 1}
    <3>1. PICK i \in 1..Len(r) : x = r[i].key
      BY <1>6 DEF Keys
    <3>2. CASE i = Len(q) + 1
      BY <1>5, <1>6, <3>1, <3>2
    <3>3. CASE i # Len(q) + 1
      <4>1. i \in 1..Len(q)
        BY <1>5, <1>6, <3>3
      <4> QED
        BY <1>5, <1>6, <3>1, <4>1 DEF Keys
    <3> QED
      BY <3>2, <3>3
  <2>2. ASSUME NEW x \in Keys(q) PROVE x \in Keys(r)
    <3>1. PICK i \in 1..Len(q) : x = q[i].key
      BY <1>5 DEF Keys
    <3>2. i \in 1..Len(r) /\ r[i] = q[i]
      BY <1>5, <1>6
    <3> QED
      BY <1>6, <3>1, <3>2 DEF Keys
  <2>3. m + 1 \in Keys(r)
    <3>1. Len(q) + 1 \in DOMAIN r /\ r[Len(q) + 1].key = m + 1
      BY <1>5, <1>6
    <3> QED
      BY <3>1, Zenon DEF Keys
  <2> QED
    BY <2>1, <2>2, <2>3
<1>9. \A i, j \in 1..Len(r) : r[i].key = r[j].key => i = j
  <2>1. \A i \in 1..Len(r) : i = Len(q) + 1 \/ i \in 1..Len(q)
    BY <1>5, <1>6
  <2>2. \A i \in 1..Len(q) : r[i].key # m + 1
    BY <1>6, <1>7
  <2> QED
    BY <1>4, <1>5, <1>6, <2>1, <2>2
<1>10. conf.known \cup {m + 1} = 1..(m + 1) /\ m + 1 \in Nat
  BY <1>1
<1>11. /\ Keys(r) = (conf.known \cup {m + 1}) \ (conf.deleted \cup conf.replaced)
       /\ conf.deleted \subseteq 1..(m + 1) /\ conf.replaced \subseteq 1..(m + 1)
  BY <1>1, <1>4, <1>5, <1>8
<1>12. /\ DOMAIN conf' = {"list", "index", "known", "deleted", "replaced"}
       /\ conf'.list = r /\ conf'.known = conf.known \cup {m + 1}
       /\ conf'.deleted = conf.deleted /\ conf'.replaced = conf.replaced
       /\ \A i \in 1..Len(r) : conf'.index[r[i].key] = i
  <2>1. PICK t \in Seq(Rows) : t = r
    BY <1>6
  <2>2. /\ DOMAIN Shows(t) = {"list", "index", "known", "deleted", "replaced"}
        /\ Shows(t).list = t /\ Shows(t).known = conf.known
        /\ Shows(t).deleted = conf.deleted /\ Shows(t).replaced = conf.replaced
        /\ \A i \in 1..Len(t) : Shows(t).index[t[i].key] = i
    BY <1>9, <2>1, ShownList
  <2>3. conf' = [Shows(t) EXCEPT !.known = @ \cup {m + 1}]
    BY <1>3, <2>1 DEF r
  <2> QED
    BY <2>1, <2>2, <2>3
<1>13. Keys(conf.list)' = Keys(r)
  BY <1>12 DEF Keys
<1> QED
  BY <1>6, <1>9, <1>10, <1>11, <1>12, <1>13 DEF ListData

LEMMA SaveKeepsList ==
    ASSUME ListData, NEW k, NEW id \in Nat, conf' = Learns(k, id)
    PROVE  ListData' /\ conf'.known = conf.known
<1> DEFINE q == conf.list
           r == [n \in DOMAIN q |-> IF q[n].key = k THEN [q[n] EXCEPT !.id = id] ELSE q[n]]
<1>1. CASE conf' = conf
  BY <1>1 DEF ListData, Keys
<1>2. CASE conf' = [conf EXCEPT !.list = r]
  <2>1. /\ DOMAIN conf' = {"list", "index", "known", "deleted", "replaced"}
        /\ conf'.list = r /\ conf'.known = conf.known /\ conf'.index = conf.index
        /\ conf'.deleted = conf.deleted /\ conf'.replaced = conf.replaced
    BY <1>2 DEF ListData
  <2>2. q \in Seq(Rows) /\ Len(q) \in Nat /\ DOMAIN q = 1..Len(q)
    BY DEF ListData
  <2>3. \A n \in 1..Len(q) : q[n] \in Rows
    BY <2>2
  <2>4. \A n \in 1..Len(q) : r[n] \in Rows /\ r[n].key = q[n].key
    BY <2>2, <2>3 DEF Rows
  <2>5. r = [n \in 1..Len(q) |-> r[n]]
    BY <2>2
  <2> HIDE DEF r
  <2>6. r \in Seq(Rows) /\ Len(r) = Len(q) /\ DOMAIN r = DOMAIN q
    BY <2>2, <2>4, <2>5
  <2>7. Keys(r) = Keys(q)
    BY <2>2, <2>4, <2>6 DEF Keys
  <2>8. /\ \A i, j \in 1..Len(r) : r[i].key = r[j].key => i = j
        /\ \A i \in 1..Len(r) : conf.index[r[i].key] = i
    BY <2>4, <2>6 DEF ListData
  <2>9. Keys(conf.list)' = Keys(r)
    BY <2>1 DEF Keys
  <2> QED
    BY <2>1, <2>6, <2>7, <2>8, <2>9 DEF ListData
<1> QED
  BY <1>1, <1>2 DEF Learns

\* What a step of the list does to the functions.
LEMMA ListTasksGoOn ==
    ASSUME RowTasks, conf.known \subseteq conf'.known,
           \/ UNCHANGED task
           \/ \E s \in Slot : Ends(s)
           \/ \E s \in Slot, id \in Nat : \E k : Start(s, "save", "sent", Setting(k, id))
           \/ \E s \in Slot, k \in conf.known : \E n : Start(s, "delete", "sent", Setting(k, n))
    PROVE  RowTasks'
<1>1. CASE UNCHANGED task
  BY <1>1 DEF RowTasks
<1>2. ASSUME NEW s \in Slot, Ends(s) PROVE RowTasks'
  BY <1>2 DEF RowTasks, Ends, NoTask
<1>3. ASSUME NEW s \in Slot, NEW id \in Nat, NEW k, Start(s, "save", "sent", Setting(k, id))
      PROVE  RowTasks'
  <2>1. Setting(k, id).value = id
    BY DEF Setting
  <2> QED
    BY <1>3, <2>1 DEF RowTasks, Start
<1>4. ASSUME NEW s \in Slot, NEW k \in conf.known, NEW n, Start(s, "delete", "sent", Setting(k, n))
      PROVE  RowTasks'
  <2>1. Setting(k, n).key = k
    BY DEF Setting
  <2> QED
    BY <1>4, <2>1 DEF RowTasks, Start
<1> QED
  BY <1>1, <1>2, <1>3, <1>4

LEMMA ListStepInv == RowsInv /\ [ConfigsNext]_configVars => RowsInv'
<1> SUFFICES ASSUME RowsInv, ConfigsNext, OnList PROVE RowsInv'
  <2>1. ASSUME RowsInv, UNCHANGED configVars PROVE RowsInv'
    BY <2>1 DEF RowsInv, configVars, OnList, RowTasks, ListData, ListServer, Keys
  <2>2. ASSUME ~OnList, ConfigsNext PROVE ~OnList'
    <3>1. pane' = pane
      BY <2>2 DEF ConfigsNext, ConfigsMoves, ConfigsAnswers, addField, updateConfigs, removeLogo,
         createGraphs, updateGraphs, exportChallengeAnalytics, saveField, deleteField, typesPart,
         typesTimestamp, choosesZone, setUrl, uploadLogo, smallIconUpload, importCSV, ClockTicks,
         AnalyticsAnswered, loadFields, FieldSaved, FieldDeleted, ConfigsUpdated, ImageRead,
         LogoUploaded, LogoStored, ImportAnswered, ImportEnds
    <3> QED
      BY <2>2, <3>1 DEF OnList
  <2> QED
    BY <2>1, <2>2 DEF RowsInv
<1>1. RowTasks /\ ListData /\ ListServer
  BY DEF RowsInv
<1>2. ASSUME UNCHANGED <<pane, base>>, RowTasks', ListData' PROVE RowsInv'
  BY <1>1, <1>2 DEF RowsInv, ListServer
<1>3. conf.list \in Seq(Rows) /\ \A n \in DOMAIN conf.list :
         conf.list[n].id \in Nat /\ conf.list[n].key \in conf.known
  <2>1. conf.list \in Seq(Rows) /\ Keys(conf.list) \subseteq conf.known
    BY <1>1 DEF ListData
  <2>2. DOMAIN conf.list = 1..Len(conf.list)
        /\ \A n \in 1..Len(conf.list) : conf.list[n] \in Rows
    BY <2>1
  <2>3. \A n \in DOMAIN conf.list : conf.list[n].key \in Keys(conf.list)
    BY DEF Keys
  <2> QED
    BY <2>1, <2>2, <2>3 DEF Rows
<1>4. CASE addField
  <2>1. ListData' /\ UNCHANGED <<pane, base, task>>
    BY <1>1, <1>4, AddKeepsList DEF addField
  <2>2. conf.known \subseteq conf'.known
    BY <1>1, <1>4 DEF addField, ListData, Shows
  <2> QED
    BY <1>1, <1>2, <2>1, <2>2, ListTasksGoOn
<1>5. ASSUME NEW n, saveField(n) PROVE RowsInv'
  <2>1. UNCHANGED <<pane, base, conf>> /\ n \in DOMAIN conf.list
        /\ \E s \in Slot : Start(s, "save", "sent", Setting(conf.list[n].key, conf.list[n].id))
    BY <1>5 DEF saveField
  <2>2. RowTasks'
    BY <1>1, <1>3, <2>1, ListTasksGoOn
  <2> QED
    BY <1>1, <1>2, <2>1, <2>2 DEF ListData, Keys
<1>6. ASSUME NEW k \in conf.known, RowDeleted(k)
      PROVE  ListData' /\ conf'.known = conf.known
  BY <1>1, <1>6, DeletedLeaves
<1>7. ASSUME NEW n, deleteField(n) PROVE RowsInv'
  <2>1. UNCHANGED <<pane, base>> /\ conf.list[n].key \in conf.known
    BY <1>3, <1>7 DEF deleteField
  <2>2. CASE RowDeleted(conf.list[n].key) /\ UNCHANGED task
    BY <1>1, <1>2, <1>6, <2>1, <2>2, ListTasksGoOn
  <2>3. CASE UNCHANGED conf /\ \E s \in Slot :
                 Start(s, "delete", "sent", Setting(conf.list[n].key, Nothing))
    <3>1. RowTasks'
      BY <1>1, <2>1, <2>3, ListTasksGoOn
    <3> QED
      BY <1>1, <1>2, <2>1, <2>3, <3>1 DEF ListData, Keys
  <2> QED
    BY <1>7, <2>2, <2>3 DEF deleteField
<1>8. ASSUME NEW s \in Slot, loadFields(s) PROVE RowsInv'
  <2>1. UNCHANGED <<pane, base>> /\ Ends(s) /\ ListData'
    BY <1>1, <1>8, LoadKeepsList DEF loadFields
  <2>2. conf.known \subseteq conf'.known
    <3>1. \/ UNCHANGED conf
          \/ \E rows : conf' = [Shows(rows) EXCEPT !.known = @ \cup Keys(rows),
                                                   !.replaced = @ \cup Keys(conf.list)]
      BY <1>8 DEF loadFields
    <3> QED
      BY <1>1, <3>1 DEF Shows, ListData
  <2> QED
    BY <1>1, <1>2, <2>1, <2>2, ListTasksGoOn
<1>9. ASSUME NEW s \in Slot, FieldSaved(s) PROVE RowsInv'
  <2>1. UNCHANGED pane /\ Ends(s) /\ task[s].arg.value \in Nat
    BY <1>1, <1>9 DEF FieldSaved, Awaits, RowTasks
  <2>2. \/ UNCHANGED conf \/ conf' = Learns(task[s].arg.key, base.next)
        \/ conf' = Learns(task[s].arg.key, task[s].arg.value)
    BY <1>9 DEF FieldSaved
  <2>3. ListData' /\ conf'.known = conf.known
    <3>1. CASE UNCHANGED conf
      BY <1>1, <3>1 DEF ListData, Keys
    <3>2. ASSUME NEW k, NEW id \in Nat, conf' = Learns(k, id)
          PROVE  ListData' /\ conf'.known = conf.known
      BY <1>1, <3>2, SaveKeepsList
    <3>3. base.next \in Nat
      BY <1>1 DEF ListServer
    <3> QED
      BY <2>1, <2>2, <3>1, <3>2, <3>3
  <2>4. RowTasks'
    BY <1>1, <2>1, <2>3, ListTasksGoOn
  <2>5. base' = base \/ base' = [base EXCEPT !.saved = @ \cup {base.next}, !.next = @ + 1]
    BY <1>9 DEF FieldSaved
  <2>6. ListServer'
    <3>1. CASE base' = base
      BY <1>1, <3>1 DEF ListServer
    <3>2. CASE base' = [base EXCEPT !.saved = @ \cup {base.next}, !.next = @ + 1]
      <4>1. base' = [saved |-> base.saved \cup {base.next}, next |-> base.next + 1,
                     stored |-> base.stored, logo |-> base.logo, now |-> base.now]
        BY <1>1, <3>2 DEF ListServer
      <4> QED
        BY <1>1, <4>1 DEF ListServer
    <3> QED
      BY <2>5, <3>1, <3>2
  <2> QED
    BY <2>1, <2>3, <2>4, <2>6 DEF RowsInv
<1>10. ASSUME NEW s \in Slot, FieldDeleted(s) PROVE RowsInv'
  <2>1. UNCHANGED <<pane, base>> /\ Ends(s) /\ task[s].arg.key \in conf.known
    BY <1>1, <1>10 DEF FieldDeleted, Awaits, RowTasks
  <2>2. ListData' /\ conf'.known = conf.known
    <3>1. UNCHANGED conf \/ RowDeleted(task[s].arg.key)
      BY <1>10 DEF FieldDeleted
    <3>2. CASE UNCHANGED conf
      BY <1>1, <3>2 DEF ListData, Keys
    <3> QED
      BY <1>6, <2>1, <3>1, <3>2
  <2> QED
    BY <1>1, <1>2, <2>1, <2>2, ListTasksGoOn
<1>11. CASE ConfigsMoves
  BY <1>4, <1>5, <1>7, <1>11 DEF ConfigsMoves, updateConfigs, removeLogo, createGraphs,
     updateGraphs, exportChallengeAnalytics, typesPart, typesTimestamp, choosesZone, setUrl,
     uploadLogo, smallIconUpload, importCSV, OnList
<1>12. CASE ConfigsAnswers
  <2>1. \A s \in Slot : task[s].op \notin {"config", "logo", "import"}
    BY <1>1 DEF RowTasks
  <2> QED
    BY <1>8, <1>9, <1>10, <1>12, <2>1 DEF ConfigsAnswers, ClockTicks, ConfigsUpdated, ImageRead,
       LogoUploaded, LogoStored, ImportAnswered, ImportEnds, Awaits, OnList
<1> QED
  BY <1>11, <1>12 DEF ConfigsNext

(* The rows that have left the page are those whose own deletion was       *)
(* accepted and those that the server's list has replaced, although each   *)
(* is removed by its place: however many deletions are pending, and        *)
(* wherever the other rows have moved to (deleteField, removeField).       *)
THEOREM OwnRowLeaves == ConfigsSpec => []GoneIsDeleted
<1>1. RowsInv => GoneIsDeleted
  BY DEF RowsInv, OnList, ListData, GoneIsDeleted
<1> QED
  BY <1>1, ListInitInv, ListStepInv, PTL DEF ConfigsSpec
-----------------------------------------------------------------------------
(***************************************************************************)
(* TabMaster, for every set of tabs, any number of late pings and of       *)
(* events on their way.                                                    *)
(***************************************************************************)

Events(box) == {box[i] : i \in 1..Len(box)}

\* No tab hears of itself: the browser raises no event where it was written.
NoEcho == \A w \in Window : w \notin tab[w].others /\ \A e \in Events(inbox[w]) : e.id # w

MasterInv == MasterTypeOK /\ NoEcho

TabStep(w) == \/ Opens(w) \/ destroy(w) \/ Killed(w)
              \/ check(w) \/ sendPing(w) \/ handleEvent(w)
              \/ \E v \in Window : Silent(w, v) \/ Late(w, v)

LEMMA EventsAppended ==
    ASSUME NEW box \in Seq(Message), NEW m \in Message
    PROVE  Append(box, m) \in Seq(Message) /\ Events(Append(box, m)) \subseteq Events(box) \cup {m}
BY AppendProperties DEF Events

LEMMA EventsTaken ==
    ASSUME NEW box \in Seq(Message), box # <<>>
    PROVE  /\ Tail(box) \in Seq(Message) /\ Events(Tail(box)) \subseteq Events(box)
           /\ Head(box) \in Events(box) /\ Head(box) \in Message
<1>1. /\ Tail(box) \in Seq(Message) /\ Head(box) \in Message
      /\ Len(Tail(box)) = Len(box) - 1
      /\ \A i \in 1..Len(Tail(box)) : Tail(box)[i] = box[i + 1]
  BY HeadTailProperties
<1>2. Len(box) \in Nat /\ Len(box) > 0 /\ Head(box) = box[1]
  BY EmptySeq
<1>3. \A i \in 1..Len(Tail(box)) : i + 1 \in 1..Len(box)
  BY <1>1, <1>2
<1> QED
  BY <1>1, <1>2, <1>3 DEF Events

\* What is left when a tab has handled its oldest event.
LEMMA RestEvents ==
    ASSUME MasterTypeOK, NEW w \in Window, NEW m, Received(w, m)
    PROVE  /\ Rest(w) \in [Window -> Seq(Message)]
           /\ \A v \in Window : Events(Rest(w)[v]) \subseteq Events(inbox[v])
           /\ m \in Events(inbox[w]) /\ m \in Message
<1>1. inbox[w] \in Seq(Message) /\ inbox[w] # <<>> /\ m = Head(inbox[w])
  BY DEF MasterTypeOK, Received
<1>2. /\ Tail(inbox[w]) \in Seq(Message) /\ Events(Tail(inbox[w])) \subseteq Events(inbox[w])
      /\ m \in Events(inbox[w]) /\ m \in Message
  BY <1>1, EventsTaken
<1> QED
  BY <1>2 DEF Rest, MasterTypeOK

\* An event that is new in a step of a tab is that tab's, in another one, and a
\* ping unless the step opens or closes the tab.
News(w, v, e) == /\ e.id = w /\ v # w
                 /\ e.type # "ping" => life' # life
                 /\ e.type = "ping" => w \in Open

LEMMA BroadcastIsNews ==
    ASSUME NEW boxes \in [Window -> Seq(Message)],
           \A v \in Window : Events(boxes[v]) \subseteq Events(inbox[v]),
           NEW w \in Window, NEW t \in {"hello", "ping", "bye"},
           t # "ping" => life' # life, t = "ping" => w \in Open,
           NEW new, new = Raised(boxes, Open, Says(w, t))
    PROVE  /\ new \in [Window -> Seq(Message)]
           /\ \A v \in Window : \A e \in Events(new[v]) \ Events(inbox[v]) : News(w, v, e)
<1>1. PICK m \in Message : m = Says(w, t) /\ m.id = w /\ m.type = t
  BY DEF Says, Message
<1>2. CASE m = cell
  BY <1>1, <1>2 DEF Raised
<1>3. CASE m # cell
  <2>1. new = [v \in Window |-> IF v \in Open \ {w} THEN Append(boxes[v], m) ELSE boxes[v]]
    BY <1>1, <1>3 DEF Raised
  <2>2. \A v \in Window : boxes[v] \in Seq(Message)
    OBVIOUS
  <2>3. /\ new \in [Window -> Seq(Message)]
        /\ \A v \in Window : /\ Events(new[v]) \subseteq Events(boxes[v]) \cup {m}
                             /\ v = w => new[v] = boxes[v]
    BY <2>1, <2>2, EventsAppended
  <2> QED
    BY <1>1, <2>3 DEF News
<1> QED
  BY <1>2, <1>3

LEMMA NewEvents ==
    ASSUME MasterTypeOK, NEW w \in Window, TabStep(w)
    PROVE  /\ inbox' \in [Window -> Seq(Message)]
           /\ \A v \in Window : \A e \in Events(inbox'[v]) \ Events(inbox[v]) : News(w, v, e)
<1>1. inbox \in [Window -> Seq(Message)] /\ Open \in SUBSET Window
  BY DEF MasterTypeOK, Open
<1>2. ASSUME NEW boxes \in [Window -> Seq(Message)], inbox' = [boxes EXCEPT ![w] = <<>>],
             \A v \in Window : \A e \in Events(boxes[v]) \ Events(inbox[v]) : News(w, v, e)
      PROVE  /\ inbox' \in [Window -> Seq(Message)]
             /\ \A v \in Window : \A e \in Events(inbox'[v]) \ Events(inbox[v]) : News(w, v, e)
  <2>1. <<>> \in Seq(Message) /\ Events(<<>>) = {}
    BY EmptySeq DEF Events
  <2> QED
    BY <1>2, <2>1
<1>3. CASE Opens(w)
  <2>1. life' # life /\ inbox' = Raised(inbox, Open, Says(w, "hello"))
    BY <1>3 DEF Opens, MasterTypeOK
  <2> QED
    BY <1>1, <2>1, BroadcastIsNews DEF Raised
<1>4. CASE destroy(w)
  <2>1. PICK boxes : /\ boxes = Raised(inbox, Open, Says(w, "bye"))
                     /\ inbox' = [boxes EXCEPT ![w] = <<>>] /\ life' # life
    BY <1>4 DEF destroy, Leaves, Open, MasterTypeOK
  <2>2. /\ boxes \in [Window -> Seq(Message)]
        /\ \A v \in Window : \A e \in Events(boxes[v]) \ Events(inbox[v]) : News(w, v, e)
    BY <1>1, <2>1, BroadcastIsNews DEF Raised
  <2> QED
    BY <1>2, <2>1, <2>2
<1>5. CASE Killed(w)
  BY <1>1, <1>2, <1>5 DEF Killed
<1>6. CASE sendPing(w)
  <2>1. w \in Open /\ inbox' = Raised(inbox, Open, Says(w, "ping"))
    BY <1>6 DEF sendPing
  <2> QED
    BY <1>1, <2>1, BroadcastIsNews DEF Raised
<1>7. ASSUME NEW m, Received(w, m), inbox' = Rest(w)
      PROVE  /\ inbox' \in [Window -> Seq(Message)]
             /\ \A v \in Window : Events(inbox'[v]) \subseteq Events(inbox[v])
  BY <1>7, RestEvents
<1>8. CASE hello(w)
  <2>1. PICK v \in Window :
           /\ Received(w, Says(v, "hello"))
           /\ inbox' = Rest(w) \/ inbox' = Raised(Rest(w), Open, Says(w, "ping"))
    BY <1>8 DEF hello
  <2>2. CASE inbox' = Rest(w)
    BY <1>7, <2>1, <2>2
  <2>3. CASE inbox' = Raised(Rest(w), Open, Says(w, "ping"))
    <3>1. PICK boxes \in [Window -> Seq(Message)] :
             boxes = Rest(w) /\ \A u \in Window : Events(boxes[u]) \subseteq Events(inbox[u])
      BY <2>1, RestEvents
    <3>2. inbox' = Raised(boxes, Open, Says(w, "ping")) /\ w \in Open
      BY <2>1, <2>3, <3>1 DEF Received
    <3> QED
      BY <3>1, <3>2, BroadcastIsNews DEF Raised
  <2> QED
    BY <2>1, <2>2, <2>3
<1>9. CASE ping(w) \/ bye(w)
  BY <1>7, <1>9 DEF ping, bye
<1>10. CASE check(w) \/ \E v \in Window : Silent(w, v) \/ Late(w, v)
  BY <1>1, <1>10 DEF check, Silent, Late, GoesStale
<1> QED
  BY <1>3, <1>4, <1>5, <1>6, <1>8, <1>9, <1>10 DEF TabStep, handleEvent

TabRecord == [others : SUBSET Window, stale : SUBSET Window, isMaster : BOOLEAN]

\* What a step can do to the memory of a tab: nothing, forget, recheck or note
\* somebody it has heard of.
LEMMA MemoryStep ==
    ASSUME MasterTypeOK, NEW w \in Window, TabStep(w)
    PROVE  /\ tab' \in [Window -> TabRecord]
           /\ \A u \in Window : u # w => tab'[u] = tab[u]
           /\ \A v \in tab'[w].others :
                 v \in tab[w].others \/ \E e \in Events(inbox[w]) : e.id = v
<1>0. tab \in [Window -> TabRecord] /\ tab[w] \in TabRecord /\ NewTab \in TabRecord
  BY DEF MasterTypeOK, TabRecord, NewTab
<1>1. \A t \in TabRecord : Rechecked(t, w) \in TabRecord /\ Rechecked(t, w).others \subseteq t.others
  BY DEF Rechecked, TabRecord
<1>2. \A t \in TabRecord, v \in Window :
         /\ Noted(t, v) \in TabRecord /\ Noted(t, v).others \subseteq t.others \cup {v}
         /\ Forgotten(t, v) \in TabRecord /\ Forgotten(t, v).others \subseteq t.others
  BY DEF Noted, Forgotten, TabRecord
<1>3. CASE Opens(w) \/ sendPing(w)
  BY <1>0, <1>3 DEF Opens, sendPing
<1>4. CASE Leaves(w)
  BY <1>0, <1>4 DEF Leaves, NewTab
<1>5. CASE check(w)
  BY <1>0, <1>1, <1>5 DEF check
<1>6. CASE handleEvent(w)
  <2>1. PICK v \in Window, t \in {"hello", "ping", "bye"} :
           /\ Received(w, Says(v, t))
           /\ \/ tab' = [tab EXCEPT ![w] = Rechecked(Noted(@, v), w)]
              \/ tab' = [tab EXCEPT ![w] = Noted(@, v)]
              \/ tab' = [tab EXCEPT ![w] = Rechecked(Forgotten(@, v), w)]
    BY <1>6 DEF handleEvent, hello, ping, bye
  <2>2. \E e \in Events(inbox[w]) : e.id = v
    BY <2>1, RestEvents DEF Says
  <2>3. CASE tab' = [tab EXCEPT ![w] = Rechecked(Noted(@, v), w)]
    BY <1>0, <1>1, <1>2, <2>2, <2>3
  <2>4. CASE tab' = [tab EXCEPT ![w] = Noted(@, v)]
    BY <1>0, <1>2, <2>2, <2>4
  <2>5. CASE tab' = [tab EXCEPT ![w] = Rechecked(Forgotten(@, v), w)]
    BY <1>0, <1>1, <1>2, <2>5
  <2> QED
    BY <2>1, <2>3, <2>4, <2>5
<1>7. ASSUME NEW v \in Window, GoesStale(w, v)
      PROVE  /\ tab' \in [Window -> TabRecord]
             /\ \A u \in Window : u # w => tab'[u] = tab[u]
             /\ tab'[w].others = tab[w].others
  BY <1>0, <1>7 DEF GoesStale, TabRecord
<1> QED
  BY <1>3, <1>4, <1>5, <1>6, <1>7 DEF TabStep, destroy, Killed, Silent, Late

LEMMA MasterInductive ==
    ASSUME MasterInv, [MasterNext]_masterVars
    PROVE  MasterInv'
<1>1. ASSUME NEW w \in Window, TabStep(w) PROVE MasterInv'
  <2>1. inbox' \in [Window -> Seq(Message)] /\ tab' \in [Window -> TabRecord]
    BY <1>1, NewEvents, MemoryStep DEF MasterInv
  <2>2. life' \in [Window -> {"unopened", "open", "gone"}]
    BY <1>1 DEF TabStep, Opens, destroy, Killed, Leaves, check, sendPing, handleEvent, hello, ping,
                bye, Silent, Late, GoesStale, MasterInv, MasterTypeOK
  <2>3. cell' \in Message \cup {NoMessage}
    <3>1. \A t \in {"hello", "ping", "bye"} : Says(w, t) \in Message
      BY DEF Says, Message
    <3>2. cell' = cell \/ \E t \in {"hello", "ping", "bye"} : cell' = Says(w, t)
      BY <1>1 DEF TabStep, Opens, destroy, Killed, check, sendPing, handleEvent, hello, ping,
                  bye, Silent, Late, GoesStale
    <3> QED
      BY <3>1, <3>2 DEF MasterInv, MasterTypeOK
  <2>4. late' \in 0..MaxLate
    <3>1. late' = late \/ (late < MaxLate /\ late' = late + 1)
      BY <1>1 DEF TabStep, Opens, destroy, Killed, Leaves, check, sendPing, handleEvent, hello, ping,
                  bye, Silent, Late
    <3> QED
      BY <3>1, MasterAssumption DEF MasterInv, MasterTypeOK
  <2>5. MasterTypeOK'
    BY <2>1, <2>2, <2>3, <2>4 DEF MasterTypeOK, TabRecord
  <2>6. NoEcho'
    <3>1. ASSUME NEW u \in Window PROVE u \notin tab'[u].others
      BY <1>1, <3>1, MemoryStep DEF MasterInv, NoEcho
    <3>2. ASSUME NEW u \in Window, NEW e \in Events(inbox'[u]) PROVE e.id # u
      BY <1>1, <3>2, NewEvents DEF MasterInv, NoEcho, News
    <3> QED
      BY <3>1, <3>2 DEF NoEcho
  <2> QED
    BY <2>5, <2>6 DEF MasterInv
<1>2. CASE UNCHANGED masterVars
  BY <1>2 DEF masterVars, MasterInv, MasterTypeOK, NoEcho, Events
<1> QED
  BY <1>1, <1>2 DEF MasterNext, TabStep

LEMMA MasterInitInv == MasterInit => MasterInv
<1>1. <<>> \in Seq(Message) /\ Events(<<>>) = {}
  BY EmptySeq DEF Events
<1> QED
  BY <1>1, MasterAssumption DEF MasterInit, MasterInv, MasterTypeOK, NoEcho, NewTab

(* However many tabs there are and whatever they say, they keep their      *)
(* types (the fields of WindowController and the events of wc.js).         *)
THEOREM MasterTyped == MasterSpec => []MasterTypeOK
<1>1. MasterInv => MasterTypeOK
  BY DEF MasterInv
<1> QED
  BY <1>1, MasterInitInv, MasterInductive, PTL DEF MasterSpec

\* The memory of a tab w that knows all the tabs, ws, and who is the master.
Knows(t, w, ws) == /\ t \in TabRecord /\ t.others = ws \ {w} /\ t.stale = {}
                   /\ t.isMaster <=> \A v \in ws : w <= v

LEMMA RecheckKnows ==
    ASSUME MasterTypeOK, NEW w \in Open, NEW t \in TabRecord, t.others = Open \ {w}, t.stale = {}
    PROVE  Knows(Rechecked(t, w), w, Open)
<1>1. w \in Nat /\ \A v \in Open : v \in Nat
  BY MasterAssumption DEF Open
<1>2. \A v \in Open : w <= v <=> v = w \/ v > w
  BY <1>1
<1>3. (\A v \in Open \ {w} : v > w) <=> \A v \in Open : w <= v
  BY <1>1, <1>2
<1> QED
  BY <1>3 DEF Knows, Rechecked, TabRecord

LEMMA SettledKnows ==
    ASSUME MasterTypeOK
    PROVE  Settled <=> \A w \in Open : /\ Knows(tab[w], w, Open)
                                       /\ \A e \in Events(inbox[w]) : e.type = "bye" <=> e.id \notin Open
<1>1. \A w \in Open : tab[w] \in TabRecord
  BY DEF MasterTypeOK, TabRecord, Open
<1>2. \A w \in Open : (\A i \in 1..Len(inbox[w]) : inbox[w][i].type = "bye" <=> inbox[w][i].id \notin Open)
                     <=> \A e \in Events(inbox[w]) : e.type = "bye" <=> e.id \notin Open
  BY DEF Events
<1> QED
  BY <1>1, <1>2 DEF Settled, Knows

LEMMA SettledInductive ==
    ASSUME MasterInv, [MasterNext]_masterVars, Settled, UNCHANGED <<life, late>>
    PROVE  Settled'
<1>1. MasterTypeOK /\ MasterTypeOK' /\ Open' = Open
  BY MasterInductive DEF MasterInv, Open
<1>2. \A w \in Open : /\ w \in Window /\ tab[w] \in TabRecord /\ Knows(tab[w], w, Open)
                      /\ \A e \in Events(inbox[w]) : e.type = "bye" <=> e.id \notin Open
  BY <1>1, SettledKnows DEF Knows, Open
<1>3. CASE UNCHANGED <<tab, inbox>>
  BY <1>1, <1>3 DEF Settled
<1>4. ASSUME NEW w \in Window, TabStep(w), w \in Open, NEW t, Knows(t, w, Open), tab' = [tab EXCEPT ![w] = t]
      PROVE  Settled'
  <2>1. \A u \in Open : Knows(tab'[u], u, Open)
    BY <1>1, <1>2, <1>4 DEF Knows, MasterTypeOK
  <2>2. \A u \in Open : \A e \in Events(inbox'[u]) : e.type = "bye" <=> e.id \notin Open
    <3> SUFFICES ASSUME NEW u \in Open, NEW e \in Events(inbox'[u])
                 PROVE  e.type = "bye" <=> e.id \notin Open
      OBVIOUS
    <3>1. CASE e \in Events(inbox[u])
      BY <1>2, <3>1
    <3>2. CASE e \notin Events(inbox[u])
      <4>1. News(w, u, e)
        BY <1>1, <1>2, <1>4, <3>2, NewEvents
      <4> QED
        BY <1>4, <4>1 DEF News
    <3> QED
      BY <3>1, <3>2
  <2> QED
    BY <1>1, <2>1, <2>2 DEF Settled, Knows, Events
<1>5. ASSUME NEW w \in Window, check(w) PROVE Settled'
  BY <1>1, <1>2, <1>4, <1>5, RecheckKnows DEF check, Knows, TabStep
<1>6. ASSUME NEW w \in Window, sendPing(w) PROVE Settled'
  <2>1. w \in Open /\ tab' = [tab EXCEPT ![w] = tab[w]]
    BY <1>1, <1>6 DEF sendPing, MasterTypeOK
  <2> QED
    BY <1>2, <1>4, <1>6, <2>1 DEF TabStep
<1>7. ASSUME NEW w \in Window, handleEvent(w) PROVE Settled'
  <2>1. PICK v \in Window, t \in {"hello", "ping", "bye"} :
           /\ Received(w, Says(v, t))
           /\ \/ t # "bye" /\ tab' = [tab EXCEPT ![w] = Rechecked(Noted(@, v), w)]
              \/ t # "bye" /\ tab' = [tab EXCEPT ![w] = Noted(@, v)]
              \/ t = "bye" /\ tab' = [tab EXCEPT ![w] = Rechecked(Forgotten(@, v), w)]
    BY <1>7 DEF handleEvent, hello, ping, bye
  <2>2. w \in Open /\ v # w /\ (t = "bye" <=> v \notin Open)
    <3>1. Says(v, t) \in Events(inbox[w]) /\ Says(v, t).id = v /\ Says(v, t).type = t /\ w \in Open
      BY <1>1, <2>1, RestEvents DEF Says, Received
    <3> QED
      BY <1>2, <3>1 DEF MasterInv, NoEcho
  <2>3. /\ tab[w].others = Open \ {w} /\ tab[w].stale = {}
        /\ tab[w] = [others |-> tab[w].others, stale |-> tab[w].stale, isMaster |-> tab[w].isMaster]
    BY <1>2, <2>2 DEF Knows, TabRecord
  <2>4. t # "bye" => Noted(tab[w], v) = tab[w]
    <3>1. t # "bye" => (Open \ {w}) \cup {v} = Open \ {w} /\ {} \ {v} = {}
      BY <2>2
    <3> QED
      BY <2>3, <3>1 DEF Noted
  <2>5. t = "bye" => Forgotten(tab[w], v) = tab[w]
    <3>1. t = "bye" => (Open \ {w}) \ {v} = Open \ {w} /\ {} \ {v} = {}
      BY <2>2
    <3> QED
      BY <2>3, <3>1 DEF Forgotten
  <2>6. Knows(tab[w], w, Open) /\ Knows(Rechecked(tab[w], w), w, Open)
    BY <1>1, <1>2, <2>2, <2>3, RecheckKnows
  <2>7. \/ tab' = [tab EXCEPT ![w] = Rechecked(tab[w], w)]
        \/ tab' = [tab EXCEPT ![w] = tab[w]]
    BY <1>2, <2>1, <2>4, <2>5
  <2> QED
    BY <1>4, <1>7, <2>2, <2>6, <2>7 DEF TabStep
<1>8. ASSUME NEW w \in Window, NEW v \in Window, Silent(w, v) \/ Late(w, v) PROVE FALSE
  <2>1. CASE Silent(w, v)
    BY <1>2, <2>1 DEF Silent, GoesStale, Knows, Open
  <2>2. CASE Late(w, v)
    BY <1>1, <2>2 DEF Late, MasterTypeOK
  <2> QED
    BY <1>8, <2>1, <2>2
<1>9. ASSUME NEW w \in Window, Opens(w) \/ destroy(w) \/ Killed(w) PROVE FALSE
  BY <1>1, <1>9 DEF Opens, destroy, Killed, Leaves, Open, MasterTypeOK
<1> QED
  BY <1>3, <1>5, <1>6, <1>7, <1>8, <1>9 DEF MasterNext, masterVars

\* Among tabs there is one with the least number.
LEMMA LeastExists ==
    ASSUME MasterTypeOK, Open # {}
    PROVE  Least \in Open /\ \A v \in Open : Least <= v
<1>1. Open \subseteq Nat
  BY MasterAssumption DEF Open
<1>2. PICK less : less = OpToRel(<, Nat) /\ IsWellFoundedOn(less, Nat)
  BY NatLessThanWellFounded
<1>3. PICK w \in Open : \A v \in Open : <<v, w>> \notin less
  BY <1>1, <1>2, WFMin
<1>4. \A v \in Open : w <= v
  <2> SUFFICES ASSUME NEW v \in Open, v < w PROVE FALSE
    BY <1>1
  <2>1. <<v, w>> \in less
    BY <1>1, <1>2 DEF OpToRel
  <2> QED
    BY <1>3, <2>1
<1> QED
  BY <1>4 DEF Least

(* An election that is over stays over, with one master, until a tab comes *)
(* or goes or a ping is late, for any number of tabs (hello, ping, bye and *)
(* check of wc.js).                                                        *)
THEOREM ElectionIsStable == MasterSpec => SettledStays /\ [](Settled => OneMaster)
<1>1. MasterInv /\ [MasterNext]_masterVars
        => [Settled /\ UNCHANGED <<life, late>> => Settled']_masterVars
  BY SettledInductive
<1>2. MasterInv => (Settled => OneMaster)
  <2> SUFFICES ASSUME MasterInv, Settled, Open # {} PROVE Masters = {Least}
    BY DEF OneMaster
  <2>1. Least \in Open /\ \A v \in Open : Least <= v
    BY LeastExists DEF MasterInv
  <2>2. \A w \in Open : w \in Nat
    BY MasterAssumption DEF Open
  <2>3. \A w \in Open : tab[w].isMaster <=> w = Least
    BY <2>1, <2>2 DEF Settled
  <2> QED
    BY <2>1, <2>3 DEF Masters
<1> QED
  BY <1>1, <1>2, MasterInitInv, MasterInductive, PTL DEF MasterSpec, SettledStays

=============================================================================
