--------------------------- MODULE ChallengeEditor ---------------------------
(***************************************************************************)
(* The parts of the administrators' page of a challenge that are Vue       *)
(* components: the lists of hints, flags, tags, topics and files with      *)
(* their forms, the requirements, the next challenge, and the tag picker   *)
(* of the challenge list.  Each works alone on its own data of the server, *)
(* which other administrators change too; the part modelled is chosen at   *)
(* the start.  A confirmation blocks the page and is one step with the     *)
(* request that follows it.                                                *)
(***************************************************************************)
EXTENDS Tab

CONSTANTS
    Entry,      \* ids of the entries of a list, or of the other challenges
    Word        \* texts typed for a topic or a tag; Nothing is the empty text

ASSUME EditorAssumption == Entry \subseteq Nat \ {0} /\ Nothing \in Word /\ Word \subseteq Nat

VARIABLES
    part,       \* the component
    edit,       \* its data
    kept        \* server: the entries, and whose content each one has

editorVars == <<task, moves, part, edit, kept>>

Lists == {"hint", "flag", "tag", "topic", "file"}
Choices == {"reqs", "next"}

NoEntry == [i |-> Nothing, of |-> Nothing, set |-> {}]
About(i, of) == [i |-> i, of |-> of, set |-> {}]
Loading(caller) == [op |-> "load", at |-> "sent", arg |-> About(caller, Nothing)]
Entries == {i \in Entry : kept[i] # Nothing}

\* The data of a component at its creation.
NewData(p) ==
    CASE p \in {"hint", "flag"} ->
           [list |-> {}, modal |-> "none", id |-> Nothing, of |-> Nothing]
      [] p = "tag" -> [list |-> {}]
      [] p = "topic" -> [list |-> {}, value |-> Nothing, results |-> 0, cursor |-> 0,
                         awaiting |-> FALSE]
      [] p = "file" -> [list |-> {}, uploading |-> FALSE]
      [] p \in Choices -> [known |-> FALSE, offered |-> FALSE, now |-> {}, selected |-> {}]
      [] OTHER -> [value |-> Nothing, suggested |-> {}, selected |-> {}, hidden |-> {}]

\* created(): every component loads; requirements and next challenge also load the
\* challenges; the picker starts with the tags of the URL, not resolved yet.
EditorInit ==
    /\ part \in Lists \cup Choices \cup {"picker"}
    /\ kept \in [Entry -> Entry \cup {Nothing}]
    /\ \A i \in Entry : kept[i] \in {i, Nothing}
    /\ IF part = "picker"
       THEN \E w \in SUBSET (Word \ {Nothing}) :
               edit = [NewData(part) EXCEPT !.selected = {<<Nothing, v>> : v \in w},
                                             !.hidden = w]
       ELSE edit = NewData(part)
    /\ task = [NoTasks EXCEPT ![1] = Loading(Nothing),
                  ![2] = IF part \in Choices THEN [Loading(Nothing) EXCEPT !.op = "offer"]
                         ELSE NoTask]
    /\ moves = 0

-----------------------------------------------------------------------------
(* Lists.                                                                  *)

\* The server reads the list in one step, the page receives it in another.
ServerReads(s) ==
    /\ Awaits(s, "load", "sent")
    /\ Await(s, "read", [task[s].arg EXCEPT !.set = Entries])
    /\ UNCHANGED <<part, edit, kept>>

\* loadHints stores what comes even after an error; the others keep their list.
\* The form that asked for the list (1: creation, 2: edition) is hidden by it.
Hides(caller, e) == IF (caller = 1 /\ e.modal = "create") \/ (caller = 2 /\ e.modal = "edit")
                    THEN [e EXCEPT !.modal = "none"] ELSE e
ListShown(s) ==
    LET a == task[s].arg IN
    /\ part \in Lists /\ Awaits(s, "load", "read") /\ Ends(s)
    /\ \/ edit' = IF part = "hint" THEN Hides(a.i, [edit EXCEPT !.list = a.set])
                  ELSE [edit EXCEPT !.list = a.set]
       \/ edit' = IF part = "hint" THEN [edit EXCEPT !.list = {}] ELSE edit
    /\ UNCHANGED <<part, kept>>

\* addHint, addFlag, editHint and editFlag open a modal form; the watch on the id
\* loads the entry when it is another one than the last.
addEntry ==
    /\ part \in {"hint", "flag"} /\ edit.modal = "none"
    /\ edit' = [edit EXCEPT !.modal = "create"] /\ UNCHANGED <<task, part, kept>>
editEntry(i) ==
    /\ part \in {"hint", "flag"} /\ edit.modal = "none" /\ i \in edit.list
    /\ edit' = [edit EXCEPT !.modal = "edit", !.id = i]
    /\ IF i = edit.id THEN UNCHANGED task
       ELSE \E s \in Slot : FreeSlot(s) /\ Start(s, "form", "sent", About(i, Nothing))
    /\ UNCHANGED <<part, kept>>
closeModal ==
    /\ part \in {"hint", "flag"} /\ edit.modal # "none"
    /\ edit' = [edit EXCEPT !.modal = "none"] /\ UNCHANGED <<task, part, kept>>

\* loadHint, loadFlag: the form is filled whatever entry is edited by then.
FormFilled(s) ==
    /\ Awaits(s, "form", "sent") /\ Ends(s)
    /\ edit' \in {[edit EXCEPT !.of = task[s].arg.i], edit}
    /\ UNCHANGED <<part, kept>>

\* submitHint, submitFlag, addTag and addTopic; the forms stay usable.
submitEntry ==
    /\ \/ part \in {"hint", "flag"} /\ edit.modal = "create"
       \/ part = "tag"
       \/ part = "topic" /\ edit.cursor <= edit.results
    /\ \E s \in Slot : FreeSlot(s) /\ Start(s, "create", "sent", NoEntry)
    /\ UNCHANGED <<part, edit, kept>>

\* updateHint, updateFlag: the entry is that of the id, the content the form's.
updateEntry ==
    /\ part \in {"hint", "flag"} /\ edit.modal = "edit" /\ edit.of # Nothing
    /\ \E s \in Slot : FreeSlot(s) /\ Start(s, "update", "sent", About(edit.id, edit.of))
    /\ UNCHANGED <<part, edit, kept>>
deleteEntry(i) ==
    /\ part \in Lists /\ i \in edit.list
    /\ part \in {"hint", "flag"} => edit.modal = "none"
    /\ \E s \in Slot : FreeSlot(s) /\ Start(s, "delete", "sent", About(i, Nothing))
    /\ UNCHANGED <<part, edit, kept>>

\* An entry created or changed: its list is loaded.  The flag forms are hidden at
\* once and do not look at success; the text of a topic is taken back, which the
\* watch on it notices.
Cleans(e) ==
    CASE part = "flag" -> [e EXCEPT !.modal = "none"]
      [] part = "topic" -> [e EXCEPT !.value = Nothing, !.awaiting = @ \/ e.value # Nothing]
      [] OTHER -> e
Watched(t) == \* the timer of the watch, if it has to start
    IF part = "topic" /\ edit.value # Nothing /\ ~edit.awaiting
    THEN \E r \in Slot : /\ t[r] = NoTask
                         /\ task' = [t EXCEPT ![r] = [op |-> "search", at |-> "timer", arg |-> NoEntry]]
    ELSE task' = t
Changed(s) ==
    LET a == task[s].arg  caller == IF task[s].op = "create" THEN 1 ELSE 2 IN
    /\ task[s].op \in {"create", "update"} /\ task[s].at = "sent" /\ part # "picker"
    /\ \/ /\ IF task[s].op = "create"
             THEN \E i \in Entry \ Entries : kept' = [kept EXCEPT ![i] = i]
             ELSE a.i \in Entries /\ kept' = [kept EXCEPT ![a.i] = a.of]
          /\ Watched([task EXCEPT ![s] = Loading(caller)]) /\ edit' = Cleans(edit)
       \/ /\ part = "flag" /\ task' = [task EXCEPT ![s] = Loading(caller)]
          /\ edit' = Cleans(edit) /\ UNCHANGED kept
       \/ Ends(s) /\ UNCHANGED <<edit, kept>>
    /\ UNCHANGED part
Deleted(s) ==
    LET i == task[s].arg.i IN
    /\ Awaits(s, "delete", "sent")
    /\ \/ i \in Entries /\ kept' = [kept EXCEPT ![i] = Nothing] /\ task' = [task EXCEPT ![s] = Loading(Nothing)]
       \/ Ends(s) /\ UNCHANGED kept
    /\ UNCHANGED <<part, edit>>
OtherAdmin ==
    /\ part \in Lists
    /\ \E i \in Entry : kept' = [kept EXCEPT ![i] = IF @ = Nothing THEN i ELSE Nothing]
    /\ UNCHANGED <<task, part, edit>>

-----------------------------------------------------------------------------
(* Files.                                                                  *)

\* addFiles: one upload at a time; the list is loaded 700 ms after its end.
addFiles ==
    /\ part = "file" /\ ~edit.uploading
    /\ \E s \in Slot : FreeSlot(s) /\ Start(s, "upload", "sent", NoEntry)
    /\ edit' = [edit EXCEPT !.uploading = TRUE] /\ UNCHANGED <<part, kept>>
Uploaded(s) ==
    /\ Awaits(s, "upload", "sent")
    /\ edit' = [edit EXCEPT !.uploading = FALSE]
    /\ \/ /\ \E i \in Entry \ Entries : kept' = [kept EXCEPT ![i] = i]
          /\ Await(s, "timer", NoEntry)
       \/ Ends(s) /\ UNCHANGED kept
    /\ UNCHANGED part
UploadShown(s) ==
    /\ Awaits(s, "upload", "timer") /\ task' = [task EXCEPT ![s] = Loading(Nothing)]
    /\ UNCHANGED <<part, edit, kept>>

-----------------------------------------------------------------------------
(* The search of topics.                                                   *)

\* The watch on the text: one timer at a time.
Types(e, w) == [e EXCEPT !.value = w, !.awaiting = TRUE]
typesTopic(w) ==
    /\ part = "topic" /\ w # edit.value /\ edit' = Types(edit, w)
    /\ IF edit.awaiting THEN UNCHANGED task
       ELSE \E s \in Slot : FreeSlot(s) /\ Start(s, "search", "timer", NoEntry)
    /\ UNCHANGED <<part, kept>>
searchTopics(s) ==
    /\ Awaits(s, "search", "timer")
    /\ IF edit.value = Nothing
       THEN Ends(s) /\ edit' = [edit EXCEPT !.cursor = 0, !.results = 0, !.awaiting = FALSE]
       ELSE Await(s, "sent", NoEntry) /\ edit' = [edit EXCEPT !.cursor = 0, !.awaiting = FALSE]
    /\ UNCHANGED <<part, kept>>
SearchAnswered(s) ==
    /\ Awaits(s, "search", "sent") /\ Ends(s)
    /\ \E n \in 0..2 : edit' = [edit EXCEPT !.results = n]
    /\ UNCHANGED <<part, kept>>
moveCursor ==
    /\ part = "topic"
    /\ \/ edit.cursor > 0 /\ edit' = [edit EXCEPT !.cursor = @ - 1]
       \/ edit.cursor < edit.results /\ edit' = [edit EXCEPT !.cursor = @ + 1]
    /\ UNCHANGED <<task, part, kept>>

-----------------------------------------------------------------------------
(* Requirements and next challenge.                                        *)

ChallengesOffered(s) ==
    /\ Awaits(s, "offer", "sent") /\ Ends(s)
    /\ edit' \in {[edit EXCEPT !.offered = TRUE], edit} /\ UNCHANGED <<part, kept>>

\* Loading the choice also replaces what has been selected meanwhile.
ChoiceShown(s) ==
    /\ part \in Choices /\ Awaits(s, "load", "read") /\ Ends(s)
    /\ edit' \in {[edit EXCEPT !.known = TRUE, !.now = task[s].arg.set, !.selected = task[s].arg.set],
                  edit}
    /\ UNCHANGED <<part, kept>>
selectChallenge(c) ==
    /\ part \in Choices /\ edit.offered
    /\ edit' = [edit EXCEPT !.selected = IF part = "next" THEN {c}
                                         ELSE IF c \in @ THEN @ \ {c} ELSE @ \cup {c}]
    /\ UNCHANGED <<task, part, kept>>

\* Save is offered for a change; the requirements count as empty before they load.
saveChoice ==
    /\ part \in Choices /\ edit.selected # edit.now /\ (part = "next" => edit.known)
    /\ \E s \in Slot : FreeSlot(s) /\ Start(s, "save", "sent", [NoEntry EXCEPT !.set = edit.selected])
    /\ UNCHANGED <<part, edit, kept>>
ChoiceSaved(s) ==
    /\ Awaits(s, "save", "sent")
    /\ \/ /\ kept' = [i \in Entry |-> IF i \in task[s].arg.set THEN i ELSE Nothing]
          /\ IF part = "next"
             THEN \E t \in Slot \ {s} : /\ FreeSlot(t)
                     /\ task' = [task EXCEPT ![s] = Loading(Nothing),
                                             ![t] = [Loading(Nothing) EXCEPT !.op = "offer"]]
             ELSE task' = [task EXCEPT ![s] = Loading(Nothing)]
       \/ Ends(s) /\ UNCHANGED kept
    /\ UNCHANGED <<part, edit>>

-----------------------------------------------------------------------------
(* The tag picker: a tag is <<id, value>>, the id missing until resolved.  *)

Values(tags) == {t[2] : t \in tags}
First(tags) == CHOOSE t \in tags : \A u \in tags : t[1] <= u[1]
Hidden(e) == [e EXCEPT !.hidden = Values(e.selected)]

\* toggleSelect removes what has the id or the value of the tag.
toggleSelect(e, tag) ==
    LET same == {t \in e.selected : t[1] = tag[1] \/ t[2] = tag[2]} IN
    Hidden([e EXCEPT !.selected = IF same # {} THEN @ \ same ELSE @ \cup {tag}])
PickerTyped(w) ==
    /\ part = "picker" /\ w # edit.value /\ edit' = [edit EXCEPT !.value = w]
    /\ UNCHANGED <<task, part, kept>>

\* The suggestions loaded: the tags of the server, an entry i with the value kept.
Resolved(e, all) ==
    Hidden([e EXCEPT !.suggested = all,
       !.selected = {IF \E u \in all : u[2] = t[2] THEN First({u \in all : u[2] = t[2]}) ELSE t
                        : t \in @}])
Suggested(s) ==
    /\ part = "picker" /\ Awaits(s, "load", "read") /\ Ends(s)
    /\ edit' \in {Resolved(edit, {<<i, kept[i]>> : i \in task[s].arg.set}), edit}
    /\ UNCHANGED <<part, kept>>
selectSuggestion(t) ==
    /\ part = "picker" /\ edit.value # Nothing
    /\ t \in edit.suggested /\ t[2] \notin Values(edit.selected)
    /\ edit' = [toggleSelect(edit, t) EXCEPT !.value = Nothing]
    /\ UNCHANGED <<task, part, kept>>

\* addTag: Enter on a text calls it when the key goes down and when it goes up.
addTag ==
    LET found == {t \in edit.suggested : t[2] = edit.value} IN
    /\ part = "picker" /\ edit.value # Nothing
    /\ IF found # {}
       THEN edit' = [toggleSelect(edit, First(found)) EXCEPT !.value = Nothing] /\ UNCHANGED task
       ELSE /\ \E s \in Slot : FreeSlot(s) /\ Start(s, "create", "sent", About(edit.value, Nothing))
            /\ UNCHANGED edit
    /\ UNCHANGED <<part, kept>>
TagCreated(s) ==
    LET w == task[s].arg.i IN
    /\ part = "picker" /\ Awaits(s, "create", "sent") /\ Ends(s)
    /\ \/ \E i \in Entry \ Entries :
             /\ kept' = [kept EXCEPT ![i] = w]
             /\ edit' = [toggleSelect([edit EXCEPT !.suggested = @ \cup {<<i, w>>}], <<i, w>>)
                            EXCEPT !.value = Nothing]
       \/ UNCHANGED <<edit, kept>>
    /\ UNCHANGED part
BugDeselected(e, t) == [e EXCEPT !.selected = @ \ {t}]
Deselected(e, t) == Hidden([e EXCEPT !.selected = @ \ {t}])
deleteTag(t) ==
    /\ part = "picker" /\ t \in edit.selected /\ edit' = Deselected(edit, t)
    /\ UNCHANGED <<task, part, kept>>

-----------------------------------------------------------------------------
EditorMoves ==
    \/ addEntry \/ closeModal \/ submitEntry \/ updateEntry \/ OtherAdmin \/ addFiles
    \/ moveCursor \/ saveChoice \/ addTag
    \/ \E i \in Entry : editEntry(i) \/ deleteEntry(i) \/ selectChallenge(i)
    \/ \E w \in Word : typesTopic(w) \/ PickerTyped(w)
    \/ \E t \in IF part = "picker" THEN edit.suggested \cup edit.selected ELSE {} :
          selectSuggestion(t) \/ deleteTag(t)
EditorAnswers ==
    \E s \in Slot :
        \/ ServerReads(s) \/ ListShown(s) \/ FormFilled(s) \/ Changed(s) \/ Deleted(s)
        \/ Uploaded(s) \/ UploadShown(s) \/ searchTopics(s) \/ SearchAnswered(s)
        \/ ChallengesOffered(s) \/ ChoiceShown(s) \/ ChoiceSaved(s)
        \/ Suggested(s) \/ TagCreated(s)

EditorNext ==
    \/ Moved /\ EditorMoves
    \/ UNCHANGED moves /\ EditorAnswers

EditorSpec == EditorInit /\ [][EditorNext]_editorVars

-----------------------------------------------------------------------------
(* The hidden field that the search form sends holds the tags shown, over  *)
(* late suggestions, late creations and duplicates (updateHiddenInput).    *)
HiddenIsSelected == part = "picker" => edit.hidden = Values(edit.selected)
=============================================================================
