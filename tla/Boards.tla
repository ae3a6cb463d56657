------------------------------- MODULE Boards -------------------------------
(***************************************************************************)
(* The scoreboards: pages/Scoreboard.tsx with its brackets, its refresh    *)
(* and its pages, and pages/PublicScoreboard.tsx with its interval.  Each  *)
(* page fetches the standings of the bracket selected when the fetch       *)
(* begins; answers come in any order.  The page numbers the boards and the *)
(* challenge list offer are sequences in which Gap stands for an ellipsis. *)
(***************************************************************************)
EXTENDS Tab, Sequences

CONSTANTS
    Bracket,    \* brackets of the contest; Nothing selects all teams
    Rows,       \* numbers of teams an answer or a search may leave
    PerPage     \* rows per page offered

ASSUME BoardsAssumption ==
    /\ Bracket \subseteq Nat \ {0} /\ Rows \subseteq Nat /\ Rows # {}
    /\ PerPage \subseteq Nat \ {0} /\ PerPage # {}

VARIABLES
    board,      \* Scoreboard
    pub         \* PublicScoreboard

boardsVars == <<task, moves, board, pub>>

Chosen == Bracket \cup {Nothing}
Err == {"none", "error", "hidden"}

BoardsTypeOK ==
    /\ board \in [loading : BOOLEAN, refreshing : BOOLEAN, err : Err, bracket : Chosen,
                  of : Chosen, rows : Rows \cup {0}, page : Nat \ {0}, per : PerPage]
    /\ pub \in [loading : BOOLEAN, initial : BOOLEAN, err : Err, bracket : Chosen, of : Chosen]

\* A fetch holds the bracket and, for the public board, initialLoad.
Asks(b, first) == [b |-> b, first |-> first]
BoardFetch(op, b, first) == [op |-> op, at |-> "sent", arg |-> Asks(b, first)]

\* Both effects of the mount have asked for the standings.
BoardsInit ==
    /\ board = [loading |-> TRUE, refreshing |-> FALSE, err |-> "none", bracket |-> Nothing,
                of |-> Nothing, rows |-> 0, page |-> 1, per |-> CHOOSE n \in PerPage : TRUE]
    /\ pub = [loading |-> TRUE, initial |-> TRUE, err |-> "none", bracket |-> Nothing,
              of |-> Nothing]
    /\ task = [NoTasks EXCEPT ![1] = BoardFetch("board", Nothing, FALSE),
                              ![2] = BoardFetch("public", Nothing, TRUE)]
    /\ moves = 0

-----------------------------------------------------------------------------
(* Page numbers.                                                           *)

Gap == 0
Upto(n) == [i \in 1..n |-> i]
Least(a, b) == IF a < b THEN a ELSE b
Most(a, b) == IF a > b THEN a ELSE b

\* getPageNumbers of Scoreboard.
PageNumbers(total, page) ==
    IF total <= 7 THEN Upto(total)
    ELSE IF page <= 4 THEN <<1, 2, 3, 4, 5, Gap, total>>
    ELSE IF page >= total - 3 THEN <<1, Gap>> \o [i \in 1..5 |-> total - 5 + i]
    ELSE <<1, Gap, page - 1, page, page + 1, Gap, total>>

\* getPageNumbers of TerminalPagination.
BugTerminalNumbers(total, page) == \* an ellipsis already before the second page
    IF total <= 7 THEN Upto(total)
    ELSE LET first == Most(2, page - 1)  last == Least(total - 1, page + 1) IN
         <<1>> \o (IF page > 2 THEN <<Gap>> ELSE <<>>)
               \o [i \in 1..(last - first + 1) |-> first + i - 1]
               \o (IF page < total - 2 THEN <<Gap>> ELSE <<>>) \o <<total>>
TerminalNumbers(total, page) ==
    IF total <= 7 THEN Upto(total)
    ELSE LET first == Most(2, page - 1)  last == Least(total - 1, page + 1) IN
         <<1>> \o (IF page > 3 THEN <<Gap>> ELSE <<>>)
               \o [i \in 1..(last - first + 1) |-> first + i - 1]
               \o (IF page < total - 2 THEN <<Gap>> ELSE <<>>) \o <<total>>

TotalPages == (board.rows + board.per - 1) \div board.per

\* handlePageChange keeps the page between 1 and the last.
Clamped(p) == Most(1, Least(p, TotalPages))

-----------------------------------------------------------------------------
(* Scoreboard.  Its controls are there once it has loaded without error.   *)

BoardUsable == ~board.loading /\ board.err = "none"

\* fetchScores; without the refresh flag the page is a loading message.
Asked(bd, refresh) ==
    IF refresh THEN [bd EXCEPT !.refreshing = TRUE] ELSE [bd EXCEPT !.loading = TRUE]
refreshBoard ==
    /\ BoardUsable /\ ~board.refreshing
    /\ \E s \in Slot : FreeSlot(s) /\ Start(s, "board", "sent", Asks(board.bracket, FALSE))
    /\ board' = Asked(board, TRUE)
    /\ UNCHANGED pub
setSelectedBracket(b) ==
    /\ BoardUsable /\ b # board.bracket
    /\ \E s \in Slot : FreeSlot(s) /\ Start(s, "board", "sent", Asks(b, FALSE))
    /\ board' = Asked([board EXCEPT !.bracket = b, !.page = 1], FALSE)
    /\ UNCHANGED pub

\* The end of any fetch takes both flags back; an answer keeps the page.
Scored(bd, b, n) ==
    [bd EXCEPT !.of = b, !.rows = n, !.err = "none", !.loading = FALSE, !.refreshing = FALSE]
Refused(bd, e) == [bd EXCEPT !.err = e, !.loading = FALSE, !.refreshing = FALSE]
BoardAnswered(s) ==
    /\ Awaits(s, "board", "sent") /\ Ends(s)
    /\ \/ \E n \in Rows : board' = Scored(board, task[s].arg.b, n)
       \/ \E e \in {"error", "hidden"} : board' = Refused(board, e)
    /\ UNCHANGED pub

\* handleSearch and requestSort go back to the first page, as the choice of the
\* rows per page does.
handleSearch ==
    /\ BoardUsable /\ \E n \in Rows : board' = [board EXCEPT !.rows = n, !.page = 1]
    /\ UNCHANGED <<task, pub>>
setItemsPerPage(n) ==
    /\ BoardUsable /\ n # board.per /\ board' = [board EXCEPT !.per = n, !.page = 1]
    /\ UNCHANGED <<task, pub>>

\* The numbers, and the arrows at their sides, when there is more than one page.
Buttons == {PageNumbers(TotalPages, board.page)[i] :
              i \in 1..Len(PageNumbers(TotalPages, board.page))} \ {Gap}
Arrows == (IF board.page = 1 THEN {} ELSE {board.page - 1})
             \cup (IF board.page = TotalPages THEN {} ELSE {board.page + 1})
handlePageChange(p) ==
    /\ BoardUsable /\ TotalPages > 1 /\ p \in Buttons \cup Arrows
    /\ board' = [board EXCEPT !.page = Clamped(p)]
    /\ UNCHANGED <<task, pub>>

-----------------------------------------------------------------------------
(* PublicScoreboard.                                                       *)

\* The interval of the effect: it has the bracket and initialLoad of its render.
publicTick ==
    /\ \E s \in Slot :
          FreeSlot(s) /\ Start(s, "public", "sent", Asks(pub.bracket, pub.initial))
    /\ UNCHANGED <<board, pub>>
publicBracket(b) ==
    /\ ~pub.loading /\ pub.err = "none" /\ b # pub.bracket
    /\ \E s \in Slot : FreeSlot(s) /\ Start(s, "public", "sent", Asks(b, pub.initial))
    /\ pub' = [pub EXCEPT !.bracket = b]
    /\ UNCHANGED board

\* An error that is not about visibility leaves the standings as they are.
PubAfter(b) == {[pub EXCEPT !.of = b, !.err = "none"], [pub EXCEPT !.err = "hidden"], pub}

\* The first fetch to end shows the page; the effect then runs again.
FirstEnds(p) == [p EXCEPT !.loading = FALSE, !.initial = FALSE]
PublicFirst(s) ==
    /\ Awaits(s, "public", "sent") /\ task[s].arg.first
    /\ \E p \in PubAfter(task[s].arg.b) : pub' = FirstEnds(p)
    /\ IF pub.initial THEN task' = [task EXCEPT ![s] = BoardFetch("public", pub.bracket, FALSE)]
       ELSE Ends(s)
    /\ UNCHANGED board
PublicLater(s) ==
    /\ Awaits(s, "public", "sent") /\ ~task[s].arg.first
    /\ pub' \in PubAfter(task[s].arg.b)
    /\ Ends(s) /\ UNCHANGED board

-----------------------------------------------------------------------------
BoardsMoves ==
    \/ refreshBoard \/ handleSearch \/ publicTick
    \/ \E b \in Chosen : setSelectedBracket(b) \/ publicBracket(b)
    \/ \E n \in PerPage : setItemsPerPage(n)
    \/ \E p \in 1..(TotalPages + board.page + 1) : handlePageChange(p)
BoardsAnswers == \E s \in Slot : BoardAnswered(s) \/ PublicFirst(s) \/ PublicLater(s)

BoardsNext ==
    \/ Moved /\ BoardsMoves
    \/ UNCHANGED moves /\ BoardsAnswers

BoardsSpec == BoardsInit /\ [][BoardsNext]_boardsVars

-----------------------------------------------------------------------------
(* Page numbers from 1 to total: first and last are there, so is the page, *)
(* neighbours follow one another and an ellipsis hides at least one page.  *)
Connected(nums, total, page) ==
    /\ nums[1] = 1 /\ nums[Len(nums)] = total
    /\ \E i \in 1..Len(nums) : nums[i] = page
    /\ \A i \in 1..(Len(nums) - 1) :
          IF nums[i + 1] = Gap THEN nums[i + 2] > nums[i] + 1
          ELSE nums[i] # Gap => nums[i + 1] = nums[i] + 1

(* Whatever the board shows, both ways of numbering its pages (Scoreboard  *)
(* and TerminalPagination, getPageNumbers) keep every page reachable.      *)
PagesAreConnected ==
    board.page \in 1..TotalPages =>
        /\ Connected(PageNumbers(TotalPages, board.page), TotalPages, board.page)
        /\ Connected(TerminalNumbers(TotalPages, board.page), TotalPages, board.page)

(* A board that says it is loading or refreshing has a fetch pending, over *)
(* overlapping refreshes, brackets and intervals (fetchScores, finally).   *)
BoardsAreAttended ==
    /\ board.loading \/ board.refreshing => Tasks({"board"}, {"sent"}) # {}
    /\ pub.loading => \E s \in Tasks({"public"}, {"sent"}) : task[s].arg.first

(* With nothing pending the standings are those of the bracket selected.   *)
(* Not so: a refresh that is answered after a change of bracket wins.      *)
StandingsAreChosen ==
    Tasks({"board"}, {"sent"}) = {} /\ board.err = "none" => board.of = board.bracket
=============================================================================
