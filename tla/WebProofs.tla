----------------------------- MODULE WebProofs -----------------------------
(***************************************************************************)
(* Proofs about the contestants' pages that MCWeb puts side by side: every *)
(* flag of the challenge list, of the session pages, of the team's pages   *)
(* and of the boards has the pending function that will reset it, and the  *)
(* page numbers lead everywhere.  Each page has an inductive invariant of  *)
(* its own; that of MCWeb is the one of the page that was chosen.          *)
(***************************************************************************)
EXTENDS PortalProofs, MCWeb, FiniteSetTheorems, SequenceTheorems

-----------------------------------------------------------------------------
(***************************************************************************)
(* Boards, for every set of brackets, of numbers of teams and of rows per  *)
(* page.                                                                   *)
(***************************************************************************)

Board == [loading : BOOLEAN, refreshing : BOOLEAN, err : Err, bracket : Chosen,
          of : Chosen, rows : Rows \cup {0}, page : Nat \ {0}, per : PerPage]
Public == [loading : BOOLEAN, initial : BOOLEAN, err : Err, bracket : Chosen, of : Chosen]

\* A fetch of a board holds the bracket it was made for.
BoardTask == {NoTask} \cup [op : {"board", "public"}, at : {"sent"},
                             arg : [b : Chosen, first : BOOLEAN]]

\* The inductive invariant.
BoardsInv == BoardsTypeOK /\ task \in [Slot -> BoardTask] /\ BoardsAreAttended

LEMMA BoardsInitInv == BoardsInit => BoardsInv
<1> SUFFICES ASSUME BoardsInit PROVE BoardsInv
  OBVIOUS
<1>1. Nothing \in Chosen /\ 1 \in Slot /\ 2 \in Slot
  BY TabAssumption DEF Chosen
<1>2. /\ BoardFetch("board", Nothing, FALSE) \in BoardTask
      /\ BoardFetch("public", Nothing, TRUE) \in BoardTask
      /\ NoTask \in BoardTask
  BY <1>1 DEF BoardFetch, Asks, BoardTask
<1>3. task \in [Slot -> BoardTask]
  BY <1>2 DEF BoardsInit, NoTasks
<1>4. board \in Board /\ pub \in Public
  <2>1. (CHOOSE n \in PerPage : TRUE) \in PerPage
    BY BoardsAssumption
  <2> QED
    BY <1>1, <2>1 DEF BoardsInit, Board, Public, Err
<1>5. /\ task[1] = BoardFetch("board", Nothing, FALSE)
      /\ task[2] = BoardFetch("public", Nothing, TRUE)
  <2>1. PICK a, b : a = BoardFetch("board", Nothing, FALSE) /\ b = BoardFetch("public", Nothing, TRUE)
    OBVIOUS
  <2>2. task = [NoTasks EXCEPT ![1] = a, ![2] = b]
    BY <2>1 DEF BoardsInit
  <2>3. task[1] = a /\ task[2] = b
    BY <1>1, <2>2 DEF NoTasks
  <2> QED
    BY <2>1, <2>3
<1>6. BoardsAreAttended
  <2>1. 1 \in Tasks({"board"}, {"sent"}) /\ 2 \in Tasks({"public"}, {"sent"}) /\ task[2].arg.first
    BY <1>1, <1>5 DEF Tasks, BoardFetch, Asks
  <2> QED
    BY <2>1 DEF BoardsAreAttended
<1> QED
  BY <1>3, <1>4, <1>6 DEF BoardsInv, BoardsTypeOK, Board, Public

LEMMA PagesAreNumbers ==
    ASSUME BoardsTypeOK
    PROVE  TotalPages \in Nat
<1>1. board.rows \in Nat /\ board.per \in Nat \ {0}
  <2>1. board.rows \in Rows \cup {0} /\ board.per \in PerPage
    BY DEF BoardsTypeOK
  <2>2. Rows \subseteq Nat /\ PerPage \subseteq Nat \ {0}
    BY BoardsAssumption
  <2>3. board.rows \in Nat
    <3>1. PICK r : r = board.rows /\ (r \in Rows \/ r = 0)
      BY <2>1
    <3>2. CASE r \in Rows
      <4>1. r \in Nat
        BY <2>2, <3>2, Zenon
      <4> QED
        BY <3>1, <4>1
    <3> QED
      BY <3>1, <3>2
  <2>4. board.per \in Nat \ {0}
    BY <2>1, <2>2
  <2> QED
    BY <2>3, <2>4
<1>2. \A r \in Nat, p \in Nat \ {0} : (r + p - 1) \div p \in Nat
  OBVIOUS
<1> QED
  BY <1>1, <1>2 DEF TotalPages

\* A fetch that begins in a free slot leaves the others pending.
LEMMA FetchBegins ==
    ASSUME BoardsInv, NEW s \in Slot, FreeSlot(s), NEW op \in {"board", "public"},
           NEW b \in Chosen, NEW first \in BOOLEAN, Start(s, op, "sent", Asks(b, first))
    PROVE  /\ task' \in [Slot -> BoardTask]
           /\ op = "board" => Tasks({"board"}, {"sent"})' # {}
           /\ \A t \in Slot : task[t].op # "none" => task'[t] = task[t]
<1>1. [op |-> op, at |-> "sent", arg |-> Asks(b, first)] \in BoardTask
  BY DEF BoardTask, Asks
<1>2. task' \in [Slot -> BoardTask] /\ task'[s] = [op |-> op, at |-> "sent", arg |-> Asks(b, first)]
      /\ \A t \in Slot : t # s => task'[t] = task[t]
  BY <1>1 DEF BoardsInv, Start
<1>3. op = "board" => s \in Tasks({"board"}, {"sent"})'
  BY <1>2 DEF Tasks
<1> QED
  BY <1>2, <1>3 DEF FreeSlot

\* Moves and answers that change the scoreboard or the public board.
LEMMA BoardGoesOn ==
    ASSUME BoardsInv, task' \in [Slot -> BoardTask], board' \in Board, pub' \in Public,
           board'.loading \/ board'.refreshing =>
              \/ Tasks({"board"}, {"sent"})' # {}
              \/ /\ board.loading \/ board.refreshing
                 /\ \A t \in Slot : task[t].op = "board" => task'[t] = task[t],
           pub'.loading => /\ pub.loading
                           /\ \A t \in Slot : task[t].op = "public" /\ task[t].arg.first
                                                => task'[t] = task[t]
    PROVE  BoardsInv'
<1>1. BoardsTypeOK'
  BY DEF BoardsTypeOK, Board, Public
<1>2. ASSUME board'.loading \/ board'.refreshing PROVE Tasks({"board"}, {"sent"})' # {}
  <2>1. CASE Tasks({"board"}, {"sent"})' # {}
    BY <2>1
  <2>2. CASE /\ board.loading \/ board.refreshing
             /\ \A t \in Slot : task[t].op = "board" => task'[t] = task[t]
    <3>1. PICK t \in Slot : task[t].op = "board" /\ task[t].at = "sent"
      BY <2>2 DEF BoardsInv, BoardsAreAttended, Tasks
    <3>2. t \in Tasks({"board"}, {"sent"})'
      BY <2>2, <3>1 DEF Tasks
    <3> QED
      BY <3>2
  <2> QED
    BY <1>2, <2>1, <2>2
<1>3. ASSUME pub'.loading PROVE \E s \in Tasks({"public"}, {"sent"})' : task'[s].arg.first
  <2>1. PICK t \in Slot : task[t].op = "public" /\ task[t].at = "sent" /\ task[t].arg.first
    BY <1>3 DEF BoardsInv, BoardsAreAttended, Tasks
  <2>2. t \in Tasks({"public"}, {"sent"})' /\ task'[t].arg.first
    BY <1>3, <2>1 DEF Tasks
  <2> QED
    BY <2>2
<1> QED
  BY <1>1, <1>2, <1>3 DEF BoardsInv, BoardsAreAttended

LEMMA BoardsMovesKept ==
    ASSUME BoardsInv, BoardsMoves
    PROVE  BoardsInv'
<1>1. board \in Board /\ pub \in Public /\ task \in [Slot -> BoardTask] /\ 1 \in Nat \ {0}
  BY DEF BoardsInv, BoardsTypeOK, Board, Public
<1>2. CASE refreshBoard
  <2>1. PICK s \in Slot : FreeSlot(s) /\ Start(s, "board", "sent", Asks(board.bracket, FALSE))
    BY <1>2 DEF refreshBoard
  <2>2. board.bracket \in Chosen
    BY <1>1 DEF Board
  <2>3. /\ task' \in [Slot -> BoardTask] /\ Tasks({"board"}, {"sent"})' # {}
        /\ \A t \in Slot : task[t].op # "none" => task'[t] = task[t]
    BY <2>1, <2>2, FetchBegins
  <2>4. board' \in Board /\ pub' = pub
    BY <1>1, <1>2 DEF refreshBoard, Asked, Board
  <2> QED
    BY <1>1, <2>3, <2>4, BoardGoesOn
<1>3. ASSUME NEW b \in Chosen, setSelectedBracket(b) PROVE BoardsInv'
  <2>1. PICK s \in Slot : FreeSlot(s) /\ Start(s, "board", "sent", Asks(b, FALSE))
    BY <1>3 DEF setSelectedBracket
  <2>2. /\ task' \in [Slot -> BoardTask] /\ Tasks({"board"}, {"sent"})' # {}
        /\ \A t \in Slot : task[t].op # "none" => task'[t] = task[t]
    BY <2>1, FetchBegins
  <2>3. board' \in Board /\ pub' = pub
    BY <1>1, <1>3 DEF setSelectedBracket, Asked, Board
  <2> QED
    BY <1>1, <2>2, <2>3, BoardGoesOn
<1>4. ASSUME NEW b \in Chosen, NEW p \in Public, p.loading = pub.loading, pub' = p, board' = board,
             \E s \in Slot : FreeSlot(s) /\ Start(s, "public", "sent", Asks(b, pub.initial))
      PROVE  BoardsInv'
  <2>1. PICK s \in Slot : FreeSlot(s) /\ Start(s, "public", "sent", Asks(b, pub.initial))
    BY <1>4
  <2>2. pub.initial \in BOOLEAN
    BY <1>1 DEF Public
  <2>3. /\ task' \in [Slot -> BoardTask]
        /\ \A t \in Slot : task[t].op # "none" => task'[t] = task[t]
    BY <2>1, <2>2, FetchBegins
  <2> QED
    BY <1>1, <1>4, <2>3, BoardGoesOn
<1>5. CASE publicTick
  <2>1. pub.bracket \in Chosen
    BY <1>1 DEF Public
  <2> QED
    BY <1>1, <1>4, <1>5, <2>1 DEF publicTick
<1>6. ASSUME NEW b \in Chosen, publicBracket(b) PROVE BoardsInv'
  <2>1. pub' \in Public /\ pub'.loading = pub.loading
    BY <1>1, <1>6 DEF publicBracket, Public
  <2> QED
    BY <1>4, <1>6, <2>1 DEF publicBracket
<1>7. ASSUME NEW b \in Board, b.loading = board.loading, b.refreshing = board.refreshing,
             board' = b, UNCHANGED <<task, pub>>
      PROVE  BoardsInv'
  BY <1>1, <1>7, BoardGoesOn
<1>8. CASE handleSearch
  <2>1. board' \in Board /\ board'.loading = board.loading /\ board'.refreshing = board.refreshing
    BY <1>1, <1>8 DEF handleSearch, Board
  <2> QED
    BY <1>7, <1>8, <2>1 DEF handleSearch
<1>9. ASSUME NEW n \in PerPage, setItemsPerPage(n) PROVE BoardsInv'
  <2>1. board' \in Board /\ board'.loading = board.loading /\ board'.refreshing = board.refreshing
    BY <1>1, <1>9 DEF setItemsPerPage, Board
  <2> QED
    BY <1>7, <1>9, <2>1 DEF setItemsPerPage
<1>10. ASSUME NEW p \in 1..(TotalPages + board.page + 1), handlePageChange(p) PROVE BoardsInv'
  <2>1. TotalPages \in Nat /\ board.page \in Nat
    BY <1>1, PagesAreNumbers DEF BoardsInv, Board
  <2>2. Clamped(p) \in Nat \ {0}
    BY <2>1 DEF Clamped, Most, Least
  <2>3. board' \in Board /\ board'.loading = board.loading /\ board'.refreshing = board.refreshing
    BY <1>1, <1>10, <2>2 DEF handlePageChange, Board
  <2> QED
    BY <1>7, <1>10, <2>3 DEF handlePageChange
<1> QED
  BY <1>2, <1>3, <1>5, <1>6, <1>8, <1>9, <1>10 DEF BoardsMoves

LEMMA BoardsAnswersKept ==
    ASSUME BoardsInv, NEW s \in Slot, BoardAnswered(s) \/ PublicFirst(s) \/ PublicLater(s)
    PROVE  BoardsInv'
<1>1. board \in Board /\ pub \in Public /\ task \in [Slot -> BoardTask] /\ NoTask \in BoardTask
  BY DEF BoardsInv, BoardsTypeOK, Board, Public, BoardTask
<1>2. task[s].op # "none" => task[s].arg.b \in Chosen
  BY <1>1 DEF BoardTask, NoTask
<1>3. Ends(s) => /\ task' \in [Slot -> BoardTask]
                 /\ \A t \in Slot : t # s => task'[t] = task[t]
  BY <1>1 DEF Ends
<1>4. CASE BoardAnswered(s)
  <2>1. board' \in Board /\ ~board'.loading /\ ~board'.refreshing
    BY <1>1, <1>2, <1>4 DEF BoardAnswered, Awaits, Scored, Refused, Board, Err
  <2> QED
    BY <1>1, <1>3, <1>4, <2>1, BoardGoesOn DEF BoardAnswered, Awaits
<1>5. CASE PublicFirst(s)
  <2>1. pub' \in Public /\ ~pub'.loading
    <3>1. PICK p \in PubAfter(task[s].arg.b) : pub' = FirstEnds(p)
      BY <1>5 DEF PublicFirst
    <3>2. task[s].arg.b \in Chosen
      BY <1>2, <1>5 DEF PublicFirst, Awaits
    <3>3. p \in Public
      BY <1>1, <3>1, <3>2 DEF PubAfter, Public, Err
    <3> QED
      BY <3>1, <3>3 DEF FirstEnds, Public
  <2>2. task' \in [Slot -> BoardTask] /\ \A t \in Slot : t # s => task'[t] = task[t]
    <3>1. BoardFetch("public", pub.bracket, FALSE) \in BoardTask
      BY <1>1 DEF BoardFetch, Asks, BoardTask, Public
    <3> QED
      BY <1>1, <1>3, <1>5, <3>1 DEF PublicFirst
  <2> QED
    BY <1>1, <1>5, <2>1, <2>2, BoardGoesOn DEF PublicFirst, Awaits
<1>6. CASE PublicLater(s)
  <2>1. pub' \in Public /\ pub'.loading = pub.loading
    BY <1>1, <1>2, <1>6 DEF PublicLater, Awaits, PubAfter, Public, Err
  <2>2. task' \in [Slot -> BoardTask] /\ \A t \in Slot : t # s => task'[t] = task[t]
    BY <1>3, <1>6 DEF PublicLater
  <2> QED
    BY <1>1, <1>6, <2>1, <2>2, BoardGoesOn DEF PublicLater, Awaits
<1> QED
  BY <1>4, <1>5, <1>6

LEMMA BoardsStepInv == BoardsInv /\ [BoardsNext]_boardsVars => BoardsInv'
<1> SUFFICES ASSUME BoardsInv, [BoardsNext]_boardsVars PROVE BoardsInv'
  OBVIOUS
<1>1. CASE UNCHANGED boardsVars
  BY <1>1 DEF boardsVars, BoardsInv, BoardsTypeOK, BoardsAreAttended, Tasks
<1> QED
  BY <1>1, BoardsMovesKept, BoardsAnswersKept DEF BoardsNext, BoardsAnswers

LEMMA ConcatOf ==
    ASSUME NEW S, NEW a \in Seq(S), NEW b \in Seq(S)
    PROVE  /\ a \o b \in Seq(S) /\ Len(a \o b) = Len(a) + Len(b)
           /\ \A i \in 1..Len(a) : (a \o b)[i] = a[i]
           /\ \A i \in 1..Len(b) : (a \o b)[Len(a) + i] = b[i]
<1>1. Len(a) \in Nat /\ Len(b) \in Nat
  BY LenProperties
<1>2. /\ a \o b \in Seq(S) /\ Len(a \o b) = Len(a) + Len(b)
      /\ \A i \in 1..(Len(a) + Len(b)) :
            (a \o b)[i] = IF i <= Len(a) THEN a[i] ELSE b[i - Len(a)]
  BY ConcatProperties
<1>3. ASSUME NEW i \in 1..Len(b) PROVE (a \o b)[Len(a) + i] = b[i]
  <2>1. /\ Len(a) + i \in 1..(Len(a) + Len(b)) /\ ~(Len(a) + i <= Len(a))
        /\ (Len(a) + i) - Len(a) = i
    BY <1>1
  <2> QED
    BY <1>2, <2>1
<1> QED
  BY <1>1, <1>2, <1>3

\* Numbers from 1 to total, with or without an ellipsis.
LEMMA AllNumbersConnected ==
    ASSUME NEW total \in Nat, NEW p \in 1..total
    PROVE  Connected(Upto(total), total, p)
<1>1. Len(Upto(total)) = total /\ \A i \in 1..total : Upto(total)[i] = i
  BY DEF Upto
<1>2. Gap \notin 1..total
  BY DEF Gap
<1> QED
  BY <1>1, <1>2 DEF Connected, Gap

LEMMA PageNumbersConnected ==
    ASSUME NEW total \in Nat, NEW p \in 1..total
    PROVE  Connected(PageNumbers(total, p), total, p)
<1>1. CASE total <= 7
  BY <1>1, AllNumbersConnected DEF PageNumbers
<1>2. CASE total > 7 /\ p <= 4
  <2> DEFINE q == <<1, 2, 3, 4, 5, Gap, total>>
  <2>1. PageNumbers(total, p) = q
    BY <1>2 DEF PageNumbers
  <2>2. Len(q) = 7 /\ q[1] = 1 /\ q[2] = 2 /\ q[3] = 3 /\ q[4] = 4 /\ q[5] = 5
        /\ q[6] = 0 /\ q[7] = total
    BY DEF Gap
  <2> HIDE DEF q
  <2>3. \E i \in 1..7 : q[i] = p
    <3>1. p \in {1, 2, 3, 4}
      BY <1>2
    <3> QED
      BY <2>2, <3>1
  <2>4. \A i \in 1..6 : IF q[i + 1] = 0 THEN q[i + 2] > q[i] + 1
                        ELSE q[i] # 0 => q[i + 1] = q[i] + 1
    BY <1>2, <2>2
  <2> QED
    BY <2>1, <2>2, <2>3, <2>4 DEF Connected, Gap
<1>3. CASE total > 7 /\ p > 4 /\ p >= total - 3
  <2> DEFINE q == <<1, Gap>> \o [i \in 1..5 |-> total - 5 + i]
  <2>1. PageNumbers(total, p) = q
    BY <1>3 DEF PageNumbers
  <2>2. Len(q) = 7 /\ q[1] = 1 /\ q[2] = 0 /\ \A i \in 3..7 : q[i] = total - 7 + i
    <3>5. PICK a, b : a = <<1, Gap>> /\ b = [i \in 1..5 |-> total - 5 + i]
      OBVIOUS
    <3>1. a \in Seq(Int) /\ Len(a) = 2 /\ a[1] = 1 /\ a[2] = 0
      BY <3>5 DEF Gap
    <3>2. b \in Seq(Int) /\ Len(b) = 5 /\ \A i \in 1..5 : b[i] = total - 5 + i
      BY <3>5
    <3>3. /\ Len(a \o b) = 7 /\ (a \o b)[1] = 1 /\ (a \o b)[2] = 0
          /\ \A i \in 1..5 : (a \o b)[2 + i] = total - 5 + i
      <4>1. /\ Len(a \o b) = Len(a) + Len(b)
            /\ \A i \in 1..Len(a) : (a \o b)[i] = a[i]
            /\ \A i \in 1..Len(b) : (a \o b)[Len(a) + i] = b[i]
        <5>1. a \in Seq(Int) /\ b \in Seq(Int)
          BY <3>1, <3>2
        <5> QED
          BY <5>1, ConcatOf
      <4>2. PICK ab : ab = a \o b
        OBVIOUS
      <4>3. Len(ab) = 7 /\ ab[1] = 1 /\ ab[2] = 0
        <5>1. 1 \in 1..Len(a) /\ 2 \in 1..Len(a) /\ Len(a) + Len(b) = 7
          BY <3>1, <3>2
        <5>2. ab[1] = a[1] /\ ab[2] = a[2]
          BY <4>1, <4>2, <5>1
        <5> QED
          BY <3>1, <4>1, <4>2, <5>1, <5>2
      <4>4. \A i \in 1..5 : ab[2 + i] = total - 5 + i
        BY <3>1, <3>2, <4>1, <4>2
      <4> QED
        BY <4>2, <4>3, <4>4
    <3>4. ASSUME NEW i \in 3..7 PROVE (a \o b)[i] = total - 7 + i
      <4>1. i - 2 \in 1..5 /\ 2 + (i - 2) = i /\ total - 5 + (i - 2) = total - 7 + i
        OBVIOUS
      <4> QED
        BY <3>3, <4>1
    <3> QED
      BY <3>3, <3>4, <3>5
  <2> HIDE DEF q
  <2>3. \E i \in 1..7 : q[i] = p
    <3>1. p - total + 7 \in 3..7
      BY <1>3
    <3> QED
      BY <2>2, <3>1
  <2>4. \A i \in 1..6 : IF q[i + 1] = 0 THEN q[i + 2] > q[i] + 1
                        ELSE q[i] # 0 => q[i + 1] = q[i] + 1
    BY <1>3, <2>2
  <2>5. q[7] = total
    BY <2>2
  <2> QED
    BY <2>1, <2>2, <2>3, <2>4, <2>5 DEF Connected, Gap
<1>4. CASE total > 7 /\ p > 4 /\ p < total - 3
  <2> DEFINE q == <<1, Gap, p - 1, p, p + 1, Gap, total>>
  <2>1. PageNumbers(total, p) = q
    BY <1>4 DEF PageNumbers
  <2>2. Len(q) = 7 /\ q[1] = 1 /\ q[2] = 0 /\ q[3] = p - 1 /\ q[4] = p /\ q[5] = p + 1
        /\ q[6] = 0 /\ q[7] = total
    BY DEF Gap
  <2> HIDE DEF q
  <2>3. \A i \in 1..6 : IF q[i + 1] = 0 THEN q[i + 2] > q[i] + 1
                        ELSE q[i] # 0 => q[i + 1] = q[i] + 1
    BY <1>4, <2>2
  <2> QED
    BY <2>1, <2>2, <2>3 DEF Connected, Gap
<1> QED
  BY <1>1, <1>2, <1>3, <1>4

\* TerminalNumbers: the numbers from first to last between the ends, an ellipsis on
\* either side or not.
LEMMA TerminalNumbersConnected ==
    ASSUME NEW total \in Nat, NEW p \in 1..total
    PROVE  Connected(TerminalNumbers(total, p), total, p)
<1>1. CASE total <= 7
  BY <1>1, AllNumbersConnected DEF TerminalNumbers
<1>2. ASSUME total > 7 PROVE Connected(TerminalNumbers(total, p), total, p)
  <2> DEFINE first == Most(2, p - 1)
             last == Least(total - 1, p + 1)
             x == IF p > 3 THEN <<Gap>> ELSE <<>>
             y == [i \in 1..(last - first + 1) |-> first + i - 1]
             z == IF p < total - 2 THEN <<Gap>> ELSE <<>>
  <2>5. TerminalNumbers(total, p) = <<1>> \o x \o y \o z \o <<total>>
    <3>1. ~(total <= 7)
      BY <1>2
    <3> QED
      BY <3>1, Zenon DEF TerminalNumbers
  <2>6. /\ first \in Int /\ last \in Int /\ 2 <= first /\ last <= total - 1 /\ first <= last
        /\ p # 1 /\ p # total => first <= p /\ p <= last
        /\ p <= 3 => first = 2
        /\ p > 3 => first > 2
        /\ p >= total - 2 => last = total - 1
        /\ p < total - 2 => last < total - 1
    BY <1>2 DEF Most, Least
  <2> HIDE DEF first, last
  <2>7. PICK m \in Nat : m = last - first + 1
    BY <2>6
  <2>8. y \in Seq(Int) /\ Len(y) = m /\ \A i \in 1..m : y[i] = first + i - 1
    BY <2>6, <2>7
  <2>9. PICK g \in {0, 1} : g = IF p > 3 THEN 1 ELSE 0
    OBVIOUS
  <2>10. x \in Seq(Int) /\ Len(x) = g /\ \A i \in 1..g : x[i] = 0
    <3>1. CASE p > 3
      BY <2>9, <3>1 DEF Gap
    <3>2. CASE ~(p > 3)
      BY <2>9, <3>2
    <3> QED
      BY <3>1, <3>2
  <2>11. PICK h \in {0, 1} : h = IF p < total - 2 THEN 1 ELSE 0
    OBVIOUS
  <2>12. z \in Seq(Int) /\ Len(z) = h /\ \A i \in 1..h : z[i] = 0
    <3>1. CASE p < total - 2
      BY <2>11, <3>1 DEF Gap
    <3>2. CASE ~(p < total - 2)
      BY <2>11, <3>2
    <3> QED
      BY <3>1, <3>2
  <2> HIDE DEF x, y, z
  <2>13. PICK a : a = <<1>> \o x
    OBVIOUS
  <2>14. a \in Seq(Int) /\ Len(a) = 1 + g /\ a[1] = 1 /\ \A i \in 1..g : a[1 + i] = 0
    <3>1. <<1>> \in Seq(Int) /\ Len(<<1>>) = 1 /\ <<1>>[1] = 1
      OBVIOUS
    <3> QED
      BY <2>10, <2>13, <3>1, ConcatOf
  <2>15. PICK b : b = a \o y
    OBVIOUS
  <2>16. /\ b \in Seq(Int) /\ Len(b) = 1 + g + m /\ b[1] = 1
         /\ \A i \in 1..g : b[1 + i] = 0
         /\ \A i \in 1..m : b[1 + g + i] = first + i - 1
    BY <2>8, <2>14, <2>15, ConcatOf
  <2>17. PICK c : c = b \o z
    OBVIOUS
  <2>18. /\ c \in Seq(Int) /\ Len(c) = 1 + g + m + h /\ c[1] = 1
         /\ \A i \in 1..g : c[1 + i] = 0
         /\ \A i \in 1..m : c[1 + g + i] = first + i - 1
         /\ \A i \in 1..h : c[1 + g + m + i] = 0
    <3>1. z \in Seq(Int) /\ Len(z) = h /\ \A i \in 1..h : z[i] = 0
      BY <2>12
    <3>2. /\ c \in Seq(Int) /\ Len(c) = 1 + g + m + h
          /\ \A i \in 1..(1 + g + m) : c[i] = b[i]
          /\ \A i \in 1..h : c[1 + g + m + i] = z[i]
      <4>1. /\ c \in Seq(Int) /\ Len(c) = Len(b) + Len(z)
            /\ \A i \in 1..Len(b) : c[i] = b[i]
            /\ \A i \in 1..Len(z) : c[Len(b) + i] = z[i]
        BY <2>16, <2>17, <3>1, ConcatOf
      <4> QED
        BY <2>16, <3>1, <4>1
    <3>3. \A i \in 1..g : 1 + i \in 1..(1 + g + m)
      BY <2>8
    <3>4. \A i \in 1..m : 1 + g + i \in 1..(1 + g + m)
      BY <2>8
    <3>5. 1 \in 1..(1 + g + m)
      BY <2>8
    <3> QED
      BY <2>16, <3>1, <3>2, <3>3, <3>4, <3>5
  <2>19. PICK q : q = c \o <<total>>
    OBVIOUS
  <2>20. /\ Len(q) = 2 + g + m + h /\ q[1] = 1
         /\ \A i \in 1..g : q[1 + i] = 0
         /\ \A i \in 1..m : q[1 + g + i] = first + i - 1
         /\ \A i \in 1..h : q[1 + g + m + i] = 0
         /\ q[2 + g + m + h] = total
    <3>1. <<total>> \in Seq(Int) /\ Len(<<total>>) = 1 /\ <<total>>[1] = total
      OBVIOUS
    <3>2. /\ Len(q) = Len(c) + 1
          /\ \A i \in 1..Len(c) : q[i] = c[i]
          /\ q[Len(c) + 1] = total
      <4>1. PICK e \in Seq(Int) : e = <<total>> /\ Len(e) = 1 /\ e[1] = total
        BY <3>1
      <4>2. /\ Len(c \o e) = Len(c) + Len(e)
            /\ \A i \in 1..Len(c) : (c \o e)[i] = c[i]
            /\ \A i \in 1..Len(e) : (c \o e)[Len(c) + i] = e[i]
        BY <2>18, <4>1, ConcatOf
      <4>3. 1 \in 1..Len(e)
        BY <4>1
      <4> QED
        BY <2>19, <4>1, <4>2, <4>3
    <3>3. PICK n \in Nat : n = Len(c) /\ n = 1 + g + m + h
      BY <2>18
    <3>4. Len(q) = 2 + g + m + h /\ q[2 + g + m + h] = total
      <4>1. n + 1 = 2 + g + m + h
        BY <3>3
      <4> QED
        BY <3>2, <3>3, <4>1
    <3>5. ASSUME NEW i \in 1..g PROVE q[1 + i] = 0
      <4>1. 1 + i \in 1..n
        BY <3>3
      <4> QED
        BY <2>18, <3>2, <3>3, <4>1
    <3>6. ASSUME NEW i \in 1..m PROVE q[1 + g + i] = first + i - 1
      <4>1. 1 + g + i \in 1..n
        BY <3>3
      <4> QED
        BY <2>18, <3>2, <3>3, <4>1
    <3>7. ASSUME NEW i \in 1..h PROVE q[1 + g + m + i] = 0
      <4>1. 1 + g + m + i \in 1..n
        BY <3>3
      <4> QED
        BY <2>18, <3>2, <3>3, <4>1
    <3>8. q[1] = 1
      <4>1. 1 \in 1..n
        BY <3>3
      <4> QED
        BY <2>18, <3>2, <3>3, <4>1
    <3> QED
      BY <3>4, <3>5, <3>6, <3>7, <3>8
  <2>21. TerminalNumbers(total, p) = q
    BY <2>5, <2>13, <2>15, <2>17, <2>19
  <2>22. \E i \in 1..Len(q) : q[i] = p
    <3>1. CASE p = 1
      BY <2>20, <3>1
    <3>2. CASE p = total
      BY <2>20, <3>2
    <3>3. CASE p # 1 /\ p # total
      <4>1. p - first + 1 \in 1..m /\ first + (p - first + 1) - 1 = p
        BY <2>6, <2>7, <3>3
      <4>2. 1 + g + (p - first + 1) \in 1..Len(q)
        BY <2>6, <2>20, <4>1
      <4> QED
        BY <2>20, <4>1, <4>2
    <3> QED
      BY <3>1, <3>2, <3>3
  <2>23. ASSUME NEW i \in 1..(Len(q) - 1)
         PROVE  IF q[i + 1] = 0 THEN q[i + 2] > q[i] + 1
                ELSE q[i] # 0 => q[i + 1] = q[i] + 1
    <3>1. m >= 1
      BY <2>6, <2>7
    <3>2. CASE i = 1
      <4>1. CASE g = 1
        <5>1. q[2] = 0 /\ q[3] = first
          <6>1. 1 \in 1..g /\ 1 \in 1..m /\ 1 + 1 = 2 /\ 1 + g + 1 = 3 /\ first + 1 - 1 = first
            BY <2>6, <3>1, <4>1
          <6>2. q[1 + 1] = 0 /\ q[1 + g + 1] = first + 1 - 1
            BY <2>20, <6>1
          <6> QED
            BY <6>1, <6>2
        <5> QED
          BY <2>6, <2>9, <2>20, <3>2, <4>1, <5>1
      <4>2. CASE g = 0
        <5>1. q[2] = first
          <6>1. 1 \in 1..m /\ 1 + g + 1 = 2 /\ first + 1 - 1 = first
            BY <2>6, <3>1, <4>2
          <6> QED
            BY <2>20, <6>1
        <5> QED
          BY <2>6, <2>9, <2>20, <3>2, <4>2, <5>1
      <4> QED
        BY <4>1, <4>2
    <3>3. CASE i # 1 /\ i = 1 + g
      <4>1. g = 1 /\ i = 2
        BY <3>3
      <4>2. q[2] = 0 /\ q[3] = first
        <5>1. 1 \in 1..g /\ 1 \in 1..m /\ 1 + 1 = 2 /\ 1 + g + 1 = 3 /\ first + 1 - 1 = first
          BY <2>6, <3>1, <4>1
        <5>2. q[1 + 1] = 0 /\ q[1 + g + 1] = first + 1 - 1
          BY <2>20, <5>1
        <5> QED
          BY <5>1, <5>2
      <4> QED
        BY <2>6, <4>1, <4>2
    <3>4. CASE i > 1 + g /\ i < 1 + g + m
      <4>1. PICK j \in 1..m : j = i - 1 - g /\ j + 1 \in 1..m
        BY <3>4
      <4>2. q[i] = first + j - 1 /\ q[i + 1] = first + j
        <5>1. i = 1 + g + j /\ i + 1 = 1 + g + (j + 1) /\ first + (j + 1) - 1 = first + j
          BY <2>6, <4>1
        <5> QED
          BY <2>20, <4>1, <5>1
      <4> QED
        BY <2>6, <4>1, <4>2
    <3>5. CASE i = 1 + g + m
      <4>1. q[i] = last
        <5>1. m \in 1..m /\ first + m - 1 = last
          BY <2>6, <2>7, <3>1
        <5> QED
          BY <2>20, <3>5, <5>1
      <4>2. CASE h = 1
        <5>1. q[i + 1] = 0 /\ q[i + 2] = total
          <6>1. 1 \in 1..h /\ i + 1 = 1 + g + m + 1 /\ i + 2 = 2 + g + m + h
            BY <3>5, <4>2
          <6> QED
            BY <2>20, <6>1
        <5> QED
          BY <2>6, <2>11, <4>1, <4>2, <5>1
      <4>3. CASE h = 0
        <5>1. q[i + 1] = total
          <6>1. i + 1 = 2 + g + m + h
            BY <3>5, <4>3
          <6> QED
            BY <2>20, <6>1
        <5> QED
          BY <2>6, <2>11, <4>1, <4>3, <5>1
      <4> QED
        BY <4>2, <4>3
    <3>6. CASE i > 1 + g + m
      <4>1. h = 1 /\ i = 1 + g + m + 1 /\ i + 1 = 2 + g + m + h
        BY <2>20, <3>6
      <4>2. q[i] = 0 /\ q[i + 1] = total
        <5>1. 1 \in 1..h
          BY <4>1
        <5> QED
          BY <2>20, <4>1, <5>1
      <4> QED
        BY <1>2, <4>2
    <3> QED
      BY <3>2, <3>3, <3>4, <3>5, <3>6
  <2>24. q[1] = 1 /\ q[Len(q)] = total
    BY <2>20
  <2> QED
    BY <2>21, <2>22, <2>23, <2>24 DEF Connected, Gap
<1> QED
  BY <1>1, <1>2

LEMMA BoardPagesConnected ==
    ASSUME BoardsTypeOK
    PROVE  PagesAreConnected
  BY PagesAreNumbers, PageNumbersConnected, TerminalNumbersConnected DEF PagesAreConnected

-----------------------------------------------------------------------------
(***************************************************************************)
(* The spinners of the session pages, for every number of tabs, contests   *)
(* and pending requests.                                                   *)
(***************************************************************************)

GoodTab(r) == /\ r = [page |-> r.page, c |-> r.c, auth |-> r.auth, busy |-> r.busy]
              /\ r.busy \in Slot \cup {Nothing}
GoodTabs == /\ tab = [w \in Window |-> tab[w]]
            /\ \A w \in Window : GoodTab(tab[w])

\* A function that will stop the spinner of a tab that shows the page.
Ending(t, w, p) == /\ t.op = (IF p = "login" THEN "login" ELSE "list")
                   /\ t.arg.w = w

\* The inductive invariant.
BusyInv == SessionInv /\ GoodTabs /\ BusyIsAttended

LEMMA BusyEnds ==
    ASSUME BusyInv, NEW w \in Window, tab[w].busy # Nothing
    PROVE  tab[w].busy \in Slot /\ Ending(task[tab[w].busy], w, tab[w].page)
  BY DEF BusyInv, BusyIsAttended, GoodTabs, GoodTab, Ending, Arg

LEMMA LoginPageIsGood == GoodTab(LoginPage) /\ LoginPage.busy = Nothing
  BY DEF GoodTab, LoginPage

\* One tab changes at a time.
LEMMA OneTabChanges ==
    ASSUME GoodTabs, NEW w, NEW r, GoodTab(r), tab' = [tab EXCEPT ![w] = r]
    PROVE  GoodTabs' /\ \A v \in Window : tab'[v] = IF v = w THEN r ELSE tab[v]
<1>1. /\ tab' = [v \in Window |-> tab'[v]]
      /\ \A v \in Window : tab'[v] = IF v = w THEN r ELSE tab[v]
  BY DEF GoodTabs
<1> QED
  BY <1>1 DEF GoodTabs

LEMMA BusyKept ==
    ASSUME BusyInv, SessionInv', GoodTabs',
           \A w \in Window :
              \/ tab'[w].busy = Nothing
              \/ Ending(task'[tab'[w].busy], w, tab'[w].page)
              \/ /\ tab'[w].busy = tab[w].busy
                 /\ tab'[w].page = "login" <=> tab[w].page = "login"
                 /\ \A s \in Slot : tab[w].busy = s /\ Ending(task[s], w, tab[w].page)
                                       => Ending(task'[s], w, tab[w].page)
    PROVE  BusyInv'
<1>1. ASSUME NEW w \in Window, tab'[w].busy # Nothing
      PROVE  Ending(task'[tab'[w].busy], w, tab'[w].page)
  <2>1. CASE /\ tab'[w].busy = tab[w].busy
             /\ tab'[w].page = "login" <=> tab[w].page = "login"
             /\ \A s \in Slot : tab[w].busy = s /\ Ending(task[s], w, tab[w].page)
                                   => Ending(task'[s], w, tab[w].page)
    <3>1. tab[w].busy \in Slot /\ Ending(task[tab[w].busy], w, tab[w].page)
      BY <1>1, <2>1, BusyEnds
    <3>2. Ending(task'[tab'[w].busy], w, tab[w].page)
      BY <2>1, <3>1
    <3> QED
      BY <2>1, <3>2 DEF Ending
  <2> QED
    BY <1>1, <2>1
<1> QED
  BY <1>1 DEF BusyInv, BusyIsAttended, Ending, Arg

\* The tabs stay as they are.
LEMMA SameTabs ==
    ASSUME BusyInv, SessionInv', UNCHANGED tab,
           \A s \in Slot : task[s].op \in {"login", "list"} =>
              task'[s].op = task[s].op /\ task'[s].arg.w = task[s].arg.w
    PROVE  BusyInv'
<1>1. GoodTabs'
  BY DEF BusyInv, GoodTabs
<1>2. ASSUME NEW w, NEW p, NEW s \in Slot, Ending(task[s], w, p) PROVE Ending(task'[s], w, p)
  BY <1>2 DEF Ending
<1> QED
  BY <1>1, <1>2, BusyKept

LEMMA BusyInitInv == SessionInit => BusyInv
<1> SUFFICES ASSUME SessionInit PROVE BusyInv
  OBVIOUS
<1>1. tab = [w \in Window |-> LoginPage]
  BY DEF SessionInit
<1> QED
  BY <1>1, SessionInitInv, LoginPageIsGood DEF BusyInv, GoodTabs, BusyIsAttended

\* A function that begins in a free slot, and the page it is begun for.
LEMMA BeginKept ==
    ASSUME BusyInv, SessionInv', NEW s \in Slot, task[s].op = "none", NEW t,
           task' = [task EXCEPT ![s] = t], NEW w,
           \/ UNCHANGED tab
           \/ \E r : GoodTab(r) /\ tab' = [tab EXCEPT ![w] = r]
                     /\ (r.busy = Nothing \/ (r.busy = s /\ Ending(t, w, r.page)))
    PROVE  BusyInv'
<1>1. GoodTabs /\ GoodTasks
  BY DEF BusyInv, SessionInv
<1>2. \A u \in Slot : task'[u] = IF u = s THEN t ELSE task[u]
  BY <1>1 DEF GoodTasks
<1>3. ASSUME NEW v, NEW p, NEW u \in Slot, Ending(task[u], v, p) PROVE Ending(task'[u], v, p)
  <2>1. u # s
    BY <1>3 DEF Ending
  <2> QED
    BY <1>2, <1>3, <2>1
<1>4. CASE UNCHANGED tab
  BY <1>2, <1>4, SameTabs
<1>5. ASSUME NEW r, GoodTab(r), tab' = [tab EXCEPT ![w] = r],
             r.busy = Nothing \/ (r.busy = s /\ Ending(t, w, r.page))
      PROVE  BusyInv'
  <2>1. GoodTabs' /\ \A v \in Window : tab'[v] = IF v = w THEN r ELSE tab[v]
    <3>1. GoodTabs'
      BY <1>1, <1>5, OneTabChanges
    <3>2. \A v \in Window : tab'[v] = IF v = w THEN r ELSE tab[v]
      BY <1>1, <1>5 DEF GoodTabs
    <3> QED
      BY <3>1, <3>2
  <2> QED
    BY <1>2, <1>3, <1>5, <2>1, BusyKept
<1> QED
  BY <1>4, <1>5

\* A function of a tab goes on as another or ends, and the tab, whose spinner may have
\* been its own, changes.
LEMMA FollowsKept ==
    ASSUME BusyInv, SessionInv', NEW s \in Slot, NEW t, task' = [task EXCEPT ![s] = t],
           \/ /\ UNCHANGED tab
              /\ task[s].op \notin {"login", "list"}
           \/ \E r : /\ GoodTab(r) /\ tab' = [tab EXCEPT ![Arg(s).w] = r]
                     /\ \/ r.busy = Nothing
                        \/ r.busy = s /\ Ending(t, Arg(s).w, r.page)
                        \/ /\ r.busy = tab[Arg(s).w].busy /\ r.busy # s
                           /\ r.page = "login" <=> tab[Arg(s).w].page = "login"
    PROVE  BusyInv'
<1>1. GoodTabs /\ GoodTasks
  BY DEF BusyInv, SessionInv
<1>2. \A u \in Slot : task'[u] = IF u = s THEN t ELSE task[u]
  BY <1>1 DEF GoodTasks
<1>3. CASE UNCHANGED tab /\ task[s].op \notin {"login", "list"}
  BY <1>2, <1>3, SameTabs
<1>4. ASSUME NEW w, w = Arg(s).w, NEW r, GoodTab(r), tab' = [tab EXCEPT ![w] = r],
             \/ r.busy = Nothing
             \/ r.busy = s /\ Ending(t, w, r.page)
             \/ /\ r.busy = tab[w].busy /\ r.busy # s
                /\ r.page = "login" <=> tab[w].page = "login"
      PROVE  BusyInv'
  <2>1. GoodTabs' /\ \A v \in Window : tab'[v] = IF v = w THEN r ELSE tab[v]
    <3>1. GoodTabs'
      BY <1>1, <1>4, OneTabChanges
    <3>2. \A v \in Window : tab'[v] = IF v = w THEN r ELSE tab[v]
      BY <1>1, <1>4 DEF GoodTabs
    <3> QED
      BY <3>1, <3>2
  <2>2. ASSUME NEW v \in Window, v # w, NEW u \in Slot, Ending(task[u], v, tab[v].page)
        PROVE  Ending(task'[u], v, tab[v].page)
    <3>1. u # s
      BY <1>4, <2>2 DEF Ending, Arg
    <3> QED
      BY <1>2, <2>2, <3>1
  <2>3. ASSUME NEW v \in Window, v = w, tab'[v].busy # Nothing,
               ~Ending(task'[tab'[v].busy], v, tab'[v].page)
        PROVE  /\ tab'[v].busy = tab[v].busy
               /\ tab'[v].page = "login" <=> tab[v].page = "login"
               /\ \A u \in Slot : tab[v].busy = u /\ Ending(task[u], v, tab[v].page)
                                     => Ending(task'[u], v, tab[v].page)
    BY <1>2, <1>4, <2>1, <2>3
  <2> QED
    BY <2>1, <2>2, <2>3, BusyKept
<1> QED
  BY <1>3, <1>4

\* A tab whose page is loaded again: its functions have ended, those of the others go on.
LEMMA LoadedKept ==
    ASSUME BusyInv, SessionInv', NEW w, NEW r, GoodTab(r), tab' = [tab EXCEPT ![w] = r],
           \/ task' = Dropped(w) /\ r.busy = Nothing
           \/ \E s \in Slot : \E t : /\ Dropped(w)[s] = NoTask
                                 /\ task' = [Dropped(w) EXCEPT ![s] = t]
                                 /\ \/ r.busy = Nothing
                                    \/ r.busy = s /\ Ending(t, w, r.page)
    PROVE  BusyInv'
<1>1. GoodTabs /\ GoodTasks
  BY DEF BusyInv, SessionInv
<1>2. GoodTabs' /\ \A v \in Window : tab'[v] = IF v = w THEN r ELSE tab[v]
  <2>1. GoodTabs'
    BY <1>1, OneTabChanges
  <2>2. \A v \in Window : tab'[v] = IF v = w THEN r ELSE tab[v]
    BY <1>1 DEF GoodTabs
  <2> QED
    BY <2>1, <2>2
<1>3. ASSUME NEW v, v # w, NEW p, NEW u \in Slot, Ending(task[u], v, p)
      PROVE  Dropped(w)[u] = task[u] /\ task[u] # NoTask
  BY <1>3 DEF Ending, Dropped, TasksOf, Arg, NoTask
<1>4. CASE task' = Dropped(w) /\ r.busy = Nothing
  BY <1>2, <1>3, <1>4, BusyKept
<1>5. ASSUME NEW s \in Slot, NEW t, Dropped(w)[s] = NoTask,
             task' = [Dropped(w) EXCEPT ![s] = t],
             r.busy = Nothing \/ (r.busy = s /\ Ending(t, w, r.page))
      PROVE  BusyInv'
  <2>1. \A u \in Slot : task'[u] = IF u = s THEN t ELSE Dropped(w)[u]
    BY <1>5 DEF Dropped
  <2>2. ASSUME NEW v, v # w, NEW p, NEW u \in Slot, Ending(task[u], v, p)
        PROVE  Ending(task'[u], v, p)
    <3>1. Dropped(w)[u] = task[u] /\ u # s
      BY <1>3, <1>5, <2>2
    <3> QED
      BY <2>1, <2>2, <3>1
  <2> QED
    BY <1>2, <1>5, <2>1, <2>2, BusyKept
<1> QED
  BY <1>4, <1>5

\* The list of contests is asked for by a function that will end its spinner.
LEMMA ListEnds == \A w, c, st : Ending(FirstOf(w, "contests", c, st), w, "contests")
  BY DEF Ending, FirstOf, Held

LEMMA SessionMovesKept ==
    ASSUME BusyInv, SessionInv', SessionMoves
    PROVE  BusyInv'
<1>1. GoodTabs /\ GoodTasks
  BY DEF BusyInv, SessionInv
<1>2. PICK w \in Window :
          \/ handleSubmit(w) \/ fetchWithAuth(w) \/ ToContests(w) \/ handleLogout(w)
          \/ Opens(w, "contests", Nothing)
          \/ \E c \in Contest : handleContestClick(w, c) \/ Opens(w, "contest", c)
  BY DEF SessionMoves
<1>3. PICK r0 : r0 = tab[w] /\ GoodTab(r0)
  BY <1>1 DEF GoodTabs
<1>4. tab = [v \in Window |-> tab[v]] /\ NoTask.op = "none"
  BY <1>1 DEF GoodTabs, NoTask
<1>5. CASE handleSubmit(w)
  <2>1. PICK s \in Slot : /\ FreeSlot(s) /\ Start(s, "login", "sent", Held(w, NoToken, Nothing))
                          /\ tab' = [tab EXCEPT ![w].busy = s]
    BY <1>5 DEF handleSubmit
  <2>2. PICK r : r = [page |-> "login", c |-> r0.c, auth |-> r0.auth, busy |-> s]
    OBVIOUS
  <2>3. GoodTab(r) /\ tab' = [tab EXCEPT ![w] = r]
    <3>1. r0 = [page |-> "login", c |-> r0.c, auth |-> r0.auth, busy |-> r0.busy]
      BY <1>3, <1>5 DEF handleSubmit, GoodTab
    <3>2. [r0 EXCEPT !.busy = s] = r
      BY <2>2, <3>1
    <3>3. tab' = [tab EXCEPT ![w] = [tab[w] EXCEPT !.busy = s]]
      BY <1>4, <2>1
    <3> QED
      BY <1>3, <2>2, <3>2, <3>3 DEF GoodTab
  <2>4. PICK t : t = [op |-> "login", at |-> "sent", arg |-> Held(w, NoToken, Nothing)]
    OBVIOUS
  <2>5. Ending(t, w, r.page) /\ r.busy = s
    BY <2>2, <2>4 DEF Ending, Held
  <2>6. task' = [task EXCEPT ![s] = t] /\ task[s].op = "none"
    BY <2>1, <2>4 DEF Start, FreeSlot
  <2> QED
    BY <2>3, <2>5, <2>6, BeginKept
<1>6. ASSUME NEW s \in Slot, FreeSlot(s), UNCHANGED tab,
             \E op, arg : Start(s, op, "sent", arg)
      PROVE  BusyInv'
  <2>1. PICK t : task' = [task EXCEPT ![s] = t]
    BY <1>6 DEF Start
  <2> QED
    BY <1>6, <2>1, BeginKept DEF FreeSlot
<1>7. CASE fetchWithAuth(w)
  BY <1>6, <1>7 DEF fetchWithAuth
<1>8. ASSUME NEW c, handleContestClick(w, c) PROVE BusyInv'
  BY <1>6, <1>8 DEF handleContestClick
<1>9. CASE ToContests(w)
  <2>1. PICK s \in Slot :
          /\ FreeSlot(s) /\ task' = [task EXCEPT ![s] = FirstOf(w, "contests", Nothing, store)]
          /\ tab' = [tab EXCEPT ![w].page = "contests", ![w].c = Nothing, ![w].busy = s]
    BY <1>9 DEF ToContests
  <2>2. PICK r : r = [r0 EXCEPT !.page = "contests", !.c = Nothing, !.busy = s]
    OBVIOUS
  <2>3. GoodTab(r) /\ tab' = [tab EXCEPT ![w] = r]
    <3>1. GoodTab(r)
      BY <1>3, <2>2 DEF GoodTab
    <3>2. tab' = [tab EXCEPT ![w] = [tab[w] EXCEPT !.page = "contests", !.c = Nothing, !.busy = s]]
      BY <1>4, <2>1
    <3> QED
      BY <1>3, <2>2, <3>1, <3>2
  <2>7. r.page = "contests" /\ r.busy = s
    BY <1>3, <2>2 DEF GoodTab
  <2>4. PICK t : t = FirstOf(w, "contests", Nothing, store)
    OBVIOUS
  <2>5. Ending(t, w, r.page) /\ r.busy = s
    BY <2>4, <2>7, ListEnds
  <2>6. task' = [task EXCEPT ![s] = t] /\ task[s].op = "none"
    BY <2>1, <2>4 DEF FreeSlot
  <2> QED
    BY <2>3, <2>5, <2>6, BeginKept
<1>10. CASE handleLogout(w)
  <2>1. CASE store.token.serial = 0
    <3>1. UNCHANGED task /\ tab' = [tab EXCEPT ![w] = LoginPage]
      BY <1>10, <2>1 DEF handleLogout
    <3>2. GoodTabs'
      BY <1>1, <3>1, LoginPageIsGood, OneTabChanges
    <3>3. \A v \in Window : tab'[v] = IF v = w THEN LoginPage ELSE tab[v]
      BY <1>4, <3>1
    <3> QED
      BY <3>1, <3>2, <3>3, LoginPageIsGood, BusyKept
  <2>2. CASE store.token.serial # 0
    BY <1>6, <1>10, <2>2 DEF handleLogout
  <2> QED
    BY <2>1, <2>2
<1>11. ASSUME NEW p \in {"contests", "contest"}, NEW c, Opens(w, p, c) PROVE BusyInv'
  <2>1. CASE Loads(w)
    <3>1. PICK s \in Slot :
              /\ Dropped(w)[s] = NoTask
              /\ task' = [Dropped(w) EXCEPT ![s] = FirstOf(w, p, c, store)]
              /\ tab' = [tab EXCEPT ![w] = [page |-> p, c |-> c, auth |-> TRUE,
                                            busy |-> IF p = "contests" THEN s ELSE Nothing]]
      BY <1>11, <2>1 DEF Opens
    <3>2. PICK r : r = [page |-> p, c |-> c, auth |-> TRUE,
                        busy |-> IF p = "contests" THEN s ELSE Nothing]
      OBVIOUS
    <3>3. GoodTab(r)
      BY <3>2 DEF GoodTab
    <3>4. PICK t : t = FirstOf(w, p, c, store)
      OBVIOUS
    <3>5. r.busy = Nothing \/ (r.busy = s /\ Ending(t, w, r.page))
      <4>1. CASE p = "contests"
        <5>1. Ending(FirstOf(w, "contests", c, store), w, "contests")
          BY ListEnds
        <5> QED
          BY <3>2, <3>4, <4>1, <5>1
      <4>2. CASE p # "contests"
        BY <3>2, <4>2
      <4> QED
        BY <4>1, <4>2
    <3> QED
      BY <3>1, <3>2, <3>3, <3>4, <3>5, LoadedKept
  <2>2. CASE ~Loads(w)
    BY <1>11, <2>2, LoginPageIsGood, LoadedKept DEF Opens
  <2> QED
    BY <2>1, <2>2
<1> QED
  BY <1>2, <1>5, <1>7, <1>8, <1>9, <1>10, <1>11

\* The server answers a function, or gives it a new token: what it is, and of which
\* tab, stay.
LEMMA ServerKeepsBusy ==
    ASSUME BusyInv, SessionInv', SessionServer
    PROVE  BusyInv'
<1>1. GoodTasks /\ UNCHANGED tab
  BY DEF BusyInv, SessionInv, SessionServer, AuthBasic, AuthCached, AuthRead, AuthFill, Login,
     SelectContest, SelectDrops, Logout, Serves, CacheExpires, GenerateUserToken
<1>2. ASSUME NEW s \in Slot, task[s].op # "none", NEW at, Answers(s, at)
      PROVE  \A u \in Slot : task'[u].op = task[u].op /\ task'[u].arg = task[u].arg
  <2>1. task[s] = [op |-> task[s].op, at |-> task[s].at, arg |-> task[s].arg]
    BY <1>1 DEF GoodTasks, GoodTask
  <2>2. task'[s] = [task[s] EXCEPT !.at = at] /\ \A u \in Slot \ {s} : task'[u] = task[u]
    BY <1>1, <1>2 DEF Answers, GoodTasks
  <2> QED
    BY <2>1, <2>2
<1>3. ASSUME NEW s \in Slot, task[s].op # "none", NEW c, GenerateUserToken(s, c)
      PROVE  \A u \in Slot : task'[u].op = task[u].op /\ task'[u].arg.w = task[u].arg.w
  <2>1. /\ task[s] = [op |-> task[s].op, at |-> task[s].at, arg |-> task[s].arg]
        /\ task[s].arg = Held(task[s].arg.w, task[s].arg.token, task[s].arg.c)
    BY <1>1, <1>3 DEF GoodTasks, GoodTask
  <2>2. PICK at, new : task' = [task EXCEPT ![s].at = at, ![s].arg.token = new]
    BY <1>3 DEF GenerateUserToken
  <2>3. task'[s] = [task[s] EXCEPT !.at = at, !.arg.token = new]
        /\ \A u \in Slot \ {s} : task'[u] = task[u]
    BY <1>1, <2>2 DEF GoodTasks
  <2>4. task'[s].op = task[s].op /\ task'[s].arg = [task[s].arg EXCEPT !.token = new]
    BY <2>1, <2>3
  <2>5. task'[s].arg.w = task[s].arg.w
    BY <2>1, <2>4 DEF Held
  <2> QED
    BY <2>3, <2>4, <2>5
<1>4. ASSUME NEW s \in Slot,
             \/ AuthBasic(s) \/ AuthCached(s) \/ AuthRead(s) \/ AuthFill(s)
             \/ SelectDrops(s) \/ Logout(s) \/ Serves(s)
      PROVE  BusyInv'
  <2>1. \E at : Answers(s, at)
    BY <1>4 DEF AuthBasic, AuthCached, AuthRead, AuthFill, SelectDrops, Logout, Serves
  <2>2. CASE task[s].op # "none"
    BY <1>1, <1>2, <2>1, <2>2, SameTabs
  <2>3. CASE task[s].op = "none"
    <3>1. \A u \in Slot \ {s} : task'[u] = task[u]
      BY <1>1, <2>1 DEF Answers, GoodTasks
    <3> QED
      BY <1>1, <2>3, <3>1, SameTabs
  <2> QED
    BY <2>2, <2>3
<1>5. ASSUME NEW s \in Slot, Login(s) \/ SelectContest(s) PROVE BusyInv'
  <2>1. task[s].op # "none" /\ \E c : GenerateUserToken(s, c)
    BY <1>5 DEF Login, SelectContest, Awaits
  <2> QED
    BY <1>1, <1>3, <2>1, SameTabs
<1>6. ASSUME NEW c \in Contest, CacheExpires(c) PROVE BusyInv'
  BY <1>1, <1>6, SameTabs DEF CacheExpires
<1> QED
  BY <1>4, <1>5, <1>6 DEF SessionServer

LEMMA AnswersKeepBusy ==
    ASSUME BusyInv, SessionInv', SessionAnswers
    PROVE  BusyInv'
<1>1. GoodTabs /\ GoodTasks /\ tab = [v \in Window |-> tab[v]]
  BY DEF BusyInv, SessionInv, GoodTabs
<1>2. PICK s \in Slot :
        \/ Fails(s) \/ LoginAnswered(s) \/ SelectAnswered(s) \/ AutoSelectAnswered(s)
        \/ SelectRefused(s) \/ ListServed(s) \/ ListRefused(s) \/ GetServed(s)
        \/ GetRefused(s) \/ LogoutAnswered(s)
  BY DEF SessionAnswers
<1>3. PICK w : w = Arg(s).w
  OBVIOUS
<1>4. ASSUME NEW t, task' = [task EXCEPT ![s] = t], tab' = [tab EXCEPT ![w] = LoginPage]
      PROVE  BusyInv'
  BY <1>3, <1>4, LoginPageIsGood, FollowsKept
<1>5. ASSUME NEW t, task' = [task EXCEPT ![s] = t], UNCHANGED tab,
             task[s].op \notin {"login", "list"}
      PROVE  BusyInv'
  BY <1>5, FollowsKept
<1>6. ASSUME NEW t, task' = [task EXCEPT ![s] = t], tab' = Unspun(s) PROVE BusyInv'
  <2>1. CASE w \in Window
    <3>1. PICK r0 : r0 = tab[w] /\ GoodTab(r0)
      BY <1>1, <2>1 DEF GoodTabs
    <3>2. CASE r0.busy = s
      <4>1. PICK r : r = [page |-> r0.page, c |-> r0.c, auth |-> r0.auth, busy |-> Nothing]
        OBVIOUS
      <4>2. [r0 EXCEPT !.busy = Nothing] = r /\ GoodTab(r)
        BY <3>1, <4>1 DEF GoodTab
      <4>3. tab' = [tab EXCEPT ![w] = [tab[w] EXCEPT !.busy = Nothing]]
        BY <1>1, <1>3, <1>6, <3>1, <3>2 DEF Unspun
      <4>4. tab' = [tab EXCEPT ![w] = r] /\ r.busy = Nothing
        BY <3>1, <4>1, <4>2, <4>3
      <4> QED
        BY <1>3, <1>6, <4>2, <4>4, FollowsKept
    <3>3. CASE r0.busy # s
      <4>1. tab' = tab /\ tab = [tab EXCEPT ![w] = r0]
        BY <1>1, <1>3, <1>6, <3>1, <3>3 DEF Unspun
      <4>2. GoodTab(r0) /\ tab' = [tab EXCEPT ![w] = r0] /\ r0.busy = tab[w].busy
            /\ r0.page = tab[w].page
        BY <3>1, <4>1
      <4> QED
        BY <1>3, <1>6, <3>3, <4>2, FollowsKept
    <3> QED
      BY <3>2, <3>3
  <2>2. CASE w \notin Window
    <3>1. tab' = tab
      BY <1>1, <1>3, <1>6, <2>2 DEF Unspun
    <3>2. tab' = [tab EXCEPT ![w] = LoginPage]
      BY <1>1, <2>2, <3>1
    <3> QED
      BY <1>4, <1>6, <3>2
  <2> QED
    BY <2>1, <2>2
<1>7. ASSUME NEW t, task' = [task EXCEPT ![s] = t], tab' = Denied(s), task[s].op = "autoselect"
      PROVE  BusyInv'
  <2>1. CASE UNCHANGED tab
    BY <1>5, <1>7, <2>1
  <2>2. CASE ~UNCHANGED tab
    <3>1. tab[w].page = "contest" /\ tab' = [tab EXCEPT ![w].page = "denied"] /\ w \in Window
      BY <1>1, <1>3, <1>7, <2>2 DEF Denied
    <3>2. PICK r0 : r0 = tab[w] /\ GoodTab(r0)
      BY <1>1, <3>1 DEF GoodTabs
    <3>3. PICK r : r = [page |-> "denied", c |-> r0.c, auth |-> r0.auth, busy |-> r0.busy]
      OBVIOUS
    <3>4. [r0 EXCEPT !.page = "denied"] = r /\ GoodTab(r)
      BY <3>2, <3>3 DEF GoodTab
    <3>5. tab' = [tab EXCEPT ![w] = r]
      BY <1>1, <3>1, <3>2, <3>4
    <3>6. r.busy = Nothing \/ r.busy # s
      BY <1>7, <3>1, <3>2, <3>3, BusyEnds DEF Ending
    <3>7. r.page = "denied" /\ r.busy = tab[w].busy
      BY <3>2, <3>3
    <3> QED
      BY <1>3, <1>7, <3>1, <3>4, <3>5, <3>6, <3>7, FollowsKept
  <2> QED
    BY <2>1, <2>2
<1>8. CASE Fails(s)
  BY <1>3, <1>4, <1>6, <1>7, <1>8 DEF Fails, Ends
<1>9. CASE LoginAnswered(s)
  <2>1. PICK st : task' = [task EXCEPT ![s] = FirstOf(w, "contests", Nothing, st)]
    BY <1>3, <1>9 DEF LoginAnswered
  <2>2. PICK t : t = FirstOf(w, "contests", Nothing, st)
    OBVIOUS
  <2>3. PICK r : r = [page |-> "contests", c |-> Nothing, auth |-> TRUE, busy |-> s]
    OBVIOUS
  <2>4. GoodTab(r) /\ tab' = [tab EXCEPT ![w] = r] /\ r.busy = s /\ r.page = "contests"
    BY <1>3, <1>9, <2>3 DEF LoginAnswered, GoodTab
  <2>5. Ending(t, w, r.page)
    BY <2>2, <2>4, ListEnds
  <2> QED
    BY <1>3, <2>1, <2>2, <2>4, <2>5, FollowsKept
<1>10. CASE SelectAnswered(s)
  <2>1. task[s].op = "select" /\ \E t : task' = [task EXCEPT ![s] = t]
    BY <1>10 DEF SelectAnswered, Awaits, Ends
  <2>2. \/ UNCHANGED tab
        \/ tab' = [tab EXCEPT ![w] = LoginPage]
        \/ tab' = [tab EXCEPT ![w].page = "contest", ![w].c = Arg(s).c, ![w].busy = Nothing]
    BY <1>3, <1>10 DEF SelectAnswered
  <2>3. CASE tab' = [tab EXCEPT ![w].page = "contest", ![w].c = Arg(s).c, ![w].busy = Nothing]
    <3>1. CASE w \in Window
      <4>1. PICK r0 : r0 = tab[w] /\ GoodTab(r0)
        BY <1>1, <3>1 DEF GoodTabs
      <4>2. PICK r, c : c = Arg(s).c /\ r = [r0 EXCEPT !.page = "contest", !.c = c, !.busy = Nothing]
        OBVIOUS
      <4>3. GoodTab(r) /\ r.busy = Nothing
        BY <4>1, <4>2 DEF GoodTab
      <4>4. tab' = [tab EXCEPT ![w] = r]
        <5>1. tab' = [tab EXCEPT ![w].page = "contest", ![w].c = c, ![w].busy = Nothing]
          BY <2>3, <4>2
        <5> QED
          BY <1>1, <3>1, <4>1, <4>2, <5>1
      <4> QED
        BY <1>3, <2>1, <4>3, <4>4, FollowsKept
    <3>2. CASE w \notin Window
      <4>1. UNCHANGED tab
        BY <1>1, <2>3, <3>2
      <4> QED
        BY <1>5, <2>1, <4>1
    <3> QED
      BY <3>1, <3>2
  <2> QED
    BY <1>4, <1>5, <2>1, <2>2, <2>3
<1>11. CASE AutoSelectAnswered(s)
  <2>1. task[s].op = "autoselect" /\ (\E t : task' = [task EXCEPT ![s] = t]) /\ UNCHANGED tab
    BY <1>11 DEF AutoSelectAnswered, Awaits
  <2> QED
    BY <1>5, <2>1
<1>12. CASE SelectRefused(s)
  BY <1>5, <1>7, <1>12 DEF SelectRefused, Ends
<1>13. CASE ListServed(s)
  BY <1>6, <1>13 DEF ListServed, Ends
<1>14. CASE ListRefused(s)
  BY <1>14, LoginPageIsGood, LoadedKept DEF ListRefused, Expelled
<1>15. CASE GetServed(s)
  BY <1>5, <1>15 DEF GetServed, Ends, Awaits
<1>16. CASE GetRefused(s)
  <2>1. \/ Ends(s) /\ UNCHANGED tab /\ task[s].op = "get"
        \/ task' = Dropped(w) /\ tab' = [tab EXCEPT ![w] = LoginPage]
    BY <1>3, <1>16 DEF GetRefused, Expelled, Awaits
  <2> QED
    BY <1>5, <2>1, LoginPageIsGood, LoadedKept DEF Ends
<1>17. CASE LogoutAnswered(s)
  BY <1>3, <1>4, <1>17 DEF LogoutAnswered, Ends
<1> QED
  BY <1>2, <1>8, <1>9, <1>10, <1>11, <1>12, <1>13, <1>14, <1>15, <1>16, <1>17

LEMMA BusyStepInv == BusyInv /\ [SessionNext]_sessionVars => BusyInv'
<1> SUFFICES ASSUME BusyInv, [SessionNext]_sessionVars PROVE BusyInv'
  OBVIOUS
<1>1. SessionInv'
  BY SessionInductive DEF BusyInv
<1>2. CASE UNCHANGED sessionVars
  BY <1>1, <1>2, SameTabs DEF sessionVars
<1> QED
  BY <1>1, <1>2, SessionMovesKept, ServerKeepsBusy, AnswersKeepBusy DEF SessionNext

-----------------------------------------------------------------------------
(***************************************************************************)
(* The flags of the pages of a team and the page of the log, for every set *)
(* of tickets, instances, passwords and numbers of logs.                   *)
(***************************************************************************)

\* What a function may be and await on each page.
Kinds(v) ==
    {<<"none", "none">>} \cup
    CASE v = "tickets" -> {<<"fetch", "sent">>, <<"fetch", "read">>, <<"create", "sent">>,
                           <<"delete", "dialog">>, <<"delete", "sent">>}
      [] v = "instances" -> {<<"fetch", "sent">>, <<"fetch", "read">>,
                             <<"stop", "dialog">>, <<"stop", "sent">>}
      [] v = "profile" -> {<<"reads", "sent">>, <<"change", "sent">>}
      [] v = "register" -> {<<"load", "config">>, <<"load", "metadata">>,
                            <<"register", "frame">>, <<"register", "sent">>}
      [] OTHER -> {<<"fetch", "sent">>, <<"fetch", "read">>}
KindsKnown == \A s \in Slot : <<task[s].op, task[s].at>> \in Kinds(view)

\* The popup is the dialog of the one function that waits for it.
Dialogs == /\ popup \in Slot \cup {Nothing, Alert}
           /\ \A s \in Slot : task[s].at = "dialog" <=> popup = s

\* The functions that will take a flag back, of which there is one at most.
LoadOps == {"fetch", "reads", "load"}
LoadAts == {"sent", "read", "config", "metadata"}
OneFor(flag, pending) == /\ flag <=> pending # {}
                         /\ \A s, t \in pending : s = t
Stopping(i) == {s \in PendingOf("stop", i) : task[s].at = "sent"} \cup PendingOf("fetch", i)

UiKnown ==
    CASE view = "tickets" ->
            ui = [loading |-> ui.loading, modal |-> ui.modal, submitting |-> ui.submitting,
                  list |-> ui.list]
      [] view = "ticket" -> ui = [loading |-> ui.loading, found |-> ui.found]
      [] view = "instances" ->
            ui = [loading |-> ui.loading, refreshing |-> ui.refreshing, list |-> ui.list,
                  stopping |-> ui.stopping]
      [] view = "logs" ->
            ui = [loading |-> ui.loading, found |-> ui.found, page |-> ui.page, rows |-> ui.rows]
      [] view = "profile" ->
            ui = [loading |-> ui.loading, modal |-> ui.modal, old |-> ui.old, new |-> ui.new,
                  confirm |-> ui.confirm, criteria |-> ui.criteria, changing |-> ui.changing]
      [] OTHER ->
            ui = [loading |-> ui.loading, left |-> ui.left, metadata |-> ui.metadata,
                  valid |-> ui.valid, captcha |-> ui.captcha, submitting |-> ui.submitting]

\* One function is pending for a flag, and a stop is confirmed once.
FlagsKnown ==
    /\ view = "tickets" => OneFor(ui.submitting, Tasks({"create"}, {"sent"}))
    /\ view = "profile" => OneFor(ui.changing, Tasks({"change"}, {"sent"}))
    /\ view = "register" => OneFor(ui.submitting, Tasks({"register"}, {"frame", "sent"}))
    /\ view = "instances" =>
          /\ \A i \in Item : OneFor(i \in ui.stopping, Stopping(i))
          /\ \A s \in Slot : task[s].at = "dialog" => task[s].arg.t \notin ui.stopping

\* The log is fetched once, and its first page is shown until then.
LogKnown ==
    view = "logs" =>
        /\ ui.found \in Nat /\ ui.rows \in Nat \ {0}
        /\ \A s, t \in Slot : task[s].op = "fetch" /\ task[t].op = "fetch" => s = t
        /\ \A s \in Slot : task[s].op = "fetch" => ui.loading
        /\ ui.loading => ui.page = 0
        /\ LogPageExists

\* The inductive invariant.
WaitsInv ==
    /\ view \in Views /\ TeamTasks /\ KindsKnown /\ Dialogs /\ UiKnown
    /\ ui.loading => Tasks(LoadOps, LoadAts) # {}
    /\ FlagsKnown /\ LogKnown

LEMMA ViewStays == TeamNext => view' = view
<1> SUFFICES ASSUME TeamNext PROVE view' = view
  OBVIOUS
<1>1. CASE TeamMoves
  BY <1>1 DEF TeamMoves, setShowModal, setShowPasswordModal,
       handleTicketSubmit, handleRefresh, handleChangePassword, updateForm, handleCaptcha,
       handleRegister, handleDeleteTicket, handleStop, Replies, Deploys, handleChangePage,
       handleFilterChange, handlePasswordInputChange
<1>2. CASE TeamAnswers
  BY <1>2 DEF TeamAnswers, AlertCloses, ServerLists, fetchTickets,
       SubmitAnswered, DeleteAnswered, fetchInstances, StopAnswered, Confirms, Cancels,
       fetchActionLogs, fetchAllData, ChangeAnswered, loadData, RegisterSends, RegisterAnswered
<1> QED
  BY <1>1, <1>2 DEF TeamNext

LEMMA NoSlots == Nothing \notin Slot /\ Alert \notin Slot /\ Nothing # Alert
<1>1. Slot \subseteq Nat \ {0}
  BY TabAssumption
<1>2. 0 \notin Nat \ {0} /\ -1 \notin Nat \ {0} /\ 0 # -1
  OBVIOUS
<1> QED
  BY <1>1, <1>2, Zenon DEF Nothing, Alert

LEMMA WaitsInitInv == TeamInit => WaitsInv
<1> SUFFICES ASSUME TeamInit PROVE WaitsInv
  OBVIOUS
<1>1. /\ 1 \in Slot /\ task = [NoTasks EXCEPT ![1] = FirstTask(view)] /\ view \in Views
      /\ ui = Mounted(view) /\ popup = Nothing
  BY TabAssumption DEF TeamInit
<1>2. PICK f : f = FirstTask(view)
  OBVIOUS
<1>3. /\ f = [op |-> f.op, at |-> f.at, arg |-> f.arg]
      /\ <<f.op, f.at>> \in Kinds(view) /\ f.op \in LoadOps /\ f.at \in LoadAts
      /\ f.arg.t = Nothing
  BY <1>2 DEF FirstTask, Kinds, LoadOps, LoadAts, Ask
<1>4. /\ task = [s \in Slot |-> task[s]] /\ task[1] = f
      /\ \A s \in Slot : s # 1 => task[s] = NoTask
  BY <1>1, <1>2 DEF NoTasks
<1>5. NoTask = [op |-> "none", at |-> "none", arg |-> NoTask.arg] /\ NoTask.op = "none"
      /\ NoTask.at = "none"
  BY DEF NoTask
<1>6. TeamTasks /\ KindsKnown
  BY <1>3, <1>4, <1>5 DEF TeamTasks, KindsKnown, Kinds
<1>7. Dialogs
  <2>1. \A s \in Slot : task[s].at # "dialog"
    <3>1. f.at # "dialog"
      BY <1>3 DEF LoadAts
    <3> QED
      BY <1>4, <1>5, <3>1
  <2> QED
    BY <1>1, <2>1, NoSlots DEF Dialogs
<1>8. UiKnown
  BY <1>1 DEF UiKnown, Mounted, Views
<1>9. Tasks(LoadOps, LoadAts) # {}
  BY <1>1, <1>3, <1>4 DEF Tasks
<1>10. \A s \in Slot : task[s].op \notin {"create", "change", "register", "stop"}
  <2>1. f.op \notin {"create", "change", "register", "stop"}
    BY <1>3 DEF LoadOps
  <2> QED
    BY <1>4, <1>5, <2>1
<1>11. \A i \in Item : Stopping(i) = {}
  <2>1. \A i \in Item : i # Nothing
    BY TeamAssumption DEF Nothing
  <2> QED
    BY <1>3, <1>4, <1>5, <1>10, <2>1 DEF Stopping, PendingOf
<1>12. FlagsKnown
  <2>1. view = "tickets" => ~ui.submitting
    BY <1>1 DEF Mounted
  <2>2. view = "profile" => ~ui.changing
    BY <1>1 DEF Mounted
  <2>3. view = "register" => ~ui.submitting
    BY <1>1 DEF Mounted
  <2>4. view = "instances" => ui.stopping = {}
    BY <1>1 DEF Mounted
  <2>5. \A i \in Item : view = "instances" => i \notin ui.stopping
    BY <2>4
  <2>6. /\ Tasks({"create"}, {"sent"}) = {} /\ Tasks({"change"}, {"sent"}) = {}
        /\ Tasks({"register"}, {"frame", "sent"}) = {}
    BY <1>10 DEF Tasks
  <2> QED
    BY <1>11, <2>1, <2>2, <2>3, <2>4, <2>5, <2>6 DEF FlagsKnown, OneFor
<1>13. LogKnown
  <2>1. view = "logs" => /\ ui.loading /\ ui.page = 0 /\ ui.found = 0
                         /\ ui.rows = CHOOSE n \in LogRows : TRUE
    BY <1>1 DEF Mounted
  <2>3. (CHOOSE n \in LogRows : TRUE) \in Nat \ {0}
    BY TeamAssumption
  <2>4. view = "logs" => /\ ui.loading /\ ui.page = 0
                         /\ ui.found \in Nat /\ ui.rows \in Nat \ {0}
    <3>1. view = "logs" => ui.rows \in Nat \ {0}
      BY <2>1, <2>3, Zenon
    <3>2. 0 \in Nat
      OBVIOUS
    <3> QED
      BY <2>1, <3>1, <3>2, Zenon
  <2>2. \A s \in Slot : task[s].op = "fetch" => s = 1
    BY <1>4, <1>5
  <2> QED
    BY <2>2, <2>4 DEF LogKnown, LogPageExists
<1> QED
  BY <1>1, <1>6, <1>7, <1>8, <1>9, <1>12, <1>13 DEF WaitsInv

-----------------------------------------------------------------------------
\* One function goes on, begins or ends; another one ends only if it awaits the popup.
Changes(s, t) ==
    /\ TeamTasks' /\ Dialogs' /\ KindsKnown' /\ task'[s] = t
    /\ \A x \in Slot \ {s} : /\ task'[x] \in {task[x], NoTask}
                             /\ task[x].at # "dialog" => task'[x] = task[x]

Kind(t) == <<t.op, t.at>>
Shaped(t) == t = [op |-> t.op, at |-> t.at, arg |-> t.arg]

LEMMA NoTaskKind == \A v : Kind(NoTask) \in Kinds(v) /\ Shaped(NoTask) /\ NoTask.at # "dialog"
  BY DEF Kind, Kinds, Shaped, NoTask

\* The popup stays, opens for the function, or is closed by it.
LEMMA AloneChanges ==
    ASSUME WaitsInv, view' = view, NEW s \in Slot, NEW t, Shaped(t), Kind(t) \in Kinds(view),
           task' = [task EXCEPT ![s] = t],
           \/ popup' = popup /\ t.at # "dialog" /\ task[s].at # "dialog"
           \/ popup = Nothing /\ popup' = s /\ t.at = "dialog"
           \/ popup = s /\ popup' = Nothing /\ t.at # "dialog"
    PROVE  Changes(s, t)
<1>1. TeamTasks /\ KindsKnown /\ Dialogs
  BY DEF WaitsInv
<1>2. /\ task' = [x \in Slot |-> task'[x]] /\ task'[s] = t
      /\ \A x \in Slot \ {s} : task'[x] = task[x]
  BY <1>1 DEF TeamTasks
<1>3. TeamTasks' /\ KindsKnown'
  BY <1>1, <1>2 DEF TeamTasks, KindsKnown, Shaped, Kind
<1>4. Dialogs'
  BY <1>1, <1>2, NoSlots DEF Dialogs
<1> QED
  BY <1>2, <1>3, <1>4 DEF Changes

\* An alert takes the place of the popup; the function goes on or ends.
LEMMA AlertChanges ==
    ASSUME WaitsInv, view' = view, NEW s \in Slot, NEW t, Shaped(t), Kind(t) \in Kinds(view),
           t.at # "dialog", popup' = Alert,
           task' = [x \in Slot |-> IF x = s THEN t ELSE IF x = popup THEN NoTask ELSE task[x]]
    PROVE  Changes(s, t)
<1>1. TeamTasks /\ KindsKnown /\ Dialogs
  BY DEF WaitsInv
<1>2. /\ task' = [x \in Slot |-> task'[x]] /\ task'[s] = t
      /\ \A x \in Slot \ {s} : task'[x] = IF x = popup THEN NoTask ELSE task[x]
  OBVIOUS
<1>3. TeamTasks' /\ KindsKnown'
  BY <1>1, <1>2, NoTaskKind DEF TeamTasks, KindsKnown, Shaped, Kind
<1>4. Dialogs'
  BY <1>1, <1>2, NoSlots, NoTaskKind DEF Dialogs
<1>5. \A x \in Slot \ {s} : /\ task'[x] \in {task[x], NoTask}
                            /\ task[x].at # "dialog" => task'[x] = task[x]
  BY <1>1, <1>2 DEF Dialogs
<1> QED
  BY <1>2, <1>3, <1>4, <1>5 DEF Changes

\* The forms in which the handlers change a function.
LEMMA StartChanges ==
    ASSUME WaitsInv, view' = view, NEW s \in Slot, FreeSlot(s), NEW op, NEW at, NEW arg,
           Start(s, op, at, arg), <<op, at>> \in Kinds(view),
           \/ popup' = popup /\ at # "dialog"
           \/ popup = Nothing /\ popup' = s /\ at = "dialog"
    PROVE  Changes(s, [op |-> op, at |-> at, arg |-> arg]) /\ task[s].op = "none"
<1>1. PICK t : t = [op |-> op, at |-> at, arg |-> arg]
  OBVIOUS
<1>2. Shaped(t) /\ Kind(t) \in Kinds(view) /\ t.at = at
  BY <1>1 DEF Shaped, Kind
<1>3. task' = [task EXCEPT ![s] = t] /\ task[s].op = "none"
  BY <1>1 DEF Start, FreeSlot
<1>4. task[s].at # "dialog"
  BY <1>3 DEF WaitsInv, KindsKnown, Kinds
<1> QED
  BY <1>1, <1>2, <1>3, <1>4, AloneChanges

LEMMA EndsChanges ==
    ASSUME WaitsInv, view' = view, NEW s \in Slot, Ends(s),
           \/ popup' = popup /\ task[s].at # "dialog"
           \/ popup = s /\ popup' = Nothing
    PROVE  Changes(s, NoTask)
<1>1. task' = [task EXCEPT ![s] = NoTask]
  BY DEF Ends
<1> QED
  BY <1>1, NoTaskKind, AloneChanges

LEMMA AwaitChanges ==
    ASSUME WaitsInv, view' = view, NEW s \in Slot, NEW at, NEW arg, Await(s, at, arg),
           <<task[s].op, at>> \in Kinds(view), at # "dialog",
           \/ popup' = popup /\ task[s].at # "dialog"
           \/ popup = s /\ popup' = Nothing
    PROVE  Changes(s, [op |-> task[s].op, at |-> at, arg |-> arg])
<1>1. PICK t : t = [op |-> task[s].op, at |-> at, arg |-> arg]
  OBVIOUS
<1>2. TeamTasks
  BY DEF WaitsInv
<1>3. task' = [task EXCEPT ![s] = t]
  <2>1. /\ task' = [x \in Slot |-> task'[x]] /\ \A x \in Slot \ {s} : task'[x] = task[x]
        /\ task'[s] = [task[s] EXCEPT !.at = at, !.arg = arg]
    BY <1>2 DEF TeamTasks, Await
  <2>2. task'[s] = t
    BY <1>1, <1>2, <2>1 DEF TeamTasks
  <2> QED
    BY <1>2, <2>1, <2>2 DEF TeamTasks
<1>4. Shaped(t) /\ Kind(t) \in Kinds(view) /\ t.at # "dialog"
  BY <1>1 DEF Shaped, Kind
<1> QED
  BY <1>1, <1>3, <1>4, AloneChanges

LEMMA FiresChanges ==
    ASSUME WaitsInv, view' = view, NEW s \in Slot, Fires(s, Alert)
    PROVE  Changes(s, NoTask)
<1>1. popup' = Alert /\ task' = [x \in Slot |-> IF x = s THEN NoTask
                                               ELSE IF x = popup THEN NoTask ELSE task[x]]
  BY DEF Fires
<1> QED
  BY <1>1, NoTaskKind, AlertChanges

LEMMA FetchChanges ==
    ASSUME WaitsInv, view' = view, view \in {"tickets", "instances"}, NEW s \in Slot, NEW i,
           FiresAnd(s, FetchOf(i))
    PROVE  Changes(s, FetchOf(i))
<1>1. PICK t : t = FetchOf(i)
  OBVIOUS
<1>2. Shaped(t) /\ Kind(t) \in Kinds(view) /\ t.at # "dialog"
  BY <1>1 DEF FetchOf, Shaped, Kind, Kinds
<1> QED
  BY <1>1, <1>2, AlertChanges DEF FiresAnd

LEMMA StillChanges ==
    ASSUME WaitsInv, view' = view, UNCHANGED task,
           popup' = popup \/ (popup = Alert /\ popup' = Nothing)
                          \/ (popup = Nothing /\ popup' = Alert)
    PROVE  TeamTasks' /\ Dialogs' /\ KindsKnown'
<1>1. TeamTasks /\ KindsKnown /\ Dialogs
  BY DEF WaitsInv
<1> QED
  BY <1>1, NoSlots DEF TeamTasks, KindsKnown, Dialogs

-----------------------------------------------------------------------------
\* What it changes of the functions that are pending.
LEMMA PendingChanges ==
    ASSUME NEW s \in Slot, NEW t, Changes(s, t), NEW op, NEW at, "none" \notin op, "dialog" \notin at
    PROVE  /\ \A x \in Slot \ {s} : x \in Tasks(op, at)' <=> x \in Tasks(op, at)
           /\ s \in Tasks(op, at)' <=> t.op \in op /\ t.at \in at
<1>1. s \in Tasks(op, at)' <=> t.op \in op /\ t.at \in at
  BY DEF Changes, Tasks
<1>2. ASSUME NEW x \in Slot \ {s} PROVE x \in Tasks(op, at)' <=> x \in Tasks(op, at)
  <2>1. CASE task'[x] = task[x]
    BY <2>1 DEF Tasks
  <2>2. CASE task'[x] = NoTask /\ task[x].at = "dialog"
    BY <2>2 DEF Tasks, NoTask
  <2> QED
    BY <2>1, <2>2 DEF Changes
<1> QED
  BY <1>1, <1>2

LEMMA StoppingChanges ==
    ASSUME NEW s \in Slot, NEW t, Changes(s, t), NEW i \in Item, KindsKnown, view = "instances"
    PROVE  /\ \A x \in Slot \ {s} : x \in Stopping(i)' <=> x \in Stopping(i)
           /\ s \in Stopping(i)' <=> /\ t.arg.t = i
                                     /\ t.op = "fetch" \/ (t.op = "stop" /\ t.at = "sent")
<1>1. s \in Stopping(i)' <=> /\ t.arg.t = i
                             /\ t.op = "fetch" \/ (t.op = "stop" /\ t.at = "sent")
  BY DEF Changes, Stopping, PendingOf
<1>2. ASSUME NEW x \in Slot \ {s} PROVE x \in Stopping(i)' <=> x \in Stopping(i)
  <2>1. CASE task'[x] = task[x]
    BY <2>1 DEF Stopping, PendingOf
  <2>2. CASE task'[x] = NoTask /\ task[x].at = "dialog"
    <3>1. task[x].op # "fetch"
      BY <2>2 DEF KindsKnown, Kinds
    <3> QED
      BY <2>2, <3>1 DEF Stopping, PendingOf, NoTask
  <2> QED
    BY <2>1, <2>2 DEF Changes
<1> QED
  BY <1>1, <1>2

\* One function is pending, and s begins, ends, or is none of them.
LEMMA OneChanges ==
    ASSUME NEW s, NEW old, NEW new, \A x, y \in old : x = y,
           \A x : x # s => (x \in new <=> x \in old),
           s \in old \/ s \notin new \/ old = {}
    PROVE  /\ \A x, y \in new : x = y
           /\ s \in old /\ s \notin new => new = {}
           /\ (s \in new <=> s \in old) => new = old
  OBVIOUS

\* A function that loads goes on, or the page is not loading any more.
LEMMA LoadingChanges ==
    ASSUME WaitsInv, view' = view, NEW s \in Slot, NEW t, Changes(s, t),
           ui'.loading => \/ t.op \in LoadOps /\ t.at \in LoadAts
                          \/ ui.loading /\ task[s].op \notin LoadOps
    PROVE  ui'.loading => Tasks(LoadOps, LoadAts)' # {}
<1> SUFFICES ASSUME ui'.loading PROVE Tasks(LoadOps, LoadAts)' # {}
  OBVIOUS
<1>1. /\ \A x \in Slot \ {s} : x \in Tasks(LoadOps, LoadAts)' <=> x \in Tasks(LoadOps, LoadAts)
      /\ s \in Tasks(LoadOps, LoadAts)' <=> t.op \in LoadOps /\ t.at \in LoadAts
  <2>1. "none" \notin LoadOps /\ "dialog" \notin LoadAts
    BY DEF LoadOps, LoadAts
  <2> QED
    BY <2>1, PendingChanges
<1>2. CASE t.op \in LoadOps /\ t.at \in LoadAts
  BY <1>1, <1>2
<1>3. CASE ui.loading /\ task[s].op \notin LoadOps
  <2>1. PICK x \in Tasks(LoadOps, LoadAts) : TRUE
    BY <1>3 DEF WaitsInv
  <2>2. x \in Slot \ {s}
    BY <1>3, <2>1 DEF Tasks
  <2> QED
    BY <1>1, <2>1, <2>2
<1> QED
  BY <1>2, <1>3

LEMMA StepKept ==
    ASSUME WaitsInv, view' = view, NEW s \in Slot, NEW t, Changes(s, t), UiKnown',
           ui'.loading => \/ t.op \in LoadOps /\ t.at \in LoadAts
                          \/ ui.loading /\ task[s].op \notin LoadOps,
           FlagsKnown', LogKnown'
    PROVE  WaitsInv'
  BY LoadingChanges DEF WaitsInv, Changes

\* A change of the page alone.
LEMMA StillKept ==
    ASSUME WaitsInv, view' = view, UNCHANGED task,
           popup' = popup \/ (popup = Alert /\ popup' = Nothing)
                          \/ (popup = Nothing /\ popup' = Alert),
           UiKnown', ui'.loading => ui.loading, LogKnown',
           view = "tickets" \/ view = "register" => ui'.submitting = ui.submitting,
           view = "profile" => ui'.changing = ui.changing,
           view = "instances" => ui'.stopping = ui.stopping
    PROVE  WaitsInv'
<1>1. TeamTasks' /\ Dialogs' /\ KindsKnown'
  BY StillChanges
<1>2. /\ \A op, at : Tasks(op, at)' = Tasks(op, at)
      /\ \A i : Stopping(i)' = Stopping(i)
  BY DEF Tasks, Stopping, PendingOf
<1>3. FlagsKnown'
  BY <1>2 DEF WaitsInv, FlagsKnown, OneFor
<1> QED
  BY <1>1, <1>2, <1>3 DEF WaitsInv

\* What the functions of each page are, and await.
LEMMA KindOf ==
    ASSUME WaitsInv, NEW s \in Slot
    PROVE  /\ view = "tickets" => \/ task[s].op = "none" /\ task[s].at = "none"
                                  \/ task[s].op = "fetch" /\ task[s].at \in {"sent", "read"}
                                  \/ task[s].op = "create" /\ task[s].at = "sent"
                                  \/ task[s].op = "delete" /\ task[s].at \in {"dialog", "sent"}
           /\ view = "instances" => \/ task[s].op = "none" /\ task[s].at = "none"
                                    \/ task[s].op = "fetch" /\ task[s].at \in {"sent", "read"}
                                    \/ task[s].op = "stop" /\ task[s].at \in {"dialog", "sent"}
           /\ view = "profile" => \/ task[s].op = "none" /\ task[s].at = "none"
                                  \/ task[s].op \in {"reads", "change"} /\ task[s].at = "sent"
           /\ view = "register" => \/ task[s].op = "none" /\ task[s].at = "none"
                                   \/ task[s].op = "load" /\ task[s].at \in {"config", "metadata"}
                                   \/ task[s].op = "register" /\ task[s].at \in {"frame", "sent"}
           /\ view \in {"ticket", "logs"} =>
                 \/ task[s].op = "none" /\ task[s].at = "none"
                 \/ task[s].op = "fetch" /\ task[s].at \in {"sent", "read"}
  BY DEF WaitsInv, KindsKnown, Kinds

\* The function that is pending for the flag of a page that has one.
FlagOp == CASE view = "tickets" -> "create" [] view = "profile" -> "change" [] OTHER -> "register"

LEMMA OneFlagKept ==
    ASSUME WaitsInv, view' = view, NEW s \in Slot, NEW t, Changes(s, t), UiKnown',
           ui'.loading => \/ t.op \in LoadOps /\ t.at \in LoadAts
                          \/ ui.loading /\ task[s].op \notin LoadOps,
           view \in {"tickets", "profile", "register"},
           \/ /\ view = "profile" => ui'.changing = ui.changing
              /\ view # "profile" => ui'.submitting = ui.submitting
              /\ t.op = FlagOp <=> task[s].op = FlagOp
           \/ /\ view = "profile" => ui'.changing = TRUE /\ ~ui.changing
              /\ view # "profile" => ui'.submitting = TRUE /\ ~ui.submitting
              /\ t.op = FlagOp
           \/ /\ view = "profile" => ui'.changing = FALSE
              /\ view # "profile" => ui'.submitting = FALSE
              /\ task[s].op = FlagOp /\ t.op # FlagOp
    PROVE  WaitsInv'
<1> DEFINE old == IF view = "profile" THEN ui.changing ELSE ui.submitting
           new == IF view = "profile" THEN ui'.changing ELSE ui'.submitting
           was == task[s].op = FlagOp
           is == t.op = FlagOp
<1>1. PICK op, at : /\ op = {FlagOp}
                    /\ at = IF view = "register" THEN {"frame", "sent"} ELSE {"sent"}
  OBVIOUS
<1>7. PICK P, Q : P = Tasks(op, at) /\ Q = Tasks(op, at)'
  OBVIOUS
<1>8. \/ view = "tickets" /\ op = {"create"} /\ at = {"sent"}
      \/ view = "profile" /\ op = {"change"} /\ at = {"sent"}
      \/ view = "register" /\ op = {"register"} /\ at = {"frame", "sent"}
  BY <1>1 DEF FlagOp
<1>2. /\ old <=> P # {}
      /\ \A x, y \in P : x = y
  BY <1>7, <1>8 DEF WaitsInv, FlagsKnown, OneFor
<1>3. /\ \A x : x # s => (x \in Q <=> x \in P)
      /\ s \in Q <=> is
      /\ s \in P <=> was
  <2>1. s \in P <=> was
    BY <1>1, <1>7, <1>8, KindOf DEF Tasks
  <2>2. P \subseteq Slot /\ Q \subseteq Slot
    BY <1>7 DEF Tasks
  <2>3. t.op \in op /\ t.at \in at <=> is
    <3>1. <<t.op, t.at>> \in Kinds(view)
      BY DEF Changes, KindsKnown
    <3> QED
      BY <1>1, <1>8, <3>1 DEF Kinds
  <2>4. "none" \notin op /\ "dialog" \notin at
    BY <1>8
  <2>5. /\ \A x \in Slot \ {s} : x \in Q <=> x \in P
        /\ s \in Q <=> t.op \in op /\ t.at \in at
    BY <1>7, <2>4, PendingChanges
  <2> QED
    BY <2>1, <2>2, <2>3, <2>5
<1>4. \/ new = old /\ (is <=> was)
      \/ new = TRUE /\ ~old /\ is
      \/ new = FALSE /\ was /\ ~is
  <2>1. CASE view = "profile"
    BY <2>1
  <2>2. CASE view # "profile"
    BY <2>2
  <2> QED
    BY <2>1, <2>2
<1> HIDE DEF old, new, was, is
<1>5. /\ \A x, y \in Q : x = y
      /\ new <=> Q # {}
  <2>1. s \in P \/ s \notin Q \/ P = {}
    BY <1>2, <1>3, <1>4
  <2>2. /\ \A x, y \in Q : x = y
        /\ s \in P /\ s \notin Q => Q = {}
        /\ (s \in Q <=> s \in P) => Q = P
    BY <1>2, <1>3, <2>1, OneChanges
  <2>3. CASE new = old /\ (is <=> was)
    <3>1. Q = P
      BY <1>3, <2>2, <2>3
    <3> QED
      BY <1>2, <2>2, <2>3, <3>1
  <2>4. CASE new = TRUE /\ ~old /\ is
    BY <1>3, <2>2, <2>4
  <2>5. CASE new = FALSE /\ was /\ ~is
    BY <1>3, <2>2, <2>5
  <2> QED
    BY <1>4, <2>3, <2>4, <2>5
<1>6. FlagsKnown' /\ LogKnown'
  BY <1>5, <1>7, <1>8 DEF FlagsKnown, LogKnown, OneFor, new
<1> QED
  BY <1>6, StepKept

\* The server reads a list that was asked for.
LEMMA ServerListsChanges ==
    ASSUME WaitsInv, NEW s \in Slot, ServerLists(s)
    PROVE  \E t : Changes(s, t) /\ t.op = "fetch" /\ t.at = "read"
                  /\ (task[s].arg.t = t.arg.t \/ view # "instances")
<1>1. /\ task[s].op = "fetch" /\ task[s].at = "sent" /\ view' = view /\ popup' = popup
      /\ Await(s, "read", [task[s].arg EXCEPT !.list = Existing])
  BY DEF ServerLists, Awaits
<1>2. <<task[s].op, "read">> \in Kinds(view)
  BY <1>1, KindOf DEF WaitsInv, Views, Kinds
<1>3. PICK arg : arg = [task[s].arg EXCEPT !.list = Existing]
  OBVIOUS
<1>4. Changes(s, [op |-> task[s].op, at |-> "read", arg |-> arg])
  BY <1>1, <1>2, <1>3, AwaitChanges
<1>5. arg.t = task[s].arg.t
  BY <1>3
<1>6. PICK t : t = [op |-> task[s].op, at |-> "read", arg |-> arg]
  OBVIOUS
<1> QED
  BY <1>1, <1>4, <1>5, <1>6

LEMMA TicketsKept ==
    ASSUME WaitsInv, TeamNext, view = "tickets"
    PROVE  WaitsInv'
<1>1. view' = view
  BY ViewStays
<1>2. ui = [loading |-> ui.loading, modal |-> ui.modal, submitting |-> ui.submitting,
            list |-> ui.list]
  BY DEF WaitsInv, UiKnown
<1>3. ASSUME NEW s \in Slot, NEW t, Changes(s, t), UiKnown',
             ui'.loading => \/ t.op \in LoadOps /\ t.at \in LoadAts
                            \/ ui.loading /\ task[s].op \notin LoadOps,
             \/ ui'.submitting = ui.submitting /\ t.op # "create" /\ task[s].op # "create"
             \/ ui'.submitting = TRUE /\ ~ui.submitting /\ t.op = "create" /\ t.at = "sent"
             \/ ui'.submitting = FALSE /\ task[s].op = "create" /\ t.op # "create"
      PROVE  WaitsInv'
  <2>1. FlagOp = "create"
    BY DEF FlagOp
  <2> QED
    BY <1>1, <1>3, <2>1, OneFlagKept
<1>4. ASSUME NEW b \in BOOLEAN, setShowModal(b) PROVE WaitsInv'
  <2>1. ui' = [ui EXCEPT !.modal = b] /\ UNCHANGED <<task, popup>>
    BY <1>4 DEF setShowModal
  <2>2. UiKnown' /\ ui'.loading = ui.loading /\ ui'.submitting = ui.submitting
    BY <1>1, <1>2, <2>1 DEF UiKnown
  <2> QED
    BY <1>1, <2>1, <2>2, StillKept DEF LogKnown
<1>5. CASE handleTicketSubmit
  <2>1. PICK s \in Slot : FreeSlot(s) /\ Start(s, "create", "sent", Ask(Nothing))
    BY <1>5 DEF handleTicketSubmit
  <2>2. ui' = [ui EXCEPT !.submitting = TRUE] /\ popup' = popup /\ ~ui.submitting
    BY <1>5 DEF handleTicketSubmit
  <2>3. PICK t : t = [op |-> "create", at |-> "sent", arg |-> Ask(Nothing)]
    OBVIOUS
  <2>4. Changes(s, t) /\ task[s].op = "none"
    <3>1. <<"create", "sent">> \in Kinds(view)
      BY DEF Kinds
    <3> QED
      BY <1>1, <2>1, <2>2, <2>3, <3>1, StartChanges
  <2>5. UiKnown' /\ ui'.loading = ui.loading /\ ui'.submitting = TRUE
    BY <1>1, <1>2, <2>2 DEF UiKnown
  <2> QED
    BY <1>3, <2>2, <2>3, <2>4, <2>5 DEF LoadOps
<1>6. ASSUME NEW i \in Item, handleDeleteTicket(i) PROVE WaitsInv'
  <2>1. PICK s \in Slot : FreeSlot(s) /\ Start(s, "delete", "dialog", Ask(i)) /\ popup' = s
    BY <1>6 DEF handleDeleteTicket
  <2>2. ui' = ui /\ popup = Nothing
    BY <1>6 DEF handleDeleteTicket, Usable
  <2>3. PICK t : t = [op |-> "delete", at |-> "dialog", arg |-> Ask(i)]
    OBVIOUS
  <2>4. Changes(s, t) /\ task[s].op = "none"
    <3>1. <<"delete", "dialog">> \in Kinds(view)
      BY DEF Kinds
    <3> QED
      BY <1>1, <2>1, <2>2, <2>3, <3>1, StartChanges
  <2>5. UiKnown'
    BY <1>1, <1>2, <2>2 DEF UiKnown
  <2> QED
    BY <1>3, <2>2, <2>3, <2>4, <2>5 DEF LoadOps
<1>7. ASSUME NEW i \in Item, Replies(i) PROVE WaitsInv'
  <2>1. UNCHANGED <<task, ui, popup>> /\ UiKnown'
    BY <1>1, <1>2, <1>7 DEF Replies, UiKnown
  <2> QED
    BY <1>1, <2>1, StillKept DEF LogKnown
<1>8. CASE AlertCloses
  <2>1. UNCHANGED <<task, ui>> /\ UiKnown' /\ popup = Alert /\ popup' = Nothing
    BY <1>1, <1>2, <1>8 DEF AlertCloses, UiKnown
  <2> QED
    BY <1>1, <2>1, StillKept DEF LogKnown
<1>9. ASSUME NEW s \in Slot, ServerLists(s) PROVE WaitsInv'
  <2>1. PICK t : Changes(s, t) /\ t.op = "fetch" /\ t.at = "read"
    BY <1>9, ServerListsChanges
  <2>2. ui' = ui /\ task[s].op = "fetch" /\ UiKnown'
    BY <1>1, <1>2, <1>9 DEF ServerLists, Awaits, UiKnown
  <2> QED
    BY <1>3, <2>1, <2>2 DEF LoadOps, LoadAts
<1>10. ASSUME NEW s \in Slot, fetchTickets(s) PROVE WaitsInv'
  <2>1. task[s].op = "fetch" /\ task[s].at # "dialog"
    BY <1>10, KindOf DEF fetchTickets
  <2>2. Changes(s, NoTask)
    <3>1. (Ends(s) /\ popup' = popup) \/ Fires(s, Alert)
      BY <1>10 DEF fetchTickets
    <3> QED
      BY <1>1, <2>1, <3>1, EndsChanges, FiresChanges
  <2>3. \/ \E list : ui' = [ui EXCEPT !.loading = FALSE, !.list = list]
        \/ ui' = [ui EXCEPT !.loading = FALSE]
    BY <1>10 DEF fetchTickets
  <2>4. UiKnown' /\ ~ui'.loading /\ ui'.submitting = ui.submitting
    BY <1>1, <1>2, <2>3 DEF UiKnown
  <2> QED
    BY <1>3, <2>1, <2>2, <2>4 DEF NoTask
<1>11. ASSUME NEW s \in Slot, SubmitAnswered(s) PROVE WaitsInv'
  <2>1. task[s].op = "create"
    BY <1>11 DEF SubmitAnswered, Awaits
  <2>2. CASE ui' = Created(ui) /\ FiresAnd(s, FetchOf(Nothing))
    <3>1. Changes(s, FetchOf(Nothing))
      BY <1>1, <2>2, FetchChanges
    <3>2. UiKnown' /\ ui'.submitting = FALSE
      BY <1>1, <1>2, <2>2 DEF Created, UiKnown
    <3>3. FetchOf(Nothing).op = "fetch" /\ FetchOf(Nothing).at = "sent"
      BY DEF FetchOf
    <3> QED
      BY <1>3, <2>1, <3>1, <3>2, <3>3 DEF LoadOps, LoadAts
  <2>3. CASE ui' = [ui EXCEPT !.submitting = FALSE] /\ Fires(s, Alert)
    <3>1. Changes(s, NoTask)
      BY <1>1, <2>3, FiresChanges
    <3>2. UiKnown' /\ ui'.submitting = FALSE /\ ui'.loading = ui.loading
      BY <1>1, <1>2, <2>3 DEF UiKnown
    <3> QED
      BY <1>3, <2>1, <3>1, <3>2 DEF LoadOps, NoTask
  <2> QED
    BY <1>11, <2>2, <2>3 DEF SubmitAnswered
<1>12. ASSUME NEW s \in Slot, DeleteAnswered(s) PROVE WaitsInv'
  <2>1. task[s].op = "delete"
    BY <1>12 DEF DeleteAnswered, Awaits
  <2>2. CASE ui' = [ui EXCEPT !.loading = TRUE] /\ FiresAnd(s, FetchOf(Nothing))
    <3>1. Changes(s, FetchOf(Nothing))
      BY <1>1, <2>2, FetchChanges
    <3>2. UiKnown' /\ ui'.submitting = ui.submitting
      BY <1>1, <1>2, <2>2 DEF UiKnown
    <3>3. FetchOf(Nothing).op = "fetch" /\ FetchOf(Nothing).at = "sent"
      BY DEF FetchOf
    <3> QED
      BY <1>3, <2>1, <3>1, <3>2, <3>3 DEF LoadOps, LoadAts
  <2>3. CASE ui' = ui /\ Fires(s, Alert)
    <3>1. Changes(s, NoTask)
      BY <1>1, <2>3, FiresChanges
    <3>2. UiKnown'
      BY <1>1, <1>2, <2>3 DEF UiKnown
    <3> QED
      BY <1>3, <2>1, <2>3, <3>1, <3>2 DEF LoadOps, NoTask
  <2> QED
    BY <1>12, <2>2, <2>3 DEF DeleteAnswered
<1>13. ASSUME NEW s \in Slot, Confirms(s) \/ Cancels(s) PROVE WaitsInv'
  <2>1. task[s].op = "delete" /\ popup = s /\ popup' = Nothing
    BY <1>13, KindOf DEF Confirms, Cancels
  <2>2. ui' = ui /\ UiKnown'
    BY <1>1, <1>2, <1>13, <2>1 DEF Confirms, Cancels, UiKnown
  <2>3. CASE Ends(s)
    <3>1. Changes(s, NoTask)
      BY <1>1, <2>1, <2>3, EndsChanges
    <3> QED
      BY <1>3, <2>1, <2>2, <3>1 DEF LoadOps, NoTask
  <2>4. CASE Await(s, "sent", task[s].arg)
    <3>1. PICK t : t = [op |-> task[s].op, at |-> "sent", arg |-> task[s].arg]
      OBVIOUS
    <3>2. <<task[s].op, "sent">> \in Kinds(view)
      BY <2>1 DEF Kinds
    <3>3. Changes(s, t)
      BY <1>1, <2>1, <2>4, <3>1, <3>2, AwaitChanges
    <3> QED
      BY <1>3, <2>1, <2>2, <3>1, <3>3 DEF LoadOps
  <2> QED
    BY <1>13, <2>3, <2>4 DEF Confirms, Cancels
<1>14. CASE TeamMoves
  BY <1>4, <1>5, <1>6, <1>7, <1>14 DEF TeamMoves, setShowPasswordModal, handleRefresh,
     handleChangePassword, updateForm, handleCaptcha, handleRegister, OnForm, handleStop, Deploys,
     handleChangePage, handleFilterChange, handlePasswordInputChange
<1>15. CASE TeamAnswers
  <2>1. ASSUME NEW s \in Slot
        PROVE  ~(\/ fetchInstances(s) \/ StopAnswered(s) \/ fetchActionLogs(s) \/ fetchAllData(s)
                 \/ ChangeAnswered(s) \/ loadData(s) \/ RegisterSends(s) \/ RegisterAnswered(s))
    BY KindOf DEF fetchInstances, StopAnswered, fetchActionLogs, fetchAllData, ChangeAnswered,
       loadData, RegisterSends, RegisterAnswered, Awaits
  <2> QED
    BY <1>8, <1>9, <1>10, <1>11, <1>12, <1>13, <1>15, <2>1 DEF TeamAnswers
<1> QED
  BY <1>14, <1>15 DEF TeamNext

LEMMA TicketKept ==
    ASSUME WaitsInv, TeamNext, view = "ticket"
    PROVE  WaitsInv'
<1>1. view' = view
  BY ViewStays
<1>2. ui = [loading |-> ui.loading, found |-> ui.found]
  BY DEF WaitsInv, UiKnown
<1>3. ASSUME NEW s \in Slot, NEW t, Changes(s, t), UiKnown',
             ui'.loading => \/ t.op \in LoadOps /\ t.at \in LoadAts
                            \/ ui.loading /\ task[s].op \notin LoadOps
      PROVE  WaitsInv'
  <2>1. FlagsKnown' /\ LogKnown'
    BY <1>1 DEF FlagsKnown, LogKnown
  <2> QED
    BY <1>1, <1>3, <2>1, StepKept
<1>4. CASE AlertCloses
  <2>1. UNCHANGED <<task, ui>> /\ UiKnown' /\ popup = Alert /\ popup' = Nothing
    BY <1>1, <1>2, <1>4 DEF AlertCloses, UiKnown
  <2> QED
    BY <1>1, <2>1, StillKept DEF LogKnown
<1>5. ASSUME NEW s \in Slot, ServerLists(s) PROVE WaitsInv'
  <2>1. PICK t : Changes(s, t) /\ t.op = "fetch" /\ t.at = "read"
    BY <1>5, ServerListsChanges
  <2>2. ui' = ui /\ UiKnown'
    BY <1>1, <1>2, <1>5 DEF ServerLists, UiKnown
  <2> QED
    BY <1>3, <2>1, <2>2 DEF LoadOps, LoadAts
<1>6. ASSUME NEW s \in Slot, fetchTickets(s) PROVE WaitsInv'
  <2>1. task[s].op = "fetch" /\ task[s].at # "dialog"
    BY <1>6, KindOf DEF fetchTickets
  <2>2. Changes(s, NoTask)
    <3>1. (Ends(s) /\ popup' = popup) \/ Fires(s, Alert)
      BY <1>6 DEF fetchTickets
    <3> QED
      BY <1>1, <2>1, <3>1, EndsChanges, FiresChanges
  <2>3. \/ \E found : ui' = [ui EXCEPT !.loading = FALSE, !.found = found]
        \/ ui' = [ui EXCEPT !.loading = FALSE]
    BY <1>6 DEF fetchTickets
  <2>4. UiKnown' /\ ~ui'.loading
    BY <1>1, <1>2, <2>3 DEF UiKnown
  <2> QED
    BY <1>3, <2>1, <2>2, <2>4
<1>7. ~TeamMoves
  BY DEF TeamMoves, setShowModal, setShowPasswordModal, handleTicketSubmit, handleRefresh,
     handleChangePassword, updateForm, handleCaptcha, handleRegister, OnForm, handleDeleteTicket,
     handleStop, Replies, Deploys, handleChangePage, handleFilterChange, handlePasswordInputChange
<1>8. CASE TeamAnswers
  <2>1. ASSUME NEW s \in Slot
        PROVE  ~(\/ SubmitAnswered(s) \/ DeleteAnswered(s) \/ Confirms(s) \/ Cancels(s)
                 \/ fetchInstances(s) \/ StopAnswered(s) \/ fetchActionLogs(s) \/ fetchAllData(s)
                 \/ ChangeAnswered(s) \/ loadData(s) \/ RegisterSends(s) \/ RegisterAnswered(s))
    BY KindOf DEF SubmitAnswered, DeleteAnswered, Confirms, Cancels, fetchInstances, StopAnswered,
       fetchActionLogs, fetchAllData, ChangeAnswered, loadData, RegisterSends, RegisterAnswered,
       Awaits
  <2> QED
    BY <1>4, <1>5, <1>6, <1>8, <2>1 DEF TeamAnswers
<1> QED
  BY <1>7, <1>8 DEF TeamNext

LEMMA LogsKept ==
    ASSUME WaitsInv, TeamNext, view = "logs"
    PROVE  WaitsInv'
<1>1. view' = view /\ LogKnown
  BY ViewStays DEF WaitsInv
<1>2. ui = [loading |-> ui.loading, found |-> ui.found, page |-> ui.page, rows |-> ui.rows]
  BY DEF WaitsInv, UiKnown
<1>3. ASSUME NEW s \in Slot, NEW t, Changes(s, t), task[s].op = "fetch", UiKnown',
             ui'.page = ui.page, ui'.found \in Nat, ui'.rows = ui.rows,
             \/ t.op = "fetch" /\ t.at \in LoadAts /\ ui'.loading
             \/ t = NoTask /\ ~ui'.loading
      PROVE  WaitsInv'
  <2>1. ui.loading /\ ui.page = 0 /\ \A x \in Slot : task[x].op = "fetch" => x = s
    BY <1>1, <1>3 DEF LogKnown
  <2>2. \A x \in Slot : task'[x].op = "fetch" => x = s
    BY <1>3, <2>1 DEF Changes, NoTask
  <2>3. task'[s].op = "fetch" => ui'.loading
    BY <1>3 DEF Changes, NoTask
  <2>4. LogKnown'
    BY <1>1, <1>3, <2>1, <2>2, <2>3 DEF LogKnown, LogPageExists
  <2>5. FlagsKnown'
    BY <1>1 DEF FlagsKnown
  <2> QED
    BY <1>1, <1>3, <2>4, <2>5, StepKept DEF LoadOps
<1>4. ASSUME UNCHANGED task, popup' = popup \/ (popup = Alert /\ popup' = Nothing),
             UiKnown', ui'.loading = ui.loading, ui' # ui => ~ui.loading,
             ui'.found \in Nat, ui'.rows \in Nat \ {0}, ui'.page = 0 \/ ui'.page < LogPages(ui')
      PROVE  WaitsInv'
  <2>1. LogPageExists'
    BY <1>4 DEF LogPageExists, LogPages
  <2>2. LogKnown'
    BY <1>1, <1>4, <2>1 DEF LogKnown
  <2> QED
    BY <1>1, <1>4, <2>2, StillKept
<1>5. ASSUME NEW p, handleChangePage(p) PROVE WaitsInv'
  <2>1. /\ ui' = [ui EXCEPT !.page = p] /\ UNCHANGED <<task, popup>> /\ ~ui.loading
        /\ p \in 0..(LogPages(ui) - 1)
    BY <1>5 DEF handleChangePage, Usable
  <2>2. UiKnown' /\ ui'.loading = ui.loading /\ ui'.page = p
        /\ ui'.found = ui.found /\ ui'.rows = ui.rows
    BY <1>1, <1>2, <2>1 DEF UiKnown
  <2>3. LogPages(ui') = LogPages(ui)
    BY <2>2 DEF LogPages
  <2>4. ui.found \in Nat /\ ui.rows \in Nat \ {0}
    BY <1>1 DEF LogKnown
  <2>5. LogPages(ui) \in Nat
    <3>1. \A n \in Nat, r \in Nat \ {0} : (n + r - 1) \div r \in Nat
      OBVIOUS
    <3> QED
      BY <2>4, <3>1 DEF LogPages
  <2>6. p < LogPages(ui')
    BY <2>1, <2>3, <2>5
  <2> QED
    BY <1>4, <2>1, <2>2, <2>4, <2>6
<1>6. ASSUME NEW n \in Logs, NEW r \in LogRows, handleFilterChange(n, r) PROVE WaitsInv'
  <2>1. ui' = Filtered(ui, n, r) /\ UNCHANGED <<task, popup>> /\ ~ui.loading
    BY <1>6 DEF handleFilterChange, Usable
  <2>2. UiKnown' /\ ui'.loading = ui.loading /\ ui'.page = 0 /\ ui'.found = n /\ ui'.rows = r
    BY <1>1, <1>2, <2>1 DEF UiKnown, Filtered
  <2>3. n \in Nat /\ r \in Nat \ {0}
    BY TeamAssumption, Zenon
  <2> QED
    BY <1>4, <2>1, <2>2, <2>3
<1>7. CASE AlertCloses
  <2>1. UNCHANGED <<task, ui>> /\ UiKnown' /\ popup = Alert /\ popup' = Nothing
    BY <1>1, <1>2, <1>7 DEF AlertCloses, UiKnown
  <2>2. LogPageExists /\ ui.found \in Nat /\ ui.rows \in Nat \ {0}
    BY <1>1 DEF LogKnown
  <2> QED
    BY <1>4, <2>1, <2>2 DEF LogPageExists
<1>8. ASSUME NEW s \in Slot, ServerLists(s) PROVE WaitsInv'
  <2>1. PICK t : Changes(s, t) /\ t.op = "fetch" /\ t.at = "read"
    BY <1>8, ServerListsChanges
  <2>2. ui' = ui /\ task[s].op = "fetch" /\ UiKnown'
    BY <1>1, <1>2, <1>8 DEF ServerLists, Awaits, UiKnown
  <2>3. ui.loading /\ ui.found \in Nat
    BY <1>1, <2>2 DEF LogKnown
  <2> QED
    BY <1>3, <2>1, <2>2, <2>3 DEF LoadAts
<1>9. ASSUME NEW s \in Slot, fetchActionLogs(s) PROVE WaitsInv'
  <2>1. task[s].op = "fetch" /\ task[s].at # "dialog" /\ Ends(s) /\ popup' = popup
    BY <1>9 DEF fetchActionLogs
  <2>2. Changes(s, NoTask)
    BY <1>1, <2>1, EndsChanges
  <2>3. PICK n \in Logs : ui' = [ui EXCEPT !.loading = FALSE, !.found = n]
    BY <1>9 DEF fetchActionLogs
  <2>4. UiKnown' /\ ~ui'.loading /\ ui'.page = ui.page /\ ui'.found = n /\ ui'.rows = ui.rows
    BY <1>1, <1>2, <2>3 DEF UiKnown
  <2>5. n \in Nat
    BY TeamAssumption, Zenon
  <2> QED
    BY <1>3, <2>1, <2>2, <2>4, <2>5
<1>10. CASE TeamMoves
  BY <1>5, <1>6, <1>10 DEF TeamMoves, setShowModal, setShowPasswordModal, handleTicketSubmit,
     handleRefresh, handleChangePassword, updateForm, handleCaptcha, handleRegister, OnForm,
     handleDeleteTicket, handleStop, Replies, Deploys, handlePasswordInputChange
<1>11. CASE TeamAnswers
  <2>1. ASSUME NEW s \in Slot
        PROVE  ~(\/ SubmitAnswered(s) \/ DeleteAnswered(s) \/ Confirms(s) \/ Cancels(s)
                 \/ fetchTickets(s) \/ fetchInstances(s) \/ StopAnswered(s) \/ fetchAllData(s)
                 \/ ChangeAnswered(s) \/ loadData(s) \/ RegisterSends(s) \/ RegisterAnswered(s))
    BY KindOf DEF SubmitAnswered, DeleteAnswered, Confirms, Cancels, fetchInstances, StopAnswered,
       fetchTickets, fetchAllData, ChangeAnswered, loadData, RegisterSends, RegisterAnswered,
       Awaits
  <2> QED
    BY <1>7, <1>8, <1>9, <1>11, <2>1 DEF TeamAnswers
<1> QED
  BY <1>10, <1>11 DEF TeamNext

LEMMA ProfileWaits ==
    ASSUME WaitsInv, TeamNext, view = "profile"
    PROVE  WaitsInv'
<1>1. view' = view
  BY ViewStays
<1>2. ui = [loading |-> ui.loading, modal |-> ui.modal, old |-> ui.old, new |-> ui.new,
            confirm |-> ui.confirm, criteria |-> ui.criteria, changing |-> ui.changing]
  BY DEF WaitsInv, UiKnown
<1>3. ASSUME NEW s \in Slot, NEW t, Changes(s, t), UiKnown',
             ui'.loading => \/ t.op \in LoadOps /\ t.at \in LoadAts
                            \/ ui.loading /\ task[s].op \notin LoadOps,
             \/ ui'.changing = ui.changing /\ t.op # "change" /\ task[s].op # "change"
             \/ ui'.changing = TRUE /\ ~ui.changing /\ t.op = "change" /\ t.at = "sent"
             \/ ui'.changing = FALSE /\ task[s].op = "change" /\ t.op # "change"
      PROVE  WaitsInv'
  <2>1. FlagOp = "change"
    BY DEF FlagOp
  <2> QED
    BY <1>1, <1>3, <2>1, OneFlagKept
<1>4. ASSUME UNCHANGED task, UiKnown', ui'.loading = ui.loading, ui'.changing = ui.changing,
             popup' = popup \/ (popup = Alert /\ popup' = Nothing)
                            \/ (popup = Nothing /\ popup' = Alert)
      PROVE  WaitsInv'
  BY <1>1, <1>4, StillKept DEF LogKnown
<1>5. ASSUME NEW b \in BOOLEAN, setShowPasswordModal(b) PROVE WaitsInv'
  <2>1. ui' = [ui EXCEPT !.modal = b] /\ UNCHANGED <<task, popup>>
    BY <1>5 DEF setShowPasswordModal
  <2>2. UiKnown' /\ ui'.loading = ui.loading /\ ui'.changing = ui.changing
    BY <1>1, <1>2, <2>1 DEF UiKnown
  <2> QED
    BY <1>4, <2>1, <2>2
<1>6. ASSUME NEW f \in {"old", "new", "confirm"}, NEW p \in Password,
             handlePasswordInputChange(f, p)
      PROVE  WaitsInv'
  <2>1. UNCHANGED <<task, popup>> /\ ui' = Typed(ui, f, p)
    BY <1>6 DEF handlePasswordInputChange
  <2>2. PICK h : h = (p \in Strong)
    BY Zenon
  <2>3. ui' \in {[ui EXCEPT !.new = p, !.criteria = h],
                 [ui EXCEPT !.old = p], [ui EXCEPT !.confirm = p]}
    BY <1>6, <2>1, <2>2 DEF Typed
  <2>4. UiKnown' /\ ui'.loading = ui.loading /\ ui'.changing = ui.changing
    BY <1>1, <1>2, <2>3 DEF UiKnown
  <2> QED
    BY <1>4, <2>1, <2>4
<1>7. CASE handleChangePassword
  <2>1. CASE Acceptable(ui)
    <3>1. PICK s \in Slot : FreeSlot(s) /\ Start(s, "change", "sent", Ask(ui.new))
      BY <1>7, <2>1 DEF handleChangePassword
    <3>2. ui' = [ui EXCEPT !.changing = TRUE] /\ popup' = popup /\ ~ui.changing
      BY <1>7, <2>1 DEF handleChangePassword
    <3>3. PICK t : t = [op |-> "change", at |-> "sent", arg |-> Ask(ui.new)]
      OBVIOUS
    <3>4. Changes(s, t) /\ task[s].op = "none"
      <4>1. <<"change", "sent">> \in Kinds(view)
        BY DEF Kinds
      <4> QED
        BY <1>1, <3>1, <3>2, <3>3, <4>1, StartChanges
    <3>5. UiKnown' /\ ui'.loading = ui.loading /\ ui'.changing = TRUE
      BY <1>1, <1>2, <3>2 DEF UiKnown
    <3> QED
      BY <1>3, <3>2, <3>3, <3>4, <3>5 DEF LoadOps
  <2>2. CASE ~Acceptable(ui)
    <3>1. UNCHANGED <<task, ui>> /\ popup' = Alert /\ popup = Nothing
      BY <1>7, <2>2 DEF handleChangePassword, Usable
    <3>2. UiKnown'
      BY <1>1, <1>2, <3>1 DEF UiKnown
    <3> QED
      BY <1>4, <3>1, <3>2
  <2> QED
    BY <2>1, <2>2
<1>8. CASE AlertCloses
  <2>1. UNCHANGED <<task, ui>> /\ UiKnown' /\ popup = Alert /\ popup' = Nothing
    BY <1>1, <1>2, <1>8 DEF AlertCloses, UiKnown
  <2> QED
    BY <1>4, <2>1
<1>9. ASSUME NEW s \in Slot, fetchAllData(s) PROVE WaitsInv'
  <2>1. task[s].op = "reads" /\ task[s].at = "sent" /\ popup' = popup
    BY <1>9 DEF fetchAllData, Awaits
  <2>2. \/ Ends(s) /\ ui' = [ui EXCEPT !.loading = FALSE]
        \/ (\E arg : Await(s, "sent", arg)) /\ UNCHANGED ui
    BY <1>9 DEF fetchAllData
  <2>3. CASE Ends(s) /\ ui' = [ui EXCEPT !.loading = FALSE]
    <3>1. Changes(s, NoTask)
      BY <1>1, <2>1, <2>3, EndsChanges
    <3>2. UiKnown' /\ ~ui'.loading /\ ui'.changing = ui.changing
      BY <1>1, <1>2, <2>3 DEF UiKnown
    <3> QED
      BY <1>3, <2>1, <3>1, <3>2 DEF NoTask
  <2>4. ASSUME NEW arg, Await(s, "sent", arg), UNCHANGED ui PROVE WaitsInv'
    <3>1. PICK t : t = [op |-> task[s].op, at |-> "sent", arg |-> arg]
      OBVIOUS
    <3>2. Changes(s, t)
      <4>1. <<task[s].op, "sent">> \in Kinds(view)
        BY <2>1 DEF Kinds
      <4> QED
        BY <1>1, <2>1, <2>4, <3>1, <4>1, AwaitChanges
    <3>3. UiKnown'
      BY <1>1, <1>2, <2>4 DEF UiKnown
    <3> QED
      BY <1>3, <2>1, <2>4, <3>1, <3>2, <3>3 DEF LoadOps, LoadAts
  <2> QED
    BY <2>2, <2>3, <2>4
<1>10. ASSUME NEW s \in Slot, ChangeAnswered(s) PROVE WaitsInv'
  <2>1. task[s].op = "change" /\ Fires(s, Alert)
    BY <1>10 DEF ChangeAnswered, Awaits
  <2>2. Changes(s, NoTask)
    BY <1>1, <2>1, FiresChanges
  <2>3. \/ ui' = [Mounted("profile") EXCEPT !.loading = FALSE]
        \/ ui' = [ui EXCEPT !.changing = FALSE]
    BY <1>10 DEF ChangeAnswered
  <2>4. Mounted("profile") = [loading |-> TRUE, modal |-> FALSE, old |-> Nothing, new |-> Nothing,
                              confirm |-> Nothing, criteria |-> FALSE, changing |-> FALSE]
    BY DEF Mounted
  <2>5. UiKnown' /\ ui'.changing = FALSE /\ (ui'.loading => ui.loading)
    BY <1>1, <1>2, <2>3, <2>4 DEF UiKnown
  <2> QED
    BY <1>3, <2>1, <2>2, <2>5 DEF NoTask, LoadOps
<1>11. CASE TeamMoves
  BY <1>5, <1>6, <1>7, <1>11 DEF TeamMoves, setShowModal, handleTicketSubmit, handleRefresh,
     updateForm, handleCaptcha, handleRegister, OnForm, handleDeleteTicket, handleStop, Replies,
     Deploys, handleChangePage, handleFilterChange
<1>12. CASE TeamAnswers
  <2>1. ASSUME NEW s \in Slot
        PROVE  ~(\/ ServerLists(s) \/ fetchTickets(s) \/ SubmitAnswered(s) \/ DeleteAnswered(s)
                 \/ fetchInstances(s) \/ StopAnswered(s) \/ Confirms(s) \/ Cancels(s)
                 \/ fetchActionLogs(s)
                 \/ loadData(s) \/ RegisterSends(s) \/ RegisterAnswered(s))
    BY KindOf DEF ServerLists, fetchTickets, SubmitAnswered, DeleteAnswered, fetchInstances,
       StopAnswered, Confirms, Cancels, fetchActionLogs, loadData, RegisterSends,
       RegisterAnswered, Awaits
  <2> QED
    BY <1>8, <1>9, <1>10, <1>12, <2>1 DEF TeamAnswers
<1> QED
  BY <1>11, <1>12 DEF TeamNext

LEMMA RegisterKept ==
    ASSUME WaitsInv, TeamNext, view = "register"
    PROVE  WaitsInv'
<1>1. view' = view
  BY ViewStays
<1>2. ui = [loading |-> ui.loading, left |-> ui.left, metadata |-> ui.metadata,
            valid |-> ui.valid, captcha |-> ui.captcha, submitting |-> ui.submitting]
  BY DEF WaitsInv, UiKnown, Views
<1>3. ASSUME NEW s \in Slot, NEW t, Changes(s, t), UiKnown',
             ui'.loading => \/ t.op \in LoadOps /\ t.at \in LoadAts
                            \/ ui.loading /\ task[s].op \notin LoadOps,
             \/ ui'.submitting = ui.submitting /\ t.op # "register" /\ task[s].op # "register"
             \/ ui'.submitting = ui.submitting /\ t.op = "register" /\ task[s].op = "register"
                /\ t.at \in {"frame", "sent"}
             \/ ui'.submitting = TRUE /\ ~ui.submitting /\ t.op = "register" /\ t.at = "frame"
             \/ ui'.submitting = FALSE /\ task[s].op = "register" /\ t.op # "register"
      PROVE  WaitsInv'
  <2>1. FlagOp = "register"
    BY DEF FlagOp
  <2> QED
    BY <1>1, <1>3, <2>1, OneFlagKept
<1>4. ASSUME UNCHANGED <<task, popup>>, UiKnown', ui'.loading = ui.loading,
             ui'.submitting = ui.submitting
      PROVE  WaitsInv'
  BY <1>1, <1>4, StillKept DEF LogKnown
<1>5. CASE updateForm
  <2>1. ui' = [ui EXCEPT !.valid = ~ui.valid] /\ UNCHANGED <<task, popup>>
    BY <1>2, <1>5 DEF updateForm
  <2>2. UiKnown' /\ ui'.loading = ui.loading /\ ui'.submitting = ui.submitting
    BY <1>1, <1>2, <2>1 DEF UiKnown
  <2> QED
    BY <1>4, <2>1, <2>2
<1>6. CASE handleCaptcha
  <2>1. ui' = [ui EXCEPT !.captcha = ~ui.captcha] /\ UNCHANGED <<task, popup>>
    BY <1>2, <1>6 DEF handleCaptcha
  <2>2. UiKnown' /\ ui'.loading = ui.loading /\ ui'.submitting = ui.submitting
    BY <1>1, <1>2, <2>1 DEF UiKnown
  <2> QED
    BY <1>4, <2>1, <2>2
<1>7. CASE handleRegister
  <2>1. PICK s \in Slot : FreeSlot(s) /\ Start(s, "register", "frame", Ask(Nothing))
    BY <1>7 DEF handleRegister
  <2>2. ui' = [ui EXCEPT !.submitting = TRUE] /\ popup' = popup /\ ~ui.submitting
    BY <1>7 DEF handleRegister
  <2>3. PICK t : t = [op |-> "register", at |-> "frame", arg |-> Ask(Nothing)]
    OBVIOUS
  <2>4. Changes(s, t) /\ task[s].op = "none"
    <3>1. <<"register", "frame">> \in Kinds(view)
      BY DEF Kinds
    <3> QED
      BY <1>1, <2>1, <2>2, <2>3, <3>1, StartChanges
  <2>5. UiKnown' /\ ui'.loading = ui.loading /\ ui'.submitting = TRUE
    BY <1>1, <1>2, <2>2 DEF UiKnown
  <2> QED
    BY <1>3, <2>2, <2>3, <2>4, <2>5 DEF LoadOps
<1>8. CASE AlertCloses
  <2>1. UNCHANGED <<task, ui>> /\ UiKnown' /\ popup = Alert /\ popup' = Nothing
    BY <1>1, <1>2, <1>8 DEF AlertCloses, UiKnown
  <2> QED
    BY <1>1, <2>1, StillKept DEF LogKnown
<1>9. ASSUME NEW s \in Slot, loadData(s) PROVE WaitsInv'
  <2>1. task[s].op = "load" /\ task[s].at # "dialog" /\ popup' = popup
    BY <1>9, KindOf DEF loadData
  <2>2. CASE Await(s, "metadata", task[s].arg) /\ UNCHANGED ui
    <3>1. PICK t : t = [op |-> task[s].op, at |-> "metadata", arg |-> task[s].arg]
      OBVIOUS
    <3>2. Changes(s, t)
      <4>1. <<task[s].op, "metadata">> \in Kinds(view)
        BY <2>1 DEF Kinds
      <4> QED
        BY <1>1, <2>1, <2>2, <3>1, <4>1, AwaitChanges
    <3>3. UiKnown'
      BY <1>1, <1>2, <2>2 DEF UiKnown
    <3> QED
      BY <1>3, <2>1, <2>2, <3>1, <3>2, <3>3 DEF LoadOps, LoadAts
  <2>3. ASSUME Ends(s), \/ ui' = [ui EXCEPT !.left = TRUE, !.loading = FALSE]
                        \/ \E ok \in BOOLEAN : ui' = [ui EXCEPT !.loading = FALSE, !.metadata = ok]
        PROVE  WaitsInv'
    <3>1. Changes(s, NoTask)
      BY <1>1, <2>1, <2>3, EndsChanges
    <3>2. UiKnown' /\ ~ui'.loading /\ ui'.submitting = ui.submitting
      BY <1>1, <1>2, <2>3 DEF UiKnown
    <3> QED
      BY <1>3, <2>1, <3>1, <3>2 DEF NoTask
  <2> QED
    BY <1>9, <2>2, <2>3 DEF loadData
<1>10. ASSUME NEW s \in Slot, RegisterSends(s) PROVE WaitsInv'
  <2>1. task[s].op = "register" /\ task[s].at = "frame" /\ popup' = popup /\ ui' = ui
    BY <1>10 DEF RegisterSends, Awaits
  <2>2. PICK arg : Await(s, "sent", arg)
    BY <1>10 DEF RegisterSends
  <2>3. PICK t : t = [op |-> task[s].op, at |-> "sent", arg |-> arg]
    OBVIOUS
  <2>4. Changes(s, t)
    <3>1. <<task[s].op, "sent">> \in Kinds(view)
      BY <2>1 DEF Kinds
    <3> QED
      BY <1>1, <2>1, <2>2, <2>3, <3>1, AwaitChanges
  <2>5. UiKnown'
    BY <1>1, <1>2, <2>1 DEF UiKnown
  <2> QED
    BY <1>3, <2>1, <2>3, <2>4, <2>5 DEF LoadOps
<1>11. ASSUME NEW s \in Slot, RegisterAnswered(s) PROVE WaitsInv'
  <2>1. task[s].op = "register" /\ task[s].at = "sent" /\ popup' = popup /\ Ends(s)
    BY <1>11 DEF RegisterAnswered, Awaits
  <2>2. Changes(s, NoTask)
    BY <1>1, <2>1, EndsChanges
  <2>3. \/ ui' = [ui EXCEPT !.left = TRUE, !.submitting = FALSE]
        \/ ui' = [ui EXCEPT !.captcha = FALSE, !.submitting = FALSE]
    BY <1>11 DEF RegisterAnswered, Registered
  <2>4. UiKnown' /\ ui'.submitting = FALSE /\ ui'.loading = ui.loading
    BY <1>1, <1>2, <2>3 DEF UiKnown
  <2> QED
    BY <1>3, <2>1, <2>2, <2>4 DEF NoTask, LoadOps
<1>12. CASE TeamMoves
  BY <1>5, <1>6, <1>7, <1>12 DEF TeamMoves, setShowModal, setShowPasswordModal,
     handleTicketSubmit, handleRefresh, handleChangePassword, handleDeleteTicket, handleStop,
     Replies, Deploys, handleChangePage, handleFilterChange, handlePasswordInputChange
<1>13. CASE TeamAnswers
  <2>1. ASSUME NEW s \in Slot
        PROVE  ~(\/ ServerLists(s) \/ fetchTickets(s) \/ SubmitAnswered(s) \/ DeleteAnswered(s)
                 \/ fetchInstances(s) \/ StopAnswered(s) \/ Confirms(s) \/ Cancels(s)
                 \/ fetchActionLogs(s) \/ fetchAllData(s) \/ ChangeAnswered(s))
    BY KindOf DEF ServerLists, fetchTickets, SubmitAnswered, DeleteAnswered, fetchInstances,
       StopAnswered, Confirms, Cancels, fetchActionLogs, fetchAllData, ChangeAnswered, Awaits
  <2> QED
    BY <1>8, <1>9, <1>10, <1>11, <1>13, <2>1 DEF TeamAnswers
<1> QED
  BY <1>12, <1>13 DEF TeamNext

\* Instances: the mark of one challenge is set, kept or taken back.
Pends(t, i) == t.arg.t = i /\ (t.op = "fetch" \/ (t.op = "stop" /\ t.at = "sent"))

LEMMA InstanceKept ==
    ASSUME WaitsInv, view = "instances", view' = view, NEW s \in Slot, NEW t, Changes(s, t),
           UiKnown',
           ui'.loading => \/ t.op \in LoadOps /\ t.at \in LoadAts
                          \/ ui.loading /\ task[s].op \notin LoadOps,
           NEW j,
           \/ /\ ui'.stopping = ui.stopping
              /\ \A i \in Item : Pends(t, i) <=> Pends(task[s], i)
              /\ t.at = "dialog" => t.arg.t \notin ui.stopping
           \/ /\ ui'.stopping = ui.stopping \cup {j}
              /\ task[s].at = "dialog" /\ task[s].arg.t = j /\ t.at # "dialog"
              /\ \A i \in Item : Pends(t, i) <=> i = j
           \/ /\ ui'.stopping = ui.stopping \ {j}
              /\ \A i \in Item : Pends(task[s], i) <=> i = j
              /\ t = NoTask
    PROVE  WaitsInv'
<1>1. /\ \A i \in Item : OneFor(i \in ui.stopping, Stopping(i))
      /\ \A x \in Slot : task[x].at = "dialog" => task[x].arg.t \notin ui.stopping
      /\ KindsKnown /\ Dialogs
  BY DEF WaitsInv, FlagsKnown
<1>2. ASSUME NEW x \in Slot, task'[x].at = "dialog"
      PROVE  task'[x].arg.t \notin ui'.stopping
  <2>1. CASE x = s
    <3>1. task'[s] = t
      BY DEF Changes
    <3> QED
      BY <1>2, <2>1, <3>1 DEF NoTask
  <2>2. CASE x # s
    <3>1. task'[x] = task[x]
      BY <1>2, <2>2 DEF Changes, NoTask
    <3>2. task[x].at = "dialog" /\ task[x].arg.t \notin ui.stopping /\ task[s].at # "dialog"
      BY <1>1, <1>2, <2>2, <3>1 DEF Dialogs
    <3> QED
      BY <3>1, <3>2
  <2> QED
    BY <2>1, <2>2
<1>3. ASSUME NEW i \in Item
      PROVE  OneFor(i \in ui'.stopping, Stopping(i)')
  <2>1. PICK P, Q : P = Stopping(i) /\ Q = Stopping(i)'
    OBVIOUS
  <2>2. /\ \A x : x # s => (x \in Q <=> x \in P)
        /\ s \in Q <=> Pends(t, i)
        /\ s \in P <=> Pends(task[s], i)
    <3>1. s \in P <=> Pends(task[s], i)
      BY <2>1 DEF Stopping, PendingOf, Pends
    <3>2. P \subseteq Slot /\ Q \subseteq Slot
      BY <2>1 DEF Stopping, PendingOf
    <3>3. /\ \A x \in Slot \ {s} : x \in Q <=> x \in P
          /\ s \in Q <=> Pends(t, i)
      BY <1>1, <2>1, StoppingChanges DEF Pends
    <3> QED
      BY <3>1, <3>2, <3>3
  <2>3. /\ i \in ui.stopping <=> P # {}
        /\ \A x, y \in P : x = y
    BY <1>1, <2>1 DEF OneFor
  <2>4. \/ (i \in ui'.stopping <=> i \in ui.stopping) /\ (Pends(t, i) <=> Pends(task[s], i))
        \/ i \in ui'.stopping /\ i \notin ui.stopping /\ Pends(t, i)
        \/ i \notin ui'.stopping /\ Pends(task[s], i) /\ ~Pends(t, i)
    <3>1. CASE task[s].at = "dialog" /\ task[s].arg.t = j /\ t.at # "dialog"
               /\ ui'.stopping = ui.stopping \cup {j} /\ (Pends(t, i) <=> i = j)
      <4>1. j \notin ui.stopping /\ task[s].op # "fetch"
        BY <1>1, <3>1 DEF KindsKnown, Kinds
      <4>2. ~Pends(task[s], i)
        BY <3>1, <4>1 DEF Pends
      <4> QED
        BY <3>1, <4>1, <4>2
    <3>2. CASE /\ ui'.stopping = ui.stopping \ {j}
               /\ Pends(task[s], i) <=> i = j
               /\ t = NoTask
      <4>1. ~Pends(t, i)
        BY <3>2 DEF Pends, NoTask
      <4> QED
        BY <3>2, <4>1
    <3> QED
      BY <3>1, <3>2
  <2>5. s \in P \/ s \notin Q \/ P = {}
    BY <2>2, <2>3, <2>4
  <2>6. /\ \A x, y \in Q : x = y
        /\ s \in P /\ s \notin Q => Q = {}
        /\ (s \in Q <=> s \in P) => Q = P
    BY <2>2, <2>3, <2>5, OneChanges
  <2>7. i \in ui'.stopping <=> Q # {}
    BY <2>2, <2>3, <2>4, <2>6
  <2> QED
    BY <2>1, <2>6, <2>7 DEF OneFor
<1>4. FlagsKnown' /\ LogKnown'
  BY <1>2, <1>3 DEF FlagsKnown, LogKnown
<1> QED
  BY <1>4, StepKept

LEMMA InstancesKept ==
    ASSUME WaitsInv, TeamNext, view = "instances"
    PROVE  WaitsInv'
<1>1. view' = view
  BY ViewStays
<1>2. ui = [loading |-> ui.loading, refreshing |-> ui.refreshing, list |-> ui.list,
            stopping |-> ui.stopping]
  BY DEF WaitsInv, UiKnown
<1>3. \A i \in Item : i # Nothing
  BY TeamAssumption DEF Nothing
<1>4. ASSUME UNCHANGED <<task, ui>>, popup' = popup \/ (popup = Alert /\ popup' = Nothing)
      PROVE  WaitsInv'
  <2>1. UiKnown'
    BY <1>1, <1>2, <1>4 DEF UiKnown
  <2> QED
    BY <1>1, <1>4, <2>1, StillKept DEF LogKnown
<1>5. CASE handleRefresh
  <2>1. PICK s \in Slot : FreeSlot(s) /\ Start(s, "fetch", "sent", Ask(Nothing))
    BY <1>5 DEF handleRefresh
  <2>2. ui' = [ui EXCEPT !.refreshing = TRUE] /\ popup' = popup
    BY <1>5 DEF handleRefresh
  <2>3. PICK t : t = [op |-> "fetch", at |-> "sent", arg |-> Ask(Nothing)]
    OBVIOUS
  <2>4. Changes(s, t) /\ task[s].op = "none"
    <3>1. <<"fetch", "sent">> \in Kinds(view)
      BY DEF Kinds
    <3> QED
      BY <1>1, <2>1, <2>2, <2>3, <3>1, StartChanges
  <2>5. UiKnown' /\ ui'.loading = ui.loading /\ ui'.stopping = ui.stopping
    BY <1>1, <1>2, <2>2 DEF UiKnown
  <2>6. \A i \in Item : ~Pends(t, i) /\ ~Pends(task[s], i)
    BY <1>3, <2>3, <2>4 DEF Pends, Ask
  <2>7. t.at = "sent" /\ t.op = "fetch"
    BY <2>3
  <2> QED
    BY <1>1, <2>4, <2>5, <2>6, <2>7, InstanceKept DEF LoadOps, LoadAts
<1>6. ASSUME NEW i \in Item, handleStop(i) PROVE WaitsInv'
  <2>1. PICK s \in Slot : FreeSlot(s) /\ Start(s, "stop", "dialog", Ask(i)) /\ popup' = s
    BY <1>6 DEF handleStop
  <2>2. ui' = ui /\ popup = Nothing /\ i \notin ui.stopping
    BY <1>6 DEF handleStop, Usable, Stoppable
  <2>3. PICK t : t = [op |-> "stop", at |-> "dialog", arg |-> Ask(i)]
    OBVIOUS
  <2>4. Changes(s, t) /\ task[s].op = "none"
    <3>1. <<"stop", "dialog">> \in Kinds(view)
      BY DEF Kinds
    <3> QED
      BY <1>1, <2>1, <2>2, <2>3, <3>1, StartChanges
  <2>5. UiKnown' /\ ui'.loading = ui.loading /\ ui'.stopping = ui.stopping
    BY <1>1, <1>2, <2>2 DEF UiKnown
  <2>6. t.at = "dialog" /\ t.op = "stop" /\ t.arg.t = i
    BY <2>3 DEF Ask
  <2>7. \A k \in Item : ~Pends(t, k) /\ ~Pends(task[s], k)
    BY <2>4, <2>6 DEF Pends
  <2> QED
    BY <1>1, <2>2, <2>4, <2>5, <2>6, <2>7, InstanceKept DEF LoadOps
<1>7. ASSUME NEW i \in Item, Deploys(i) PROVE WaitsInv'
  BY <1>4, <1>7 DEF Deploys
<1>8. CASE AlertCloses
  BY <1>4, <1>8 DEF AlertCloses
<1>9. ASSUME NEW s \in Slot, ServerLists(s) PROVE WaitsInv'
  <2>1. PICK t : Changes(s, t) /\ t.op = "fetch" /\ t.at = "read" /\ task[s].arg.t = t.arg.t
    BY <1>9, ServerListsChanges
  <2>2. ui' = ui /\ task[s].op = "fetch" /\ UiKnown'
    BY <1>1, <1>2, <1>9 DEF ServerLists, Awaits, UiKnown
  <2>3. \A i \in Item : Pends(t, i) <=> Pends(task[s], i)
    BY <2>1, <2>2 DEF Pends
  <2> QED
    BY <1>1, <2>1, <2>2, <2>3, InstanceKept DEF LoadOps, LoadAts
<1>10. ASSUME NEW s \in Slot, fetchInstances(s) PROVE WaitsInv'
  <2>1. task[s].op = "fetch" /\ task[s].at # "dialog"
    BY <1>10, KindOf DEF fetchInstances
  <2>2. Changes(s, NoTask)
    <3>1. (Ends(s) /\ popup' = popup) \/ Fires(s, Alert)
      BY <1>10 DEF fetchInstances
    <3> QED
      BY <1>1, <2>1, <3>1, EndsChanges, FiresChanges
  <2>3. PICK j, d : j = task[s].arg.t /\ d = ui.stopping \ {j}
    OBVIOUS
  <2>4. PICK done : done = [ui EXCEPT !.loading = FALSE, !.refreshing = FALSE, !.stopping = d]
    OBVIOUS
  <2>5. ui' = done \/ \E list : ui' = [done EXCEPT !.list = list]
    BY <1>2, <1>10, <2>3, <2>4 DEF fetchInstances
  <2>6. done = [loading |-> FALSE, refreshing |-> FALSE, list |-> ui.list, stopping |-> d]
    BY <1>2, <2>4
  <2>7. UiKnown' /\ ~ui'.loading /\ ui'.stopping = d
    BY <1>1, <2>5, <2>6 DEF UiKnown
  <2>8. \A i \in Item : Pends(task[s], i) <=> i = j
    BY <2>1, <2>3 DEF Pends
  <2> QED
    BY <1>1, <2>2, <2>3, <2>7, <2>8, InstanceKept
<1>11. ASSUME NEW s \in Slot, StopAnswered(s) PROVE WaitsInv'
  <2>1. task[s].op = "stop" /\ task[s].at = "sent"
    BY <1>11 DEF StopAnswered, Awaits
  <2>2. PICK j : j = task[s].arg.t
    OBVIOUS
  <2>3. CASE ui' = [ui EXCEPT !.loading = TRUE] /\ FiresAnd(s, FetchOf(j))
    <3>1. Changes(s, FetchOf(j))
      BY <1>1, <2>3, FetchChanges
    <3>2. UiKnown' /\ ui'.stopping = ui.stopping
      BY <1>1, <1>2, <2>3 DEF UiKnown
    <3>0. PICK t : t = FetchOf(j)
      OBVIOUS
    <3>3. t.op = "fetch" /\ t.at = "sent" /\ t.arg.t = j
      BY <3>0 DEF FetchOf, Ask
    <3>4. \A i \in Item : Pends(t, i) <=> Pends(task[s], i)
      BY <2>1, <2>2, <3>3 DEF Pends
    <3>5. Changes(s, t)
      BY <3>0, <3>1
    <3>6. t.op \in LoadOps /\ t.at \in LoadAts /\ t.at # "dialog"
      BY <3>3 DEF LoadOps, LoadAts
    <3> QED
      BY <1>1, <3>2, <3>4, <3>5, <3>6, InstanceKept
  <2>4. CASE ui' = [ui EXCEPT !.stopping = ui.stopping \ {j}] /\ Fires(s, Alert)
    <3>1. Changes(s, NoTask)
      BY <1>1, <2>4, FiresChanges
    <3>2. UiKnown' /\ ui'.stopping = ui.stopping \ {j} /\ ui'.loading = ui.loading
      BY <1>1, <1>2, <2>4 DEF UiKnown
    <3>3. \A i \in Item : Pends(task[s], i) <=> i = j
      BY <2>1, <2>2 DEF Pends
    <3> QED
      BY <1>1, <2>1, <3>1, <3>2, <3>3, InstanceKept DEF LoadOps
  <2>5. \/ ui' = [ui EXCEPT !.loading = TRUE] /\ FiresAnd(s, FetchOf(j))
        \/ ui' = [ui EXCEPT !.stopping = ui.stopping \ {j}] /\ Fires(s, Alert)
    BY <1>2, <1>11, <2>2 DEF StopAnswered
  <2> QED
    BY <2>3, <2>4, <2>5
<1>12. ASSUME NEW s \in Slot, Confirms(s) \/ Cancels(s) PROVE WaitsInv'
  <2>1. /\ task[s].op = "stop" /\ task[s].at = "dialog" /\ popup = s /\ popup' = Nothing
    BY <1>12, KindOf DEF Confirms, Cancels
  <2>2. PICK j : j = task[s].arg.t
    OBVIOUS
  <2>3. \A i : ~Pends(task[s], i)
    BY <2>1 DEF Pends
  <2>4. CASE Ends(s) /\ UNCHANGED ui
    <3>1. Changes(s, NoTask)
      BY <1>1, <2>1, <2>4, EndsChanges
    <3>2. UiKnown'
      BY <1>1, <1>2, <2>4 DEF UiKnown
    <3>3. \A i : ~Pends(NoTask, i)
      BY DEF Pends, NoTask
    <3>4. NoTask.at # "dialog" /\ task[s].op \notin LoadOps
      BY <2>1 DEF NoTask, LoadOps
    <3> QED
      BY <1>1, <2>3, <2>4, <3>1, <3>2, <3>3, <3>4, InstanceKept
  <2>5. CASE Await(s, "sent", task[s].arg) /\ ui' = [ui EXCEPT !.stopping = ui.stopping \cup {j}]
    <3>1. PICK t : t = [op |-> task[s].op, at |-> "sent", arg |-> task[s].arg]
      OBVIOUS
    <3>2. Changes(s, t)
      <4>1. <<task[s].op, "sent">> \in Kinds(view)
        BY <2>1 DEF Kinds
      <4> QED
        BY <1>1, <2>1, <2>5, <3>1, <4>1, AwaitChanges
    <3>3. UiKnown' /\ ui'.loading = ui.loading /\ ui'.stopping = ui.stopping \cup {j}
      BY <1>1, <1>2, <2>5 DEF UiKnown
    <3>4. \A i \in Item : Pends(t, i) <=> i = j
      BY <2>1, <2>2, <3>1 DEF Pends
    <3>5. task[s].op \notin LoadOps
      BY <2>1 DEF LoadOps
    <3>6. t.at # "dialog"
      BY <3>1
    <3>7. ui'.loading => ui.loading /\ task[s].op \notin LoadOps
      BY <3>3, <3>5
    <3>8. task[s].at = "dialog" /\ task[s].arg.t = j
      BY <2>1, <2>2
    <3> QED
      BY <1>1, <3>2, <3>3, <3>4, <3>6, <3>7, <3>8, InstanceKept
  <2>6. \/ Ends(s) /\ UNCHANGED ui
        \/ Await(s, "sent", task[s].arg) /\ ui' = [ui EXCEPT !.stopping = ui.stopping \cup {j}]
    BY <1>2, <1>12, <2>1, <2>2 DEF Confirms, Cancels
  <2> QED
    BY <2>4, <2>5, <2>6
<1>13. CASE TeamMoves
  BY <1>5, <1>6, <1>7, <1>13 DEF TeamMoves, setShowModal, setShowPasswordModal,
     handleTicketSubmit, handleChangePassword, updateForm, handleCaptcha, handleRegister, OnForm,
     handleDeleteTicket, Replies, handleChangePage, handleFilterChange, handlePasswordInputChange
<1>14. CASE TeamAnswers
  <2>1. ASSUME NEW s \in Slot
        PROVE  ~(\/ fetchTickets(s) \/ SubmitAnswered(s) \/ DeleteAnswered(s)
                 \/ fetchActionLogs(s) \/ fetchAllData(s) \/ ChangeAnswered(s)
                 \/ loadData(s) \/ RegisterSends(s) \/ RegisterAnswered(s))
    BY KindOf DEF fetchTickets, SubmitAnswered, DeleteAnswered, fetchActionLogs, fetchAllData,
       ChangeAnswered, loadData, RegisterSends, RegisterAnswered, Awaits
  <2> QED
    BY <1>8, <1>9, <1>10, <1>11, <1>12, <1>14, <2>1 DEF TeamAnswers
<1> QED
  BY <1>13, <1>14 DEF TeamNext

LEMMA WaitsStepInv == WaitsInv /\ [TeamNext]_teamVars => WaitsInv'
<1> SUFFICES ASSUME WaitsInv, [TeamNext]_teamVars PROVE WaitsInv'
  OBVIOUS
<1>1. CASE UNCHANGED teamVars
  <2>1. UNCHANGED <<task, view, ui, popup>>
    BY <1>1 DEF teamVars
  <2>2. UiKnown' /\ LogKnown'
    BY <2>1 DEF WaitsInv, UiKnown, LogKnown, LogPageExists, LogPages
  <2> QED
    BY <2>1, <2>2, StillKept
<1>2. CASE TeamNext
  <2>1. view \in {"tickets", "ticket", "instances", "logs", "profile", "register"}
    BY DEF WaitsInv, Views
  <2> QED
    BY <1>2, <2>1, TicketsKept, TicketKept, InstancesKept, LogsKept, ProfileWaits, RegisterKept
<1> QED
  BY <1>1, <1>2

\* One function, counted.
LEMMA OneIsCounted ==
    ASSUME NEW S, \A x, y \in S : x = y
    PROVE  /\ S # {} <=> Cardinality(S) = 1
           /\ S = {} <=> Cardinality(S) = 0
<1>1. CASE S = {}
  BY <1>1, FS_EmptySet
<1>2. CASE S # {}
  <2>1. PICK x : S = {x}
    BY <1>2
  <2> QED
    BY <1>2, <2>1, FS_Singleton
<1> QED
  BY <1>1, <1>2

LEMMA WaitsAre ==
    ASSUME WaitsInv
    PROVE  WaitsAreAttended /\ LogPageExists
<1>1. LogPageExists
  BY DEF WaitsInv, LogKnown, LogPageExists
<1>2. ui.loading => Tasks({"fetch", "reads", "load"}, {"sent", "read", "config", "metadata"}) # {}
  BY DEF WaitsInv, LoadOps, LoadAts
<1>3. /\ view = "tickets" => ui.submitting <=> Cardinality(Tasks({"create"}, {"sent"})) = 1
      /\ view = "profile" => ui.changing <=> Cardinality(Tasks({"change"}, {"sent"})) = 1
      /\ view = "register" =>
            ui.submitting <=> Cardinality(Tasks({"register"}, {"frame", "sent"})) = 1
  BY OneIsCounted DEF WaitsInv, FlagsKnown, OneFor
<1>4. ASSUME view = "instances", NEW i \in Item
      PROVE  Cardinality({s \in PendingOf("stop", i) : task[s].at = "sent"}
                            \cup PendingOf("fetch", i)) = IF i \in ui.stopping THEN 1 ELSE 0
  <2>1. PICK S : S = {s \in PendingOf("stop", i) : task[s].at = "sent"} \cup PendingOf("fetch", i)
    OBVIOUS
  <2>2. (i \in ui.stopping <=> S # {}) /\ \A x, y \in S : x = y
    BY <1>4, <2>1 DEF WaitsInv, FlagsKnown, OneFor, Stopping
  <2> QED
    BY <2>1, <2>2, OneIsCounted
<1> QED
  BY <1>1, <1>2, <1>3, <1>4 DEF WaitsAreAttended

-----------------------------------------------------------------------------
(***************************************************************************)
(* ChallengeBrowser: the spinners of the list and of the panel.            *)
(***************************************************************************)

\* A function fetches a category; a function will remove the skeleton; the page loads.
Fetches(t, k) == t.at \in {"list", "prereqs"} /\ t.arg.k = k
OpensPanel(t) == t.op \in {"open", "nav"} /\ t.at \in {"detail", "refused"}
PageAts == {"select", "access", "categories", "list", "prereqs"}
PageWaits == \A s \in Slot : task[s].op = "page" => task[s].at \in PageAts

SpinInv == BInv /\ PageWaits /\ SpinnersAreAttended

LEMMA SpinInitInv == BrowserInit => SpinInv
<1> SUFFICES ASSUME BrowserInit PROVE SpinInv
  OBVIOUS
<1>1. 1 \in Slot
  BY TabAssumption
<1>2. task[1].op = "page" /\ PageWaits
  BY <1>1 DEF BrowserInit, NoTasks, NoTask, PageWaits, PageAts
<1>3. shelf.busy = {} /\ ~shown.skeleton
  BY DEF BrowserInit
<1> QED
  BY <1>1, <1>2, <1>3, BrowserInitInv DEF SpinInv, SpinnersAreAttended

\* One function goes on.
Goes(s) == /\ task' = [u \in Slot |-> task'[u]]
           /\ \A u \in Slot \ {s} : \/ task'[u] = task[u]
                                    \/ task'[u] = NoTask /\ task[u].at \in {"locked", "notfound"}
KeepsPage(s) ==
    /\ task'[s].op = "page" => task'[s].at \in PageAts
    /\ shelf'.stage = "loading" =>
         /\ shelf.stage = "loading" /\ (task[s].op = "page" => task'[s].op = "page")
KeepsBusy(s) ==
    \A k \in shelf'.busy : (k \in shelf.busy /\ ~Fetches(task[s], k)) \/ Fetches(task'[s], k)
KeepsSkeleton(s) ==
    shown'.skeleton => (shown.skeleton /\ ~OpensPanel(task[s])) \/ OpensPanel(task'[s])
Keeps(s) == Goes(s) /\ KeepsPage(s) /\ KeepsBusy(s) /\ KeepsSkeleton(s)

LEMMA SpinKept ==
    ASSUME SpinInv, BInv', NEW s \in Slot, Keeps(s)
    PROVE  SpinInv'
<1>1. /\ Goes(s) /\ KeepsPage(s) /\ KeepsBusy(s) /\ KeepsSkeleton(s)
      /\ PageWaits /\ SpinnersAreAttended
  BY DEF Keeps, SpinInv
<1>2. PageWaits'
  <2> SUFFICES ASSUME NEW u \in Slot, task'[u].op = "page"
               PROVE  task'[u].at \in PageAts
    BY DEF PageWaits
  <2>1. CASE u = s
    BY <1>1, <2>1 DEF KeepsPage
  <2>2. CASE u # s
    <3>1. task'[u] = task[u]
      BY <1>1, <2>2 DEF Goes, NoTask
    <3> QED
      BY <1>1, <3>1 DEF PageWaits
  <2> QED
    BY <2>1, <2>2
<1>3. ASSUME NEW u \in Slot \ {s}, task[u].at \notin {"locked", "notfound"} PROVE task'[u] = task[u]
  BY <1>1, <1>3 DEF Goes
<1>4. ASSUME shown'.skeleton PROVE \E u \in Slot : OpensPanel(task'[u])
  <2>1. CASE OpensPanel(task'[s])
    BY <2>1
  <2>2. CASE shown.skeleton /\ ~OpensPanel(task[s])
    <3>1. PICK u \in Slot : OpensPanel(task[u])
      BY <1>1, <2>2 DEF SpinnersAreAttended, Tasks, OpensPanel
    <3>2. task'[u] = task[u]
      BY <1>3, <2>2, <3>1 DEF OpensPanel
    <3> QED
      BY <3>1, <3>2
  <2> QED
    BY <1>1, <1>4, <2>1, <2>2 DEF KeepsSkeleton
<1>5. ASSUME NEW k \in shelf'.busy PROVE \E u \in Slot : Fetches(task'[u], k)
  <2>1. CASE Fetches(task'[s], k)
    BY <2>1
  <2>2. CASE k \in shelf.busy /\ ~Fetches(task[s], k)
    <3>1. PICK u \in Slot : Fetches(task[u], k)
      BY <1>1, <2>2 DEF SpinnersAreAttended, Fetching, Fetches
    <3>2. task'[u] = task[u]
      BY <1>3, <2>2, <3>1 DEF Fetches
    <3> QED
      BY <3>1, <3>2
  <2> QED
    BY <1>1, <2>1, <2>2 DEF KeepsBusy
<1>6. ASSUME shelf'.stage = "loading" PROVE \E u \in Slot : task'[u].op = "page"
  <2>1. PICK u \in Slot : task[u].op = "page"
    BY <1>1, <1>6 DEF KeepsPage, SpinnersAreAttended
  <2>2. CASE u = s
    BY <1>1, <1>6, <2>1, <2>2 DEF KeepsPage
  <2>3. CASE u # s
    <3>1. task[u].at \notin {"locked", "notfound"}
      BY <1>1, <2>1 DEF PageWaits, PageAts
    <3>2. task'[u] = task[u]
      BY <1>3, <2>3, <3>1
    <3> QED
      BY <2>1, <3>2
  <2> QED
    BY <2>2, <2>3
<1>7. SpinnersAreAttended'
  <2>1. shown'.skeleton => Tasks({"open", "nav"}, {"detail", "refused"})' # {}
    BY <1>4 DEF Tasks, OpensPanel
  <2>2. \A k \in shelf'.busy : Fetching(k)'
    BY <1>5 DEF Fetching, Fetches
  <2> QED
    BY <1>6, <2>1, <2>2 DEF SpinnersAreAttended
<1> QED
  BY <1>2, <1>7 DEF SpinInv

-----------------------------------------------------------------------------
(* How a function goes on.                                                 *)

LEMMA StartGoes ==
    ASSUME BInv, NEW s \in Slot, NEW op, NEW at, NEW arg, Start(s, op, at, arg)
    PROVE  Goes(s) /\ task'[s].op = op /\ task'[s].at = at /\ task'[s].arg = arg
  BY DEF BInv, ListTasks, Start, Goes

LEMMA PopupGoes ==
    ASSUME BInv, NEW s \in Slot, NEW op, NEW at, NEW arg, Popup(s, op, at, arg)
    PROVE  Goes(s) /\ task'[s].op = op /\ task'[s].at = at /\ task'[s].arg = arg
  BY DEF BInv, ListTasks, Popup, Goes

LEMMA AwaitGoes ==
    ASSUME BInv, NEW s \in Slot, task[s].at # "none", NEW at, NEW arg, Await(s, at, arg)
    PROVE  Goes(s) /\ task'[s].op = task[s].op /\ task'[s].at = at /\ task'[s].arg = arg
<1>1. task[s] \in ListTask
  BY Waiting
<1>2. task'[s] = [task[s] EXCEPT !.at = at, !.arg = arg]
  BY DEF BInv, ListTasks, Await
<1>3. task'[s].op = task[s].op /\ task'[s].at = at /\ task'[s].arg = arg
  BY <1>1, <1>2 DEF ListTask
<1> QED
  BY <1>3 DEF BInv, ListTasks, Await, Goes

LEMMA EndsGoes ==
    ASSUME BInv, NEW s \in Slot, Ends(s)
    PROVE  Goes(s) /\ task'[s].op = "none" /\ task'[s].at = "none"
  BY DEF BInv, ListTasks, Ends, Goes, NoTask

LEMMA FreeIsStill ==
    ASSUME BInv, NEW s \in Slot, FreeSlot(s)
    PROVE  task[s].op = "none" /\ task[s].at = "none"
<1>1. ListTaskOK(task[s]) /\ task[s].op = "none"
  BY DEF BInv, ListTasks, FreeSlot
<1> QED
  BY <1>1 DEF ListTaskOK, ListTask, NoTask

LEMMA FetchGoes ==
    ASSUME BInv, NEW s \in Slot, NEW op, NEW arg \in ListArg, NEW k \in Category,
           NEW sh \in Shelves, Fetch(s, op, arg, k, sh)
    PROVE  /\ Goes(s) /\ task'[s].op = op /\ task'[s].at = "list" /\ task'[s].arg.k = k
           /\ shelf'.busy = sh.busy \cup {k} /\ shelf'.stage = sh.stage
<1>1. PICK a : a = [arg EXCEPT !.k = k]
  OBVIOUS
<1>2. a.k = k
  BY <1>1 DEF ListArg
<1>3. Start(s, op, "list", a)
  BY <1>1 DEF Fetch
<1>4. shelf'.busy = sh.busy \cup {k} /\ shelf'.stage = sh.stage
  BY DEF Fetch, Shelves
<1> QED
  BY <1>2, <1>3, <1>4, StartGoes

\* The check of a challenge to open begins, or the user may not see the challenges.
LEMMA OpenGoes ==
    ASSUME BInv, NEW s \in Slot, NEW c, NEW a, NEW v, OpenWith(s, c, a, v)
    PROVE  Goes(s) /\ \/ task'[s].op = "open" /\ task'[s].at = "check"
                      \/ task'[s].op = "none" /\ task'[s].at = "none"
<1>1. CASE v
  <2>1. PICK b : b = [a EXCEPT !.c = c, !.todo = Pairs({c}), !.bad = {}]
    OBVIOUS
  <2>2. Start(s, "open", "check", b)
    BY <1>1, <2>1 DEF OpenWith
  <2> QED
    BY <2>2, StartGoes
<1>2. CASE ~v
  BY <1>2, EndsGoes DEF OpenWith
<1> QED
  BY <1>1, <1>2

LEMMA MergedGoes ==
    ASSUME BInv, NEW s \in Slot, NEW op, Loaded(s, op)
    PROVE  /\ Merged(s) \in Shelves /\ task[s].op = op /\ task[s].at = "prereqs"
           /\ Merged(s).stage = shelf.stage /\ Merged(s).busy = shelf.busy \ {task[s].arg.k}
           /\ task[s].arg.k \in Category
<1>1. Merged(s) \in Shelves /\ task[s].op = op /\ task[s].at = "prereqs" /\ task[s].arg.k \in Category
  BY MergedStays
<1>2. Merged(s).stage = shelf.stage /\ Merged(s).busy = shelf.busy \ {task[s].arg.k}
  BY ShelfNow DEF Merged, Shelves
<1> QED
  BY <1>1, <1>2

\* A function that neither fetches nor opens a challenge goes on to where it does not
\* either, or to the request of the detail.
LEMMA StillKeeps ==
    ASSUME SpinInv, NEW s \in Slot, Goes(s),
           task[s].at \notin {"list", "prereqs"}, ~OpensPanel(task[s]),
           task[s].op # "page", task'[s].op # "page",
           shelf'.stage = shelf.stage, shelf'.busy \subseteq shelf.busy,
           shown'.skeleton => shown.skeleton \/ OpensPanel(task'[s])
    PROVE  Keeps(s)
  BY DEF Keeps, KeepsPage, KeepsBusy, KeepsSkeleton, Fetches

\* A fetch of a category that spins begins, or one ends and the next begins.
LEMMA FetchKeeps ==
    ASSUME SpinInv, NEW s \in Slot, Goes(s), task'[s].at = "list",
           ~OpensPanel(task[s]), task[s].op = "page" <=> task'[s].op = "page",
           shelf'.stage = shelf.stage,
           \A k \in shelf'.busy : k = task'[s].arg.k \/ (k \in shelf.busy /\ ~Fetches(task[s], k)),
           UNCHANGED shown
    PROVE  Keeps(s)
  BY DEF Keeps, KeepsPage, KeepsBusy, KeepsSkeleton, Fetches, PageAts

\* A fetch ends, and its category no longer spins.
LEMMA LoadedKeeps ==
    ASSUME SpinInv, NEW s \in Slot, NEW op, Loaded(s, op), Goes(s), task'[s].op # "page",
           shelf'.busy \subseteq Merged(s).busy,
           shelf'.stage = "loading" => shelf.stage = "loading" /\ op # "page",
           UNCHANGED shown
    PROVE  Keeps(s)
<1>1. /\ task[s].op = op /\ task[s].at = "prereqs"
      /\ Merged(s).busy = shelf.busy \ {task[s].arg.k}
  BY MergedGoes DEF SpinInv
<1>2. KeepsBusy(s)
  BY <1>1 DEF KeepsBusy, Fetches
<1>3. KeepsSkeleton(s)
  BY <1>1 DEF KeepsSkeleton, OpensPanel
<1>4. KeepsPage(s)
  BY <1>1 DEF KeepsPage
<1> QED
  BY <1>2, <1>3, <1>4 DEF Keeps

-----------------------------------------------------------------------------
(* The steps of the list.                                                  *)

LEMMA ReadsKeep ==
    ASSUME SpinInv, NEW s \in Slot, ListAnswered(s) \/ checkPrerequisites(s)
    PROVE  Keeps(s)
<1> DEFINE a == task[s].arg
<1>0. BInv /\ PageWaits
  BY DEF SpinInv
<1>1. task[s].at \in {"list", "prereqs", "check"} /\ UNCHANGED shown
  BY DEF ListAnswered, checkPrerequisites
<1>2. a \in ListArg
  BY <1>0, <1>1, Waiting
<1>3. /\ shelf'.stage = shelf.stage /\ shelf'.busy = shelf.busy
  <2>1. CASE ListAnswered(s)
    <3>1. PICK list : Rerender([shelf EXCEPT !.loaded[a.k] = list])
      BY <2>1 DEF ListAnswered
    <3> QED
      BY <1>0, <3>1, ShelfNow DEF Rerender, Shelves
  <2>2. CASE checkPrerequisites(s)
    BY <2>2 DEF checkPrerequisites
  <2> QED
    BY <2>1, <2>2
<1>4. \E at \in {"prereqs", "check"} : \E b :
         /\ Await(s, at, b) /\ b.k = a.k
         /\ task[s].at \in {"list", "prereqs"} <=> at = "prereqs"
  <2>1. CASE ListAnswered(s)
    <3>2. PICK list : Await(s, "prereqs", [a EXCEPT !.has = a.c \in list, !.todo = Pairs(list),
                                                     !.bad = {}])
      BY <2>1 DEF ListAnswered
    <3>3. [a EXCEPT !.has = a.c \in list, !.todo = Pairs(list), !.bad = {}].k = a.k
      BY <1>2 DEF ListArg
    <3>1. PICK b : Await(s, "prereqs", b) /\ b.k = a.k
      BY <3>2, <3>3
    <3> QED
      BY <2>1, <3>1 DEF ListAnswered
  <2>2. CASE checkPrerequisites(s)
    <3>1. PICK q \in a.todo :
             \/ Await(s, task[s].at, [a EXCEPT !.todo = @ \ {q}])
             \/ Await(s, task[s].at, [[a EXCEPT !.todo = @ \ {q}] EXCEPT !.bad = @ \cup {q}])
      BY <2>2 DEF checkPrerequisites
    <3>2. /\ [a EXCEPT !.todo = @ \ {q}].k = a.k
          /\ [[a EXCEPT !.todo = @ \ {q}] EXCEPT !.bad = @ \cup {q}].k = a.k
      BY <1>2 DEF ListArg
    <3>3. PICK b : Await(s, task[s].at, b) /\ b.k = a.k
      BY <3>1, <3>2
    <3>4. task[s].at \in {"prereqs", "check"}
      BY <2>2 DEF checkPrerequisites
    <3> QED
      BY <3>3, <3>4
  <2> QED
    BY <2>1, <2>2
<1>5. PICK at \in {"prereqs", "check"} : \E b :
         /\ Await(s, at, b) /\ b.k = a.k
         /\ task[s].at \in {"list", "prereqs"} <=> at = "prereqs"
  BY <1>4
<1>6. PICK b : /\ Await(s, at, b) /\ b.k = a.k
               /\ task[s].at \in {"list", "prereqs"} <=> at = "prereqs"
  BY <1>5
<1>7. /\ Goes(s) /\ task'[s].op = task[s].op /\ task'[s].at = at /\ task'[s].arg = b
  BY <1>0, <1>1, <1>6, AwaitGoes
<1>8. KeepsPage(s)
  <2>1. ASSUME task[s].op = "page" PROVE at = "prereqs"
    BY <1>0, <1>1, <1>6, <2>1 DEF PageWaits, PageAts
  <2> QED
    BY <1>3, <1>7, <2>1 DEF KeepsPage, PageAts
<1>9. KeepsBusy(s)
  BY <1>3, <1>6, <1>7 DEF KeepsBusy, Fetches
<1>10. KeepsSkeleton(s)
  BY <1>1 DEF KeepsSkeleton, OpensPanel
<1> QED
  BY <1>7, <1>8, <1>9, <1>10 DEF Keeps

LEMMA PageKeeps ==
    ASSUME SpinInv, NEW s \in Slot, fetchDataAsync(s)
    PROVE  Keeps(s)
<1> DEFINE a == task[s].arg
<1>0. BInv /\ shelf \in Shelves
  BY ShelfNow DEF SpinInv
<1>1. task[s].op = "page" /\ task[s].at \in {"select", "access", "categories", "prereqs"}
      /\ UNCHANGED shown
  BY DEF fetchDataAsync, PageSelect, PageAccess, PageCategories, PageLoaded, Loaded, Awaits
<1>2. KeepsSkeleton(s)
  BY <1>1 DEF KeepsSkeleton, OpensPanel
<1>3. ASSUME NEW at \in {"access", "categories"}, Await(s, at, a), task[s].at # "prereqs",
             shelf'.stage = shelf.stage, shelf'.busy = shelf.busy
      PROVE  Keeps(s)
  <2>1. Goes(s) /\ task'[s].op = "page" /\ task'[s].at = at
    BY <1>0, <1>1, <1>3, AwaitGoes
  <2>2. KeepsPage(s)
    BY <1>1, <1>3, <2>1 DEF KeepsPage, PageAts
  <2>3. KeepsBusy(s)
    BY <1>1, <1>3 DEF KeepsBusy, Fetches
  <2> QED
    BY <1>2, <2>1, <2>2, <2>3 DEF Keeps
<1>4. ASSUME Ends(s), shelf'.stage # "loading", shelf'.busy \subseteq shelf.busy,
             \A k \in shelf'.busy : ~Fetches(task[s], k)
      PROVE  Keeps(s)
  <2>1. Goes(s) /\ task'[s].op = "none"
    BY <1>0, <1>4, EndsGoes
  <2> QED
    BY <1>2, <1>4, <2>1 DEF Keeps, KeepsPage, KeepsBusy
<1>5. CASE PageSelect(s)
  <2>1. task[s].at = "select"
    BY <1>5 DEF PageSelect, Awaits
  <2>2. CASE Await(s, "access", a) /\ UNCHANGED shelf
    BY <1>3, <2>1, <2>2
  <2>3. CASE Ends(s) /\ shelf' = [shelf EXCEPT !.stage = "error"]
    <3>1. shelf'.stage = "error" /\ shelf'.busy = shelf.busy
      BY <1>0, <2>3 DEF Shelves
    <3>2. \A k \in shelf'.busy : ~Fetches(task[s], k)
      BY <2>1 DEF Fetches
    <3> QED
      BY <1>4, <2>3, <3>1, <3>2
  <2> QED
    BY <1>5, <2>2, <2>3 DEF PageSelect
<1>6. CASE PageAccess(s)
  <2>1. task[s].at = "access" /\ Await(s, "categories", a)
    BY <1>6 DEF PageAccess, Awaits
  <2>2. PICK v \in BOOLEAN : UNCHANGED shelf \/ Rerender([shelf EXCEPT !.view = v])
    BY <1>6 DEF PageAccess
  <2>3. shelf'.stage = shelf.stage /\ shelf'.busy = shelf.busy
    BY <1>0, <2>2 DEF Rerender, Shelves
  <2> QED
    BY <1>3, <2>1, <2>3
<1>7. CASE PageCategories(s)
  <2>1. task[s].at = "categories"
    BY <1>7 DEF PageCategories, Awaits
  <2>2. PICK cats \in {Category, {}} :
          LET sh == [shelf EXCEPT !.cats = cats] IN
          \/ cats = {} /\ Ends(s) /\ shelf' = [sh EXCEPT !.stage = "ready"]
          \/ \E k \in cats : Fetch(s, "page", a, k, [sh EXCEPT !.cat = k, !.open = {k}])
    BY <1>7 DEF PageCategories
  <2>3. PICK sh : sh = [shelf EXCEPT !.cats = cats]
    OBVIOUS
  <2>4. sh \in Shelves /\ sh.stage = shelf.stage /\ sh.busy = shelf.busy
    BY <1>0, <2>3 DEF Shelves
  <2>5. CASE cats = {} /\ Ends(s) /\ shelf' = [sh EXCEPT !.stage = "ready"]
    <3>1. shelf'.stage = "ready" /\ shelf'.busy = shelf.busy
      BY <2>4, <2>5 DEF Shelves
    <3>2. \A k \in shelf'.busy : ~Fetches(task[s], k)
      BY <2>1 DEF Fetches
    <3> QED
      BY <1>4, <2>5, <3>1, <3>2
  <2>6. ASSUME NEW k \in cats, Fetch(s, "page", a, k, [sh EXCEPT !.cat = k, !.open = {k}])
        PROVE  Keeps(s)
    <3>1. k \in Category /\ a \in ListArg
      BY <1>0, <1>1, <2>6, Waiting
    <3>2. PICK s2 : s2 = [sh EXCEPT !.cat = k, !.open = {k}]
      OBVIOUS
    <3>3. s2 \in Shelves /\ s2.stage = shelf.stage /\ s2.busy = shelf.busy
      BY <2>4, <3>1, <3>2 DEF Shelves
    <3>4. /\ Goes(s) /\ task'[s].op = "page" /\ task'[s].at = "list" /\ task'[s].arg.k = k
          /\ shelf'.busy = shelf.busy \cup {k} /\ shelf'.stage = shelf.stage
      <4>1. PICK b \in ListArg : b = a
        BY <3>1
      <4>2. PICK op : op = "page"
        OBVIOUS
      <4>3. Fetch(s, op, b, k, s2)
        BY <2>6, <3>2, <4>1, <4>2
      <4>4. /\ Goes(s) /\ task'[s].op = op /\ task'[s].at = "list" /\ task'[s].arg.k = k
            /\ shelf'.busy = s2.busy \cup {k} /\ shelf'.stage = s2.stage
        BY <1>0, <3>1, <3>3, <4>3, FetchGoes
      <4> QED
        BY <3>3, <4>2, <4>4
    <3>5. \A j \in shelf'.busy : j = task'[s].arg.k \/ (j \in shelf.busy /\ ~Fetches(task[s], j))
      BY <2>1, <3>4 DEF Fetches
    <3>6. ~OpensPanel(task[s])
      BY <1>1 DEF OpensPanel
    <3> QED
      BY <1>1, <3>4, <3>5, <3>6, FetchKeeps
  <2> QED
    BY <2>2, <2>3, <2>5, <2>6
<1>8. CASE PageLoaded(s)
  <2>1. Loaded(s, "page") /\ Ends(s) /\ shelf' = [Merged(s) EXCEPT !.stage = "ready"]
    BY <1>8 DEF PageLoaded
  <2>2. /\ Merged(s) \in Shelves /\ Merged(s).busy = shelf.busy \ {task[s].arg.k}
    BY <1>0, <2>1, MergedGoes
  <2>3. shelf'.stage = "ready" /\ shelf'.busy = shelf.busy \ {task[s].arg.k}
    BY <2>1, <2>2 DEF Shelves
  <2>4. \A k \in shelf'.busy : ~Fetches(task[s], k)
    BY <2>3 DEF Fetches
  <2> QED
    BY <1>4, <2>1, <2>3, <2>4
<1> QED
  BY <1>5, <1>6, <1>7, <1>8 DEF fetchDataAsync

\* A click and its fetch.
LEMMA FreeFetchKeeps ==
    ASSUME SpinInv, NEW s \in Slot, FreeSlot(s), NEW op \in {"url", "category"},
           NEW k \in Category, NEW sh \in Shelves, Fetch(s, op, Holds, k, sh),
           sh.stage = shelf.stage, sh.busy = shelf.busy, UNCHANGED shown
    PROVE  Keeps(s)
<1>1. BInv /\ Holds \in ListArg
  BY HoldsTyped DEF SpinInv
<1>2. task[s].op = "none" /\ task[s].at = "none"
  BY <1>1, FreeIsStill
<1>3. /\ Goes(s) /\ task'[s].op = op /\ task'[s].at = "list" /\ task'[s].arg.k = k
      /\ shelf'.busy = sh.busy \cup {k} /\ shelf'.stage = sh.stage
  <2>1. PICK b \in ListArg : b = Holds
    BY <1>1
  <2>2. PICK o : o = op
    OBVIOUS
  <2>3. Fetch(s, o, b, k, sh)
    BY <2>1, <2>2
  <2>4. /\ Goes(s) /\ task'[s].op = o /\ task'[s].at = "list" /\ task'[s].arg.k = k
        /\ shelf'.busy = sh.busy \cup {k} /\ shelf'.stage = sh.stage
    BY <1>1, <2>3, FetchGoes
  <2> QED
    BY <2>2, <2>4
<1>4. \A j \in shelf'.busy : j = task'[s].arg.k \/ (j \in shelf.busy /\ ~Fetches(task[s], j))
  BY <1>2, <1>3 DEF Fetches
<1>5. ~OpensPanel(task[s])
  BY <1>2 DEF OpensPanel
<1> QED
  BY <1>2, <1>3, <1>4, <1>5, FetchKeeps

\* A check of a challenge to open.
LEMMA FreeOpenKeeps ==
    ASSUME SpinInv, NEW s \in Slot, FreeSlot(s), NEW c, NEW a, NEW v, OpenWith(s, c, a, v),
           shelf'.stage = shelf.stage, shelf'.busy = shelf.busy, UNCHANGED shown
    PROVE  Keeps(s)
<1>1. task[s].op = "none" /\ task[s].at = "none"
  BY FreeIsStill DEF SpinInv
<1>2. Goes(s) /\ task'[s].op # "page"
  BY OpenGoes DEF SpinInv
<1>3. ~OpensPanel(task[s])
  BY <1>1 DEF OpensPanel
<1> QED
  BY <1>1, <1>2, <1>3, StillKeeps

\* A step that changes no function.
LEMMA NoneKeeps ==
    ASSUME SpinInv, BInv', UNCHANGED task, shelf'.stage = shelf.stage,
           shelf'.busy = shelf.busy, shown'.skeleton => shown.skeleton
    PROVE  SpinInv'
<1>1. PageWaits'
  BY DEF SpinInv, PageWaits
<1>2. SpinnersAreAttended'
  <2>1. Tasks({"open", "nav"}, {"detail", "refused"})' = Tasks({"open", "nav"}, {"detail", "refused"})
    BY DEF Tasks
  <2>2. \A k : Fetching(k)' <=> Fetching(k)
    BY DEF Fetching
  <2> QED
    BY <2>1, <2>2 DEF SpinInv, SpinnersAreAttended
<1> QED
  BY <1>1, <1>2 DEF SpinInv

LEMMA handleCategoryClickSpins ==
    ASSUME SpinInv, BInv', NEW s \in Slot, handleCategoryClick(s)
    PROVE  SpinInv'
<1>0. shelf \in Shelves
  BY ShelfNow DEF SpinInv
<1>1. FreeSlot(s) /\ UNCHANGED shown
  BY DEF handleCategoryClick
<1>2. PICK k \in shelf.cats :
          LET sh == [shelf EXCEPT !.cat = k, !.processed = Nothing] IN
          \/ shelf' = [sh EXCEPT !.open = @ \ {k}] /\ UNCHANGED task
          \/ shelf' = [sh EXCEPT !.open = @ \cup {k}] /\ UNCHANGED task
          \/ Fetch(s, "category", Holds, k, [shelf EXCEPT !.open = @ \cup {k}])
  BY DEF handleCategoryClick
<1>3. k \in Category
  BY <1>0, ShelfFields
<1>4. ASSUME UNCHANGED task,
             LET sh == [shelf EXCEPT !.cat = k, !.processed = Nothing] IN
             \/ shelf' = [sh EXCEPT !.open = @ \ {k}]
             \/ shelf' = [sh EXCEPT !.open = @ \cup {k}]
      PROVE  SpinInv'
  <2>1. shelf'.stage = shelf.stage /\ shelf'.busy = shelf.busy
    BY <1>0, <1>4 DEF Shelves
  <2> QED
    BY <1>1, <1>4, <2>1, NoneKeeps
<1>5. ASSUME Fetch(s, "category", Holds, k, [shelf EXCEPT !.open = @ \cup {k}])
      PROVE  SpinInv'
  <2>1. PICK sh : sh = [shelf EXCEPT !.open = @ \cup {k}]
    OBVIOUS
  <2>2. sh \in Shelves /\ sh.stage = shelf.stage /\ sh.busy = shelf.busy
    BY <1>0, <1>3, <2>1 DEF Shelves
  <2>3. Fetch(s, "category", Holds, k, sh)
    BY <1>5, <2>1
  <2>4. Keeps(s)
    BY <1>1, <1>3, <2>2, <2>3, FreeFetchKeeps
  <2> QED
    BY <2>4, SpinKept
<1> QED
  BY <1>2, <1>4, <1>5

LEMMA OpenFromUrlSpins ==
    ASSUME SpinInv, BInv', NEW s \in Slot, OpenFromUrl(s)
    PROVE  SpinInv'
<1>0. shelf \in Shelves
  BY ShelfNow DEF SpinInv
<1>1. FreeSlot(s) /\ UNCHANGED shown
  BY DEF OpenFromUrl
<1>2. CASE url.chal = Nothing
  <2>1. shelf' = [shelf EXCEPT !.effect = FALSE] /\ UNCHANGED task
    BY <1>2 DEF OpenFromUrl
  <2>2. shelf'.stage = shelf.stage /\ shelf'.busy = shelf.busy
    BY <1>0, <2>1 DEF Shelves
  <2> QED
    BY <1>1, <2>1, <2>2, NoneKeeps
<1>3. CASE url.chal # Nothing
  <2>1. url.cat \in Category
    BY <1>3, ShelfNow DEF SpinInv, Urls
  <2>2. PICK sh : sh = [shelf EXCEPT !.effect = FALSE, !.open = @ \cup {url.cat}]
    OBVIOUS
  <2>3. sh \in Shelves /\ sh.stage = shelf.stage /\ sh.busy = shelf.busy
    BY <1>0, <2>1, <2>2 DEF Shelves
  <2>4. CASE Fetch(s, "url", Holds, url.cat, sh)
    <3>1. PICK k \in Category : k = url.cat
      BY <2>1
    <3>2. Fetch(s, "url", Holds, k, sh)
      BY <2>4, <3>1
    <3>3. Keeps(s)
      BY <1>1, <2>3, <3>2, FreeFetchKeeps
    <3> QED
      BY <3>3, SpinKept
  <2>5. CASE shelf' = sh /\ UNCHANGED task
    BY <1>1, <2>3, <2>5, NoneKeeps
  <2>6. CASE /\ shelf' = [sh EXCEPT !.processed = url.chal]
             /\ OpenWith(s, url.chal, Opening(url.chal), shelf.view)
    <3>1. shelf'.stage = shelf.stage /\ shelf'.busy = shelf.busy
      BY <2>3, <2>6 DEF Shelves
    <3>2. PICK c : \E a, v : OpenWith(s, c, a, v)
      BY <2>6
    <3>3. Keeps(s)
      BY <1>1, <3>1, <3>2, FreeOpenKeeps
    <3> QED
      BY <3>3, SpinKept
  <2> QED
    BY <1>3, <2>2, <2>4, <2>5, <2>6 DEF OpenFromUrl
<1> QED
  BY <1>2, <1>3

LEMMA ClicksKeep ==
    ASSUME SpinInv, NEW s \in Slot, handleChallengeClick(s) \/ PanelBusy(s)
    PROVE  Keeps(s)
<1>0. shelf \in Shelves /\ BInv
  BY ShelfNow DEF SpinInv
<1>1. CASE handleChallengeClick(s)
  <2>1. PICK c : \E a, v : OpenWith(s, c, a, v)
    BY <1>1 DEF handleChallengeClick
  <2>2. shelf'.stage = shelf.stage /\ shelf'.busy = shelf.busy
    BY <1>0, <1>1 DEF handleChallengeClick, Shelves
  <2> QED
    BY <1>1, <2>1, <2>2, FreeOpenKeeps DEF handleChallengeClick
<1>2. CASE PanelBusy(s)
  <2>1. PICK a : Start(s, "refresh", "panel", a)
    BY <1>2 DEF PanelBusy
  <2>2. Goes(s) /\ task'[s].op = "refresh"
    BY <1>0, <2>1, StartGoes
  <2>3. task[s].op = "none" /\ task[s].at = "none" /\ UNCHANGED <<shelf, shown>>
    BY <1>0, <1>2, FreeIsStill DEF PanelBusy
  <2>4. ~OpensPanel(task[s])
    BY <2>3 DEF OpensPanel
  <2> QED
    BY <2>2, <2>3, <2>4, StillKeeps
<1> QED
  BY <1>1, <1>2

LEMMA EndedKeeps ==
    ASSUME SpinInv, NEW s \in Slot, UrlLoaded(s) \/ CategoryLoaded(s)
    PROVE  Keeps(s)
<1>1. PICK op \in {"url", "category"} : Loaded(s, op)
  BY DEF UrlLoaded, CategoryLoaded
<1>2. Goes(s) /\ task'[s].op = "none" /\ UNCHANGED shown
  BY EndsGoes DEF UrlLoaded, CategoryLoaded, SpinInv
<1>3. Merged(s) \in Shelves /\ Merged(s).stage = shelf.stage
  BY <1>1, MergedGoes DEF SpinInv
<1>4. shelf'.busy = Merged(s).busy /\ shelf'.stage = shelf.stage
  BY <1>3 DEF UrlLoaded, CategoryLoaded, Shelves
<1> QED
  BY <1>1, <1>2, <1>4, LoadedKeeps

-----------------------------------------------------------------------------
(* The steps of a challenge that opens.                                    *)

\* Going on while the shelf stays.
LEMMA PanelKeeps ==
    ASSUME SpinInv, NEW s \in Slot, Goes(s), UNCHANGED shelf,
           task[s].op \in {"open", "nav"}, task[s].at \in {"check", "detail", "refused"},
           task'[s].op \in {"open", "nav", "none"},
           OpensPanel(task[s]) /\ shown'.skeleton => OpensPanel(task'[s]),
           shown'.skeleton => shown.skeleton \/ OpensPanel(task'[s])
    PROVE  Keeps(s)
  BY DEF Keeps, KeepsPage, KeepsBusy, KeepsSkeleton, Fetches

LEMMA OpenCheckedKeeps ==
    ASSUME SpinInv, NEW s \in Slot, OpenChecked(s) \/ NavChecked(s)
    PROVE  Keeps(s)
<1> DEFINE a == task[s].arg
<1>0. BInv /\ shown \in Panels
  BY ShelfNow DEF SpinInv
<1>1. /\ task[s].op \in {"open", "nav"} /\ task[s].at = "check" /\ UNCHANGED shelf
      /\ \/ Popup(s, "open", "locked", a) /\ UNCHANGED shown
         \/ OpenWith(s, a.c, [a EXCEPT !.has = FALSE], TRUE) /\ UNCHANGED shown
         \/ Await(s, "detail", a)
  BY DEF OpenChecked, NavChecked, Awaits
<1>2. ~OpensPanel(task[s])
  BY <1>1 DEF OpensPanel
<1>3. CASE Popup(s, "open", "locked", a) /\ UNCHANGED shown
  <2>1. PICK b : Popup(s, "open", "locked", b)
    BY <1>3
  <2>2. Goes(s) /\ task'[s].op = "open"
    BY <1>0, <2>1, PopupGoes
  <2> QED
    BY <1>1, <1>2, <1>3, <2>2, PanelKeeps
<1>4. CASE OpenWith(s, a.c, [a EXCEPT !.has = FALSE], TRUE) /\ UNCHANGED shown
  <2>1. PICK c : \E b, v : OpenWith(s, c, b, v)
    BY <1>4
  <2>2. Goes(s) /\ task'[s].op \in {"open", "none"}
    BY <1>0, <2>1, OpenGoes
  <2> QED
    BY <1>1, <1>2, <1>4, <2>2, PanelKeeps
<1>5. CASE Await(s, "detail", a)
  <2>1. PICK b : Await(s, "detail", b)
    BY <1>5
  <2>2. Goes(s) /\ task'[s].op = task[s].op /\ task'[s].at = "detail"
    BY <1>0, <1>1, <2>1, AwaitGoes
  <2>3. OpensPanel(task'[s])
    BY <1>1, <2>2 DEF OpensPanel
  <2>4. task'[s].op \in {"open", "nav", "none"}
    BY <1>1, <2>2
  <2> QED
    BY <1>1, <1>2, <2>2, <2>3, <2>4, PanelKeeps
<1> QED
  BY <1>1, <1>3, <1>4, <1>5

LEMMA AnsweredKeeps ==
    ASSUME SpinInv, NEW s \in Slot,
           OpenAnswered(s) \/ OpenRefused(s) \/ NavAnswered(s) \/ NavRefused(s)
    PROVE  Keeps(s)
<1> DEFINE a == task[s].arg
<1>0. BInv /\ shown \in Panels
  BY ShelfNow DEF SpinInv
<1>1. /\ task[s].op \in {"open", "nav"} /\ task[s].at \in {"detail", "refused"}
      /\ UNCHANGED shelf
      /\ \/ /\ Ends(s)
            /\ \/ shown' = [id |-> a.c, served |-> TRUE, skeleton |-> FALSE]
               \/ shown' = [id |-> a.c, served |-> FALSE, skeleton |-> FALSE]
               \/ shown' = [shown EXCEPT !.skeleton = FALSE]
         \/ Popup(s, task[s].op, "refused", a)
         \/ Popup(s, task[s].op, "refused", [Holds EXCEPT !.c = a.c])
  BY DEF OpenAnswered, OpenRefused, NavAnswered, NavRefused, Awaits
<1>2. ASSUME Ends(s),
             \/ shown' = [id |-> a.c, served |-> TRUE, skeleton |-> FALSE]
             \/ shown' = [id |-> a.c, served |-> FALSE, skeleton |-> FALSE]
             \/ shown' = [shown EXCEPT !.skeleton = FALSE]
      PROVE  Keeps(s)
  <2>1. shown'.skeleton = FALSE
    BY <1>0, <1>2 DEF Panels
  <2>2. Goes(s) /\ task'[s].op = "none"
    BY <1>0, <1>2, EndsGoes
  <2>3. task[s].at \in {"check", "detail", "refused"} /\ task'[s].op \in {"open", "nav", "none"}
    BY <1>1, <2>2
  <2> QED
    BY <1>1, <2>1, <2>2, <2>3, PanelKeeps
<1>3. ASSUME NEW op, op = task[s].op, NEW b, Popup(s, op, "refused", b)
      PROVE  Keeps(s)
  <2>1. Goes(s) /\ task'[s].op = op /\ task'[s].at = "refused"
    BY <1>0, <1>3, PopupGoes
  <2>2. OpensPanel(task'[s])
    BY <1>1, <1>3, <2>1 DEF OpensPanel
  <2>3. task[s].at \in {"check", "detail", "refused"} /\ task'[s].op \in {"open", "nav", "none"}
    BY <1>1, <1>3, <2>1
  <2> QED
    BY <1>1, <2>1, <2>2, <2>3, PanelKeeps
<1> QED
  BY <1>1, <1>2, <1>3

LEMMA LockedCloseKeeps ==
    ASSUME SpinInv, NEW s \in Slot, LockedClose(s)
    PROVE  Keeps(s)
<1>1. task[s].at \in {"locked", "notfound"} /\ Ends(s) /\ UNCHANGED <<shelf, shown>>
  BY DEF LockedClose
<1>2. Goes(s) /\ task'[s].op = "none"
  BY <1>1, EndsGoes DEF SpinInv
<1>3. task[s].op # "page" /\ ~OpensPanel(task[s])
  BY <1>1 DEF SpinInv, PageWaits, PageAts, OpensPanel
<1> QED
  BY <1>1, <1>2, <1>3, StillKeeps

LEMMA LockedNavigateKeeps ==
    ASSUME SpinInv, NEW s \in Slot, LockedNavigate(s)
    PROVE  Keeps(s)
<1> DEFINE a == task[s].arg
<1>0. BInv /\ shelf \in Shelves
  BY ShelfNow DEF SpinInv
<1>1. task[s].op = "open" /\ task[s].at = "locked" /\ UNCHANGED shown
  BY DEF LockedNavigate, Awaits
<1>2. a \in ListArg /\ a.bad \subseteq Challenge \X Challenge
  BY <1>0, <1>1, Waiting, ListArgFields
<1>3. PICK q \in a.bad :
        Fetch(s, "nav", [a EXCEPT !.c = q[2], !.bad = {}], CategoryOf[q[2]],
              [shelf EXCEPT !.processed = q[2], !.cat = CategoryOf[q[2]],
                            !.open = @ \cup {CategoryOf[q[2]]}])
  BY DEF LockedNavigate
<1>4. PICK p : p = q[2]
  OBVIOUS
<1>5. p \in Challenge
  BY <1>2, <1>3, <1>4
<1>6. PICK k \in Category : k = CategoryOf[p]
  BY <1>5, BrowserAssumption
<1>7. PICK b : b = [a EXCEPT !.c = p, !.bad = {}]
  OBVIOUS
<1>8. b \in ListArg
  BY <1>2, <1>5, <1>7 DEF ListArg
<1>9. PICK sh : sh = [shelf EXCEPT !.processed = p, !.cat = k, !.open = @ \cup {k}]
  OBVIOUS
<1>10. sh \in Shelves /\ sh.stage = shelf.stage /\ sh.busy = shelf.busy
  BY <1>0, <1>5, <1>9 DEF Shelves
<1>11. PICK op : op = "nav" /\ Fetch(s, op, b, k, sh)
  BY <1>3, <1>4, <1>6, <1>7, <1>9
<1>12. /\ Goes(s) /\ task'[s].op = op /\ task'[s].at = "list" /\ task'[s].arg.k = k
       /\ shelf'.busy = sh.busy \cup {k} /\ shelf'.stage = sh.stage
  BY <1>0, <1>8, <1>10, <1>11, FetchGoes
<1>13. \A j \in shelf'.busy : j = task'[s].arg.k \/ (j \in shelf.busy /\ ~Fetches(task[s], j))
  BY <1>1, <1>10, <1>12 DEF Fetches
<1>14. ~OpensPanel(task[s])
  BY <1>1 DEF OpensPanel
<1> QED
  BY <1>1, <1>10, <1>11, <1>12, <1>13, <1>14, FetchKeeps

LEMMA NavLoadedKeeps ==
    ASSUME SpinInv, NEW s \in Slot, NavLoaded(s)
    PROVE  Keeps(s)
<1> DEFINE a == task[s].arg
<1>0. BInv
  BY DEF SpinInv
<1>1. PICK op : op = "nav" /\ Loaded(s, op)
  BY DEF NavLoaded
<1>2. task[s].op = "nav" /\ task[s].at = "prereqs" /\ Merged(s).stage = shelf.stage
  BY <1>0, <1>1, MergedGoes
<1>3. Goes(s) /\ task'[s].op \in {"nav", "none"}
  <2>1. CASE Ends(s)
    BY <1>0, <2>1, EndsGoes
  <2>2. ASSUME NEW b, Await(s, "check", b) PROVE Goes(s) /\ task'[s].op = "nav"
    BY <1>0, <1>2, <2>2, AwaitGoes
  <2> QED
    BY <2>1, <2>2 DEF NavLoaded
<1>4. shelf' = Merged(s) /\ UNCHANGED shown
  BY DEF NavLoaded
<1>5. shelf'.stage = "loading" => shelf.stage = "loading" /\ op # "page"
  BY <1>1, <1>2, <1>4
<1>6. shelf'.busy \subseteq Merged(s).busy
  BY <1>4
<1> QED
  BY <1>1, <1>3, <1>4, <1>5, <1>6, LoadedKeeps

-----------------------------------------------------------------------------
(* The link to the next challenge, and the refresh.                        *)

\* The search goes on in the next category, or ends.
LEMMA GotoNextGoes ==
    ASSUME BInv, NEW s \in Slot, NEW sh \in Shelves, NEW a \in ListArg, GotoNext(s, sh, a)
    PROVE  /\ Goes(s) /\ task'[s].op = "goto" /\ shelf'.stage = sh.stage
           /\ \/ shelf'.busy = sh.busy
              \/ /\ task'[s].at = "list"
                 /\ \A k \in shelf'.busy : k = task'[s].arg.k \/ k \in sh.busy
<1>1. CASE shelf' = sh /\ \E b : Popup(s, "goto", "notfound", b)
  BY <1>1, PopupGoes
<1>2. ASSUME NEW k \in a.rest, Fetch(s, "goto", [a EXCEPT !.rest = @ \ {k}], k, sh)
      PROVE  /\ Goes(s) /\ task'[s].op = "goto" /\ task'[s].at = "list"
             /\ shelf'.stage = sh.stage
             /\ \A j \in shelf'.busy : j = task'[s].arg.k \/ j \in sh.busy
  <2>1. PICK b : b = [a EXCEPT !.rest = @ \ {k}]
    OBVIOUS
  <2>2. b \in ListArg /\ k \in Category
    BY <2>1 DEF ListArg
  <2>3. PICK j \in Category : j = k
    BY <2>2
  <2>6. PICK op : op = "goto"
    OBVIOUS
  <2>4. Fetch(s, op, b, j, sh)
    BY <1>2, <2>1, <2>3, <2>6
  <2>5. /\ Goes(s) /\ task'[s].op = op /\ task'[s].at = "list" /\ task'[s].arg.k = j
        /\ shelf'.busy = sh.busy \cup {j} /\ shelf'.stage = sh.stage
    BY <2>2, <2>4, FetchGoes
  <2> QED
    BY <2>3, <2>5, <2>6
<1>3. CASE a.rest = {}
  BY <1>1, <1>3 DEF GotoNext
<1>4. CASE a.rest # {}
  <2>1. PICK k \in a.rest : Fetch(s, "goto", [a EXCEPT !.rest = @ \ {k}], k, sh)
    BY <1>4 DEF GotoNext
  <2> QED
    BY <1>2, <2>1
<1> QED
  BY <1>3, <1>4

LEMMA GotoOpensGoes ==
    ASSUME BInv, NEW s \in Slot, NEW sh \in Shelves, NEW c, NEW k, NEW a,
           GotoOpens(s, sh, c, k, a)
    PROVE  /\ Goes(s) /\ task'[s].op # "page"
           /\ shelf'.stage = sh.stage /\ shelf'.busy = sh.busy
<1>1. OpenWith(s, c, a, shelf.view)
      /\ shelf' = [sh EXCEPT !.open = @ \cup {k}, !.cat = k, !.processed = Nothing]
  BY DEF GotoOpens
<1>2. PICK v : OpenWith(s, c, a, v)
  BY <1>1
<1>3. Goes(s) /\ task'[s].op # "page"
  BY <1>2, OpenGoes
<1>4. shelf'.stage = sh.stage /\ shelf'.busy = sh.busy
  BY <1>1 DEF Shelves
<1> QED
  BY <1>3, <1>4

LEMMA handleNavigateToChallengeKeeps ==
    ASSUME SpinInv, NEW s \in Slot, handleNavigateToChallenge(s)
    PROVE  Keeps(s)
<1>0. BInv /\ shelf \in Shelves
  BY ShelfNow DEF SpinInv
<1>1. FreeSlot(s) /\ UNCHANGED shown
  BY DEF handleNavigateToChallenge
<1>2. task[s].op = "none" /\ task[s].at = "none"
  BY <1>0, <1>1, FreeIsStill
<1>3. ~OpensPanel(task[s]) /\ \A k : ~Fetches(task[s], k)
  BY <1>2 DEF OpensPanel, Fetches
<1>4. PICK sh \in Shelves : sh = shelf
  BY <1>0
<1>5. PICK c \in Challenge :
        \/ GotoOpens(s, sh, c, CategoryOf[c], Opening(c))
        \/ GotoNext(s, sh, [Opening(c) EXCEPT
                    !.rest = {k \in shelf.cats : shelf.loaded[k] = Unloaded}])
  BY <1>4 DEF handleNavigateToChallenge
<1>6. CASE GotoOpens(s, sh, c, CategoryOf[c], Opening(c))
  <2>1. PICK k : \E a : GotoOpens(s, sh, c, k, a)
    BY <1>6
  <2>2. /\ Goes(s) /\ task'[s].op # "page"
        /\ shelf'.stage = sh.stage /\ shelf'.busy = sh.busy
    BY <1>0, <2>1, GotoOpensGoes
  <2> QED
    BY <1>1, <1>2, <1>3, <1>4, <2>2, StillKeeps
<1>7. CASE GotoNext(s, sh, [Opening(c) EXCEPT
                    !.rest = {k \in shelf.cats : shelf.loaded[k] = Unloaded}])
  <2>1. PICK rest : rest = {k \in shelf.cats : shelf.loaded[k] = Unloaded}
    OBVIOUS
  <2>2. rest \subseteq Category
    BY <1>0, <2>1, ShelfFields
  <2>3. PICK a \in ListArg : a = [Opening(c) EXCEPT !.rest = rest]
    BY <1>0, <2>2, OpeningTyped DEF ListArg
  <2>4. GotoNext(s, sh, a)
    BY <1>7, <2>1, <2>3
  <2>5. /\ Goes(s) /\ task'[s].op = "goto" /\ shelf'.stage = sh.stage
        /\ \/ shelf'.busy = sh.busy
           \/ /\ task'[s].at = "list"
              /\ \A k \in shelf'.busy : k = task'[s].arg.k \/ k \in sh.busy
    BY <1>0, <2>4, GotoNextGoes
  <2>6. CASE shelf'.busy = sh.busy
    BY <1>1, <1>2, <1>3, <1>4, <2>5, <2>6, StillKeeps
  <2>7. CASE /\ task'[s].at = "list"
             /\ \A k \in shelf'.busy : k = task'[s].arg.k \/ k \in sh.busy
    BY <1>1, <1>2, <1>3, <1>4, <2>5, <2>7, FetchKeeps
  <2> QED
    BY <2>5, <2>6, <2>7
<1> QED
  BY <1>5, <1>6, <1>7

LEMMA GotoLoadedKeeps ==
    ASSUME SpinInv, NEW s \in Slot, GotoLoaded(s)
    PROVE  Keeps(s)
<1> DEFINE a == task[s].arg
<1>0. BInv
  BY DEF SpinInv
<1>1. PICK op : op = "goto" /\ Loaded(s, op)
  BY DEF GotoLoaded
<1>2. /\ Merged(s) \in Shelves /\ task[s].op = "goto" /\ task[s].at = "prereqs"
      /\ Merged(s).stage = shelf.stage /\ Merged(s).busy = shelf.busy \ {a.k}
  BY <1>0, <1>1, MergedGoes
<1>3. PICK sh \in Shelves : sh = Merged(s)
  BY <1>2
<1>4. PICK b \in ListArg : b = a
  BY <1>0, <1>2, Waiting
<1>5. \/ \E c, k, d : GotoOpens(s, sh, c, k, d)
      \/ GotoNext(s, sh, b)
  BY <1>3, <1>4 DEF GotoLoaded
<1>6. UNCHANGED shown
  BY DEF GotoLoaded
<1>7. CASE shelf'.busy = sh.busy /\ Goes(s) /\ task'[s].op # "page" /\ shelf'.stage = sh.stage
  <2>1. shelf'.stage = "loading" => shelf.stage = "loading" /\ op # "page"
    BY <1>1, <1>2, <1>3, <1>7
  <2>2. shelf'.busy \subseteq Merged(s).busy
    BY <1>3, <1>7
  <2> QED
    BY <1>1, <1>6, <1>7, <2>1, <2>2, LoadedKeeps
<1>8. CASE \E c, k, d : GotoOpens(s, sh, c, k, d)
  <2>1. PICK c, k, d : GotoOpens(s, sh, c, k, d)
    BY <1>8
  <2> QED
    BY <1>0, <1>7, <2>1, GotoOpensGoes
<1>9. CASE GotoNext(s, sh, b)
  <2>1. /\ Goes(s) /\ task'[s].op = "goto" /\ shelf'.stage = sh.stage
        /\ \/ shelf'.busy = sh.busy
           \/ /\ task'[s].at = "list"
              /\ \A k \in shelf'.busy : k = task'[s].arg.k \/ k \in sh.busy
    BY <1>0, <1>9, GotoNextGoes
  <2>2. CASE shelf'.busy = sh.busy
    BY <1>7, <2>1, <2>2
  <2>3. CASE /\ task'[s].at = "list"
             /\ \A k \in shelf'.busy : k = task'[s].arg.k \/ k \in sh.busy
    <3>1. \A k \in shelf'.busy : k = task'[s].arg.k \/ (k \in shelf.busy /\ ~Fetches(task[s], k))
      BY <1>2, <1>3, <2>3 DEF Fetches
    <3>2. ~OpensPanel(task[s]) /\ (task[s].op = "page" <=> task'[s].op = "page")
      BY <1>2, <2>1 DEF OpensPanel
    <3> QED
      BY <1>2, <1>3, <1>6, <2>1, <2>3, <3>1, <3>2, FetchKeeps
  <2> QED
    BY <2>1, <2>2, <2>3
<1> QED
  BY <1>5, <1>8, <1>9

LEMMA refreshChallengeDataKeeps ==
    ASSUME SpinInv, NEW s \in Slot, refreshChallengeData(s)
    PROVE  Keeps(s)
<1> DEFINE a == task[s].arg
<1>0. BInv /\ shelf \in Shelves
  BY ShelfNow DEF SpinInv
<1>1. task[s].op = "refresh" /\ task[s].at = "panel" /\ UNCHANGED shown
  BY DEF refreshChallengeData, Awaits
<1>2. a \in ListArg /\ a.rest \subseteq Category /\ a.rest \subseteq {a.cat}
  BY <1>0, <1>1, Waiting, ListArgFields DEF ListTaskOK
<1>3. ~OpensPanel(task[s]) /\ \A k : ~Fetches(task[s], k)
  BY <1>1 DEF OpensPanel, Fetches
<1>4. CASE a.rest # {} /\ Fetch(s, "refresh", [a EXCEPT !.rest = {}], a.cat, shelf)
  <2>1. PICK b \in ListArg : b = [a EXCEPT !.rest = {}]
    BY <1>2 DEF ListArg
  <2>2. PICK k \in Category : k = a.cat
    BY <1>2, <1>4
  <2>3. PICK op : op = "refresh"
    OBVIOUS
  <2>4. PICK sh \in Shelves : sh = shelf
    BY <1>0
  <2>5. Fetch(s, op, b, k, sh)
    BY <1>4, <2>1, <2>2, <2>3, <2>4
  <2>6. /\ Goes(s) /\ task'[s].op = op /\ task'[s].at = "list" /\ task'[s].arg.k = k
        /\ shelf'.busy = sh.busy \cup {k} /\ shelf'.stage = sh.stage
    BY <1>0, <2>5, FetchGoes
  <2>7. \A j \in shelf'.busy : j = task'[s].arg.k \/ (j \in shelf.busy /\ ~Fetches(task[s], j))
    BY <1>3, <2>4, <2>6
  <2> QED
    BY <1>1, <1>3, <2>3, <2>4, <2>6, <2>7, FetchKeeps
<1>5. CASE Await(s, "detail", [Holds EXCEPT !.c = a.c]) /\ UNCHANGED shelf
  <2>1. PICK b : Await(s, "detail", b)
    BY <1>5
  <2>2. Goes(s) /\ task'[s].op = task[s].op
    BY <1>0, <1>1, <2>1, AwaitGoes
  <2> QED
    BY <1>1, <1>3, <1>5, <2>2, StillKeeps
<1> QED
  BY <1>4, <1>5 DEF refreshChallengeData

LEMMA RefreshedKeeps ==
    ASSUME SpinInv, NEW s \in Slot, RefreshLoaded(s) \/ RefreshAnswered(s)
    PROVE  Keeps(s)
<1>0. BInv /\ shown \in Panels
  BY ShelfNow DEF SpinInv
<1>1. CASE RefreshLoaded(s)
  <2>1. PICK op : op = "refresh" /\ Loaded(s, op)
    BY <1>1 DEF RefreshLoaded
  <2>2. task[s].op = "refresh" /\ task[s].at = "prereqs" /\ Merged(s).stage = shelf.stage
    BY <1>0, <2>1, MergedGoes
  <2>3. PICK b : Await(s, "detail", b)
    BY <1>1 DEF RefreshLoaded
  <2>4. Goes(s) /\ task'[s].op = "refresh"
    BY <1>0, <2>2, <2>3, AwaitGoes
  <2>5. shelf' = Merged(s) /\ UNCHANGED shown
    BY <1>1 DEF RefreshLoaded
  <2>6. shelf'.stage = "loading" => shelf.stage = "loading" /\ op # "page"
    BY <2>1, <2>2, <2>5
  <2>7. shelf'.busy \subseteq Merged(s).busy
    BY <2>5
  <2> QED
    BY <2>1, <2>4, <2>5, <2>6, <2>7, LoadedKeeps
<1>2. CASE RefreshAnswered(s)
  <2>1. task[s].op = "refresh" /\ task[s].at = "detail" /\ Ends(s) /\ UNCHANGED shelf
    BY <1>2 DEF RefreshAnswered, Awaits
  <2>2. Goes(s) /\ task'[s].op = "none"
    BY <1>0, <2>1, EndsGoes
  <2>3. shown'.skeleton = shown.skeleton
    BY <1>0, <1>2 DEF RefreshAnswered, Panels
  <2>4. ~OpensPanel(task[s])
    BY <2>1 DEF OpensPanel
  <2> QED
    BY <2>1, <2>2, <2>3, <2>4, StillKeeps
<1> QED
  BY <1>1, <1>2

-----------------------------------------------------------------------------
LEMMA SpinStepInv == SpinInv /\ [BrowserNext]_browserVars => SpinInv'
<1> SUFFICES ASSUME SpinInv, [BrowserNext]_browserVars PROVE SpinInv'
  OBVIOUS
<1>1. BInv' /\ shelf \in Shelves /\ shown \in Panels
  BY BrowserStepInv, ShelfNow DEF SpinInv
<1>2. ASSUME \E s \in Slot : Keeps(s) PROVE SpinInv'
  BY <1>1, <1>2, SpinKept
<1>3. CASE TeamSolves \/ Hide \/ UNCHANGED browserVars
  BY <1>1, <1>3, NoneKeeps DEF TeamSolves, Hide, browserVars
<1>4. CASE ClosePanel
  <2>1. shown'.skeleton = shown.skeleton
    BY <1>1, <1>4 DEF ClosePanel, Panels
  <2> QED
    BY <1>1, <1>4, <2>1, NoneKeeps DEF ClosePanel
<1>5. ASSUME NEW s \in Slot,
             \/ handleChallengeClick(s) \/ LockedNavigate(s)
             \/ handleNavigateToChallenge(s) \/ PanelBusy(s)
      PROVE  SpinInv'
  BY <1>2, <1>5, ClicksKeep, LockedNavigateKeeps, handleNavigateToChallengeKeeps
<1>6. CASE BrowserMoves
  BY <1>1, <1>3, <1>4, <1>5, <1>6, handleCategoryClickSpins DEF BrowserMoves
<1>7. CASE BrowserGoes
  BY <1>1, <1>2, <1>7, ReadsKeep, PageKeeps, OpenFromUrlSpins, EndedKeeps, OpenCheckedKeeps,
     AnsweredKeeps, LockedCloseKeeps, NavLoadedKeeps, GotoLoadedKeeps, refreshChallengeDataKeeps,
     RefreshedKeeps DEF BrowserGoes
<1> QED
  BY <1>3, <1>6, <1>7 DEF BrowserNext

-----------------------------------------------------------------------------
(***************************************************************************)
(* MCWeb: whichever page was chosen keeps its invariant, and the state of  *)
(* the others its value.                                                   *)
(***************************************************************************)

\* The inductive invariant.
WebInv ==
    /\ page \in Pages
    /\ IF page = "browser" THEN SpinInv ELSE NoBrowser
    /\ IF page = "session" THEN BusyInv ELSE NoSession
    /\ IF page = "boards" THEN BoardsInv ELSE NoBoards
    /\ IF page = "team" THEN WaitsInv ELSE NoTeam

LEMMA WebInitInv == TabInit => WebInv
  BY SpinInitInv, BusyInitInv, BoardsInitInv, WaitsInitInv DEF TabInit, WebInit, WebInv

\* The pages that were not chosen keep their values.
LEMMA OthersKept ==
    /\ NoBrowser /\ UNCHANGED browserOnly => NoBrowser'
    /\ NoSession /\ UNCHANGED sessionOnly => NoSession'
    /\ NoBoards /\ UNCHANGED boardsOnly => NoBoards'
    /\ NoTeam /\ UNCHANGED teamOnly => NoTeam'
<1>1. NoBrowser /\ UNCHANGED browserOnly => NoBrowser'
  BY DEF NoBrowser, browserOnly
<1>2. NoSession /\ UNCHANGED sessionOnly => NoSession'
  BY DEF NoSession, sessionOnly
<1>3. NoBoards /\ UNCHANGED boardsOnly => NoBoards'
  BY DEF NoBoards, boardsOnly
<1>4. NoTeam /\ UNCHANGED teamOnly => NoTeam'
  BY DEF NoTeam, teamOnly
<1> QED
  BY <1>1, <1>2, <1>3, <1>4

LEMMA WebStepInv == WebInv /\ [WebNext]_webVars => WebInv'
<1> SUFFICES ASSUME WebInv, [WebNext]_webVars PROVE WebInv'
  OBVIOUS
<1>1. page \in Pages /\ page' = page
  BY DEF WebInv, WebNext, webVars
<1>2. ASSUME \/ page = "browser" /\ [BrowserNext]_browserVars
             \/ page # "browser" /\ UNCHANGED browserOnly
      PROVE  IF page' = "browser" THEN SpinInv' ELSE NoBrowser'
  BY <1>1, <1>2, SpinStepInv, OthersKept DEF WebInv
<1>3. ASSUME \/ page = "session" /\ [SessionNext]_sessionVars
             \/ page # "session" /\ UNCHANGED sessionOnly
      PROVE  IF page' = "session" THEN BusyInv' ELSE NoSession'
  BY <1>1, <1>3, BusyStepInv, OthersKept DEF WebInv
<1>4. ASSUME \/ page = "boards" /\ [BoardsNext]_boardsVars
             \/ page # "boards" /\ UNCHANGED boardsOnly
      PROVE  IF page' = "boards" THEN BoardsInv' ELSE NoBoards'
  BY <1>1, <1>4, BoardsStepInv, OthersKept DEF WebInv
<1>5. ASSUME \/ page = "team" /\ [TeamNext]_teamVars
             \/ page # "team" /\ UNCHANGED teamOnly
      PROVE  IF page' = "team" THEN WaitsInv' ELSE NoTeam'
  BY <1>1, <1>5, WaitsStepInv, OthersKept DEF WebInv
<1>6. /\ \/ page = "browser" /\ [BrowserNext]_browserVars
         \/ page # "browser" /\ UNCHANGED browserOnly
      /\ \/ page = "session" /\ [SessionNext]_sessionVars
         \/ page # "session" /\ UNCHANGED sessionOnly
      /\ \/ page = "boards" /\ [BoardsNext]_boardsVars
         \/ page # "boards" /\ UNCHANGED boardsOnly
      /\ \/ page = "team" /\ [TeamNext]_teamVars
         \/ page # "team" /\ UNCHANGED teamOnly
  <2>1. CASE UNCHANGED webVars
    <3>1. UNCHANGED <<task, moves, browserOnly, sessionOnly, boardsOnly, teamOnly>>
      BY <2>1 DEF webVars, contestants
    <3>2. UNCHANGED <<browserVars, sessionVars, boardsVars, teamVars>>
      BY <3>1 DEF browserOnly, sessionOnly, boardsOnly, teamOnly, browserVars, sessionVars,
         boardsVars, teamVars
    <3> QED
      BY <3>1, <3>2
  <2>2. CASE ContestantNext
    BY <2>2 DEF ContestantNext
  <2>3. CASE AdministratorNext
    <3>1. UNCHANGED <<browserOnly, sessionOnly, boardsOnly, teamOnly>>
      BY <2>3 DEF AdministratorNext, contestants
    <3>2. page \in {"editor", "admin", "challenge", "configs"}
      BY <2>3 DEF AdministratorNext
    <3> QED
      BY <3>1, <3>2
  <2> QED
    BY <2>1, <2>2, <2>3 DEF WebNext
<1>7. page' \in Pages
  BY <1>1
<1>8. /\ IF page' = "browser" THEN SpinInv' ELSE NoBrowser'
      /\ IF page' = "session" THEN BusyInv' ELSE NoSession'
      /\ IF page' = "boards" THEN BoardsInv' ELSE NoBoards'
      /\ IF page' = "team" THEN WaitsInv' ELSE NoTeam'
  BY <1>2, <1>3, <1>4, <1>5, <1>6
<1> QED
  BY <1>7, <1>8 DEF WebInv, Pages

LEMMA WebFlags == WebInv => FlagsAreAttended
<1> SUFFICES ASSUME WebInv PROVE FlagsAreAttended
  OBVIOUS
<1>1. SpinnersAreAttended
  BY DEF WebInv, SpinInv, NoBrowser, SpinnersAreAttended
<1>2. BusyIsAttended
  BY DEF WebInv, BusyInv, NoSession, LoginPage, BusyIsAttended
<1>3. BoardsAreAttended
  BY DEF WebInv, BoardsInv, NoBoards, BoardsAreAttended
<1>4. WaitsAreAttended
  <2>1. CASE page = "team"
    BY <2>1, WaitsAre DEF WebInv
  <2>2. CASE NoTeam
    <3>1. view = "none" /\ ~ui.loading
      BY <2>2 DEF NoTeam
    <3> QED
      BY <3>1 DEF WaitsAreAttended
  <2> QED
    BY <2>1, <2>2 DEF WebInv
<1> QED
  BY <1>1, <1>2, <1>3, <1>4 DEF FlagsAreAttended

LEMMA WebPages == WebInv => PagesExist
<1> SUFFICES ASSUME WebInv PROVE PagesExist
  OBVIOUS
<1>1. PagesAreConnected
  <2>1. CASE page = "boards"
    BY <2>1, BoardPagesConnected DEF WebInv, BoardsInv
  <2>2. CASE NoBoards
    <3>1. TotalPages = 0
      BY <2>2 DEF NoBoards, TotalPages
    <3> QED
      BY <2>2, <3>1 DEF NoBoards, PagesAreConnected
  <2> QED
    BY <2>1, <2>2 DEF WebInv
<1>2. LogPageExists
  <2>1. CASE page = "team"
    BY <2>1, WaitsAre DEF WebInv
  <2>2. CASE NoTeam
    BY <2>2 DEF NoTeam, LogPageExists
  <2> QED
    BY <2>1, <2>2 DEF WebInv
<1> QED
  BY <1>1, <1>2 DEF PagesExist

(* Both scoreboards, and every fetch of theirs, stay of their types, on    *)
(* whatever page and with however many rows to a page.                     *)
THEOREM BoardsTyped == BoardsSpec => []BoardsTypeOK
<1>1. BoardsInv => BoardsTypeOK
  BY DEF BoardsInv
<1> QED
  BY <1>1, BoardsInitInv, BoardsStepInv, PTL DEF BoardsSpec

(* Whatever is clicked, answered, refused and lost in any order, a flag    *)
(* that disables a form, a list or a button of a contestant's page, or     *)
(* shows a spinner, is set only while a function that will reset it is     *)
(* pending (the finally blocks of Challenges, Login, ContestList, Tickets, *)
(* Instances, Profile, Register and Scoreboard).                           *)
THEOREM NoFlagIsForgotten == WebSpec => []FlagsAreAttended
<1> QED
  BY WebFlags, WebInitInv, WebStepInv, PTL DEF WebSpec

(* The numbers under a list of pages lead to every page of the board,      *)
(* whatever the numbers of teams and of rows per page, and the page of the *)
(* log that is shown exists (getPageNumbers, handleChangePage).            *)
THEOREM EveryPageIsReached == WebSpec => []PagesExist
<1> QED
  BY WebPages, WebInitInv, WebStepInv, PTL DEF WebSpec
=============================================================================
