-------------------------------- MODULE Tab ---------------------------------
(***************************************************************************)
(* The event loop of one browser tab, shared by the models of the pages.   *)
(* An asynchronous function that awaits a request, a dialog or a timer is  *)
(* a task: which handler it is (op), what it awaits (at), and what its     *)
(* closure holds (arg).  A handler runs to its next await in one step; the *)
(* tasks of a tab interleave at the awaits in any order.                   *)
(***************************************************************************)
EXTENDS Integers, FiniteSets

CONSTANTS
    Slot,       \* bound on the functions pending at once; a page starts with up to two
    MaxMoves    \* bound on the moves of people: clicks, edits, other sessions

ASSUME TabAssumption == {1, 2} \subseteq Slot /\ Slot \subseteq Nat \ {0} /\ MaxMoves \in Nat

VARIABLES
    task,       \* the pending functions
    moves       \* the moves made so far

Nothing == 0    \* null, undefined or an absent parameter
Moved == moves < MaxMoves /\ moves' = moves + 1

NoTask == [op |-> "none", at |-> "none", arg |-> [none |-> TRUE]]
NoTasks == [s \in Slot |-> NoTask]
Tasks(op, at) == {s \in Slot : task[s].op \in op /\ task[s].at \in at}

\* The free slots are taken in order.
FreeSlot(s) == task[s].op = "none" /\ \A t \in Slot : t < s => task[t].op # "none"
Awaits(s, op, at) == task[s].op = op /\ task[s].at = at
Start(s, op, at, arg) == task' = [task EXCEPT ![s] = [op |-> op, at |-> at, arg |-> arg]]
Await(s, at, arg) == task' = [task EXCEPT ![s].at = at, ![s].arg = arg]
Ends(s) == task' = [task EXCEPT ![s] = NoTask]
=============================================================================
