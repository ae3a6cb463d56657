----------------------------- MODULE Submission -----------------------------
(***************************************************************************)
(* Flag submission, ChallengeController.Attempt: the requests of one team  *)
(* for one challenge with a limit of wrong answers.  Three replicas of     *)
(* ContestantBE serve them at once; they meet in Redis (the cooldown, the  *)
(* attempt counter and the wrong answers per minute) and in the tables     *)
(* submissions and solves.                                                 *)
(*                                                                         *)
(* The checks that only refuse and read nothing the others write (pause,   *)
(* captain, visibility, prerequisites, empty flag) are left out.           *)
(***************************************************************************)
EXTENDS Integers, FiniteSets

CONSTANTS
    User,        \* members of the team
    Req,         \* requests in flight
    MaxAttempts, \* cc.MaxAttempts
    Cooldown,    \* cc.Cooldown, in ticks
    CoolTtl,     \* the 600 s of the cooldown key, in ticks
    KpmLimit,    \* incorrect_submissions_per_min
    Dynamic,     \* can the challenge be of type "dynamic"? Of another?
    May          \* which of Faults can happen

\* db: the database refuses a write.  stop: ForceStopChallenge fails.  expiry:
\* the attempt counter reaches its TTL of 24 hours while no request is about
\* to use it; overlap: at any moment.
Faults == {"db", "stop", "expiry", "overlap"}

ASSUME ReqAssumption == IsFiniteSet(Req)
ASSUME UserAssumption == User # {}
ASSUME LimitAssumption == /\ MaxAttempts \in Nat \ {0}
                          /\ KpmLimit \in Nat \ {0}
                          /\ Cooldown \in Nat
                          /\ CoolTtl \in Nat \ {0}
                          /\ Dynamic \in SUBSET BOOLEAN
                          /\ May \subseteq Faults

Absent == -1  \* no such key

VARIABLES
    dynamic,  \* is the challenge of type "dynamic"?  (Never changes.)
    req,      \* [Req -> the request: pc, user, right flag?, count it read]
    cool,     \* ticks since the value of the cooldown key, or Absent
    passed,   \* ticks since the last request passed the cooldown (a history
              \* variable; CoolTtl at most, and at first)
    kpm,      \* [User -> wrong answers counted in this minute]
    counter,  \* the attempt counter in Redis, or Absent
    fails,    \* rows of submissions of type incorrect
    lost,     \* attempts counted since the key exists, but never recorded
    solves,   \* rows of solves
    told,     \* answers "correct" given
    instance  \* none | running | unstopped: its stop was tried and failed

vars == <<dynamic, req, cool, passed, kpm, counter, fails, lost, solves, told,
          instance>>

keys == <<cool, passed, kpm, counter, lost>>
tables == <<dynamic, fails, solves>>

Pc == {"idle", "precheck", "recheck", "insert", "recalc", "stop", "kpm",
       "count", "script", "record", "laststop"}

\* Requests whose attempt is counted and not yet recorded.
Recording == {r \in Req : req[r].pc = "record"}
Quiet == \A r \in Req : req[r].pc = "idle"

SubTypeOK ==
    /\ dynamic \in Dynamic
    /\ req \in [Req -> [pc : Pc, user : User, right : BOOLEAN, count : Nat]]
    /\ cool \in Nat \cup {Absent} /\ passed \in Nat
    /\ kpm \in [User -> Nat]
    /\ counter \in 0 .. MaxAttempts \cup {Absent}
    /\ fails \in Nat /\ lost \in Nat /\ solves \in Nat /\ told \in Nat
    /\ instance \in {"none", "running", "unstopped"}

AnyUser == CHOOSE u \in User : TRUE

Init == /\ dynamic \in Dynamic
        /\ req = [r \in Req |-> [pc |-> "idle", user |-> AnyUser,
                                 right |-> FALSE, count |-> 0]]
        /\ cool = Absent /\ passed = CoolTtl
        /\ kpm = [u \in User |-> 0]
        /\ counter = Absent
        /\ fails \in 0 .. MaxAttempts
        /\ lost = 0 /\ solves = 0 /\ told = 0
        /\ instance \in {"none", "running"}
        /\ fails = MaxAttempts => instance = "none"

Goto(r, pc) == req' = [req EXCEPT ![r].pc = pc]
Done(r) == req' = [req EXCEPT ![r].pc = "idle", ![r].count = 0]

-----------------------------------------------------------------------------
(***************************************************************************)
(* Every request.                                                          *)
(***************************************************************************)

\* Mutant: "more than the cooldown less one second" is enough.
BugArrive(r, u, right) ==
    /\ req[r].pc = "idle"
    /\ cool = Absent \/ cool + 1 >= Cooldown
    /\ req' = [req EXCEPT ![r] = [pc |-> "precheck", user |-> u,
                                  right |-> right, count |-> 0]]
    /\ cool' = IF Cooldown > 0 THEN 0 ELSE cool
    /\ passed' = 0
    /\ UNCHANGED <<kpm, counter, lost, tables, told, instance>>

\* A request that passes the cooldown (one that does not leaves no trace).
\* CheckAndUpdateCooldownAsync compares and sets in one script.
Arrive(r, u, right) ==
    /\ req[r].pc = "idle"
    /\ cool = Absent \/ cool >= Cooldown
    /\ req' = [req EXCEPT ![r] = [pc |-> "precheck", user |-> u,
                                  right |-> right, count |-> 0]]
    /\ cool' = IF Cooldown > 0 THEN 0 ELSE cool
    /\ passed' = 0
    /\ UNCHANGED <<kpm, counter, lost, tables, told, instance>>

\* Pre-checks 1 and 2, then the comparison of the flag.
PreCheck(r) ==
    /\ req[r].pc = "precheck"
    /\ \/ (solves > 0 \/ fails >= MaxAttempts) /\ Done(r)
       \/ /\ solves = 0 /\ fails < MaxAttempts
          /\ Goto(r, IF req[r].right THEN "recheck" ELSE "kpm")
    /\ UNCHANGED <<keys, tables, told, instance>>

-----------------------------------------------------------------------------
(***************************************************************************)
(* The right flag.                                                         *)
(***************************************************************************)

RecheckSolved(r) ==
    /\ req[r].pc = "recheck"
    /\ IF solves > 0 THEN Done(r) ELSE Goto(r, "insert")
    /\ UNCHANGED <<keys, tables, told, instance>>

\* Mutant: without the unique index uq_solves_cc_team.
BugInsertSolve(r) ==
    /\ req[r].pc = "insert"
    /\ \/ solves' = solves + 1 /\ Goto(r, IF dynamic THEN "recalc" ELSE "stop")
       \/ "db" \in May /\ Done(r) /\ UNCHANGED solves
    /\ UNCHANGED <<keys, dynamic, fails, told, instance>>

\* Submission and solve in one transaction.  The unique index on challenge and
\* team rejects the second one, which is told "already_solved".
InsertSolve(r) ==
    /\ req[r].pc = "insert"
    /\ \/ /\ solves = 0
          /\ solves' = 1
          /\ Goto(r, IF dynamic THEN "recalc" ELSE "stop")
       \/ (solves > 0 \/ "db" \in May) /\ Done(r) /\ UNCHANGED solves
    /\ UNCHANGED <<keys, dynamic, fails, told, instance>>

\* RecalculateDynamicChallengeValue counts solves by a property that is not
\* mapped to a column, which the query provider refuses: it throws, and with
\* it Attempt, outside any try.
Recalculate(r) ==
    /\ req[r].pc = "recalc"
    /\ Done(r)
    /\ UNCHANGED <<keys, tables, told, instance>>

\* ForceStopChallenge if there is an entry; its failure is only logged.
ForceStop == \/ instance' = "none"
             \/ /\ "stop" \in May /\ instance # "none"
                /\ instance' = "unstopped"

AnswerCorrect(r) ==
    /\ req[r].pc = "stop"
    /\ ForceStop
    /\ told' = told + 1
    /\ Done(r)
    /\ UNCHANGED <<keys, tables>>

-----------------------------------------------------------------------------
(***************************************************************************)
(* A wrong flag.                                                           *)
(***************************************************************************)

\* CheckAndIncrementKpmAsync: INCR, then compare.  (The count is kept only as
\* far as the comparison can tell.)
CheckKpm(r) ==
    LET u == req[r].user
    IN  /\ req[r].pc = "kpm"
        /\ kpm' = [kpm EXCEPT ![u] = IF @ > KpmLimit THEN @ ELSE @ + 1]
        /\ IF kpm[u] + 1 > KpmLimit THEN Done(r) ELSE Goto(r, "count")
        /\ UNCHANGED <<cool, passed, counter, lost, tables, told, instance>>

\* The count of wrong answers in the database, for the script.
ReadFails(r) ==
    /\ req[r].pc = "count"
    /\ req' = [req EXCEPT ![r].pc = "script", ![r].count = fails]
    /\ UNCHANGED <<keys, tables, told, instance>>

\* What the script takes for the number of attempts: the key, or without one
\* the count that was read.
Current(r) == IF counter = Absent THEN req[r].count ELSE counter

Rejected(r, n) == /\ n >= MaxAttempts
                  /\ counter' = n
                  /\ Done(r)

Counted(r, n) == /\ counter' = n + 1
                 /\ req' = [req EXCEPT ![r].pc = "record", ![r].count = n + 1]

\* Mutant: the count read before decides, not the key.
BugCheckAttempts(r) ==
    /\ req[r].pc = "script"
    /\ \/ Rejected(r, req[r].count)
       \/ req[r].count < MaxAttempts /\ Counted(r, req[r].count)
    /\ UNCHANGED <<cool, passed, kpm, lost, tables, told, instance>>

\* Mutant: a missing key is restored to the count plus one, as if by INCR, and
\* then incremented.
BugRestore(r) ==
    LET n == Current(r) + IF counter = Absent THEN 1 ELSE 0
    IN  /\ req[r].pc = "script"
        /\ \/ Rejected(r, n)
           \/ n < MaxAttempts /\ Counted(r, n)
        /\ UNCHANGED <<cool, passed, kpm, lost, tables, told, instance>>

\* CheckAndIncrementAttemptsAsync.  (Its check after the increment never holds,
\* and its argument smartSyncThreshold is not used.)
CheckAttempts(r) ==
    /\ req[r].pc = "script"
    /\ \/ Rejected(r, Current(r))
       \/ Current(r) < MaxAttempts /\ Counted(r, Current(r))
    /\ UNCHANGED <<cool, passed, kpm, lost, tables, told, instance>>

\* Mutant: "attemptsLeft < 0" instead of "<= 0".
BugRecord(r) ==
    /\ req[r].pc = "record"
    /\ \/ /\ fails' = fails + 1
          /\ IF req[r].count > MaxAttempts THEN Goto(r, "laststop") ELSE Done(r)
          /\ UNCHANGED lost
       \/ /\ "db" \in May
          /\ lost' = lost + 1
          /\ Done(r)
          /\ UNCHANGED fails
    /\ UNCHANGED <<dynamic, cool, passed, kpm, counter, solves, told, instance>>

\* The wrong answer is recorded; if the database refuses, or the answer of the
\* script did not arrive, it stays counted.
Record(r) ==
    /\ req[r].pc = "record"
    /\ \/ /\ fails' = fails + 1
          /\ IF req[r].count >= MaxAttempts THEN Goto(r, "laststop") ELSE Done(r)
          /\ UNCHANGED lost
       \/ /\ "db" \in May
          /\ lost' = lost + 1
          /\ Done(r)
          /\ UNCHANGED fails
    /\ UNCHANGED <<dynamic, cool, passed, kpm, counter, solves, told, instance>>

\* No attempts left: the instance is stopped.
LastStop(r) ==
    /\ req[r].pc = "laststop"
    /\ ForceStop
    /\ Done(r)
    /\ UNCHANGED <<keys, tables, told>>

-----------------------------------------------------------------------------
(***************************************************************************)
(* Time.                                                                   *)
(***************************************************************************)

\* One tick of the cooldown's clock.
Tick == /\ cool' = IF cool = Absent \/ cool + 1 >= CoolTtl THEN Absent ELSE cool + 1
        /\ passed' = IF passed < CoolTtl THEN passed + 1 ELSE passed
        /\ UNCHANGED <<req, kpm, counter, lost, tables, told, instance>>

\* The next minute has keys of its own.
MinutePasses == /\ kpm' = [u \in User |-> 0]
                /\ UNCHANGED <<req, cool, passed, counter, lost, tables, told, instance>>

CounterExpires ==
    /\ {"expiry", "overlap"} \cap May # {}
    /\ counter # Absent
    /\ "overlap" \in May \/ \A r \in Req : req[r].pc \notin {"script", "record"}
    /\ counter' = Absent
    /\ lost' = 0
    /\ UNCHANGED <<req, cool, passed, kpm, tables, told, instance>>

Submit(r) == \/ \E u \in User, right \in BOOLEAN : Arrive(r, u, right)
             \/ PreCheck(r) \/ RecheckSolved(r) \/ InsertSolve(r)
             \/ Recalculate(r) \/ AnswerCorrect(r) \/ CheckKpm(r)
             \/ ReadFails(r) \/ CheckAttempts(r) \/ Record(r) \/ LastStop(r)

Next == (\E r \in Req : Submit(r)) \/ Tick \/ MinutePasses \/ CounterExpires

Spec == Init /\ [][Next]_vars

-----------------------------------------------------------------------------
(***************************************************************************)
(* Properties.                                                             *)
(***************************************************************************)

\* However many replicas take wrong answers at once, no more are recorded than
\* MaxAttempts allows (MAX-01 and MAX-02 in Test/RaceCondition/TestCases.md;
\* RedisHelper.cs:446-508).
FailsWithinMax == fails <= MaxAttempts

\* No attempt is charged twice and none is forgotten: the counter is the number
\* of recorded answers, of those about to be recorded, and of those the database
\* refused.  So a request is told "0 tries remaining" only when the limit is
\* spent (ChallengeController.cs:434-457).
CounterAccounts ==
    counter # Absent => counter = fails + lost + Cardinality(Recording)

\* Every answer "correct" has a solve of its own, so there is one at most (two
\* members submit the right flag at once, CORRECT-01), and unless the challenge
\* is dynamic the solve is answered "correct" (ChallengeController.cs:345-413).
CorrectIsTold == told <= 1 /\ told <= solves /\ (Quiet /\ ~dynamic => told = solves)

\* Of the right flags of a team exactly one is answered "correct", for a dynamic
\* challenge too (DYN-01 in TestCases.md).  Refuted: Recalculate throws.
OneIsTold == Quiet => told = solves

\* When a challenge is solved, or its attempts are spent, its instance has been
\* stopped, or its stop has been tried, by the time the answers are given
\* (ChallengeController.cs:388-392, 484-488).
FinishedIsStopped ==
    Quiet /\ (told > 0 \/ fails = MaxAttempts) => instance # "running"

\* Between two requests that pass lies the cooldown, as long as it does not
\* exceed the TTL of its key (COOL-01 in TestCases.md; RedisHelper.cs:512-558).
CooldownHolds ==
    [][\A r \in Req : req[r].pc = "idle" /\ req'[r].pc # "idle" => passed >= Cooldown]_vars
=============================================================================
