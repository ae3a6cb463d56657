-------------------------- MODULE ContestantProofs --------------------------
(***************************************************************************)
(* Proofs about what the contestant service keeps in the database.         *)
(*                                                                         *)
(* Submission, for every team, number of requests and limit: attempts are  *)
(* counted exactly and never exceed the limit, as long as the counter does *)
(* not expire between a request's read of the table and its write; and the *)
(* cooldown holds up to the TTL of its key.                                *)
(*                                                                         *)
(* HintUnlock, for every number of contests, hints, requests and every     *)
(* price list: the lock is kept, each hint is paid for once, and in a      *)
(* single contest nobody spends points twice.                              *)
(***************************************************************************)
EXTENDS MCContestant, DeployRedisTimedProofs

\* Without the key nothing is about to be recorded, so that a request which
\* will restore the key has read the true count.
SnapAccurate ==
    counter = Absent => /\ lost = 0
                        /\ Recording = {}
                        /\ \A r \in Req : req[r].pc = "script" => req[r].count = fails

\* The inductive invariant.  CounterAccounts alone is not inductive: a step
\* that restores the key must find an accurate snapshot.
SubInv == SubTypeOK /\ FailsWithinMax /\ CounterAccounts /\ SnapAccurate

LEMMA RecordingFinite ==
    IsFiniteSet(Recording) /\ Cardinality(Recording) \in Nat
<1>1. Recording \subseteq Req
  BY DEF Recording
<1> QED
  BY <1>1, ReqAssumption, FS_Subset, FS_CardinalityType

LEMMA SubInitInv == Init => SubInv
<1> SUFFICES ASSUME Init PROVE SubInv
  OBVIOUS
<1>1. AnyUser \in User
  BY UserAssumption DEF AnyUser
<1>2. SubTypeOK
  BY <1>1, LimitAssumption DEF SubTypeOK, Init, Pc, Absent
<1>3. Recording = {} /\ \A r \in Req : req[r].pc = "idle"
  BY DEF Recording, Init
<1>4. FailsWithinMax
  BY LimitAssumption DEF FailsWithinMax, Init
<1>5. CounterAccounts /\ SnapAccurate
  BY <1>3 DEF CounterAccounts, SnapAccurate, Init
<1> QED
  BY <1>2, <1>4, <1>5 DEF SubInv

-----------------------------------------------------------------------------
(***************************************************************************)
(* The steps that neither read nor write the count of attempts.            *)
(***************************************************************************)

\* What such a step does to the four variables of the count.
Aside == /\ UNCHANGED <<counter, fails, lost>>
         /\ Recording' = Recording
         /\ \A r \in Req : req'[r].pc = "script" => req'[r] = req[r]

LEMMA AsideKeepsCount ==
    ASSUME FailsWithinMax, CounterAccounts, SnapAccurate, Aside
    PROVE  FailsWithinMax' /\ CounterAccounts' /\ SnapAccurate'
<1>1. FailsWithinMax'
  BY DEF FailsWithinMax, Aside
<1>2. CounterAccounts'
  BY DEF CounterAccounts, Aside
<1>3. SnapAccurate'
  BY DEF SnapAccurate, Aside
<1> QED
  BY <1>1, <1>2, <1>3

\* A request that moves between two other places is such a step.
LEMMA MoveIsAside ==
    ASSUME SubTypeOK, NEW r \in Req, NEW q \in [pc : Pc, user : User, right : BOOLEAN, count : Nat],
           req' = [req EXCEPT ![r] = q],
           req[r].pc # "record", q.pc \notin {"script", "record"},
           UNCHANGED <<counter, fails, lost>>
    PROVE  Aside
<1>1. \A p \in Req : req'[p] = IF p = r THEN q ELSE req[p]
  BY DEF SubTypeOK
<1>2. Recording' = Recording
  BY <1>1 DEF Recording
<1>3. \A p \in Req : req'[p].pc = "script" => req'[p] = req[p]
  BY <1>1
<1> QED
  BY <1>2, <1>3 DEF Aside

\* Goto and Done change one request, and keep it well typed.
LEMMA GotoMoves ==
    ASSUME SubTypeOK, NEW r \in Req, NEW pc \in Pc, Goto(r, pc) \/ (Done(r) /\ pc = "idle")
    PROVE  \E q \in [pc : Pc, user : User, right : BOOLEAN, count : Nat] :
              q.pc = pc /\ req' = [req EXCEPT ![r] = q]
<1>1. CASE Goto(r, pc)
  <2> DEFINE q == [req[r] EXCEPT !.pc = pc]
  <2>1. q \in [pc : Pc, user : User, right : BOOLEAN, count : Nat] /\ q.pc = pc
    BY DEF SubTypeOK
  <2>2. req' = [req EXCEPT ![r] = q]
    BY <1>1 DEF Goto
  <2> QED
    BY <2>1, <2>2
<1>2. CASE Done(r) /\ pc = "idle"
  <2> DEFINE q == [req[r] EXCEPT !.pc = "idle", !.count = 0]
  <2>1. q \in [pc : Pc, user : User, right : BOOLEAN, count : Nat] /\ q.pc = "idle"
    BY DEF SubTypeOK, Pc
  <2>2. req' = [req EXCEPT ![r] = q]
    BY <1>2 DEF Done
  <2> QED
    BY <1>2, <2>1, <2>2
<1> QED
  BY <1>1, <1>2

\* Hence every step of a request that goes aside keeps the invariant.
LEMMA AsideStep ==
    ASSUME SubInv, NEW r \in Req, req[r].pc # "record",
           NEW pc \in Pc \ {"script", "record"},
           Goto(r, pc) \/ (Done(r) /\ pc = "idle"),
           UNCHANGED <<counter, fails, lost>>
    PROVE  /\ req' \in [Req -> [pc : Pc, user : User, right : BOOLEAN, count : Nat]]
           /\ FailsWithinMax' /\ CounterAccounts' /\ SnapAccurate'
<1>0. SubTypeOK /\ FailsWithinMax /\ CounterAccounts /\ SnapAccurate
  BY DEF SubInv
<1>1. PICK q \in [pc : Pc, user : User, right : BOOLEAN, count : Nat] :
              q.pc = pc /\ req' = [req EXCEPT ![r] = q]
  BY <1>0, GotoMoves
<1>2. Aside
  BY <1>0, <1>1, MoveIsAside
<1>3. req' \in [Req -> [pc : Pc, user : User, right : BOOLEAN, count : Nat]]
  BY <1>0, <1>1 DEF SubTypeOK
<1> QED
  BY <1>0, <1>2, <1>3, AsideKeepsCount

-----------------------------------------------------------------------------
(***************************************************************************)
(* The three steps of a wrong answer that use the count.                   *)
(***************************************************************************)

\* The snapshot read for the script is the number of rows at that moment.
LEMMA ReadFailsKeeps ==
    ASSUME SubInv, NEW r \in Req, ReadFails(r)
    PROVE  SubInv'
<1> USE DEF SubInv
<1>1. \A p \in Req : req'[p] = IF p = r THEN [req[r] EXCEPT !.pc = "script", !.count = fails]
                                        ELSE req[p]
  BY DEF ReadFails, SubTypeOK
<1>2. SubTypeOK'
  BY DEF ReadFails, SubTypeOK, keys, tables, Pc
<1>3. req'[r].pc = "script" /\ req'[r].count = fails /\ req[r].pc = "count"
  BY <1>1 DEF ReadFails, SubTypeOK
<1>4. Recording' = Recording
  BY <1>1, <1>3 DEF Recording
<1>5. UNCHANGED <<counter, fails, lost>>
  BY DEF ReadFails, keys, tables
<1>6. FailsWithinMax' /\ CounterAccounts'
  BY <1>4, <1>5 DEF FailsWithinMax, CounterAccounts
<1>7. SnapAccurate'
  BY <1>1, <1>3, <1>4, <1>5 DEF SnapAccurate
<1> QED
  BY <1>2, <1>6, <1>7

\* The number the script goes by accounts for every attempt, with or without
\* the key.
LEMMA CurrentAccounts ==
    ASSUME SubInv, NEW r \in Req, req[r].pc = "script"
    PROVE  /\ Current(r) = fails + lost + Cardinality(Recording)
           /\ Current(r) \in 0 .. MaxAttempts
<1> USE DEF SubInv
<1>1. CASE counter = Absent
  <2>1. Cardinality(Recording) = 0 /\ lost = 0 /\ Current(r) = fails
    BY <1>1, FS_EmptySet DEF SnapAccurate, Current
  <2> QED
    BY <2>1, LimitAssumption DEF FailsWithinMax, SubTypeOK
<1>2. CASE counter # Absent
  BY <1>2 DEF Current, CounterAccounts, SubTypeOK
<1> QED
  BY <1>1, <1>2

LEMMA CheckAttemptsKeeps ==
    ASSUME SubInv, NEW r \in Req, CheckAttempts(r)
    PROVE  SubInv'
<1> USE DEF SubInv
<1>0. req[r].pc = "script" /\ UNCHANGED <<cool, passed, kpm, lost, dynamic, fails, solves, told, instance>>
  BY DEF CheckAttempts, tables
<1>1. /\ Current(r) = fails + lost + Cardinality(Recording)
      /\ Current(r) \in 0 .. MaxAttempts
  BY <1>0, CurrentAccounts
<1>2. CASE Rejected(r, Current(r))
  <2>1. \A p \in Req : req'[p] = IF p = r THEN [req[r] EXCEPT !.pc = "idle", !.count = 0]
                                          ELSE req[p]
    BY <1>2 DEF Rejected, Done, SubTypeOK
  <2>2. counter' = Current(r) /\ counter' # Absent
    BY <1>1, <1>2 DEF Rejected, Absent
  <2>a. req'[r].pc = "idle"
    BY <2>1 DEF SubTypeOK
  <2>3. Recording' = Recording
    BY <1>0, <2>1, <2>a DEF Recording
  <2>4. req' \in [Req -> [pc : Pc, user : User, right : BOOLEAN, count : Nat]]
    BY <1>2 DEF Rejected, Done, SubTypeOK, Pc
  <2>5. SubTypeOK'
    BY <1>0, <1>1, <2>2, <2>4 DEF SubTypeOK
  <2>6. FailsWithinMax' /\ CounterAccounts' /\ SnapAccurate'
    BY <1>0, <1>1, <2>2, <2>3 DEF FailsWithinMax, CounterAccounts, SnapAccurate
  <2> QED
    BY <2>5, <2>6
<1>3. CASE Current(r) < MaxAttempts /\ Counted(r, Current(r))
  <2> DEFINE n == Current(r) + 1
  <2>1. \A p \in Req : req'[p] = IF p = r THEN [req[r] EXCEPT !.pc = "record", !.count = n]
                                          ELSE req[p]
    BY <1>3 DEF Counted, SubTypeOK
  <2>2. counter' = n /\ n \in 0 .. MaxAttempts /\ counter' # Absent
    BY <1>1, <1>3, LimitAssumption DEF Counted, Absent
  <2>3. req'[r].pc = "record"
    BY <2>1 DEF SubTypeOK
  <2>4. Recording' = Recording \cup {r} /\ r \notin Recording
    BY <1>0, <2>1, <2>3 DEF Recording
  <2>5. Cardinality(Recording') = Cardinality(Recording) + 1
    BY <2>4, RecordingFinite, FS_AddElement
  <2>a. n \in Nat
    BY <2>2
  <2>6. req' \in [Req -> [pc : Pc, user : User, right : BOOLEAN, count : Nat]]
    BY <1>3, <2>a DEF Counted, SubTypeOK, Pc
  <2>7. SubTypeOK'
    BY <1>0, <2>2, <2>6 DEF SubTypeOK
  <2>8. CounterAccounts'
    BY <1>0, <1>1, <2>2, <2>5, RecordingFinite DEF CounterAccounts, SubTypeOK
  <2>9. FailsWithinMax' /\ SnapAccurate'
    BY <1>0, <2>2 DEF FailsWithinMax, SnapAccurate
  <2> QED
    BY <2>7, <2>8, <2>9
<1> QED
  BY <1>2, <1>3 DEF CheckAttempts

\* An attempt leaves Recording for the table, or for the lost ones.
LEMMA RecordKeeps ==
    ASSUME SubInv, NEW r \in Req, Record(r)
    PROVE  SubInv'
<1> USE DEF SubInv
<1>0. /\ req[r].pc = "record" /\ r \in Recording
      /\ UNCHANGED <<dynamic, cool, passed, kpm, counter, solves, told, instance>>
  BY DEF Record, Recording
<1>1. counter # Absent
  BY <1>0 DEF SnapAccurate
<1>2. PICK q \in [pc : Pc, user : User, right : BOOLEAN, count : Nat] :
              q.pc \in {"idle", "laststop"} /\ req' = [req EXCEPT ![r] = q]
  BY GotoMoves DEF Record, Pc
<1>3. Recording' = Recording \ {r}
  BY <1>2 DEF Recording, SubTypeOK
<1>4. Cardinality(Recording') = Cardinality(Recording) - 1
  BY <1>0, <1>3, RecordingFinite, FS_RemoveElement
<1>5. Cardinality(Recording) > 0
  BY <1>0, RecordingFinite, FS_EmptySet
<1>6. /\ fails' \in Nat /\ lost' \in Nat
      /\ fails' + lost' = fails + lost + 1
      /\ fails' <= fails + 1
  BY DEF Record, SubTypeOK
<1>7. SubTypeOK'
  BY <1>0, <1>2, <1>6 DEF SubTypeOK
<1>8. CounterAccounts'
  <2>0. fails \in Nat /\ lost \in Nat
    BY DEF SubTypeOK
  <2>1. counter = fails + lost + Cardinality(Recording)
    BY <1>1 DEF CounterAccounts
  <2>2. counter = fails' + lost' + Cardinality(Recording')
    <3> HIDE DEF SubInv
    <3>1. Cardinality(Recording) \in Nat
      BY RecordingFinite
    <3>2. CASE fails' = fails + 1 /\ lost' = lost
      BY <2>0, <2>1, <3>1, <3>2, <1>4
    <3>3. CASE lost' = lost + 1 /\ fails' = fails
      BY <2>0, <2>1, <3>1, <3>3, <1>4
    <3> QED
      BY <3>2, <3>3 DEF Record
  <2> QED
    BY <1>0, <2>2 DEF CounterAccounts
<1>9. FailsWithinMax'
  BY <1>1, <1>5, <1>6, RecordingFinite, LimitAssumption
     DEF FailsWithinMax, CounterAccounts, SubTypeOK
<1>10. SnapAccurate'
  BY <1>0, <1>1 DEF SnapAccurate
<1> QED
  BY <1>7, <1>8, <1>9, <1>10

\* While no request is at the script or before its write, the key may go.
LEMMA CounterExpiresKeeps ==
    ASSUME SubInv, "overlap" \notin May, CounterExpires
    PROVE  SubInv'
<1> USE DEF SubInv
<1>1. /\ UNCHANGED <<req, dynamic, cool, passed, kpm, fails, solves, told, instance>>
      /\ counter' = Absent /\ lost' = 0
      /\ \A r \in Req : req[r].pc \notin {"script", "record"}
  BY DEF CounterExpires, tables
<1>2. SubTypeOK'
  BY <1>1 DEF SubTypeOK
<1>3. Recording' = {}
  BY <1>1 DEF Recording
<1>4. FailsWithinMax' /\ CounterAccounts' /\ SnapAccurate'
  BY <1>1, <1>3 DEF FailsWithinMax, CounterAccounts, SnapAccurate
<1> QED
  BY <1>2, <1>4

-----------------------------------------------------------------------------
\* A request takes the cooldown; it is not yet at the script.
LEMMA ArriveKeeps ==
    ASSUME SubInv, NEW r \in Req, NEW u \in User, NEW right \in BOOLEAN, Arrive(r, u, right)
    PROVE  SubInv'
<1> DEFINE q == [pc |-> "precheck", user |-> u, right |-> right, count |-> 0]
<1>0. SubTypeOK /\ FailsWithinMax /\ CounterAccounts /\ SnapAccurate
  BY DEF SubInv
<1>1. q \in [pc : Pc, user : User, right : BOOLEAN, count : Nat]
  BY DEF Pc
<1>2. req' = [req EXCEPT ![r] = q] /\ req[r].pc = "idle"
  BY DEF Arrive
<1>3. UNCHANGED <<dynamic, kpm, counter, fails, lost, solves, told, instance>>
  BY DEF Arrive, tables
<1>4. cool' \in Nat \cup {Absent} /\ passed' \in Nat
  BY <1>0 DEF Arrive, SubTypeOK
<1>5. SubTypeOK'
  BY <1>0, <1>1, <1>2, <1>3, <1>4 DEF SubTypeOK
<1>6. Aside
  BY <1>0, <1>1, <1>2, <1>3, MoveIsAside
<1> QED
  BY <1>0, <1>5, <1>6, AsideKeepsCount DEF SubInv

\* The steps that only move a request, or write the other tables.
LEMMA PlainStepsKeep ==
    ASSUME SubInv, NEW r \in Req,
           \/ PreCheck(r) \/ RecheckSolved(r) \/ InsertSolve(r) \/ Recalculate(r)
           \/ AnswerCorrect(r) \/ CheckKpm(r) \/ LastStop(r)
    PROVE  SubInv'
<1>0. SubTypeOK
  BY DEF SubInv
<1>1. UNCHANGED <<dynamic, cool, passed, counter, fails, lost>> /\ req[r].pc # "record"
  BY DEF PreCheck, RecheckSolved, InsertSolve, Recalculate, AnswerCorrect, CheckKpm,
         LastStop, keys, tables
<1>2. \E pc \in Pc \ {"script", "record"} : Goto(r, pc) \/ (Done(r) /\ pc = "idle")
  BY DEF PreCheck, RecheckSolved, InsertSolve, Recalculate, AnswerCorrect, CheckKpm,
         LastStop, Pc
<1>3. /\ req' \in [Req -> [pc : Pc, user : User, right : BOOLEAN, count : Nat]]
      /\ FailsWithinMax' /\ CounterAccounts' /\ SnapAccurate'
  BY <1>1, <1>2, AsideStep
<1>4. kpm' \in [User -> Nat]
  <2>1. CASE UNCHANGED kpm
    BY <2>1, <1>0 DEF SubTypeOK
  <2>2. CASE CheckKpm(r)
    BY <2>2, <1>0 DEF CheckKpm, SubTypeOK
  <2> QED
    BY <2>1, <2>2 DEF PreCheck, RecheckSolved, InsertSolve, Recalculate, AnswerCorrect,
                      LastStop, keys
<1>5. solves' \in Nat /\ told' \in Nat
  BY <1>0 DEF PreCheck, RecheckSolved, InsertSolve, Recalculate, AnswerCorrect, CheckKpm,
              LastStop, tables, SubTypeOK
<1>6. instance' \in {"none", "running", "unstopped"}
  BY <1>0 DEF PreCheck, RecheckSolved, InsertSolve, Recalculate, AnswerCorrect, CheckKpm,
              LastStop, ForceStop, SubTypeOK
<1>7. SubTypeOK'
  BY <1>0, <1>1, <1>3, <1>4, <1>5, <1>6 DEF SubTypeOK
<1> QED
  BY <1>3, <1>7 DEF SubInv

\* Time moves the cooldown and the minute only.
LEMMA TimeKeeps ==
    ASSUME SubInv, Tick \/ MinutePasses
    PROVE  SubInv'
<1>0. SubTypeOK /\ FailsWithinMax /\ CounterAccounts /\ SnapAccurate
  BY DEF SubInv
<1>1. UNCHANGED <<dynamic, req, counter, fails, lost, solves, told, instance>>
  BY DEF Tick, MinutePasses, tables
<1>2. cool' \in Nat \cup {Absent} /\ passed' \in Nat
  BY <1>0, LimitAssumption DEF Tick, MinutePasses, SubTypeOK, Absent
<1>3. kpm' \in [User -> Nat]
  BY <1>0 DEF Tick, MinutePasses, SubTypeOK
<1>4. SubTypeOK'
  BY <1>0, <1>1, <1>2, <1>3 DEF SubTypeOK
<1>5. Aside
  BY <1>1 DEF Aside, Recording
<1> QED
  BY <1>0, <1>4, <1>5, AsideKeepsCount DEF SubInv

LEMMA SubInvInductive ==
    ASSUME "overlap" \notin May, SubInv, [Next]_vars
    PROVE  SubInv'
<1>1. ASSUME NEW r \in Req, NEW u \in User, NEW right \in BOOLEAN, Arrive(r, u, right)
      PROVE  SubInv'
  BY <1>1, ArriveKeeps
<1>2. ASSUME NEW r \in Req,
             \/ PreCheck(r) \/ RecheckSolved(r) \/ InsertSolve(r) \/ Recalculate(r)
             \/ AnswerCorrect(r) \/ CheckKpm(r) \/ LastStop(r)
      PROVE  SubInv'
  BY <1>2, PlainStepsKeep
<1>3. ASSUME NEW r \in Req, ReadFails(r) PROVE SubInv'
  BY <1>3, ReadFailsKeeps
<1>4. ASSUME NEW r \in Req, CheckAttempts(r) PROVE SubInv'
  BY <1>4, CheckAttemptsKeeps
<1>5. ASSUME NEW r \in Req, Record(r) PROVE SubInv'
  BY <1>5, RecordKeeps
<1>6. CASE CounterExpires
  BY <1>6, CounterExpiresKeeps
<1>7. CASE Tick \/ MinutePasses
  BY <1>7, TimeKeeps
<1>8. CASE UNCHANGED vars
  BY <1>8 DEF vars, SubInv, SubTypeOK, FailsWithinMax, CounterAccounts, SnapAccurate, Recording
<1> QED
  BY <1>1, <1>2, <1>3, <1>4, <1>5, <1>6, <1>7, <1>8 DEF Next, Submit

\* For every team, number of requests at once and limit the state stays typed;
\* in particular the counter in Redis never passes the limit
\* (RedisHelper.cs:446-508).
THEOREM SubTypeCorrect ==
    ASSUME "overlap" \notin May
    PROVE  Spec => []SubTypeOK
<1>1. SubInv => SubTypeOK
  BY DEF SubInv
<1> QED
  BY SubInitInv, SubInvInductive, <1>1, PTL DEF Spec

\* However many requests race, no more wrong answers are recorded than the
\* limit allows (Attempt, ChallengeController.cs:429-457).
THEOREM AttemptsWithinMax ==
    ASSUME "overlap" \notin May
    PROVE  Spec => []FailsWithinMax
<1>1. SubInv => FailsWithinMax
  BY DEF SubInv
<1> QED
  BY SubInitInv, SubInvInductive, <1>1, PTL DEF Spec

\* While the key exists, it accounts for every attempt, recorded, about to be,
\* or lost (CheckAndIncrementAttemptsAsync and the write after it).
THEOREM AttemptsAccounted ==
    ASSUME "overlap" \notin May
    PROVE  Spec => []CounterAccounts
<1>1. SubInv => CounterAccounts
  BY DEF SubInv
<1> QED
  BY SubInitInv, SubInvInductive, <1>1, PTL DEF Spec

-----------------------------------------------------------------------------
(***************************************************************************)
(* The cooldown, which needs no hypothesis on the counter.                 *)
(***************************************************************************)

\* The key holds the time since the last request that passed, at most, and is
\* gone only after its TTL.
CoolAccurate ==
    /\ cool \in Nat \cup {Absent} /\ passed \in Nat
    /\ Cooldown > 0 => passed >= IF cool = Absent THEN CoolTtl ELSE cool

LEMMA CoolInductive ==
    ASSUME CoolAccurate, [Next]_vars
    PROVE  CoolAccurate'
<1>1. CASE UNCHANGED <<cool, passed>>
  BY <1>1 DEF CoolAccurate
<1>2. CASE Tick
  BY <1>2, LimitAssumption DEF Tick, CoolAccurate, Absent
<1>3. ASSUME NEW r \in Req, NEW u \in User, NEW right \in BOOLEAN, Arrive(r, u, right)
      PROVE  CoolAccurate'
  BY <1>3, LimitAssumption DEF Arrive, CoolAccurate, Absent
<1> QED
  BY <1>1, <1>2, <1>3
     DEF Next, Submit, vars, keys, PreCheck, RecheckSolved, InsertSolve, Recalculate,
         AnswerCorrect, CheckKpm, ReadFails, CheckAttempts, Record, LastStop,
         MinutePasses, CounterExpires

\* Only Arrive takes a request out of "idle".
LEMMA OnlyArriveLeavesIdle ==
    ASSUME req \in [Req -> [pc : Pc, user : User, right : BOOLEAN, count : Nat]],
           [Next]_vars, NEW p \in Req, req[p].pc = "idle", req'[p].pc # "idle"
    PROVE  cool = Absent \/ cool >= Cooldown
<1>1. CASE UNCHANGED req
  BY <1>1
<1>2. ASSUME NEW r \in Req, req[r].pc # "idle",
             \E q : req' = [req EXCEPT ![r] = q]
      PROVE  FALSE
  BY <1>2
<1>3. ASSUME NEW r \in Req, req[r].pc # "idle", Done(r) \/ \E pc : Goto(r, pc)
      PROVE  FALSE
  BY <1>2, <1>3 DEF Done, Goto
<1>4. ASSUME NEW r \in Req, PreCheck(r) \/ RecheckSolved(r) \/ InsertSolve(r)
      PROVE  FALSE
  BY <1>3, <1>4 DEF PreCheck, RecheckSolved, InsertSolve
<1>5. ASSUME NEW r \in Req, Recalculate(r) \/ AnswerCorrect(r) \/ Record(r) \/ LastStop(r)
      PROVE  FALSE
  BY <1>3, <1>5 DEF Recalculate, AnswerCorrect, Record, LastStop
<1>6. ASSUME NEW r \in Req, CheckKpm(r) \/ ReadFails(r) \/ CheckAttempts(r)
      PROVE  FALSE
  BY <1>2, <1>3, <1>6 DEF CheckKpm, ReadFails, CheckAttempts, Rejected, Counted
<1>7. CASE \E r \in Req : \E u \in User, right \in BOOLEAN : Arrive(r, u, right)
  BY <1>7 DEF Arrive
<1>8. CASE Tick \/ MinutePasses \/ CounterExpires
  BY <1>1, <1>8 DEF Tick, MinutePasses, CounterExpires
<1> QED
  BY <1>1, <1>4, <1>5, <1>6, <1>7, <1>8 DEF Next, Submit, vars

\* Requests stay typed even if the counter expires at any moment.
ReqTyped ==
    /\ req \in [Req -> [pc : Pc, user : User, right : BOOLEAN, count : Nat]]
    /\ counter \in Nat \cup {Absent} /\ fails \in Nat

LEMMA ReqTypedInductive ==
    ASSUME ReqTyped, [Next]_vars
    PROVE  ReqTyped'
<1>1. CASE UNCHANGED <<req, counter, fails>>
  BY <1>1 DEF ReqTyped
<1>2. ASSUME NEW r \in Req, NEW pc \in Pc, Goto(r, pc), UNCHANGED counter, fails' \in Nat
      PROVE  ReqTyped'
  BY <1>2 DEF ReqTyped, Goto
<1>3. ASSUME NEW r \in Req, Done(r), counter' \in Nat \cup {Absent}, fails' \in Nat
      PROVE  ReqTyped'
  BY <1>3 DEF ReqTyped, Done, Pc
<1>4. ASSUME NEW r \in Req, NEW u \in User, NEW right \in BOOLEAN, Arrive(r, u, right)
      PROVE  ReqTyped'
  BY <1>4 DEF ReqTyped, Arrive, tables, Pc
<1>5. ASSUME NEW r \in Req, ReadFails(r)
      PROVE  ReqTyped'
  BY <1>5 DEF ReqTyped, ReadFails, keys, tables, Pc
<1>6. ASSUME NEW r \in Req, CheckAttempts(r)
      PROVE  ReqTyped'
  <2>1. Current(r) \in Nat /\ fails' \in Nat
    BY <1>6 DEF Current, ReqTyped, CheckAttempts, tables
  <2>2. CASE Rejected(r, Current(r))
    BY <1>3, <2>1, <2>2 DEF Rejected
  <2>3. CASE Counted(r, Current(r))
    <3>1. Current(r) + 1 \in Nat
      BY <2>1
    <3>2. req' \in [Req -> [pc : Pc, user : User, right : BOOLEAN, count : Nat]]
      BY <2>3, <3>1 DEF Counted, ReqTyped, Pc
    <3>3. counter' \in Nat
      BY <2>3, <3>1 DEF Counted
    <3> QED
      BY <2>1, <3>2, <3>3 DEF ReqTyped
  <2> QED
    BY <1>6, <2>2, <2>3 DEF CheckAttempts
<1>7. ASSUME NEW r \in Req, Record(r)
      PROVE  ReqTyped'
  BY <1>2, <1>3, <1>7 DEF Record, ReqTyped, Pc
<1>8. ASSUME NEW r \in Req,
             \/ PreCheck(r) \/ RecheckSolved(r) \/ InsertSolve(r) \/ Recalculate(r)
             \/ AnswerCorrect(r) \/ CheckKpm(r) \/ LastStop(r)
      PROVE  ReqTyped'
  <2>1. UNCHANGED <<counter, fails>>
    BY <1>8 DEF PreCheck, RecheckSolved, InsertSolve, Recalculate, AnswerCorrect,
                CheckKpm, LastStop, keys, tables
  <2>2. Done(r) \/ \E pc \in Pc : Goto(r, pc)
    BY <1>8 DEF PreCheck, RecheckSolved, InsertSolve, Recalculate, AnswerCorrect,
                CheckKpm, LastStop, Pc
  <2>3. counter' \in Nat \cup {Absent} /\ fails' \in Nat
    BY <2>1 DEF ReqTyped
  <2>4. CASE Done(r)
    BY <1>3, <2>3, <2>4
  <2>5. ASSUME NEW pc \in Pc, Goto(r, pc) PROVE ReqTyped'
    BY <1>2, <2>1, <2>3, <2>5
  <2> QED
    BY <2>2, <2>4, <2>5
<1>9. CASE Tick \/ MinutePasses \/ CounterExpires
  BY <1>9 DEF ReqTyped, Tick, MinutePasses, CounterExpires, tables
<1> QED
  BY <1>1, <1>4, <1>5, <1>6, <1>7, <1>8, <1>9 DEF Next, Submit, vars

\* Between two requests of a team that pass lies the cooldown, on whichever
\* replicas they arrive, if it is not longer than the TTL of its key
\* (CheckAndUpdateCooldownAsync, RedisHelper.cs:512-558).
THEOREM CooldownKept ==
    ASSUME Cooldown <= CoolTtl
    PROVE  Spec => CooldownHolds
<1>1. Init => CoolAccurate /\ ReqTyped
  <2> SUFFICES ASSUME Init PROVE CoolAccurate /\ ReqTyped
    OBVIOUS
  <2>1. AnyUser \in User
    BY UserAssumption DEF AnyUser
  <2> QED
    BY <2>1, LimitAssumption DEF Init, CoolAccurate, ReqTyped, Pc
<1>2. CoolAccurate /\ ReqTyped /\ [Next]_vars => CoolAccurate' /\ ReqTyped'
  BY CoolInductive, ReqTypedInductive
<1>3. CoolAccurate /\ ReqTyped /\ [Next]_vars =>
        [\A r \in Req : req[r].pc = "idle" /\ req'[r].pc # "idle" => passed >= Cooldown]_vars
  <2> SUFFICES ASSUME CoolAccurate, ReqTyped, [Next]_vars,
                      NEW r \in Req, req[r].pc = "idle", req'[r].pc # "idle"
               PROVE  passed >= Cooldown
    OBVIOUS
  <2>1. cool = Absent \/ cool >= Cooldown
    BY OnlyArriveLeavesIdle DEF ReqTyped
  <2> QED
    BY <2>1, LimitAssumption DEF CoolAccurate, Absent
<1> QED
  BY <1>1, <1>2, <1>3, PTL DEF Spec, CooldownHolds

-----------------------------------------------------------------------------
(***************************************************************************)
(* The answers "correct", which need no hypothesis on the counter either.  *)
(***************************************************************************)

\* Requests whose solve is in the table, and whose answer is still to be given.
Winners == {r \in Req : req[r].pc \in {"recalc", "stop"}}

\* The one solve has been answered, is about to be, or was of a dynamic challenge,
\* whose request threw.
SolveAccounts ==
    /\ solves \in {0, 1} /\ told \in 0 .. solves
    /\ \A p, q \in Winners : p = q
    /\ Winners # {} => solves = 1 /\ told = 0
    /\ \A r \in Req : req[r].pc = "recalc" => dynamic
    /\ ~dynamic /\ solves = 1 => told = 1 \/ Winners # {}

LEMMA MovesTo ==
    ASSUME ReqTyped, NEW r \in Req, NEW pc, Goto(r, pc) \/ (Done(r) /\ pc = "idle")
    PROVE  \A p \in Req : req'[p].pc = IF p = r THEN pc ELSE req[p].pc
  BY DEF ReqTyped, Goto, Done

\* A step of requests that neither insert nor answer.
LEMMA SolveAside ==
    ASSUME SolveAccounts, UNCHANGED <<dynamic, solves, told>>,
           \A p \in Req : \/ req'[p].pc = req[p].pc
                         \/ /\ req[p].pc \notin {"recalc", "stop"}
                            /\ req'[p].pc \notin {"recalc", "stop"}
    PROVE  SolveAccounts'
<1>1. Winners' = Winners
  BY DEF Winners
<1>2. \A r \in Req : req'[r].pc = "recalc" => dynamic
  BY DEF SolveAccounts
<1> QED
  BY <1>1, <1>2 DEF SolveAccounts

\* The unique index lets one request in, and it finds no other winner.
LEMMA InsertSolveKeeps ==
    ASSUME ReqTyped, SolveAccounts, NEW r \in Req, InsertSolve(r)
    PROVE  SolveAccounts'
<1>1. req[r].pc = "insert" /\ UNCHANGED <<dynamic, told>>
  BY DEF InsertSolve, tables
<1>2. CASE Done(r) /\ UNCHANGED solves
  <2>1. \A p \in Req : req'[p].pc = IF p = r THEN "idle" ELSE req[p].pc
    BY <1>2, MovesTo
  <2> QED
    BY <1>1, <1>2, <2>1, SolveAside
<1>3. CASE solves = 0 /\ solves' = 1 /\ Goto(r, IF dynamic THEN "recalc" ELSE "stop")
  <2>1. \A p \in Req : req'[p].pc = IF p = r THEN (IF dynamic THEN "recalc" ELSE "stop")
                                             ELSE req[p].pc
    BY <1>3, MovesTo
  <2>2. Winners = {} /\ told = 0
    BY <1>3 DEF SolveAccounts
  <2>3. Winners' = {r}
    BY <2>1, <2>2 DEF Winners
  <2>4. \A p \in Req : req'[p].pc = "recalc" => dynamic
    BY <2>1 DEF SolveAccounts
  <2> QED
    BY <1>1, <1>3, <2>2, <2>3, <2>4 DEF SolveAccounts
<1> QED
  BY <1>2, <1>3 DEF InsertSolve

\* The winner throws, or is told: it was the only one.
LEMMA WinnerLeaves ==
    ASSUME ReqTyped, SolveAccounts, NEW r \in Req, Recalculate(r) \/ AnswerCorrect(r)
    PROVE  SolveAccounts'
<1>1. r \in Winners /\ Done(r) /\ UNCHANGED <<dynamic, solves>>
  BY DEF Recalculate, AnswerCorrect, Winners, tables
<1>2. \A p \in Req : req'[p].pc = IF p = r THEN "idle" ELSE req[p].pc
  BY <1>1, MovesTo
<1>3. solves = 1 /\ told = 0 /\ Winners = {r}
  BY <1>1 DEF SolveAccounts
<1>4. Winners' = {}
  BY <1>2, <1>3 DEF Winners
<1>5. \A p \in Req : req'[p].pc = "recalc" => dynamic
  BY <1>2 DEF SolveAccounts
<1>6. CASE Recalculate(r)
  <2>1. dynamic /\ told' = 0
    BY <1>3, <1>6 DEF Recalculate, SolveAccounts
  <2> QED
    BY <1>1, <1>3, <1>4, <1>5, <2>1 DEF SolveAccounts
<1>7. CASE AnswerCorrect(r)
  <2>1. told' = 1
    BY <1>3, <1>7 DEF AnswerCorrect
  <2> QED
    BY <1>1, <1>3, <1>4, <1>5, <2>1 DEF SolveAccounts
<1> QED
  BY <1>6, <1>7

LEMMA SolveAccountsInductive ==
    ASSUME ReqTyped, SolveAccounts, [Next]_vars
    PROVE  SolveAccounts'
<1>1. ASSUME NEW r \in Req, InsertSolve(r) PROVE SolveAccounts'
  BY <1>1, InsertSolveKeeps
<1>2. ASSUME NEW r \in Req, Recalculate(r) \/ AnswerCorrect(r) PROVE SolveAccounts'
  BY <1>2, WinnerLeaves
<1>3. ASSUME NEW r \in Req, NEW u \in User, NEW right \in BOOLEAN, Arrive(r, u, right)
      PROVE  SolveAccounts'
  <2>1. \A p \in Req : req'[p].pc = IF p = r THEN "precheck" ELSE req[p].pc
    BY <1>3 DEF Arrive, ReqTyped
  <2> QED
    BY <1>3, <2>1, SolveAside DEF Arrive, tables
<1>4. ASSUME NEW r \in Req,
             \/ PreCheck(r) \/ RecheckSolved(r) \/ CheckKpm(r) \/ ReadFails(r)
             \/ CheckAttempts(r) \/ Record(r) \/ LastStop(r)
      PROVE  SolveAccounts'
  <2>1. UNCHANGED <<dynamic, solves, told>> /\ req[r].pc \notin {"recalc", "stop"}
    BY <1>4 DEF PreCheck, RecheckSolved, CheckKpm, ReadFails, CheckAttempts, Record,
                LastStop, tables
  <2>2. \A p \in Req : \/ req'[p].pc = req[p].pc
                       \/ p = r /\ req'[r].pc \notin {"recalc", "stop"}
    BY <1>4 DEF PreCheck, RecheckSolved, CheckKpm, ReadFails, CheckAttempts, Rejected,
                Counted, Record, LastStop, Goto, Done, ReqTyped
  <2> QED
    BY <2>1, <2>2, SolveAside
<1>5. CASE Tick \/ MinutePasses \/ CounterExpires \/ UNCHANGED vars
  BY <1>5, SolveAside DEF Tick, MinutePasses, CounterExpires, vars, tables
<1> QED
  BY <1>1, <1>2, <1>3, <1>4, <1>5 DEF Next, Submit

\* However many members submit the right flag at once, one answer "correct" is given
\* at most, for a solve that is in the table; and when all is quiet the solve of a
\* challenge that is not dynamic has been answered (CORRECT-01 in TestCases.md;
\* ChallengeController.cs:345-413).
THEOREM SolvesAreTold == Spec => []CorrectIsTold
<1>1. Init => ReqTyped /\ SolveAccounts
  <2> SUFFICES ASSUME Init PROVE ReqTyped /\ SolveAccounts
    OBVIOUS
  <2>1. AnyUser \in User
    BY UserAssumption DEF AnyUser
  <2>2. Winners = {}
    BY DEF Init, Winners
  <2> QED
    BY <2>1, <2>2, LimitAssumption DEF Init, ReqTyped, SolveAccounts, Pc
<1>2. ReqTyped /\ SolveAccounts /\ [Next]_vars => ReqTyped' /\ SolveAccounts'
  BY ReqTypedInductive, SolveAccountsInductive
<1>3. SolveAccounts => CorrectIsTold
  <2> SUFFICES ASSUME SolveAccounts PROVE CorrectIsTold
    OBVIOUS
  <2>1. Quiet => Winners = {}
    BY DEF Quiet, Winners
  <2> QED
    BY <2>1 DEF SolveAccounts, CorrectIsTold
<1> QED
  BY <1>1, <1>2, <1>3, PTL DEF Spec

-----------------------------------------------------------------------------
(***************************************************************************)
(* The instance of a finished challenge.                                   *)
(***************************************************************************)

\* Somebody has stopped the instance, will stop it, or holds the last attempt.
LastHeld(r) == \/ req[r].pc = "laststop"
               \/ req[r].pc = "record" /\ req[r].count >= MaxAttempts
StopAhead == instance # "running" \/ \E r \in Req : LastHeld(r)

\* That the attempts are spent is not inductive: before the last one is recorded
\* the others on their way to the table count as well.
StopIsAhead ==
    /\ told > 0 => instance # "running"
    /\ StopAhead \/ fails + Cardinality(Recording) < MaxAttempts

\* A step that leaves the attempts alone and forgets nobody who will stop.
LEMMA StopAside ==
    ASSUME StopIsAhead, UNCHANGED <<fails, told>>, Recording' = Recording,
           UNCHANGED instance \/ instance' # "running",
           \A p \in Req : LastHeld(p) => LastHeld(p)'
    PROVE  StopIsAhead'
<1>1. StopAhead => StopAhead'
  BY DEF StopAhead
<1> QED
  BY <1>1 DEF StopIsAhead

\* The attempt that reaches the limit is the one that will stop the instance.
LEMMA CheckAttemptsStops ==
    ASSUME SubInv, StopIsAhead, NEW r \in Req, CheckAttempts(r)
    PROVE  StopIsAhead'
<1>0. SubTypeOK /\ req[r].pc = "script" /\ UNCHANGED <<lost, fails, told, instance>>
  BY DEF CheckAttempts, tables, SubInv
<1>1. Current(r) = fails + lost + Cardinality(Recording) /\ Current(r) \in 0 .. MaxAttempts
  BY <1>0, CurrentAccounts
<1>2. CASE Rejected(r, Current(r))
  <2>1. \A p \in Req : p # r => req'[p] = req[p]
    BY <1>0, <1>2 DEF Rejected, Done, SubTypeOK
  <2>2. req'[r].pc = "idle"
    BY <1>0, <1>2 DEF Rejected, Done, SubTypeOK
  <2>3. Recording' = Recording
    BY <1>0, <2>1, <2>2 DEF Recording
  <2>4. \A p \in Req : LastHeld(p) => LastHeld(p)'
    BY <1>0, <2>1 DEF LastHeld
  <2> QED
    BY <1>0, <2>3, <2>4, StopAside
<1>3. CASE Current(r) < MaxAttempts /\ Counted(r, Current(r))
  <2>1. \A p \in Req : p # r => req'[p] = req[p]
    BY <1>0, <1>3 DEF Counted, SubTypeOK
  <2>2. req'[r].pc = "record" /\ req'[r].count = Current(r) + 1
    BY <1>0, <1>3 DEF Counted, SubTypeOK
  <2>3. CASE Current(r) + 1 >= MaxAttempts
    <3>1. LastHeld(r)'
      BY <2>2, <2>3 DEF LastHeld
    <3> QED
      BY <1>0, <3>1 DEF StopIsAhead, StopAhead
  <2>4. CASE Current(r) + 1 < MaxAttempts
    <3>1. Recording' = Recording \cup {r} /\ r \notin Recording
      BY <1>0, <2>1, <2>2 DEF Recording
    <3>2. Cardinality(Recording') = Cardinality(Recording) + 1
      BY <3>1, RecordingFinite, FS_AddElement
    <3>3. fails \in Nat /\ lost \in Nat /\ Cardinality(Recording) \in Nat
      BY <1>0, RecordingFinite DEF SubTypeOK
    <3>4. fails + Cardinality(Recording') < MaxAttempts
      BY <1>1, <2>4, <3>2, <3>3, LimitAssumption
    <3> QED
      BY <1>0, <3>4 DEF StopIsAhead
  <2> QED
    BY <1>1, <2>3, <2>4, LimitAssumption
<1> QED
  BY <1>2, <1>3 DEF CheckAttempts

\* Recorded, the last attempt goes on to stop the instance; refused by the database,
\* it leaves room below the limit.
LEMMA RecordStops ==
    ASSUME SubInv, StopIsAhead, NEW r \in Req, Record(r)
    PROVE  StopIsAhead'
<1>0. /\ SubTypeOK /\ SnapAccurate /\ CounterAccounts /\ req[r].pc = "record" /\ r \in Recording
      /\ UNCHANGED <<counter, told, instance>>
  BY DEF Record, Recording, SubInv
<1>1. PICK q \in [pc : Pc, user : User, right : BOOLEAN, count : Nat] :
              q.pc \in {"idle", "laststop"} /\ req' = [req EXCEPT ![r] = q]
  BY <1>0, GotoMoves DEF Record, Pc
<1>2. \A p \in Req : req'[p] = IF p = r THEN q ELSE req[p]
  BY <1>0, <1>1 DEF SubTypeOK
<1>3. Recording' = Recording \ {r}
  BY <1>1, <1>2 DEF Recording
<1>4. /\ Cardinality(Recording') = Cardinality(Recording) - 1
      /\ Cardinality(Recording) \in Nat /\ fails \in Nat /\ lost \in Nat
  BY <1>0, <1>3, RecordingFinite, FS_RemoveElement DEF SubTypeOK
<1>5. told' > 0 => instance' # "running"
  BY <1>0 DEF StopIsAhead
<1>6. CASE fails' = fails + 1 /\ (IF req[r].count >= MaxAttempts THEN Goto(r, "laststop") ELSE Done(r))
  <2>1. fails' + Cardinality(Recording') = fails + Cardinality(Recording)
    BY <1>4, <1>6
  <2>2. LastHeld(r) => LastHeld(r)'
    BY <1>0, <1>6 DEF LastHeld, Goto, SubTypeOK
  <2>3. \A p \in Req : p # r => (LastHeld(p) => LastHeld(p)')
    BY <1>2 DEF LastHeld
  <2>4. StopAhead => StopAhead'
    BY <1>0, <2>2, <2>3 DEF StopAhead
  <2> QED
    BY <1>5, <2>1, <2>4 DEF StopIsAhead
<1>7. CASE UNCHANGED fails
  <2>1. counter = fails + lost + Cardinality(Recording) /\ counter \in 0 .. MaxAttempts
    BY <1>0 DEF SnapAccurate, CounterAccounts, SubTypeOK
  <2>2. fails' + Cardinality(Recording') < MaxAttempts
    BY <1>4, <1>7, <2>1, LimitAssumption
  <2> QED
    BY <1>5, <2>2 DEF StopIsAhead
<1> QED
  BY <1>6, <1>7 DEF Record

LEMMA StopIsAheadInductive ==
    ASSUME "overlap" \notin May, SubInv, StopIsAhead, [Next]_vars
    PROVE  StopIsAhead'
<1>0. SubTypeOK
  BY DEF SubInv
<1>1. ASSUME NEW r \in Req, CheckAttempts(r) PROVE StopIsAhead'
  BY <1>1, CheckAttemptsStops
<1>2. ASSUME NEW r \in Req, Record(r) PROVE StopIsAhead'
  BY <1>2, RecordStops
<1>3. ASSUME NEW r \in Req, AnswerCorrect(r) \/ LastStop(r) PROVE StopIsAhead'
  <2>1. instance' # "running"
    BY <1>3 DEF AnswerCorrect, LastStop, ForceStop
  <2> QED
    BY <2>1 DEF StopIsAhead, StopAhead
<1>4. ASSUME NEW r \in Req,
             \/ \E u \in User, right \in BOOLEAN : Arrive(r, u, right)
             \/ PreCheck(r) \/ RecheckSolved(r) \/ InsertSolve(r) \/ Recalculate(r)
             \/ CheckKpm(r) \/ ReadFails(r)
      PROVE  StopIsAhead'
  <2>1. /\ UNCHANGED <<fails, told, instance>>
        /\ req[r].pc \notin {"record", "laststop"}
    BY <1>4 DEF Arrive, PreCheck, RecheckSolved, InsertSolve, Recalculate, CheckKpm,
                ReadFails, tables, keys
  <2>2. /\ \A p \in Req : p # r => req'[p] = req[p]
        /\ req'[r].pc # "record"
    BY <1>0, <1>4 DEF Arrive, PreCheck, RecheckSolved, InsertSolve, Recalculate, CheckKpm,
                      ReadFails, Goto, Done, SubTypeOK
  <2>3. Recording' = Recording
    BY <2>1, <2>2 DEF Recording
  <2>4. \A p \in Req : LastHeld(p) => LastHeld(p)'
    BY <2>1, <2>2 DEF LastHeld
  <2> QED
    BY <2>1, <2>3, <2>4, StopAside
<1>5. CASE Tick \/ MinutePasses \/ CounterExpires \/ UNCHANGED vars
  <2>1. UNCHANGED <<req, fails, told, instance>>
    BY <1>5 DEF Tick, MinutePasses, CounterExpires, vars, tables
  <2>2. Recording' = Recording /\ \A p \in Req : LastHeld(p) => LastHeld(p)'
    BY <2>1 DEF Recording, LastHeld
  <2> QED
    BY <2>1, <2>2, StopAside
<1> QED
  BY <1>1, <1>2, <1>3, <1>4, <1>5 DEF Next, Submit

\* When a challenge is solved, or its attempts are spent, its instance has been
\* stopped, or its stop has been tried, by the time all answers are given, whichever
\* of the racing answers is recorded last (ChallengeController.cs:388-392, 484-488).
THEOREM FinishedStops ==
    ASSUME "overlap" \notin May
    PROVE  Spec => []FinishedIsStopped
<1>1. Init => StopIsAhead
  <2> SUFFICES ASSUME Init PROVE StopIsAhead
    OBVIOUS
  <2>1. Recording = {}
    BY DEF Init, Recording
  <2>2. Cardinality(Recording) = 0
    BY <2>1, FS_EmptySet
  <2>3. fails \in 0 .. MaxAttempts /\ (fails = MaxAttempts => instance # "running") /\ told = 0
    BY DEF Init
  <2> QED
    BY <2>2, <2>3, LimitAssumption DEF StopIsAhead, StopAhead
<1>2. SubInv /\ StopIsAhead => FinishedIsStopped
  <2> SUFFICES ASSUME SubInv, StopIsAhead, Quiet, told > 0 \/ fails = MaxAttempts
               PROVE  instance # "running"
    BY DEF FinishedIsStopped
  <2>1. Recording = {} /\ \A r \in Req : ~LastHeld(r)
    BY DEF Quiet, Recording, LastHeld
  <2>2. Cardinality(Recording) = 0
    BY <2>1, FS_EmptySet
  <2> QED
    BY <2>1, <2>2, LimitAssumption DEF StopIsAhead, StopAhead, SubInv, SubTypeOK
<1>3. SubInv /\ StopIsAhead /\ [Next]_vars => SubInv' /\ StopIsAhead'
  BY SubInvInductive, StopIsAheadInductive
<1> QED
  BY SubInitInv, <1>1, <1>2, <1>3, PTL DEF Spec

-----------------------------------------------------------------------------
(***************************************************************************)
(* HintUnlock.                                                             *)
(***************************************************************************)

\* What the steps up to here have found, as long as the lock is held.
FoundPrereqs ==
    \A r \in Buyer : buy[r].pc \in {"existing", "score", "save"} =>
        \A p \in Prereqs[buy[r].hint] : Open(buy[r].contest, p)
FoundNone ==
    ~late => \A r \in Buyer \ overran : buy[r].pc \in {"score", "save"} =>
                 unlocks[buy[r].contest][buy[r].hint] = 0

\* The inductive invariant: LockIsKept makes what a request found remain true
\* until it writes.
HintInv == HintTypeOK /\ LockIsKept /\ FoundPrereqs /\ PrereqsFirst /\ FoundNone /\ OneUnlock

LEMMA HintInitInv == LockInit => HintInv
<1> SUFFICES ASSUME LockInit PROVE HintInv
  OBVIOUS
<1>1. (CHOOSE c \in Contest : TRUE) \in Contest /\ (CHOOSE h \in Hint : TRUE) \in Hint
  BY SomeAssumption
<1>2. \A r \in Buyer : buy[r].pc = "idle" /\ buy[r] \in Request
  BY <1>1 DEF LockInit, Request, LockPc
<1>3. Inside = {}
  BY <1>2 DEF Inside
<1>4. HintTypeOK
  <2>1. buy \in [Buyer -> Request]
    BY <1>1 DEF LockInit, Request, LockPc
  <2>2. lock \in [Contest -> Buyer \cup {Free}] /\ unlocks \in [Contest -> [Hint -> Nat]]
    BY DEF LockInit
  <2>3. score \in Int /\ score <= MaxPoints
    BY FaultAssumption DEF LockInit
  <2>4. overran \subseteq Inside /\ late \in BOOLEAN
    BY DEF LockInit
  <2> QED
    BY <2>1, <2>2, <2>3, <2>4 DEF HintTypeOK
<1>5. LockIsKept
  BY <1>3 DEF LockIsKept
<1>6. FoundPrereqs /\ FoundNone
  BY <1>2 DEF FoundPrereqs, FoundNone
<1>7. PrereqsFirst /\ OneUnlock
  BY DEF LockInit, PrereqsFirst, OneUnlock
<1> QED
  BY <1>4, <1>5, <1>6, <1>7 DEF HintInv

-----------------------------------------------------------------------------
\* The steps of a request inside that only read.
LEMMA ReadingKeeps ==
    ASSUME HintInv, NEW r \in Buyer, CheckPrereqs(r) \/ CheckExisting(r) \/ CheckScore(r)
    PROVE  HintInv'
<1> USE DEF HintInv
<1>1. /\ UNCHANGED <<lock, unlocks, score, overran, late>>
      /\ buy[r].pc \in {"prereqs", "existing", "score"}
  BY DEF CheckPrereqs, CheckExisting, CheckScore
<1>2. PICK pc \in {"existing", "score", "save", "release"} : StepTo(r, pc)
  BY DEF CheckPrereqs, CheckExisting, CheckScore
<1>3. /\ buy' \in [Buyer -> Request]
      /\ buy'[r].pc = pc
      /\ \A p \in Buyer : p # r => buy'[p] = buy[p]
      /\ \A p \in Buyer : buy'[p].contest = buy[p].contest /\ buy'[p].hint = buy[p].hint
  BY <1>2 DEF StepTo, HintTypeOK, Request, LockPc
<1>4. Inside' = Inside
  BY <1>1, <1>3 DEF Inside
<1>5. HintTypeOK'
  BY <1>1, <1>3, <1>4 DEF HintTypeOK
<1>6. LockIsKept'
  BY <1>1, <1>3, <1>4 DEF LockIsKept, Inside
<1>7. PrereqsFirst' /\ OneUnlock'
  BY <1>1 DEF PrereqsFirst, OneUnlock, Open
<1>8. FoundPrereqs'
  <2>1. pc \in {"existing", "score", "save"} =>
          \A p \in Prereqs[buy[r].hint] : Open(buy[r].contest, p)
    <3>1. CASE CheckPrereqs(r)
      BY <1>3, <3>1 DEF CheckPrereqs, StepTo, HintTypeOK, Request
    <3>2. CASE CheckExisting(r) \/ CheckScore(r)
      BY <3>2 DEF CheckExisting, CheckScore, FoundPrereqs
    <3> QED
      BY <3>1, <3>2
  <2> QED
    BY <1>1, <1>3, <2>1 DEF FoundPrereqs, Open
<1>9. FoundNone'
  <2>1. pc \in {"score", "save"} /\ ~late /\ r \notin overran =>
          unlocks[buy[r].contest][buy[r].hint] = 0
    BY <1>2, <1>3 DEF CheckPrereqs, CheckExisting, CheckScore, FoundNone, StepTo, HintTypeOK, Request
  <2> QED
    BY <1>1, <1>3, <2>1 DEF FoundNone
<1> QED
  BY <1>5, <1>6, <1>7, <1>8, <1>9

\* Taking the lock: whoever is inside in the same contest has outlived its own.
LEMMA AcquireKeeps ==
    ASSUME HintInv, NEW r \in Buyer, NEW c \in Contest, NEW h \in Hint, Acquire(r, c, h)
    PROVE  HintInv'
<1> USE DEF HintInv
<1> DEFINE q == [pc |-> "prereqs", contest |-> c, hint |-> h]
<1>1. /\ UNCHANGED <<unlocks, score, overran, late>>
      /\ buy[r].pc = "idle" /\ lock[c] = Free
      /\ lock' = [lock EXCEPT ![c] = r]
      /\ buy' = [buy EXCEPT ![r] = q]
  BY DEF Acquire
<1>2. q \in Request
  BY DEF Request, LockPc
<1>3. /\ buy' \in [Buyer -> Request] /\ buy'[r] = q
      /\ \A p \in Buyer : p # r => buy'[p] = buy[p]
  BY <1>1, <1>2 DEF HintTypeOK
<1>4. Inside' = Inside \cup {r} /\ r \notin Inside
  BY <1>1, <1>3 DEF Inside
<1>5. lock' \in [Contest -> Buyer \cup {Free}]
  BY <1>1 DEF HintTypeOK
<1>6. HintTypeOK'
  BY <1>1, <1>3, <1>4, <1>5 DEF HintTypeOK
<1>7. LockIsKept'
  <2> SUFFICES ASSUME NEW p \in Inside' \ overran' PROVE lock'[buy'[p].contest] = p
    BY DEF LockIsKept
  <2>1. CASE p = r
    BY <1>1, <1>3, <2>1 DEF HintTypeOK
  <2>2. CASE p # r
    <3>1. p \in Buyer /\ p \in Inside \ overran /\ buy'[p] = buy[p]
      BY <1>1, <1>3, <1>4, <2>2 DEF Inside
    <3>2. lock[buy[p].contest] = p /\ buy[p].contest # c
      BY <1>1, <3>1, FreeAssumption DEF LockIsKept
    <3> QED
      BY <1>1, <3>1, <3>2 DEF HintTypeOK, Request
  <2> QED
    BY <2>1, <2>2
<1>8. FoundPrereqs' /\ FoundNone'
  BY <1>1, <1>3 DEF FoundPrereqs, FoundNone, Open
<1>9. PrereqsFirst' /\ OneUnlock'
  BY <1>1 DEF PrereqsFirst, OneUnlock, Open
<1> QED
  BY <1>6, <1>7, <1>8, <1>9

\* The write: two requests that both hold a lock are in different contests.
LEMMA SaveKeeps ==
    ASSUME HintInv, NEW r \in Buyer, Save(r)
    PROVE  HintInv'
<1> USE DEF HintInv
<1> DEFINE c == buy[r].contest
           h == buy[r].hint
<1>1. /\ UNCHANGED <<lock, overran>> /\ buy[r].pc = "save"
      /\ c \in Contest /\ h \in Hint /\ r \in Inside
  BY DEF Save, Inside, HintTypeOK, Request
<1>2. /\ buy' \in [Buyer -> Request] /\ buy'[r].pc = "release" /\ buy'[r].contest = c
      /\ \A p \in Buyer : p # r => buy'[p] = buy[p]
  BY DEF Save, StepTo, HintTypeOK, Request, LockPc
<1>3. Inside' = Inside
  BY <1>1, <1>2 DEF Inside
<1>4. LockIsKept'
  BY <1>1, <1>2, <1>3 DEF LockIsKept, Inside
<1>5. CASE UNCHANGED <<unlocks, score, late>>
  <2>1. HintTypeOK'
    BY <1>1, <1>2, <1>3, <1>5 DEF HintTypeOK
  <2>2. FoundPrereqs' /\ FoundNone'
    BY <1>1, <1>2, <1>5 DEF FoundPrereqs, FoundNone, Open
  <2>3. PrereqsFirst' /\ OneUnlock'
    BY <1>5 DEF PrereqsFirst, OneUnlock, Open
  <2> QED
    BY <1>4, <2>1, <2>2, <2>3
<1>6. CASE /\ unlocks' = [unlocks EXCEPT ![c][h] = @ + 1]
           /\ score' = score - Cost[h]
           /\ late' = (late \/ r \in overran)
  <2>1. /\ unlocks' \in [Contest -> [Hint -> Nat]]
        /\ unlocks'[c][h] = unlocks[c][h] + 1
        /\ \A d \in Contest, g \in Hint :
              d # c \/ g # h => unlocks'[d][g] = unlocks[d][g]
    BY <1>1, <1>6 DEF HintTypeOK
  <2>2. score' \in Int /\ score' <= MaxPoints
    <3>1. Cost[h] \in Nat /\ score \in Int /\ score <= MaxPoints
      BY <1>1, CostAssumption DEF HintTypeOK
    <3> QED
      BY <1>6, <3>1, FaultAssumption
  <2>3. HintTypeOK'
    BY <1>1, <1>2, <1>3, <1>6, <2>1, <2>2 DEF HintTypeOK
  <2>4. \A d \in Contest, g \in Hint : Open(d, g) => Open(d, g)'
    <3> SUFFICES ASSUME NEW d \in Contest, NEW g \in Hint, unlocks[d][g] > 0
                 PROVE  unlocks'[d][g] > 0
      BY DEF Open
    <3>1. unlocks[d][g] \in Nat
      BY DEF HintTypeOK
    <3> QED
      BY <2>1, <3>1
  <2>5. FoundPrereqs'
    BY <1>1, <1>2, <2>4, PrereqAssumption DEF FoundPrereqs, HintTypeOK, Request
  <2>6. PrereqsFirst'
    BY <1>1, <2>1, <2>4, PrereqAssumption DEF PrereqsFirst, FoundPrereqs
  <2>7. ASSUME ~late' PROVE ~late /\ r \notin overran /\ lock[c] = r /\ unlocks[c][h] = 0
    BY <1>1, <1>6, <2>7 DEF FoundNone, LockIsKept
  <2>8. OneUnlock'
    BY <2>1, <2>7 DEF OneUnlock
  <2>9. FoundNone'
    <3> SUFFICES ASSUME ~late', NEW p \in Buyer \ overran', buy'[p].pc \in {"score", "save"}
                 PROVE  unlocks'[buy'[p].contest][buy'[p].hint] = 0
      BY DEF FoundNone
    <3>1. p # r /\ buy'[p] = buy[p] /\ p \in Inside \ overran
      BY <1>1, <1>2 DEF Inside
    <3>2. unlocks[buy[p].contest][buy[p].hint] = 0 /\ lock[buy[p].contest] = p
      BY <2>7, <3>1 DEF FoundNone, LockIsKept
    <3>3. buy[p].contest # c /\ buy[p].contest \in Contest /\ buy[p].hint \in Hint
      BY <2>7, <3>1, <3>2 DEF HintTypeOK, Request
    <3> QED
      BY <2>1, <3>1, <3>2, <3>3
  <2> QED
    BY <1>4, <2>3, <2>5, <2>6, <2>8, <2>9
<1> QED
  BY <1>5, <1>6 DEF Save

\* Leaving, by Release or Crash, frees at most one's own lock.
LEMMA LeaveKeeps ==
    ASSUME HintInv, NEW r \in Buyer, Release(r) \/ Crash(r)
    PROVE  HintInv'
<1> USE DEF HintInv
<1>1. /\ UNCHANGED <<unlocks, score, late>> /\ overran' = overran \ {r}
      /\ StepTo(r, "idle") /\ r \in Inside
  BY DEF Release, Crash, Inside
<1>2. /\ buy' \in [Buyer -> Request] /\ buy'[r].pc = "idle"
      /\ \A p \in Buyer : p # r => buy'[p] = buy[p]
  BY <1>1 DEF StepTo, HintTypeOK, Request, LockPc
<1>3. Inside' = Inside \ {r}
  BY <1>2 DEF Inside
<1>4. /\ lock' \in [Contest -> Buyer \cup {Free}]
      /\ \A d \in Contest : lock[d] # r => lock'[d] = lock[d]
  BY DEF Release, Crash, HintTypeOK
<1>5. HintTypeOK'
  BY <1>1, <1>2, <1>3, <1>4 DEF HintTypeOK
<1>6. LockIsKept'
  <2> SUFFICES ASSUME NEW p \in Inside' \ overran' PROVE lock'[buy'[p].contest] = p
    BY DEF LockIsKept
  <2>1. p \in Inside \ overran /\ p # r /\ p \in Buyer /\ buy'[p] = buy[p]
    BY <1>1, <1>2, <1>3 DEF Inside
  <2>2. lock[buy[p].contest] = p /\ buy[p].contest \in Contest
    BY <2>1 DEF LockIsKept, HintTypeOK, Request
  <2> QED
    BY <1>4, <2>1, <2>2
<1>7. FoundPrereqs' /\ FoundNone'
  BY <1>1, <1>2 DEF FoundPrereqs, FoundNone, Open
<1>8. PrereqsFirst' /\ OneUnlock'
  BY <1>1 DEF PrereqsFirst, OneUnlock, Open
<1> QED
  BY <1>5, <1>6, <1>7, <1>8

\* The TTL takes the lock of a request that is remembered as overrun.
LEMMA ExpireKeeps ==
    ASSUME HintInv, NEW c \in Contest, Expire(c)
    PROVE  HintInv'
<1> USE DEF HintInv
<1> DEFINE holders == {r \in Inside : lock[c] = r /\ buy[r].contest = c}
<1>1. /\ UNCHANGED <<buy, unlocks, score, late>>
      /\ overran' = overran \cup holders
      /\ lock' = [lock EXCEPT ![c] = Free]
  BY DEF Expire
<1>2. Inside' = Inside
  BY <1>1 DEF Inside
<1>3. HintTypeOK'
  BY <1>1, <1>2 DEF HintTypeOK
<1>4. LockIsKept'
  <2> SUFFICES ASSUME NEW p \in Inside' \ overran' PROVE lock'[buy'[p].contest] = p
    BY DEF LockIsKept
  <2>1. p \in Inside \ overran /\ p \notin holders
    BY <1>1, <1>2
  <2>2. lock[buy[p].contest] = p /\ buy[p].contest \in Contest
    BY <2>1 DEF LockIsKept, HintTypeOK, Request, Inside
  <2>3. buy[p].contest # c
    BY <2>1, <2>2
  <2> QED
    BY <1>1, <2>2, <2>3 DEF HintTypeOK
<1>5. FoundPrereqs' /\ FoundNone'
  BY <1>1 DEF FoundPrereqs, FoundNone, Open
<1>6. PrereqsFirst' /\ OneUnlock'
  BY <1>1 DEF PrereqsFirst, OneUnlock, Open
<1> QED
  BY <1>3, <1>4, <1>5, <1>6

LEMMA EarnKeeps ==
    ASSUME HintInv, Earn
    PROVE  HintInv'
<1> USE DEF HintInv
<1>1. UNCHANGED <<buy, lock, unlocks, overran, late>>
  BY DEF Earn
<1>2. HintTypeOK'
  BY <1>1, FaultAssumption DEF Earn, HintTypeOK, Inside
<1> QED
  BY <1>1, <1>2 DEF LockIsKept, FoundPrereqs, FoundNone, PrereqsFirst, OneUnlock, Open, Inside

LEMMA HintInvInductive ==
    ASSUME HintInv, [LockNext]_lockVars
    PROVE  HintInv'
<1>1. ASSUME NEW r \in Buyer, NEW c \in Contest, NEW h \in Hint, Acquire(r, c, h)
      PROVE  HintInv'
  BY <1>1, AcquireKeeps
<1>2. ASSUME NEW r \in Buyer, CheckPrereqs(r) \/ CheckExisting(r) \/ CheckScore(r)
      PROVE  HintInv'
  BY <1>2, ReadingKeeps
<1>3. ASSUME NEW r \in Buyer, Save(r) PROVE HintInv'
  BY <1>3, SaveKeeps
<1>4. ASSUME NEW r \in Buyer, Release(r) \/ Crash(r) PROVE HintInv'
  BY <1>4, LeaveKeeps
<1>5. ASSUME NEW c \in Contest, Expire(c) PROVE HintInv'
  BY <1>5, ExpireKeeps
<1>6. CASE Earn
  BY <1>6, EarnKeeps
<1>7. CASE UNCHANGED lockVars
  BY <1>7 DEF lockVars, HintInv, HintTypeOK, LockIsKept, FoundPrereqs, FoundNone, PrereqsFirst,
              OneUnlock, Open, Inside
<1> QED
  BY <1>1, <1>2, <1>3, <1>4, <1>5, <1>6, <1>7 DEF LockNext, UnlockHint

\* For every number of replicas and contests a request keeps its lock until it
\* releases it or outlives it (RedisLockHelper.cs:25-48).
THEOREM LocksAreKept == LockSpec => []LockIsKept
<1>1. HintInv => LockIsKept
  BY DEF HintInv
<1> QED
  BY HintInitInv, HintInvInductive, <1>1, PTL DEF LockSpec

\* Without a unique index, the lock alone keeps a team from paying twice for a
\* hint, unless somebody writes after its lock ran out (HintService.cs:401-449).
THEOREM HintsPaidOnce == LockSpec => []OneUnlock
<1>1. HintInv => OneUnlock
  BY DEF HintInv
<1> QED
  BY HintInitInv, HintInvInductive, <1>1, PTL DEF LockSpec

\* Hints are bought in the order of their prerequisites even if locks fail
\* (HintService.cs:356-398): unlocks are never taken back.
THEOREM HintsInOrder == LockSpec => []PrereqsFirst
<1>1. HintInv => PrereqsFirst
  BY DEF HintInv
<1> QED
  BY HintInitInv, HintInvInductive, <1>1, PTL DEF LockSpec

-----------------------------------------------------------------------------
(***************************************************************************)
(* Points, when the lock covers them: one contest.                         *)
(***************************************************************************)

\* A request about to write can still afford its hint.
Affordable ==
    ~late => \A r \in Buyer \ overran : buy[r].pc = "save" => Cost[buy[r].hint] <= score

ScoreInv == HintInv /\ Affordable /\ ScoreNotNegative

LEMMA ScoreInductive ==
    ASSUME \A c, d \in Contest : c = d, ScoreInv, [LockNext]_lockVars
    PROVE  ScoreInv'
<1> USE DEF ScoreInv
<1>0. HintInv' /\ HintInv /\ HintTypeOK /\ LockIsKept
  BY HintInvInductive DEF HintInv
<1>1. CASE UNCHANGED <<buy, score, late>> /\ overran \subseteq overran'
  <2>1. Affordable'
    BY <1>1 DEF Affordable
  <2>2. ScoreNotNegative'
    BY <1>1 DEF ScoreNotNegative
  <2> QED
    BY <1>0, <2>1, <2>2
<1>2. CASE Earn
  <2>1. \A r \in Buyer : buy[r].hint \in Hint
    BY <1>0 DEF HintTypeOK, Request
  <2>2. \A r \in Buyer : Cost[buy[r].hint] \in Nat
    BY <2>1, CostAssumption
  <2> QED
    BY <1>0, <1>2, <2>2 DEF Earn, Affordable, ScoreNotNegative, HintTypeOK
<1>3. ASSUME NEW r \in Buyer, UNCHANGED <<score, late>>,
             \A p \in Buyer : p # r => buy'[p] = buy[p] /\ (p \in overran <=> p \in overran'),
             buy'[r].pc = "save" => Cost[buy'[r].hint] <= score
      PROVE  ScoreInv'
  <2>1. ScoreNotNegative'
    BY <1>3 DEF ScoreNotNegative
  <2>2. Affordable'
    <3> SUFFICES ASSUME ~late', NEW p \in Buyer \ overran', buy'[p].pc = "save"
                 PROVE  Cost[buy'[p].hint] <= score'
      BY DEF Affordable
    <3>1. CASE p = r
      BY <1>3, <3>1
    <3>2. CASE p # r
      BY <1>3, <3>2 DEF Affordable
    <3> QED
      BY <3>1, <3>2
  <2> QED
    BY <1>0, <2>1, <2>2
<1>4. ASSUME NEW r \in Buyer, NEW c \in Contest, NEW h \in Hint, Acquire(r, c, h)
      PROVE  ScoreInv'
  <2>1. /\ UNCHANGED <<score, late, overran>> /\ buy'[r].pc = "prereqs"
        /\ \A p \in Buyer : p # r => buy'[p] = buy[p]
    BY <1>0, <1>4 DEF Acquire, HintTypeOK
  <2> QED
    BY <1>3, <2>1
<1>5. ASSUME NEW r \in Buyer, CheckPrereqs(r) \/ CheckExisting(r) \/ Release(r) \/ Crash(r)
      PROVE  ScoreInv'
  <2>1. PICK pc \in LockPc \ {"save"} : StepTo(r, pc)
    BY <1>5 DEF CheckPrereqs, CheckExisting, Release, Crash, LockPc
  <2>2. buy'[r].pc # "save" /\ \A p \in Buyer : p # r => buy'[p] = buy[p]
    BY <1>0, <2>1 DEF StepTo, HintTypeOK, Request
  <2>3. /\ UNCHANGED <<score, late>>
        /\ \A p \in Buyer : p # r => (p \in overran <=> p \in overran')
    BY <1>5 DEF CheckPrereqs, CheckExisting, Release, Crash
  <2> QED
    BY <1>3, <2>2, <2>3
<1>6. ASSUME NEW r \in Buyer, CheckScore(r)
      PROVE  ScoreInv'
  <2>1. PICK pc \in {"save", "release"} :
           StepTo(r, pc) /\ (pc = "save" => Cost[buy[r].hint] <= score)
    BY <1>6 DEF CheckScore
  <2>2. /\ buy'[r].pc = pc /\ buy'[r].hint = buy[r].hint
        /\ \A p \in Buyer : p # r => buy'[p] = buy[p]
    BY <1>0, <2>1 DEF StepTo, HintTypeOK, Request
  <2>3. UNCHANGED <<score, late, overran>>
    BY <1>6 DEF CheckScore
  <2> QED
    BY <1>3, <2>1, <2>2, <2>3
<1>7. ASSUME NEW r \in Buyer, Save(r)
      PROVE  ScoreInv'
  <2>1. /\ buy[r].pc = "save" /\ buy'[r].pc = "release" /\ overran' = overran
        /\ \A p \in Buyer : p # r => buy'[p] = buy[p]
    BY <1>0, <1>7 DEF Save, StepTo, HintTypeOK, Request
  <2>2. CASE UNCHANGED <<score, late>>
    BY <1>3, <2>1, <2>2
  <2>3. CASE score' = score - Cost[buy[r].hint] /\ late' = (late \/ r \in overran)
    <3> SUFFICES ASSUME ~late'
                 PROVE  /\ score' >= 0
                        /\ \A p \in Buyer \ overran' : buy'[p].pc # "save"
      BY <1>0 DEF Affordable, ScoreNotNegative
    <3>1. ~late /\ r \notin overran
      BY <2>3
    <3>2. score' >= 0
      <4>1. Cost[buy[r].hint] <= score
        BY <2>1, <3>1 DEF Affordable
      <4>2. Cost[buy[r].hint] \in Nat /\ score \in Int
        BY <1>0, CostAssumption DEF HintTypeOK, Request
      <4> QED
        BY <2>3, <4>1, <4>2
    <3>3. ASSUME NEW p \in Buyer \ overran', buy'[p].pc = "save" PROVE FALSE
      <4>1. p # r /\ buy[p].pc = "save" /\ p \notin overran
        BY <2>1, <3>3
      <4>2. lock[buy[p].contest] = p /\ lock[buy[r].contest] = r
        BY <1>0, <2>1, <3>1, <4>1 DEF LockIsKept, Inside
      <4>3. buy[p].contest = buy[r].contest
        BY <1>0 DEF HintTypeOK, Request
      <4> QED
        BY <4>1, <4>2, <4>3
    <3> QED
      BY <3>2, <3>3
  <2> QED
    BY <1>7, <2>2, <2>3 DEF Save
<1>8. ASSUME NEW c \in Contest, Expire(c)
      PROVE  ScoreInv'
  BY <1>1, <1>8 DEF Expire
<1>9. CASE UNCHANGED lockVars
  BY <1>1, <1>9 DEF lockVars
<1> QED
  BY <1>2, <1>4, <1>5, <1>6, <1>7, <1>8, <1>9 DEF LockNext, UnlockHint

LEMMA ScoreInitInv == LockInit => ScoreInv
<1> SUFFICES ASSUME LockInit PROVE Affordable /\ ScoreNotNegative
  BY HintInitInv DEF ScoreInv
<1>1. Affordable
  BY DEF LockInit, Affordable
<1>2. ScoreNotNegative
  BY FaultAssumption DEF LockInit, ScoreNotNegative
<1> QED
  BY <1>1, <1>2

\* In an installation with one contest a team never spends points it does not
\* have, "inside lock to prevent TOCTOU race" (HintService.cs:417-425).
THEOREM PointsSpentOnce ==
    ASSUME \A c, d \in Contest : c = d
    PROVE  LockSpec => []ScoreNotNegative
<1>1. ScoreInv => ScoreNotNegative
  BY DEF ScoreInv
<1> QED
  BY ScoreInitInv, <1>1, ScoreInductive, PTL DEF LockSpec

\* Everything but a write and a solve is invisible to the team.
LEMMA ShopStutters ==
    ASSUME UNCHANGED <<unlocks, score>>
    PROVE  UNCHANGED Shop!shop
BY DEF Shop!shop

\* A write by a request that still has its lock is a purchase.
LEMMA SaveBuys ==
    ASSUME ScoreInv, NEW r \in Buyer, Save(r), ~late'
    PROVE  [Shop!ShopNext]_(Shop!shop)
<1>0. PICK c \in Contest, h \in Hint : buy[r].contest = c /\ buy[r].hint = h
  BY DEF ScoreInv, HintInv, HintTypeOK, Request
<1>1. HintTypeOK /\ buy[r].pc = "save"
  BY DEF Save, ScoreInv, HintInv
<1>2. CASE UNCHANGED <<unlocks, score, late>>
  BY <1>2, ShopStutters
<1>3. CASE /\ unlocks' = [unlocks EXCEPT ![c][h] = @ + 1]
           /\ score' = score - Cost[h]
           /\ late' = (late \/ r \in overran)
  <2>1. ~late /\ r \notin overran
    BY <1>3
  <2>2. unlocks[c][h] = 0 /\ Cost[h] <= score
    BY <1>0, <1>1, <2>1 DEF ScoreInv, HintInv, FoundNone, Affordable
  <2>3. \A p \in Prereqs[h] : unlocks[c][p] > 0 \/ Cost[p] = 0
    BY <1>0, <1>1 DEF ScoreInv, HintInv, FoundPrereqs, Open
  <2>4. /\ \A d \in Contest, g \in Hint : unlocks[d][g] \in Nat
        /\ unlocks'[c][h] = unlocks[c][h] + 1
        /\ \A d \in Contest, g \in Hint : d # c \/ g # h => unlocks'[d][g] = unlocks[d][g]
    BY <1>1, <1>3 DEF HintTypeOK
  <2> DEFINE Bought == {p \in Contest \X Hint : unlocks[p[1]][p[2]] > 0}
  <2>5. \A d \in Contest, g \in Hint : unlocks'[d][g] > 0 <=> unlocks[d][g] > 0 \/ (d = c /\ g = h)
    BY <1>1, <2>2, <2>4
  <2>6. Bought' = Bought \cup {<<c, h>>}
    BY <2>5
  <2>7. <<c, h>> \notin Bought
    BY <2>2
  <2>8. \A p \in Prereqs[h] : <<c, p>> \in Bought \/ Cost[p] = 0
    BY <2>3, PrereqAssumption
  <2>9. Shop!Buy(c, h)
    BY <1>3, <2>2, <2>6, <2>7, <2>8 DEF Shop!Buy, Shop!Owned
  <2> QED
    BY <2>9 DEF Shop!ShopNext
<1> QED
  BY <1>0, <1>2, <1>3 DEF Save

\* UnlockHint on any number of replicas implements the shop, as long as nobody
\* writes after its lock ran out: what a request read at HintService.cs:354-425
\* is still true when it writes at :427-449.
THEOREM ImplementsShop ==
    ASSUME \A c, d \in Contest : c = d
    PROVE  LockSpec => ShopSafety
<1>1. LockInit => Shop!ShopInit
  BY FaultAssumption DEF LockInit, Shop!ShopInit
<1>2. ScoreInv /\ [LockNext]_lockVars => [~late' => Shop!ShopNext]_(Shop!shop)
  <2> SUFFICES ASSUME ScoreInv, [LockNext]_lockVars, ~late'
               PROVE  [Shop!ShopNext]_(Shop!shop)
    BY Zenon
  <2>1. ASSUME NEW r \in Buyer, Save(r) PROVE [Shop!ShopNext]_(Shop!shop)
    BY <2>1, SaveBuys
  <2>2. CASE Earn
    BY <2>2 DEF Earn, Shop!ShopNext, Shop!Win
  <2>3. CASE UNCHANGED <<unlocks, score>>
    BY <2>3, ShopStutters
  <2>4. ASSUME NEW r \in Buyer, UnlockHint(r) \/ Crash(r), ~Save(r)
        PROVE  UNCHANGED <<unlocks, score>>
    BY <2>4 DEF UnlockHint, Acquire, CheckPrereqs, CheckExisting, CheckScore, Release, Crash
  <2>5. ASSUME NEW c \in Contest, Expire(c) PROVE UNCHANGED <<unlocks, score>>
    BY <2>5 DEF Expire
  <2> QED
    BY <2>1, <2>2, <2>3, <2>4, <2>5 DEF LockNext, lockVars
<1> QED
  BY <1>1, <1>2, ScoreInitInv, ScoreInductive, PTL DEF LockSpec, ShopSafety
-----------------------------------------------------------------------------
(***************************************************************************)
(* All the services of a team.                                             *)
(***************************************************************************)

LEMMA RedisTypeInductive ==
    ASSUME RedisTypeOK, [RedisNext]_redis
    PROVE  RedisTypeOK'
<1>1. ASSUME NEW c \in Challenge, NEW e \in Entry,
             CreatePass(c, e) \/ UpdateExpiration(c, e) \/ SetCache(c, e)
      PROVE  RedisTypeOK'
  BY <1>1 DEF CreatePass, Swept, UpdateExpiration, redis, SetCache, RedisTypeOK
<1>2. ASSUME NEW c \in Challenge,
             \/ CreateAlreadyExists(c) \/ CreateLimitExceeded(c)
             \/ RemoveDeployment(c) \/ RemoveCache(c)
      PROVE  RedisTypeOK'
  BY <1>2 DEF CreateAlreadyExists, CreateLimitExceeded, Swept, RemoveDeployment, RemoveCache,
              RedisTypeOK
<1>3. CASE RedisElapse
  BY <1>3 DEF RedisElapse, TimePasses, RedisTypeOK
<1>4. CASE UNCHANGED redis
  BY <1>4 DEF redis, RedisTypeOK
<1> QED
  BY <1>1, <1>2, <1>3, <1>4 DEF RedisNext, RedisCommand

\* A service at rest keeps what the running ones do not share.
ServicesInv == RedisTypeOK /\ TimedTypeOK /\ SubInv /\ HintInv

LEMMA ServicesStep ==
    ASSUME "overlap" \notin May, ServicesInv, [ContestantNext]_serviceVars
    PROVE  ServicesInv'
<1>1. /\ [RedisNext]_redis /\ [TimedNext]_timedVars
      /\ [Next]_vars /\ [LockNext]_lockVars
  BY DEF ContestantNext, serviceVars
<1> QED
  BY <1>1, RedisTypeInductive, TimedTypeInductive, SubInvInductive, HintInvInductive
     DEF ServicesInv

(* Whichever service runs, the keys, rows, counters and lock owners of a   *)
(* team keep their types, for all the scripts of RedisHelper.cs and        *)
(* RedisLockHelper.cs and every value of TTLs, limits and prices.          *)
THEOREM ServicesTyped ==
    ASSUME "overlap" \notin May
    PROVE  ContestantSpec => []ServicesTypeOK
<1>1. ContestantInit => ServicesInv
  <2>1. RedisInit => RedisTypeOK
    BY DEF RedisInit, RedisTypeOK
  <2>2. TimedInit => TimedTypeOK
    BY DEF TimedInit, TimedTypeOK
  <2> QED
    BY <2>1, <2>2, SubInitInv, HintInitInv DEF ContestantInit, ServicesInv
<1>2. ServicesInv => ServicesTypeOK
  BY DEF ServicesInv, ServicesTypeOK, SubInv, HintInv
<1> QED
  BY <1>1, <1>2, ServicesStep, PTL DEF ContestantSpec
=============================================================================
