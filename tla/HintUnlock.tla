----------------------------- MODULE HintUnlock -----------------------------
(***************************************************************************)
(* HintService.UnlockHint under RedisLockHelper: requests of one group of  *)
(* users, on any replica of ContestantBE, buy hints with points.  The      *)
(* users form one team in each contest; the lock and the unlocks are of    *)
(* that team, the points are those of the users in all contests.           *)
(*                                                                         *)
(* The lock has a TTL of 30 seconds, so a request that takes longer goes   *)
(* on without it.  The table unlocks has no unique index.                  *)
(***************************************************************************)
EXTENDS Integers

CONSTANTS
    Contest, Hint,
    Buyer,       \* requests in flight
    Cost,      \* [Hint -> points]
    Prereqs,   \* [Hint -> hints to unlock before it]
    Free,      \* no owner of a lock
    MaxPoints, \* bound: points the team earns at most
    LockMay        \* which of LockFaults can happen

\* overrun: a request takes longer than its lock.  crash: a replica dies, or
\* cannot reach Redis to release.  db: the database refuses the write.
LockFaults == {"overrun", "crash", "db"}

ASSUME CostAssumption == Cost \in [Hint -> Nat]
ASSUME PrereqAssumption == Prereqs \in [Hint -> SUBSET Hint]
ASSUME FreeAssumption == Free \notin Buyer
ASSUME FaultAssumption == LockMay \subseteq LockFaults /\ MaxPoints \in Nat
ASSUME SomeAssumption == Contest # {} /\ Hint # {}

VARIABLES
    buy,      \* [Buyer -> where it is, its contest and hint]
    lock,     \* [Contest -> the request whose token the key holds, or Free]
    unlocks,  \* [Contest -> [Hint -> rows of unlocks]]
    score,    \* GetTeamScore: solves and awards of the users
    overran,  \* requests that outlived their lock (a history variable)
    late      \* has one of them written? (a history variable)

lockVars == <<buy, lock, unlocks, score, overran, late>>

LockPc == {"idle", "prereqs", "existing", "score", "save", "release"}
Request == [pc : LockPc, contest : Contest, hint : Hint]

\* Requests between AcquireLock and ReleaseLock.
Inside == {r \in Buyer : buy[r].pc # "idle"}

HintTypeOK == /\ buy \in [Buyer -> Request]
              /\ lock \in [Contest -> Buyer \cup {Free}]
              /\ unlocks \in [Contest -> [Hint -> Nat]]
              /\ score \in Int /\ score <= MaxPoints
              /\ overran \subseteq Inside
              /\ late \in BOOLEAN

LockInit ==
        /\ buy \in [Buyer -> {[pc |-> "idle", contest |-> CHOOSE c \in Contest : TRUE,
                             hint |-> CHOOSE h \in Hint : TRUE]}]
        /\ lock = [c \in Contest |-> Free]
        /\ unlocks = [c \in Contest |-> [h \in Hint |-> 0]]
        /\ score \in 0 .. MaxPoints
        /\ overran = {}
        /\ late = FALSE

StepTo(r, pc) == buy' = [buy EXCEPT ![r].pc = pc]

-----------------------------------------------------------------------------
\* Mutant: SET without NX.
BugAcquire(r, c, h) ==
    /\ buy[r].pc = "idle"
    /\ lock' = [lock EXCEPT ![c] = r]
    /\ buy' = [buy EXCEPT ![r] = [pc |-> "prereqs", contest |-> c, hint |-> h]]
    /\ UNCHANGED <<unlocks, score, overran, late>>

\* AcquireLock, SET NX with a TTL; a request that finds the key gives up.
Acquire(r, c, h) ==
    /\ buy[r].pc = "idle"
    /\ lock[c] = Free
    /\ lock' = [lock EXCEPT ![c] = r]
    /\ buy' = [buy EXCEPT ![r] = [pc |-> "prereqs", contest |-> c, hint |-> h]]
    /\ UNCHANGED <<unlocks, score, overran, late>>

\* Unlocked, or free of charge.
Open(c, h) == unlocks[c][h] > 0 \/ Cost[h] = 0

\* Mutant: one prerequisite is enough.
BugCheckPrereqs(r) ==
    LET q == buy[r]
    IN  /\ q.pc = "prereqs"
        /\ \/ (Prereqs[q.hint] = {} \/ \E p \in Prereqs[q.hint] : Open(q.contest, p))
              /\ StepTo(r, "existing")
           \/ (\A p \in Prereqs[q.hint] : ~Open(q.contest, p)) /\ Prereqs[q.hint] # {}
              /\ StepTo(r, "release")
        /\ UNCHANGED <<lock, unlocks, score, overran, late>>

CheckPrereqs(r) ==
    LET q == buy[r]
    IN  /\ q.pc = "prereqs"
        /\ \/ (\A p \in Prereqs[q.hint] : Open(q.contest, p)) /\ StepTo(r, "existing")
           \/ (\E p \in Prereqs[q.hint] : ~Open(q.contest, p)) /\ StepTo(r, "release")
        /\ UNCHANGED <<lock, unlocks, score, overran, late>>

CheckExisting(r) ==
    LET q == buy[r]
    IN  /\ q.pc = "existing"
        /\ \/ unlocks[q.contest][q.hint] = 0 /\ StepTo(r, "score")
           \/ unlocks[q.contest][q.hint] > 0 /\ StepTo(r, "release")
        /\ UNCHANGED <<lock, unlocks, score, overran, late>>

\* Mutant: off by one, a point is lent.
BugCheckScore(r) ==
    /\ buy[r].pc = "score"
    /\ \/ Cost[buy[r].hint] <= score + 1 /\ StepTo(r, "save")
       \/ Cost[buy[r].hint] > score + 1 /\ StepTo(r, "release")
    /\ UNCHANGED <<lock, unlocks, score, overran, late>>

CheckScore(r) ==
    /\ buy[r].pc = "score"
    /\ \/ Cost[buy[r].hint] <= score /\ StepTo(r, "save")
       \/ Cost[buy[r].hint] > score /\ StepTo(r, "release")
    /\ UNCHANGED <<lock, unlocks, score, overran, late>>

\* The unlock and the award of minus its cost, in one transaction.
Save(r) ==
    LET q == buy[r]
    IN  /\ q.pc = "save"
        /\ StepTo(r, "release")
        /\ \/ /\ unlocks' = [unlocks EXCEPT ![q.contest][q.hint] = @ + 1]
              /\ score' = score - Cost[q.hint]
              /\ late' = (late \/ r \in overran)
           \/ "db" \in LockMay /\ UNCHANGED <<unlocks, score, late>>
        /\ UNCHANGED <<lock, overran>>

\* Mutant: DEL without comparing the token.
BugRelease(r) ==
    /\ buy[r].pc = "release"
    /\ lock' = [lock EXCEPT ![buy[r].contest] = Free]
    /\ StepTo(r, "idle")
    /\ overran' = overran \ {r}
    /\ UNCHANGED <<unlocks, score, late>>

\* ReleaseLock, in the finally block.
Release(r) ==
    /\ buy[r].pc = "release"
    /\ lock' = [lock EXCEPT ![buy[r].contest] = IF @ = r THEN Free ELSE @]
    /\ StepTo(r, "idle")
    /\ overran' = overran \ {r}
    /\ UNCHANGED <<unlocks, score, late>>

-----------------------------------------------------------------------------
\* The replica dies; its lock stays.
Crash(r) ==
    /\ "crash" \in LockMay
    /\ r \in Inside
    /\ StepTo(r, "idle")
    /\ overran' = overran \ {r}
    /\ UNCHANGED <<lock, unlocks, score, late>>

\* The TTL of a lock runs out: after 30 seconds, when its owner is through
\* unless it overruns.
Expire(c) ==
    LET holders == {r \in Inside : lock[c] = r /\ buy[r].contest = c}
    IN  /\ lock[c] # Free
        /\ holders # {} => "overrun" \in LockMay
        /\ lock' = [lock EXCEPT ![c] = Free]
        /\ overran' = overran \cup holders
        /\ UNCHANGED <<buy, unlocks, score, late>>

\* The team solves a challenge.
Earn == /\ score < MaxPoints
        /\ score' = score + 1
        /\ UNCHANGED <<buy, lock, unlocks, overran, late>>

UnlockHint(r) == \/ \E c \in Contest, h \in Hint : Acquire(r, c, h)
                 \/ CheckPrereqs(r) \/ CheckExisting(r) \/ CheckScore(r)
                 \/ Save(r) \/ Release(r)

LockNext ==
        \/ \E r \in Buyer : UnlockHint(r) \/ Crash(r)
        \/ \E c \in Contest : Expire(c)
        \/ Earn

LockSpec == LockInit /\ [][LockNext]_lockVars

-----------------------------------------------------------------------------
(***************************************************************************)
(* Properties.                                                             *)
(***************************************************************************)

\* A request has its lock until it releases it or outlives it; nobody else's
\* release, crash or expiry takes it away (RedisLockHelper.cs:25-48).
LockIsKept == \A r \in Inside \ overran : lock[buy[r].contest] = r

\* A team pays for a hint once, as long as no request has written after its
\* lock ran out (HINT-01 and HINT-02 in Test/RaceCondition/TestCases.md;
\* HintService.cs:401-449).
OneUnlock == ~late => \A c \in Contest, h \in Hint : unlocks[c][h] <= 1

\* Nobody buys with points that are already spent: "Check score inside lock to
\* prevent TOCTOU race" (HintService.cs:417).  True in one contest; with two,
\* refuted, because the lock is of one contest and the points are of all.
ScoreNotNegative == ~late => score >= 0

\* Requests that interleave look like purchases in a shop, one after the other
\* and each with points that are there, until one writes after its lock ran out:
\* the checks at HintService.cs:356-425 and the write at :427-449 are one step
\* to the team.  Like ScoreNotNegative, with one contest.
Shop == INSTANCE HintShop
            WITH owned <- {p \in Contest \X Hint : unlocks[p[1]][p[2]] > 0},
                 points <- score

ShopSafety == Shop!ShopInit /\ [][~late' => Shop!ShopNext]_(Shop!shop)

\* A hint is bought only after those it requires, whatever the locks do
\* (HintService.cs:356-398).
PrereqsFirst ==
    \A c \in Contest, h \in Hint :
        unlocks[c][h] > 0 => \A p \in Prereqs[h] : Open(c, p)
=============================================================================
