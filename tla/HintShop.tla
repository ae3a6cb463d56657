------------------------------ MODULE HintShop ------------------------------
(***************************************************************************)
(* What the hint service promises a team, free of locks and requests: a    *)
(* shop where a hint is bought in one step, never twice, after the hints   *)
(* it requires, and with points the team has at that moment.               *)
(***************************************************************************)
EXTENDS Integers

CONSTANTS Contest, Hint,
          Cost,      \* [Hint -> points]
          Prereqs    \* [Hint -> hints to own before it]

VARIABLES owned,     \* the hints the team owns, each with its contest
          points     \* what the team can spend

shop == <<owned, points>>

ShopInit == owned = {} /\ points \in Nat

Owned(c, h) == <<c, h>> \in owned \/ Cost[h] = 0

Buy(c, h) ==
    /\ <<c, h>> \notin owned
    /\ \A p \in Prereqs[h] : Owned(c, p)
    /\ Cost[h] <= points
    /\ owned' = owned \cup {<<c, h>>}
    /\ points' = points - Cost[h]

\* The team earns a point elsewhere.
Win == points' = points + 1 /\ UNCHANGED owned

ShopNext == (\E c \in Contest, h \in Hint : Buy(c, h)) \/ Win

ShopSpec == ShopInit /\ [][ShopNext]_shop
=============================================================================
