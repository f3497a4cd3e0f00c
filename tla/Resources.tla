----------------------------- MODULE Resources -----------------------------
(***************************************************************************)
(* The players' balances (server/src/ResourceManager.cpp).  `balance` maps *)
(* the players the manager knows to what they own; every operation takes   *)
(* the manager's lock once, so each is one step of its caller.             *)
(***************************************************************************)
EXTENDS Integers

\* server/include/World.hpp and ResourceManager.hpp
StartBalance == 10
PlaceCost == 2
RemoveAward == 1
AliveAward == 1

\* The entry is written whether or not the player is already there.
AddPlayer(balance, p) ==
    [q \in DOMAIN balance \cup {p} |-> IF q = p THEN StartBalance ELSE balance[q]]

GetBalance(balance, p) == IF p \in DOMAIN balance THEN balance[p] ELSE 0

CanSpend(balance, p, amount) == p \in DOMAIN balance /\ balance[p] >= amount
Spend(balance, p, amount) == [balance EXCEPT ![p] = @ - amount]

CanAward(balance, p) == p \in DOMAIN balance
Award(balance, p, amount) == [balance EXCEPT ![p] = @ + amount]

\* counts maps owners of live cells to how many they have; an owner the
\* manager does not know gets an entry.
AwardFromLiveCounts(balance, counts) ==
    [q \in DOMAIN balance \cup DOMAIN counts |->
        GetBalance(balance, q) + IF q \in DOMAIN counts THEN AliveAward * counts[q] ELSE 0]
=============================================================================
