------------------------------ MODULE LifeGame ------------------------------
(***************************************************************************)
(* What the game promises its players, without chunks, buffers, threads or *)
(* queues: one unbounded plane of owned cells evolves by Conway's rule,    *)
(* all cells at once; a newborn cell goes to the majority among its three  *)
(* parents; edits are made and paid for between the evolution of a         *)
(* generation and its income, one coin per living cell.                    *)
(***************************************************************************)
EXTENDS Integers, FiniteSets, FiniteSetsExt

CONSTANTS
    Gamers,                                     \* positive player ids
    Start, PlacePrice, RemoveRefund, CellIncome

VARIABLES
    plane,      \* the owner of each living position
    balance,    \* the coins of each known player
    stage       \* "settled" between generations, "evolved" while edits are made
vars == <<plane, balance, stage>>

Neighbours(pos) ==
    {<<pos[1] + d[1], pos[2] + d[2]>> : d \in (-1 .. 1) \X (-1 .. 1)}

Parents(pos) == (Neighbours(pos) \ {pos}) \cap DOMAIN plane
Votes(pos, p) == Cardinality({q \in Parents(pos) : plane[q] = p})
Heir(pos) ==
    LET electors == {plane[q] : q \in Parents(pos)}
    IN  Max({p \in electors : \A q \in electors : Votes(pos, q) <= Votes(pos, p)})

Surviving == {pos \in DOMAIN plane : Cardinality(Parents(pos)) \in 2 .. 3}
Newborn ==
    {pos \in (UNION {Neighbours(q) : q \in DOMAIN plane}) \ DOMAIN plane :
        Cardinality(Parents(pos)) = 3}

Belonging(p) == Cardinality({pos \in DOMAIN plane : plane[pos] = p})
Living == {plane[pos] : pos \in DOMAIN plane}

---------------------------------------------------------------------------
Init == plane = [pos \in {} |-> 0] /\ balance = [p \in {} |-> 0] /\ stage = "settled"

Join(p) ==
    /\ balance' = [q \in DOMAIN balance \cup {p} |-> IF q = p THEN Start ELSE balance[q]]
    /\ UNCHANGED <<plane, stage>>

Evolve ==
    /\ stage = "settled"
    /\ stage' = "evolved"
    /\ plane' = [pos \in Surviving \cup Newborn |->
                    IF pos \in Surviving THEN plane[pos] ELSE Heir(pos)]
    /\ UNCHANGED balance

\* Some edit of a player, wherever it is: which command it carries out, and
\* that none is left out, EditsAreCarriedOut of GameServerRefinement.tla says.
Place(p) ==
    /\ stage = "evolved"
    /\ p \in DOMAIN balance /\ balance[p] >= PlacePrice
    /\ balance' = [balance EXCEPT ![p] = @ - PlacePrice]
    /\ \E pos \in DOMAIN plane' \ DOMAIN plane :
        plane' = [q \in DOMAIN plane \cup {pos} |-> IF q = pos THEN p ELSE plane[q]]
    /\ UNCHANGED stage

Remove(p) ==
    /\ stage = "evolved"
    /\ p \in DOMAIN balance
    /\ balance' = [balance EXCEPT ![p] = @ + RemoveRefund]
    /\ \E pos \in DOMAIN plane :
        plane[pos] = p /\ plane' = [q \in DOMAIN plane \ {pos} |-> plane[q]]
    /\ UNCHANGED stage

Income ==
    /\ stage = "evolved"
    /\ stage' = "settled"
    /\ balance' =
        [p \in DOMAIN balance \cup Living |->
            (IF p \in DOMAIN balance THEN balance[p] ELSE 0) + CellIncome * Belonging(p)]
    /\ UNCHANGED plane

Next ==
    \/ \E p \in Gamers : Join(p) \/ Place(p) \/ Remove(p)
    \/ Evolve
    \/ Income

Spec == Init /\ [][Next]_vars
=============================================================================
