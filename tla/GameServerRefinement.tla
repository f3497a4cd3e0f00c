------------------------ MODULE GameServerRefinement ------------------------
(***************************************************************************)
(* The chunked, double-buffered, multi-threaded server implements LifeGame.*)
(* The plane changes when the last calculateNext is done: from then on a   *)
(* chunk that is not swapped yet counts with its other buffer.             *)
(***************************************************************************)
EXTENDS GameServer

\* Chunks of the swap phase whose task has not run.
Unswapped ==
    IF phase # "swap" THEN {}
    ELSE {t[2] : t \in pool} \cup {running[w][2] : w \in {v \in Workers : running[v] # Idle}}

Shown(c) == IF c \in Unswapped THEN SwapBuffers(world[c]) ELSE world[c]

\* The positions whose cell is alive, and the cell at a position.
LivingPositions ==
    {Global(x[1], x[2]) : x \in {y \in (DOMAIN world) \X Inner : GetCell(Shown(y[1]), y[2]).alive}}
CellAt(pos) ==
    GetCell(Shown(<<pos[1] \div Width, pos[2] \div Height>>), <<pos[1] % Width, pos[2] % Height>>)

Plane == [pos \in LivingPositions |-> CellAt(pos).owner]

Game == INSTANCE LifeGame WITH
    Gamers <- Players, Start <- StartBalance, PlacePrice <- PlaceCost,
    RemoveRefund <- RemoveAward, CellIncome <- AliveAward,
    plane <- Plane, balance <- balance,
    stage <- IF phase \in {"swap", "apply", "award"} THEN "evolved" ELSE "settled"

\* Every step of the server is a step of the game or changes nothing in it:
\* the generations, the edits, their prices and the income are the game's.
ImplementsLifeGame == Game!Spec

---------------------------------------------------------------------------
\* Which edit a command is, by what the plane shows at its position.
PlacesOnPlane(cmd) ==
    /\ cmd.type \in {"place", "toggle"} /\ cmd.pos \notin DOMAIN Plane
    /\ cmd.player \in DOMAIN balance /\ balance[cmd.player] >= PlaceCost

RemovesFromPlane(cmd) ==
    /\ cmd.type \in {"remove", "toggle"} /\ cmd.pos \in DOMAIN Plane
    /\ cmd.player \in DOMAIN balance /\ Plane[cmd.pos] = cmd.player

EditedPlane(cmd) ==
    IF PlacesOnPlane(cmd)
    THEN [pos \in DOMAIN Plane \cup {cmd.pos} |-> IF pos = cmd.pos THEN cmd.player ELSE Plane[pos]]
    ELSE [pos \in DOMAIN Plane \ {q \in {cmd.pos} : RemovesFromPlane(cmd)} |-> Plane[pos]]

PaidBalance(cmd) ==
    IF PlacesOnPlane(cmd) THEN [balance EXCEPT ![cmd.player] = @ - PlaceCost]
    ELSE IF RemovesFromPlane(cmd) THEN [balance EXCEPT ![cmd.player] = @ + RemoveAward]
    ELSE balance

\* The next command pushed by a client is carried out at its position, for its
\* player and at its price, whenever the plane and the balance allow it, and
\* nothing else is: between the generation and the income the plane changes
\* by the commands alone, in their order (applyCommands, World.cpp:25-80).
\* ImplementsLifeGame says only that what happens is an edit of the game.
EditsAreCarriedOut ==
    [][/\ applied' # applied =>
            LET cmd == pushed[applied'] IN Plane' = EditedPlane(cmd) /\ balance' = PaidBalance(cmd)
       /\ phase = "apply" /\ applied' = applied => Plane' = Plane]_vars
=============================================================================
