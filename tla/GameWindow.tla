------------------------------ MODULE GameWindow ------------------------------
(***************************************************************************)
(* The client's window: GameWindow with the edits a player makes at once   *)
(* or queues (client/src/GameWindow.cpp) and InfiniteGridView with the     *)
(* mouse and the fading of cells (client/src/InfiniteGridView.cpp).  All   *)
(* handlers run on the UI thread, one after the other.                     *)
(*                                                                         *)
(* What comes from the network is any sequence of worlds and statistics;   *)
(* ClientConnection.tla and WorldSync.tla say which.  An edit is sent by   *)
(* queueing it for the network thread, ClientConnection's SendEdit.        *)
(***************************************************************************)
EXTENDS Integers, FiniteSets, Functions

CONSTANTS
    Cells,          \* positions of the plane
    Gamers,         \* player ids
    Balances,       \* balances the statistics may report
    FullLife        \* steps of the timer until a cell has faded in or out

ASSUME GameWindowAssumption ==
    /\ Gamers \subseteq Nat \ {0}
    /\ Balances \subseteq Nat
    /\ FullLife \in Nat \ {0}

VARIABLES
    me,             \* m_lastParams.playerId
    alive,          \* m_worldModel: the owner of each living cell
    serverPlayers,  \* m_serverPlayers: player -> balance
    pending,        \* m_pendingEdits: cell -> action
    overlay,        \* the copy of it the grid draws
    visuals,        \* m_cellVisuals: cell -> [life, target]
    mouse,          \* "up", "pressed", or "void" if the release will be no click
    sent,           \* edits that the last handler sent
    refused,        \* and those it rejected
    news            \* the world, the balances or the player changed after the last queueing

modelVars == <<me, alive, serverPlayers>>
editVars == <<pending, overlay>>
vars == <<modelVars, editVars, visuals, mouse, sent, refused, news>>

NoOwner == 0
Actions == {"toggle", "place", "remove"}
Nothing == [c \in {} |-> NoOwner]

OwnerAt(c) == IF c \in DOMAIN alive THEN alive[c] ELSE NoOwner
BalanceKnown == me \in DOMAIN serverPlayers
ClientPlaceCost == 2

---------------------------------------------------------------------------
\* The grid: what is drawn fades in and out.

\* Mistaken variant: only a cell that had faded out comes to life again.
SyncVisualStateOfNew(visual, living) ==
    [c \in DOMAIN visual \cup living |->
        IF c \notin DOMAIN visual THEN [life |-> 0, target |-> TRUE]
        ELSE [visual[c] EXCEPT !.target = @ /\ c \in living]]

\* syncVisualState: run whenever the model changes or edits are shown.
SyncVisualState(visual, living) ==
    [c \in DOMAIN visual \cup living |->
        [life |-> IF c \in DOMAIN visual THEN visual[c].life ELSE 0, target |-> c \in living]]

\* Mistaken variant: a cell fading out is kept.
FadedStaying(visual) ==
    [c \in DOMAIN visual |->
        LET step == IF visual[c].target THEN 1 ELSE -1
            life == visual[c].life + step
        IN  [visual[c] EXCEPT !.life = IF life > FullLife THEN FullLife ELSE IF life < 0 THEN 0 ELSE life]]

\* Mistaken variant: a cell grows beyond its full size.
FadedBeyond(visual) ==
    LET life(c) == IF visual[c].target THEN visual[c].life + 1
                   ELSE IF visual[c].life > 0 THEN visual[c].life - 1 ELSE 0
    IN  [c \in {d \in DOMAIN visual : visual[d].target \/ life(d) > 0} |->
            [visual[c] EXCEPT !.life = IF life(c) > FullLife + 1 THEN FullLife ELSE life(c)]]

\* One timeout of the animation's timer.
Faded(visual) ==
    LET life(c) == IF visual[c].target THEN IF visual[c].life < FullLife THEN visual[c].life + 1 ELSE FullLife
                   ELSE IF visual[c].life > 0 THEN visual[c].life - 1 ELSE 0
    IN  [c \in {d \in DOMAIN visual : visual[d].target \/ life(d) > 0} |-> [visual[c] EXCEPT !.life = life(c)]]

AnimTick ==
    /\ visuals' = Faded(visuals)
    /\ sent' = {} /\ refused' = {}
    /\ UNCHANGED <<modelVars, editVars, mouse, news>>

---------------------------------------------------------------------------
\* Signals and the connection dialog.

\* worldUpdateReceived: applyUpdate, then worldChanged.
ApplyUpdate ==
    /\ \E living \in SUBSET Cells : alive' \in [living -> Gamers]
    /\ visuals' = SyncVisualState(visuals, DOMAIN alive')
    /\ sent' = {} /\ refused' = {} /\ news' = TRUE
    /\ UNCHANGED <<me, serverPlayers, editVars, mouse>>

\* serverStatsUpdated, or the connection is down and the statistics cleared.
OnServerStatsUpdated ==
    /\ \E known \in SUBSET Gamers : serverPlayers' \in [known -> Balances]
    /\ sent' = {} /\ refused' = {} /\ news' = TRUE
    /\ UNCHANGED <<me, alive, editVars, visuals, mouse>>

\* openConnectionDialog: the model is reset, the queued edits are not.
OpenConnectionDialog ==
    /\ me' \in Gamers
    /\ alive' = Nothing
    /\ visuals' = SyncVisualState(visuals, {})
    /\ sent' = {} /\ refused' = {} /\ news' = TRUE
    /\ UNCHANGED <<serverPlayers, editVars, mouse>>

---------------------------------------------------------------------------
\* Edits.

\* Mistaken variant: whoever toggles must be able to pay.
PermittedPaying(action, c) ==
    /\ action = "place" => OwnerAt(c) = NoOwner
    /\ action = "remove" => OwnerAt(c) = me
    /\ action = "toggle" => OwnerAt(c) \in {NoOwner, me}
    /\ action # "remove" /\ BalanceKnown => serverPlayers[me] >= ClientPlaceCost

\* sendAction's checks.
Permitted(action, c) ==
    /\ action = "place" => OwnerAt(c) = NoOwner
    /\ action = "remove" => OwnerAt(c) = me
    /\ action = "toggle" => OwnerAt(c) \in {NoOwner, me}
    /\ action # "remove" /\ OwnerAt(c) = NoOwner /\ BalanceKnown => serverPlayers[me] >= ClientPlaceCost

\* sendAction of each edit, against the same picture of the world.
SendActions(edits) ==
    /\ sent' = {e \in edits : Permitted(e.action, e.cell)}
    /\ refused' = edits \ sent'

ShowPending ==
    /\ overlay' = pending'
    /\ visuals' = SyncVisualState(visuals, DOMAIN alive)

\* onGridCellClicked's own checks for the queue.
Allowed(action, c) ==
    \/ action = "place" /\ OwnerAt(c) = NoOwner
    \/ action = "remove" /\ OwnerAt(c) = me
    \/ action = "toggle" /\ OwnerAt(c) \in {NoOwner, me}

\* Mistaken variant: a toggle is taken to be free.
WillSpendPlacing(action, c) ==
    IF action = "place" /\ OwnerAt(c) = NoOwner THEN ClientPlaceCost ELSE 0

WillSpend(action, c) ==
    IF action \in {"place", "toggle"} /\ OwnerAt(c) = NoOwner THEN ClientPlaceCost ELSE 0

QueuedSpend == FoldFunctionOnSet(+, 0, [c \in DOMAIN pending |-> WillSpend(pending[c], c)], DOMAIN pending)

Affordable(action, c) == BalanceKnown => QueuedSpend + WillSpend(action, c) <= serverPlayers[me]

\* The same edit again takes it back, another replaces it.
Toggled(action, c) ==
    IF c \in DOMAIN pending /\ pending[c] = action
    THEN Restrict(pending, DOMAIN pending \ {c})
    ELSE [d \in DOMAIN pending \cup {c} |-> IF d = c THEN action ELSE pending[d]]

ClickImmediate(action, c) ==
    /\ SendActions({[cell |-> c, action |-> action]})
    /\ UNCHANGED <<editVars, visuals, news>>

ClickQueued(action, c) ==
    /\ IF Allowed(action, c) /\ Affordable(action, c)
       THEN pending' = Toggled(action, c) /\ ShowPending /\ news' = FALSE /\ refused' = {}
       ELSE refused' = {[cell |-> c, action |-> action]} /\ UNCHANGED <<editVars, visuals, news>>
    /\ sent' = {}

Queue == {[cell |-> c, action |-> pending[c]] : c \in DOMAIN pending}

ApplyPendingEdits ==
    /\ pending # Nothing
    /\ SendActions(Queue)
    /\ pending' = Nothing /\ ShowPending
    /\ UNCHANGED <<modelVars, mouse, news>>

ClearPendingEdits ==
    /\ pending' = Nothing /\ ShowPending
    /\ sent' = {} /\ refused' = {}
    /\ UNCHANGED <<modelVars, mouse, news>>

---------------------------------------------------------------------------
\* The left button over the grid.

MousePress ==
    /\ mouse = "up"
    /\ mouse' = "pressed"
    /\ sent' = {} /\ refused' = {}
    /\ UNCHANGED <<modelVars, editVars, visuals, news>>

\* The second press of a double click has a handler of its own, Qt's.
MouseDoubleClick ==
    /\ mouse = "up"
    /\ mouse' = "void"
    /\ sent' = {} /\ refused' = {}
    /\ UNCHANGED <<modelVars, editVars, visuals, news>>

\* More than four pixels away, if only for a moment.
MouseMove ==
    /\ mouse = "pressed"
    /\ mouse' = "void"
    /\ sent' = {} /\ refused' = {}
    /\ UNCHANGED <<modelVars, editVars, visuals, news>>

MouseRelease ==
    /\ mouse # "up"
    /\ mouse' = "up"
    /\ IF mouse = "pressed"
       THEN \E c \in Cells, action \in Actions : ClickImmediate(action, c) \/ ClickQueued(action, c)
       ELSE sent' = {} /\ refused' = {} /\ UNCHANGED <<editVars, visuals, news>>
    /\ UNCHANGED modelVars

---------------------------------------------------------------------------
Init ==
    /\ me \in Gamers
    /\ alive = Nothing /\ serverPlayers = [p \in {} |-> 0]
    /\ pending = Nothing /\ overlay = Nothing /\ visuals = Nothing
    /\ mouse = "up" /\ sent = {} /\ refused = {} /\ news = TRUE

Next ==
    \/ AnimTick \/ ApplyUpdate \/ OnServerStatsUpdated \/ OpenConnectionDialog
    \/ ApplyPendingEdits \/ ClearPendingEdits
    \/ MousePress \/ MouseDoubleClick \/ MouseMove \/ MouseRelease

\* The timer never stops.
Fairness == WF_vars(AnimTick)

Spec == Init /\ [][Next]_vars
FairSpec == Spec /\ Fairness

---------------------------------------------------------------------------
\* Properties.

Edits == [cell : Cells, action : Actions]

TypeOK ==
    /\ me \in Gamers
    /\ \A c \in DOMAIN alive : c \in Cells /\ alive[c] \in Gamers
    /\ \A p \in DOMAIN serverPlayers : p \in Gamers /\ serverPlayers[p] \in Balances
    /\ \A f \in {pending, overlay} : \A c \in DOMAIN f : c \in Cells /\ f[c] \in Actions
    /\ \A c \in DOMAIN visuals : c \in Cells /\ visuals[c] \in [life : 0 .. FullLife, target : BOOLEAN]
    /\ mouse \in {"up", "pressed", "void"}
    /\ {sent, refused} \subseteq SUBSET Edits
    /\ news \in BOOLEAN

\* What World::applyCommands makes of an edit, and of several for different
\* cells: whether it does one, and what it takes for those that place a cell.
Server == INSTANCE World WITH Width <- 64, Height <- 64, Players <- Gamers
ServerWouldDo(e) ==
    LET cell == [alive |-> OwnerAt(e.cell) # NoOwner, owner |-> OwnerAt(e.cell)]
        cmd == [type |-> e.action, player |-> me]
    IN  Server!Places(cell, serverPlayers, cmd) \/ Server!Removes(cell, serverPlayers, cmd)
Costs(e) == e.action # "remove" /\ OwnerAt(e.cell) = NoOwner
Price(edits) == Server!PlaceCost * Cardinality({e.cell : e \in {f \in edits : Costs(f)}})

\* The client's rules are the server's (GameWindow.cpp:30, "must match
\* server"), on the world and the balances it shows.  Each edit it sends is one
\* the server would do, and they can be paid together unless the world, the
\* player or the balances changed since the last queueing: then the server may
\* do some of a batch and ignore the rest.  An edit it rejects is one the server
\* would not do, or one whose price on top of the queue's is above the balance
\* (what queued removals bring is not counted, an edit that would be replaced
\* is): one that costs nothing is kept out so only after such a change.
JudgesLikeTheServer ==
    BalanceKnown =>
        /\ \A e \in sent : ServerWouldDo(e)
        /\ ~news => Price(sent) <= serverPlayers[me]
        /\ \A e \in refused :
               \/ ~ServerWouldDo(e)
               \/ (Costs(e) \/ news) /\ Price(Queue) + Price({e}) > serverPlayers[me]

\* What is queued can be paid for by the balance shown, until the world or
\* the balances change: also when an edit replaces another or is taken back,
\* and whatever was queued while the balance was unknown.
QueueIsAffordable == ~news /\ BalanceKnown => Price(Queue) <= serverPlayers[me]

\* A cell is drawn fading out exactly if it is dead: one that dies and is born
\* again before it has faded out comes back, and none is forgotten.
VisualsFollow ==
    /\ DOMAIN alive \subseteq DOMAIN visuals
    /\ \A c \in DOMAIN visuals : visuals[c].target <=> c \in DOMAIN alive

\* Once the world is at rest, so is what is drawn: the living cells, at full
\* size, and no others are kept.
Settled == visuals = [c \in DOMAIN alive |-> [life |-> FullLife, target |-> TRUE]]
VisualsSettle == <>[][alive' = alive]_alive => <>[]Settled
=============================================================================
