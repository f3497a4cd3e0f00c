---------------------------- MODULE WindowProofs ----------------------------
(***************************************************************************)
(* Proofs about GameWindow.tla, for any cells, players and balances: the   *)
(* client's judgement of an edit is the server's, what is drawn as living  *)
(* lives, and the queued edits are paid for.                               *)
(***************************************************************************)
EXTENDS GameWindow, FiniteSetTheorems, WellFoundedInduction, TLAPS

\* What every handler keeps: the queue is finite, and paid for.
QueueInv == IsFiniteSet(DOMAIN pending) /\ QueueIsAffordable
IInv ==
    /\ TypeOK
    /\ VisualsFollow
    /\ QueueInv
    /\ JudgesLikeTheServer

---------------------------------------------------------------------------
\* The price of a set of edits that cost 2 or nothing: the sum, which the fold
\* takes element by element, is twice the number of those that cost.
LEMMA SpendIsCounted ==
    ASSUME NEW f, IsFiniteSet(DOMAIN f), \A c \in DOMAIN f : f[c] \in {0, 2}
    PROVE  FoldFunctionOnSet(+, 0, f, DOMAIN f) = 2 * Cardinality({c \in DOMAIN f : f[c] # 0})
<1> DEFINE D == DOMAIN f
           Costly(s) == {c \in s : f[c] # 0}
           Some(s) == CHOOSE x \in s : TRUE
           Sums(g) == g = [s \in SUBSET D |-> IF s = {} THEN 0 ELSE f[Some(s)] + g[s \ {Some(s)}]]
\* One element more.
<1>1. ASSUME NEW s \in SUBSET D, s # {}
      PROVE  /\ Some(s) \in s /\ s \ {Some(s)} \in SUBSET D
             /\ f[Some(s)] + 2 * Cardinality(Costly(s \ {Some(s)})) = 2 * Cardinality(Costly(s))
  <2>1. Some(s) \in s
    BY <1>1
  <2> DEFINE x == Some(s)
  <2> HIDE DEF Some
  <2>2. IsFiniteSet(Costly(s)) /\ Cardinality(Costly(s)) \in Nat
    BY FS_Subset, FS_CardinalityType
  <2>3. Costly(s \ {x}) = Costly(s) \ {x}
    OBVIOUS
  <2>4. Cardinality(Costly(s \ {x})) = IF x \in Costly(s) THEN Cardinality(Costly(s)) - 1 ELSE Cardinality(Costly(s))
    BY <2>2, <2>3, FS_RemoveElement
  <2>5. x \in Costly(s) <=> f[x] # 0
    BY <2>1
  <2>6. f[x] \in {0, 2}
    BY <2>1
  <2> HIDE DEF Costly
  <2> QED BY <2>1, <2>2, <2>4, <2>5, <2>6
<1>2. Cardinality(Costly({})) = 0
  <2>1. Costly({}) = {}
    OBVIOUS
  <2> QED BY <2>1, FS_EmptySet
<1> DEFINE h == [s \in SUBSET D |-> 2 * Cardinality(Costly(s))]
<1>3. Sums(h)
  <2>1. ASSUME NEW s \in SUBSET D PROVE h[s] = IF s = {} THEN 0 ELSE f[Some(s)] + h[s \ {Some(s)}]
    <3>1. CASE s = {}
      BY <1>2, <3>1
    <3>2. CASE s # {}
      <4>1. /\ s \ {Some(s)} \in SUBSET D
            /\ f[Some(s)] + 2 * Cardinality(Costly(s \ {Some(s)})) = 2 * Cardinality(Costly(s))
        BY <1>1, <3>2
      <4> HIDE DEF Some, Costly
      <4> QED BY <3>2, <4>1
    <3> QED BY <3>1, <3>2
  <2> HIDE DEF Some, Costly
  <2> QED BY <2>1
<1> DEFINE iter == CHOOSE g : Sums(g)
<1>4. Sums(iter)
  <2>1. \E g : Sums(g)
    <3> HIDE DEF h, Sums
    <3> QED BY <1>3
  <2> HIDE DEF Sums
  <2> QED BY <2>1
<1>5. FoldFunctionOnSet(+, 0, f, D) = iter[D]
  BY DEF FoldFunctionOnSet, MapThenFoldSet
\* A smallest set that the fold gets wrong would be one element more than a
\* set it gets right.
<1> DEFINE Wrong == {s \in SUBSET D : iter[s] # 2 * Cardinality(Costly(s))}
<1>6. Wrong = {}
  <2> SUFFICES ASSUME Wrong # {} PROVE FALSE
    OBVIOUS
  <2>1. IsWellFoundedOn(StrictSubsetOrdering(D), SUBSET D)
    BY FS_StrictSubsetOrderingWellFounded, FS_FiniteSubsetsOfFinite
  <2>2. Wrong \subseteq SUBSET D
    OBVIOUS
  <2>3. PICK s \in Wrong : \A t \in Wrong : <<t, s>> \notin StrictSubsetOrdering(D)
    <3> HIDE DEF Wrong
    <3> QED BY <2>1, <2>2, WFMin
  <2>4. s \in SUBSET D
    OBVIOUS
  <2> DEFINE x == Some(s)
  <2>5. s # {}
    <3>1. s = {} => iter[s] = 0
      BY <1>4, <2>4
    <3> QED BY <1>2, <3>1
  <2>6. iter[s] = f[x] + iter[s \ {x}]
    <3> HIDE DEF iter, Some
    <3> QED BY <1>4, <2>4, <2>5
  <2>7. /\ x \in s /\ s \ {x} \in SUBSET D
        /\ f[x] + 2 * Cardinality(Costly(s \ {x})) = 2 * Cardinality(Costly(s))
    BY <1>1, <2>4, <2>5
  <2> HIDE DEF x, iter
  <2>8. <<s \ {x}, s>> \in StrictSubsetOrdering(D)
    BY <2>4, <2>7 DEF StrictSubsetOrdering
  <2>9. iter[s \ {x}] = 2 * Cardinality(Costly(s \ {x}))
    BY <2>3, <2>7, <2>8
  <2> QED BY <2>6, <2>7, <2>9
<1>7. iter[D] = 2 * Cardinality(Costly(D))
  BY <1>6
<1> HIDE DEF iter
<1> QED BY <1>5, <1>7

\* What is to be paid of the queue.
Paid(queue) == {c \in DOMAIN queue : queue[c] # "remove" /\ OwnerAt(c) = NoOwner}

\* What edits cost: by the cells they would bring to life.
Spots(edits) == {e.cell : e \in {f \in edits : Costs(f)}}

LEMMA QueuedSpots ==
    ASSUME NEW q
    PROVE  Spots({[cell |-> c, action |-> q[c]] : c \in DOMAIN q}) = Paid(q)
<1> DEFINE edits == {[cell |-> c, action |-> q[c]] : c \in DOMAIN q}
<1>1. ASSUME NEW c \in Spots(edits) PROVE c \in Paid(q)
  <2>1. PICK e \in edits : Costs(e) /\ c = e.cell
    BY DEF Spots
  <2>2. PICK d \in DOMAIN q : e = [cell |-> d, action |-> q[d]]
    OBVIOUS
  <2> QED BY <2>1, <2>2 DEF Costs, Paid
<1>2. ASSUME NEW c \in Paid(q) PROVE c \in Spots(edits)
  <2> DEFINE e == [cell |-> c, action |-> q[c]]
  <2>1. e \in edits /\ Costs(e) /\ e.cell = c
    BY DEF Costs, Paid
  <2> HIDE DEF e, edits
  <2> QED BY <2>1 DEF Spots
<1> QED BY <1>1, <1>2

LEMMA PriceIsCounted ==
    /\ \A edits : Price(edits) = 2 * Cardinality(Spots(edits))
    /\ Spots(Queue) = Paid(pending)
  BY QueuedSpots DEF Price, Spots, Queue, Server!PlaceCost

LEMMA QueuedSpendIsCounted ==
    ASSUME TypeOK, IsFiniteSet(DOMAIN pending)
    PROVE  QueuedSpend = 2 * Cardinality(Paid(pending))
<1> DEFINE f == [c \in DOMAIN pending |-> WillSpend(pending[c], c)]
<1>1. /\ DOMAIN f = DOMAIN pending
      /\ \A c \in DOMAIN f : f[c] \in {0, 2} /\ (f[c] # 0 <=> pending[c] # "remove" /\ OwnerAt(c) = NoOwner)
  BY DEF WillSpend, ClientPlaceCost, TypeOK, Actions
<1>2. QueuedSpend = FoldFunctionOnSet(+, 0, f, DOMAIN pending)
  BY DEF QueuedSpend
<1> HIDE DEF f
<1>3. QueuedSpend = 2 * Cardinality({c \in DOMAIN f : f[c] # 0})
  BY <1>1, <1>2, SpendIsCounted
<1>4. {c \in DOMAIN f : f[c] # 0} = Paid(pending)
  BY <1>1 DEF Paid
<1> QED BY <1>3, <1>4

\* A click that passes the check leaves a queue that can be paid for: an edit
\* that replaces another or takes it back costs at most what was counted.
LEMMA QueueStaysAffordable ==
    ASSUME TypeOK, IsFiniteSet(DOMAIN pending), NEW action \in Actions, NEW c \in Cells,
           Affordable(action, c)
    PROVE  /\ IsFiniteSet(DOMAIN Toggled(action, c))
           /\ BalanceKnown => 2 * Cardinality(Paid(Toggled(action, c))) <= serverPlayers[me]
<1> DEFINE queue == Toggled(action, c)
<1>1. /\ DOMAIN queue \subseteq DOMAIN pending \cup {c}
      /\ \A d \in DOMAIN queue : queue[d] = IF d = c THEN action ELSE pending[d]
  BY DEF Toggled, Restrict
<1>2. IsFiniteSet(DOMAIN queue)
  <2>1. IsFiniteSet(DOMAIN pending \cup {c})
    BY FS_AddElement
  <2> HIDE DEF queue
  <2> QED BY <1>1, <2>1, FS_Subset
<1> HIDE DEF queue
<1>3. IsFiniteSet(Paid(pending)) /\ Cardinality(Paid(pending)) \in Nat
  <2>1. Paid(pending) \subseteq DOMAIN pending
    BY DEF Paid
  <2> QED BY <2>1, FS_Subset, FS_CardinalityType
<1>4. /\ Paid(queue) \subseteq Paid(pending) \cup {c}
      /\ WillSpend(action, c) = 0 => Paid(queue) \subseteq Paid(pending)
  BY <1>1 DEF Paid, WillSpend, ClientPlaceCost, Actions
<1>5. WillSpend(action, c) \in {0, 2}
  BY DEF WillSpend, ClientPlaceCost
<1>6. Cardinality(Paid(queue)) \in Nat
      /\ 2 * Cardinality(Paid(queue)) <= 2 * Cardinality(Paid(pending)) + WillSpend(action, c)
  <2>1. CASE WillSpend(action, c) = 0
    <3>1. Cardinality(Paid(queue)) <= Cardinality(Paid(pending)) /\ IsFiniteSet(Paid(queue))
      BY <1>3, <1>4, <2>1, FS_Subset
    <3> QED BY <1>3, <2>1, <3>1, FS_CardinalityType
  <2>2. CASE WillSpend(action, c) = 2
    <3>1. /\ IsFiniteSet(Paid(pending) \cup {c})
          /\ Cardinality(Paid(pending) \cup {c}) \in {Cardinality(Paid(pending)), Cardinality(Paid(pending)) + 1}
      BY <1>3, FS_AddElement
    <3>2. Cardinality(Paid(queue)) <= Cardinality(Paid(pending) \cup {c}) /\ IsFiniteSet(Paid(queue))
      BY <1>4, <3>1, FS_Subset
    <3>3. Cardinality(Paid(queue)) \in Nat
      BY <3>2, FS_CardinalityType
    <3> QED BY <1>3, <2>2, <3>1, <3>2, <3>3
  <2> QED BY <1>5, <2>1, <2>2
<1>7. ASSUME BalanceKnown PROVE 2 * Cardinality(Paid(queue)) <= serverPlayers[me]
  <2>1. 2 * Cardinality(Paid(pending)) + WillSpend(action, c) <= serverPlayers[me]
    BY <1>7, QueuedSpendIsCounted DEF Affordable
  <2>2. serverPlayers[me] \in Nat
    BY <1>7, GameWindowAssumption DEF BalanceKnown, TypeOK
  <2> QED BY <1>3, <1>5, <1>6, <2>1, <2>2
<1> QED BY <1>2, <1>7 DEF queue

LEMMA SameQueue ==
    ASSUME QueueInv, UNCHANGED <<modelVars, pending>>, news' = news
    PROVE  QueueInv'
  BY DEF QueueInv, QueueIsAffordable, modelVars, BalanceKnown, OwnerAt, Price, Queue, Costs

LEMMA NewsForTheQueue ==
    ASSUME QueueInv, UNCHANGED pending, news' = TRUE
    PROVE  QueueInv'
  BY DEF QueueInv, QueueIsAffordable

LEMMA StepKeepsQueue == TypeOK /\ QueueInv /\ [Next]_vars => QueueInv'
<1> SUFFICES ASSUME TypeOK, QueueInv, [Next]_vars PROVE QueueInv'
  OBVIOUS
<1>1. CASE AnimTick \/ MousePress \/ MouseDoubleClick \/ MouseMove \/ UNCHANGED vars
  <2>1. UNCHANGED <<modelVars, pending>> /\ news' = news
    BY <1>1 DEF AnimTick, MousePress, MouseDoubleClick, MouseMove, vars, editVars
  <2> QED BY <2>1, SameQueue
<1>2. CASE ApplyUpdate \/ OnServerStatsUpdated \/ OpenConnectionDialog
  <2>1. UNCHANGED pending /\ news' = TRUE
    BY <1>2 DEF ApplyUpdate, OnServerStatsUpdated, OpenConnectionDialog, editVars
  <2> QED BY <2>1, NewsForTheQueue
<1>3. CASE ApplyPendingEdits \/ ClearPendingEdits
  <2>1. pending' = Nothing /\ UNCHANGED modelVars
    BY <1>3 DEF ApplyPendingEdits, ClearPendingEdits
  <2>2. DOMAIN pending' = {}
    BY <2>1 DEF Nothing
  <2>3. Queue' = {} /\ Price(Queue)' = 2 * Cardinality({})
    BY <2>2 DEF Queue, Price, Server!PlaceCost
  <2>4. BalanceKnown' => serverPlayers'[me'] \in Nat
    BY <2>1, GameWindowAssumption DEF BalanceKnown, TypeOK, modelVars
  <2> QED BY <2>2, <2>3, <2>4, FS_EmptySet DEF QueueInv, QueueIsAffordable
<1>4. CASE MouseRelease
  <2>1. UNCHANGED modelVars
    BY <1>4 DEF MouseRelease
  <2>2. CASE UNCHANGED editVars /\ news' = news
    BY <2>1, <2>2, SameQueue DEF editVars
  <2>3. ASSUME NEW c \in Cells, NEW action \in Actions, Affordable(action, c), pending' = Toggled(action, c)
        PROVE  QueueInv'
    <3>1. /\ IsFiniteSet(DOMAIN pending')
          /\ BalanceKnown => 2 * Cardinality(Paid(pending')) <= serverPlayers[me]
      BY <2>3, QueueStaysAffordable DEF QueueInv
    <3>2. BalanceKnown' = BalanceKnown /\ serverPlayers'[me'] = serverPlayers[me] /\ \A d : OwnerAt(d)' = OwnerAt(d)
      BY <2>1 DEF modelVars, BalanceKnown, OwnerAt
    <3>3. {e.cell : e \in {f \in Queue' : Costs(f)'}} = Spots(Queue')
      BY <3>2 DEF Costs, Spots
    <3>4. Spots(Queue') = Paid(pending')
      BY QueuedSpots DEF Queue
    <3>5. Price(Queue)' = 2 * Cardinality(Paid(pending'))
      BY <3>3, <3>4 DEF Price, Server!PlaceCost
    <3> QED BY <3>1, <3>2, <3>5 DEF QueueInv, QueueIsAffordable
  <2>4. CASE mouse # "pressed"
    BY <1>4, <2>2, <2>4 DEF MouseRelease
  <2>5. CASE mouse = "pressed"
    <3>1. PICK c \in Cells, action \in Actions : ClickImmediate(action, c) \/ ClickQueued(action, c)
      BY <1>4, <2>5 DEF MouseRelease
    <3> QED BY <2>2, <2>3, <3>1 DEF ClickImmediate, ClickQueued
  <2> QED BY <2>4, <2>5
<1> QED BY <1>1, <1>2, <1>3, <1>4 DEF Next

---------------------------------------------------------------------------
\* The checks of sendAction are the guards of World::applyCommands, for the
\* same cell and the same balance.
LEMMA SameJudgement ==
    ASSUME TypeOK, BalanceKnown, NEW e \in Edits
    PROVE  Permitted(e.action, e.cell) <=> ServerWouldDo(e)
<1> DEFINE cell == [alive |-> OwnerAt(e.cell) # NoOwner, owner |-> OwnerAt(e.cell)]
           cmd == [type |-> e.action, player |-> me]
<1>1. e.action \in {"place", "remove", "toggle"}
  BY DEF Edits, Actions
<1>2. me # NoOwner /\ me \in DOMAIN serverPlayers
  BY GameWindowAssumption DEF BalanceKnown, TypeOK, NoOwner
<1>3. Server!Places(cell, serverPlayers, cmd) <=>
          /\ serverPlayers[me] >= 2
          /\ e.action \in {"place", "toggle"} /\ OwnerAt(e.cell) = NoOwner
  BY <1>1, <1>2 DEF Server!Places, Server!CanSpend, Server!PlaceCost, Server!NoOwner, NoOwner
<1>4. Server!Removes(cell, serverPlayers, cmd) <=>
          e.action \in {"remove", "toggle"} /\ OwnerAt(e.cell) = me
  BY <1>1, <1>2 DEF Server!Removes, Server!CanAward, Server!NoOwner, NoOwner
<1>5. Permitted(e.action, e.cell) <=>
          \/ /\ serverPlayers[me] >= 2
             /\ e.action \in {"place", "toggle"} /\ OwnerAt(e.cell) = NoOwner
          \/ e.action \in {"remove", "toggle"} /\ OwnerAt(e.cell) = me
  BY <1>1, <1>2 DEF Permitted, BalanceKnown, ClientPlaceCost, NoOwner
<1> QED BY <1>3, <1>4, <1>5 DEF ServerWouldDo

\* A world and statistics that stay leave the judgement as it was made.
LEMMA SameSight ==
    ASSUME UNCHANGED modelVars
    PROVE  /\ BalanceKnown' = BalanceKnown /\ serverPlayers'[me'] = serverPlayers[me]
           /\ \A e : ServerWouldDo(e)' <=> ServerWouldDo(e)
           /\ \A e : Costs(e)' <=> Costs(e)
           /\ \A edits : {e.cell : e \in {f \in edits : Costs(f)'}} = Spots(edits)
<1>1. \A c : OwnerAt(c)' = OwnerAt(c)
  BY DEF OwnerAt, modelVars
<1>2. \A e : Costs(e)' <=> Costs(e)
  BY <1>1 DEF Costs
<1> QED BY <1>1, <1>2 DEF modelVars, BalanceKnown, ServerWouldDo, Spots

LEMMA BalanceIsNat == TypeOK /\ BalanceKnown => serverPlayers[me] \in Nat
  BY GameWindowAssumption DEF BalanceKnown, TypeOK

\* An edit by itself, or what can be paid for together, is sent as judged.
LEMMA SentIsJudged ==
    ASSUME TypeOK, QueueInv, UNCHANGED modelVars, news' = news,
           NEW edits \in SUBSET Edits, SendActions(edits), edits = Queue \/ \E e \in Edits : edits = {e}
    PROVE  JudgesLikeTheServer'
<1> SUFFICES ASSUME BalanceKnown' PROVE JudgesLikeTheServer'
  BY DEF JudgesLikeTheServer
<1>1. sent' \subseteq edits /\ refused' = edits \ sent'
      /\ \A e \in edits : e \in sent' <=> Permitted(e.action, e.cell)
  BY DEF SendActions
<1>2. BalanceKnown /\ serverPlayers[me] \in Nat
  BY SameSight, BalanceIsNat
<1>3. \A e \in Edits : ServerWouldDo(e)' <=> Permitted(e.action, e.cell)
  BY <1>2, SameSight, SameJudgement
<1>4. ASSUME ~news PROVE 2 * Cardinality(Spots(sent')) <= serverPlayers[me]
  <2>1. CASE edits = Queue
    <3>1. Spots(sent') \subseteq Paid(pending)
      BY <1>1, <2>1, PriceIsCounted DEF Spots
    <3>2. IsFiniteSet(Paid(pending))
      BY FS_Subset DEF QueueInv, Paid
    <3>3. /\ Cardinality(Spots(sent')) <= Cardinality(Paid(pending))
          /\ Cardinality(Spots(sent')) \in Nat /\ Cardinality(Paid(pending)) \in Nat
      BY <3>1, <3>2, FS_Subset, FS_CardinalityType
    <3>4. 2 * Cardinality(Paid(pending)) <= serverPlayers[me]
      BY <1>2, <1>4, PriceIsCounted DEF QueueInv, QueueIsAffordable
    <3> QED BY <1>2, <3>3, <3>4
  <2>2. ASSUME NEW e \in Edits, edits = {e} PROVE 2 * Cardinality(Spots(sent')) <= serverPlayers[me]
    <3>1. CASE e \in sent' /\ Costs(e)
      <4>1. sent' = {e} /\ Spots(sent') = {e.cell}
        BY <1>1, <2>2, <3>1 DEF Spots
      <4>2. serverPlayers[me] >= 2
        BY <1>1, <1>2, <2>2, <3>1 DEF Permitted, Costs, ClientPlaceCost
      <4>3. Cardinality({e.cell}) = 1
        BY FS_Singleton
      <4> QED BY <1>2, <4>1, <4>2, <4>3
    <3>2. CASE ~(e \in sent' /\ Costs(e))
      <4>1. Spots(sent') = {}
        BY <1>1, <2>2, <3>2 DEF Spots
      <4> QED BY <1>2, <4>1, FS_EmptySet
    <3> QED BY <3>1, <3>2
  <2> QED BY <2>1, <2>2
<1>5. Price(sent)' = 2 * Cardinality(Spots(sent'))
  BY SameSight DEF Price, Server!PlaceCost
<1>6. \A e \in sent' : ServerWouldDo(e)'
  BY <1>1, <1>3
<1>7. \A e \in refused' : ~ServerWouldDo(e)'
  BY <1>1, <1>3
<1>8. serverPlayers'[me'] = serverPlayers[me]
  BY SameSight
<1> QED BY <1>4, <1>5, <1>6, <1>7, <1>8 DEF JudgesLikeTheServer

LEMMA NothingSentIsJudged ==
    ASSUME sent' = {}, refused' = {}, TypeOK'
    PROVE  JudgesLikeTheServer'
<1>1. BalanceKnown' => serverPlayers'[me'] \in Nat
  BY GameWindowAssumption DEF BalanceKnown, TypeOK
<1>2. Price(sent)' = 0
  <2>1. {e.cell : e \in {f \in sent' : Costs(f)'}} = {}
    OBVIOUS
  <2> QED BY <2>1, FS_EmptySet DEF Price, Server!PlaceCost
<1> QED BY <1>1, <1>2 DEF JudgesLikeTheServer

\* The queue rejects what the server would not do, or what is too much on top
\* of what is queued.
LEMMA RejectionIsJudged ==
    ASSUME TypeOK, QueueInv, UNCHANGED <<modelVars, pending, news>>,
           NEW c \in Cells, NEW action \in Actions, ~(Allowed(action, c) /\ Affordable(action, c)),
           sent' = {}, refused' = {[cell |-> c, action |-> action]}
    PROVE  JudgesLikeTheServer'
<1> SUFFICES ASSUME BalanceKnown' PROVE JudgesLikeTheServer'
  BY DEF JudgesLikeTheServer
<1> DEFINE e == [cell |-> c, action |-> action]
<1>1. BalanceKnown /\ serverPlayers[me] \in Nat /\ serverPlayers'[me'] = serverPlayers[me] /\ e \in Edits
  BY SameSight, BalanceIsNat DEF Edits
<1>2. Price(sent)' = 0 /\ Price(Queue)' = Price(Queue) /\ Price({e})' = Price({e})
  <2> HIDE DEF e
  <2>1. {f.cell : f \in {g \in sent' : Costs(g)'}} = {}
    OBVIOUS
  <2>2. Price(sent)' = 0
    BY <2>1, FS_EmptySet DEF Price, Server!PlaceCost
  <2>3. Queue' = Queue
    BY DEF Queue
  <2>4. \A edits : {f.cell : f \in {g \in edits : Costs(g)'}} = {f.cell : f \in {g \in edits : Costs(g)}}
    BY SameSight DEF Spots
  <2>5. Price(Queue)' = Price(Queue) /\ Price({e})' = Price({e})
    BY <2>3, <2>4 DEF Price
  <2> QED BY <2>2, <2>5
<1>3. CASE ~Allowed(action, c)
  <2>1. ~Permitted(e.action, e.cell)
    BY <1>3 DEF Allowed, Permitted, Actions
  <2>2. ~ServerWouldDo(e)'
    BY <1>1, <2>1, SameJudgement, SameSight
  <2> QED BY <1>1, <1>2, <2>2 DEF JudgesLikeTheServer
<1>4. CASE ~Affordable(action, c)
  <2>1. QueuedSpend = Price(Queue) /\ Price(Queue) \in Nat
    <3>1. IsFiniteSet(Paid(pending))
      BY FS_Subset DEF QueueInv, Paid
    <3>2. Cardinality(Paid(pending)) \in Nat
      BY <3>1, FS_CardinalityType
    <3> QED BY <3>2, QueuedSpendIsCounted, PriceIsCounted DEF QueueInv
  <2>2. WillSpend(action, c) = Price({e}) /\ (Price({e}) # 0 => Costs(e))
    <3>1. Spots({e}) = IF Costs(e) THEN {c} ELSE {}
      BY DEF Spots
    <3>2. Cardinality(Spots({e})) = IF Costs(e) THEN 1 ELSE 0
      BY <3>1, FS_EmptySet, FS_Singleton
    <3>3. WillSpend(action, c) = IF Costs(e) THEN 2 ELSE 0
      BY DEF WillSpend, Costs, ClientPlaceCost, Actions
    <3> HIDE DEF e
    <3> QED BY <3>2, <3>3, PriceIsCounted
  <2>3. WillSpend(action, c) \in Nat
    BY DEF WillSpend, ClientPlaceCost
  <2>4. Price(Queue) + Price({e}) > serverPlayers[me]
    BY <1>1, <1>4, <2>1, <2>2, <2>3 DEF Affordable
  <2>5. Costs(e) \/ news
    BY <1>1, <2>1, <2>2, <2>3, <2>4 DEF QueueInv, QueueIsAffordable
  <2>6. Costs(e)' \/ news'
    BY <2>5, SameSight
  <2> HIDE DEF e
  <2>7. refused' = {e}
    BY DEF e
  <2> QED BY <1>1, <1>2, <2>4, <2>6, <2>7 DEF JudgesLikeTheServer
<1> QED BY <1>3, <1>4

\* Fading neither revives a cell nor forgets a living one.
LEMMA FadedFollows ==
    ASSUME TypeOK, VisualsFollow, visuals' = Faded(visuals), alive' = alive
    PROVE  VisualsFollow'
  BY DEF VisualsFollow, Faded, TypeOK

\* Whatever was drawn, syncVisualState makes it follow the world.
LEMMA SyncFollows ==
    ASSUME visuals' = SyncVisualState(visuals, DOMAIN alive')
    PROVE  VisualsFollow'
  BY DEF VisualsFollow, SyncVisualState

---------------------------------------------------------------------------
\* Each handler keeps the types: what it makes of the visuals and of the
\* pending edits first.
LEMMA FadedTypes ==
    ASSUME TypeOK
    PROVE  \A c \in DOMAIN Faded(visuals) :
               c \in Cells /\ Faded(visuals)[c] \in [life : 0 .. FullLife, target : BOOLEAN]
<1> DEFINE life(c) == IF visuals[c].target
                      THEN IF visuals[c].life < FullLife THEN visuals[c].life + 1 ELSE FullLife
                      ELSE IF visuals[c].life > 0 THEN visuals[c].life - 1 ELSE 0
<1>1. ASSUME NEW c \in DOMAIN visuals
      PROVE  c \in Cells /\ [visuals[c] EXCEPT !.life = life(c)] \in [life : 0 .. FullLife, target : BOOLEAN]
  <2>1. c \in Cells /\ visuals[c] \in [life : 0 .. FullLife, target : BOOLEAN]
    BY DEF TypeOK
  <2>2. life(c) \in 0 .. FullLife
    BY <2>1, GameWindowAssumption
  <2> HIDE DEF life
  <2> QED BY <2>1, <2>2
<1>2. /\ DOMAIN Faded(visuals) \subseteq DOMAIN visuals
      /\ \A c \in DOMAIN Faded(visuals) : Faded(visuals)[c] = [visuals[c] EXCEPT !.life = life(c)]
  BY DEF Faded
<1> QED BY <1>1, <1>2

LEMMA SyncTypes ==
    ASSUME TypeOK, NEW living \in SUBSET Cells
    PROVE  \A c \in DOMAIN SyncVisualState(visuals, living) :
               /\ c \in Cells
               /\ SyncVisualState(visuals, living)[c] \in [life : 0 .. FullLife, target : BOOLEAN]
<1>1. \A c \in DOMAIN visuals : c \in Cells /\ visuals[c].life \in 0 .. FullLife
  BY DEF TypeOK
<1> QED BY <1>1, GameWindowAssumption DEF SyncVisualState

LEMMA ToggledTypes ==
    ASSUME TypeOK, NEW action \in Actions, NEW d \in Cells
    PROVE  \A c \in DOMAIN Toggled(action, d) : c \in Cells /\ Toggled(action, d)[c] \in Actions
  BY DEF TypeOK, Toggled, Restrict

LEMMA SendTypes ==
    ASSUME NEW edits \in SUBSET Edits, SendActions(edits)
    PROVE  sent' \in SUBSET Edits /\ refused' \in SUBSET Edits
  BY DEF SendActions

LEMMA StepKeepsTypes == TypeOK /\ [Next]_vars => TypeOK'
<1> SUFFICES ASSUME TypeOK, [Next]_vars PROVE TypeOK'
  OBVIOUS
<1> USE DEF modelVars, editVars
<1>0. DOMAIN alive \in SUBSET Cells /\ Queue \in SUBSET Edits
  BY DEF TypeOK, Queue, Edits
<1>1. CASE AnimTick
  BY <1>1, FadedTypes DEF AnimTick, TypeOK
\* What comes from the network, and the dialog.
<1>2. CASE ApplyUpdate
  <2>1. \A c \in DOMAIN alive' : c \in Cells /\ alive'[c] \in Gamers
    BY <1>2 DEF ApplyUpdate
  <2>2. DOMAIN alive' \in SUBSET Cells
    BY <2>1
  <2>3. \A d \in DOMAIN visuals' : d \in Cells /\ visuals'[d] \in [life : 0 .. FullLife, target : BOOLEAN]
    BY <1>2, <2>2, SyncTypes DEF ApplyUpdate
  <2> QED BY <1>2, <2>1, <2>3 DEF ApplyUpdate, TypeOK
<1>3. CASE OnServerStatsUpdated
  <2>1. \A p \in DOMAIN serverPlayers' : p \in Gamers /\ serverPlayers'[p] \in Balances
    BY <1>3 DEF OnServerStatsUpdated
  <2> QED BY <1>3, <2>1 DEF OnServerStatsUpdated, TypeOK
<1>4. CASE OpenConnectionDialog
  <2>1. DOMAIN alive' = {} /\ {} \in SUBSET Cells
    BY <1>4 DEF OpenConnectionDialog, Nothing
  <2>2. \A d \in DOMAIN visuals' : d \in Cells /\ visuals'[d] \in [life : 0 .. FullLife, target : BOOLEAN]
    BY <1>4, <2>1, SyncTypes DEF OpenConnectionDialog
  <2> QED BY <1>4, <2>1, <2>2 DEF OpenConnectionDialog, TypeOK
\* The queue is applied or cleared.
<1>5. CASE ApplyPendingEdits \/ ClearPendingEdits
  <2>1. sent' \in SUBSET Edits /\ refused' \in SUBSET Edits
    BY <1>0, <1>5, SendTypes DEF ApplyPendingEdits, ClearPendingEdits
  <2>2. UNCHANGED <<modelVars, mouse>> /\ ShowPending /\ pending' = Nothing /\ news' \in BOOLEAN
    BY <1>5 DEF ApplyPendingEdits, ClearPendingEdits, TypeOK
  <2>3. \A d \in DOMAIN visuals' : d \in Cells /\ visuals'[d] \in [life : 0 .. FullLife, target : BOOLEAN]
    BY <1>0, <2>2, SyncTypes DEF ShowPending
  <2> QED BY <2>1, <2>2, <2>3 DEF ShowPending, Nothing, TypeOK
\* The mouse.
<1>6. CASE MousePress \/ MouseDoubleClick \/ MouseMove
  BY <1>6 DEF MousePress, MouseDoubleClick, MouseMove, TypeOK
<1>7. CASE MouseRelease
  <2>1. ASSUME NEW c \in Cells, NEW action \in Actions, ClickImmediate(action, c) PROVE TypeOK'
    <3>1. {[cell |-> c, action |-> action]} \in SUBSET Edits
      BY DEF Edits
    <3>2. sent' \in SUBSET Edits /\ refused' \in SUBSET Edits
      BY <2>1, <3>1, SendTypes DEF ClickImmediate
    <3> QED BY <1>7, <2>1, <3>2 DEF MouseRelease, ClickImmediate, TypeOK
  <2>2. ASSUME NEW c \in Cells, NEW action \in Actions, ClickQueued(action, c) PROVE TypeOK'
    <3>0. [cell |-> c, action |-> action] \in Edits
      BY DEF Edits
    <3>1. sent' \in SUBSET Edits /\ refused' \in SUBSET Edits /\ news' \in BOOLEAN
      <4>1. sent' = {} /\ (refused' = {} \/ refused' = {[cell |-> c, action |-> action]})
            /\ (news' = FALSE \/ news' = news)
        BY <2>2 DEF ClickQueued
      <4> QED BY <3>0, <4>1 DEF TypeOK
    <3>2. CASE UNCHANGED <<editVars, visuals>>
      BY <1>7, <3>1, <3>2 DEF MouseRelease, TypeOK
    <3>3. CASE pending' = Toggled(action, c) /\ ShowPending
      <4>1. \A d \in DOMAIN visuals' : d \in Cells /\ visuals'[d] \in [life : 0 .. FullLife, target : BOOLEAN]
        BY <1>0, <3>3, SyncTypes DEF ShowPending
      <4>2. \A f \in {pending', overlay'} : \A d \in DOMAIN f : d \in Cells /\ f[d] \in Actions
        BY <3>3, ToggledTypes DEF ShowPending
      <4> QED BY <1>7, <3>1, <4>1, <4>2 DEF MouseRelease, TypeOK
    <3> QED BY <2>2, <3>2, <3>3 DEF ClickQueued
  <2>3. CASE mouse # "pressed"
    BY <1>7, <2>3 DEF MouseRelease, TypeOK
  <2> QED BY <1>7, <2>1, <2>2, <2>3 DEF MouseRelease
<1>8. CASE UNCHANGED vars
  BY <1>8 DEF vars, TypeOK
<1> QED BY <1>1, <1>2, <1>3, <1>4, <1>5, <1>6, <1>7, <1>8 DEF Next

LEMMA StepFollows == TypeOK /\ VisualsFollow /\ [Next]_vars => VisualsFollow'
<1> SUFFICES ASSUME TypeOK, VisualsFollow, [Next]_vars PROVE VisualsFollow'
  OBVIOUS
<1> USE DEF modelVars
<1>1. CASE AnimTick
  BY <1>1, FadedFollows DEF AnimTick
<1>2. CASE ApplyUpdate
  BY <1>2, SyncFollows DEF ApplyUpdate
<1>3. CASE OpenConnectionDialog
  <2>1. DOMAIN alive' = {}
    BY <1>3 DEF OpenConnectionDialog, Nothing
  <2> QED BY <1>3, <2>1, SyncFollows DEF OpenConnectionDialog
<1>4. CASE ShowPending /\ UNCHANGED modelVars
  BY <1>4, SyncFollows DEF ShowPending
<1>5. CASE UNCHANGED <<alive, visuals>>
  BY <1>5 DEF VisualsFollow
<1>6. CASE MouseRelease
  BY <1>4, <1>5, <1>6 DEF MouseRelease, ClickImmediate, ClickQueued
<1> QED BY <1>1, <1>2, <1>3, <1>4, <1>5, <1>6
     DEF Next, OnServerStatsUpdated, ApplyPendingEdits, ClearPendingEdits, MousePress, MouseDoubleClick, MouseMove, vars

LEMMA StepIsJudged == TypeOK /\ QueueInv /\ JudgesLikeTheServer /\ [Next]_vars => JudgesLikeTheServer'
<1> SUFFICES ASSUME TypeOK, QueueInv, JudgesLikeTheServer, [Next]_vars PROVE JudgesLikeTheServer'
  OBVIOUS
<1>0. TypeOK'
  BY StepKeepsTypes
<1>1. CASE sent' = {} /\ refused' = {}
  BY <1>0, <1>1, NothingSentIsJudged
<1>2. CASE ApplyPendingEdits
  <2>1. Queue \in SUBSET Edits
    BY DEF TypeOK, Queue, Edits
  <2> QED BY <1>2, <2>1, SentIsJudged DEF ApplyPendingEdits
<1>3. CASE MouseRelease
  <2>0. UNCHANGED modelVars
    BY <1>3 DEF MouseRelease
  <2>1. ASSUME NEW c \in Cells, NEW action \in Actions, ClickImmediate(action, c) PROVE JudgesLikeTheServer'
    <3>1. [cell |-> c, action |-> action] \in Edits
      BY DEF Edits
    <3> QED BY <2>0, <2>1, <3>1, SentIsJudged DEF ClickImmediate
  <2>2. ASSUME NEW c \in Cells, NEW action \in Actions, ClickQueued(action, c) PROVE JudgesLikeTheServer'
    <3>1. CASE Allowed(action, c) /\ Affordable(action, c)
      BY <1>1, <2>2, <3>1 DEF ClickQueued
    <3>2. CASE ~(Allowed(action, c) /\ Affordable(action, c))
      <4>1. /\ UNCHANGED <<modelVars, pending, news>> /\ sent' = {}
            /\ refused' = {[cell |-> c, action |-> action]}
        BY <2>0, <2>2, <3>2 DEF ClickQueued, editVars
      <4> QED BY <3>2, <4>1, RejectionIsJudged
    <3> QED BY <3>1, <3>2
  <2> QED BY <1>1, <1>3, <2>1, <2>2 DEF MouseRelease
<1>4. CASE UNCHANGED vars
  <2>1. UNCHANGED <<modelVars, pending, sent, refused, news>>
    BY <1>4 DEF vars, editVars
  <2>2. BalanceKnown' = BalanceKnown /\ serverPlayers'[me'] = serverPlayers[me]
        /\ \A e : ServerWouldDo(e)' <=> ServerWouldDo(e)
    BY <2>1, SameSight
  <2>3. Price(sent)' = Price(sent) /\ Price(Queue)' = Price(Queue)
        /\ (\A e : Price({e})' = Price({e})) /\ (\A e : Costs(e)' <=> Costs(e))
    <3>1. \A e : Costs(e)' <=> Costs(e)
      BY <2>1, SameSight
    <3> QED BY <2>1, <3>1 DEF Price, Queue, Server!PlaceCost
  <2> QED BY <2>1, <2>2, <2>3 DEF JudgesLikeTheServer
<1> QED BY <1>1, <1>2, <1>3, <1>4
     DEF Next, AnimTick, ApplyUpdate, OnServerStatsUpdated, OpenConnectionDialog, ClearPendingEdits,
         MousePress, MouseDoubleClick, MouseMove

LEMMA IInvHolds == Spec => []IInv
<1>1. Init => TypeOK /\ VisualsFollow
  BY DEF Init, TypeOK, VisualsFollow, Nothing
<1>2. Init => QueueInv /\ JudgesLikeTheServer
  BY FS_EmptySet DEF Init, QueueInv, QueueIsAffordable, JudgesLikeTheServer, BalanceKnown, Nothing
<1>3. IInv /\ [Next]_vars => IInv'
  BY StepKeepsTypes, StepFollows, StepKeepsQueue, StepIsJudged DEF IInv
<1> QED BY <1>1, <1>2, <1>3, PTL DEF Spec, IInv

---------------------------------------------------------------------------
\* Every variable has its type.
THEOREM TypeCorrect == Spec => []TypeOK
<1>1. IInv => TypeOK
  BY DEF IInv
<1> QED BY IInvHolds, <1>1, PTL

\* The client's rules and price are the server's (GameWindow.cpp:346-480,
\* World.cpp:51-74): what it sends the server would do, together as long as the
\* balance and the world are those the edits were queued on; what it rejects
\* the server would not do, or not after the queue by the client's count.
THEOREM SameRules == Spec => []JudgesLikeTheServer
<1>1. IInv => JudgesLikeTheServer
  BY DEF IInv
<1> QED BY IInvHolds, <1>1, PTL

\* A cell is drawn as living if and only if it lives, whatever it was while
\* it faded (InfiniteGridView.cpp:511-548).
THEOREM DrawnAsLiving == Spec => []VisualsFollow
<1>1. IInv => VisualsFollow
  BY DEF IInv
<1> QED BY IInvHolds, <1>1, PTL

\* Until the world or the balances change, what is queued can be paid for:
\* however edits were queued, replaced and taken back (GameWindow.cpp:391-480).
THEOREM QueueIsPaidFor == Spec => []QueueIsAffordable
<1>1. IInv => QueueIsAffordable
  BY DEF IInv, QueueInv
<1> QED BY IInvHolds, <1>1, PTL

=============================================================================
