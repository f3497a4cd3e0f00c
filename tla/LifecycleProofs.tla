--------------------------- MODULE LifecycleProofs ---------------------------
(***************************************************************************)
(* Proofs about ServerLifecycle.tla, for any workers and rounds of any     *)
(* size: the types, its invariants, and that every step of the pool, the   *)
(* futures and the tick is a step of TaskRounds.tla or none of it.         *)
(*                                                                         *)
(* They rest on one inductive invariant, IInv: which threads there may be  *)
(* while the owner's thread stands where, where each task of a round is,   *)
(* and what waits for the io thread.                                       *)
(***************************************************************************)
EXTENDS ServerLifecycle, FiniteSetTheorems, SequenceTheorems, TLAPS

\* Between calls of an active server, and until they are joined, there may be
\* a scheduler's thread and an io thread.
ThreadsAreJoined ==
    /\ owner \in InStart => active
    /\ tick # "none" => owner \in {"unschedule", "joinTick"} \/ (owner = "idle" /\ active)
    /\ io # "none" => listening \/ owner = "joinIo"
    /\ listening =>
        /\ io # "none"
        /\ owner \in {"provide", "refresh", "schedule", "unschedule", "joinTick", "close"}
           \/ (owner = "idle" /\ active)

\* A tick's stages with a round under way, and how far it has got.
RoundIsTicks ==
    /\ round # "none" <=> tick \in {"enqueue", "notify", "wait"}
    /\ next <= chunks + 1
    /\ tick = "notify" => next <= chunks
    /\ \A w \in Workers : worker[w] = "runs" <=> running[w] # NoTask

\* A task is once in the queue, or with one worker, or done.
TaskIsOnce ==
    /\ \A i, j \in DOMAIN tasks : tasks[i] = tasks[j] => i = j
    /\ \A i \in DOMAIN tasks : tasks[i] \notin done
    /\ \A i \in DOMAIN tasks, w \in Workers : tasks[i] # running[w]
    /\ \A v, w \in Workers : running[v] = running[w] /\ running[v] # NoTask => v = w
    /\ \A w \in Workers : running[w] \notin done

\* The tasks of the round that the pool has been given.
Given ==
    CASE tick = "enqueue" -> 1 .. next - 1
      [] tick = "notify" -> 1 .. next
      [] tick = "wait" -> 1 .. chunks
      [] OTHER -> {}

\* The pool has nothing but tasks of this round.
OnlyGiven ==
    /\ \A i \in DOMAIN tasks : tasks[i] \in Given
    /\ \A w \in Workers : running[w] # NoTask => running[w] \in Given
    /\ round # "none" => done \subseteq Given

\* Before there is a provider nothing is posted.
NoneBeforeProvider ==
    /\ ~provider =>
        /\ tick = "none"
        /\ owner \in {"network", "provide", "gone"} \cup InDestructor \/ (owner = "idle" /\ ~active)
        /\ \A i \in DOMAIN ready : ready[i] # "update"

\* If no handler has thrown, only updates wait without an io thread; and before
\* the provider is set, those of an earlier life come before any client.
UpdatesComeFirst == ~thrown =>
    /\ listening => io = "runs"
    /\ io = "none" => ~greeting /\ ~session /\ \A i \in DOMAIN ready : ready[i] = "update"
    /\ io = "returned" => ~greeting /\ ~session /\ ready = <<>>
    /\ owner = "provide" /\ io = "runs" =>
        /\ session => \A i \in DOMAIN ready : ready[i] # "update"
        /\ \A i, j \in DOMAIN ready : ready[i] = "hello" /\ ready[j] = "update" => j < i

IInv ==
    /\ TypeOK
    /\ ThreadsAreJoined
    /\ RoundIsTicks
    /\ TaskIsOnce
    /\ OnlyGiven
    /\ NoneBeforeProvider
    /\ UpdatesComeFirst
    /\ NoTaskWaitsForASleeper

---------------------------------------------------------------------------
\* What a queue has after an Append and after a Tail.
LEMMA Appended ==
    ASSUME NEW S, NEW s \in Seq(S), NEW e \in S
    PROVE  /\ Append(s, e) \in Seq(S) /\ Len(Append(s, e)) = Len(s) + 1
           /\ DOMAIN Append(s, e) = DOMAIN s \cup {Len(s) + 1}
           /\ \A i \in DOMAIN s : Append(s, e)[i] = s[i]
           /\ Append(s, e)[Len(s) + 1] = e
           /\ Len(s) + 1 \notin DOMAIN s
  BY AppendProperties, LenProperties

LEMMA Shortened ==
    ASSUME NEW S, NEW s \in Seq(S), s # <<>>
    PROVE  /\ Head(s) \in S /\ Tail(s) \in Seq(S) /\ Len(Tail(s)) = Len(s) - 1
           /\ 1 \in DOMAIN s /\ Head(s) = s[1]
           /\ \A i \in DOMAIN Tail(s) : i + 1 \in DOMAIN s /\ i + 1 # 1 /\ Tail(s)[i] = s[i + 1]
           /\ \A i \in DOMAIN s : i # 1 => i - 1 \in DOMAIN Tail(s) /\ Tail(s)[i - 1] = s[i]
  BY HeadTailProperties, LenProperties, EmptySeq

\* What is in a queue has its type, and an empty one has no positions.
LEMMA Queued ==
    ASSUME NEW S, NEW s \in Seq(S)
    PROVE  /\ DOMAIN s \subseteq Nat \ {0}
           /\ \A i \in DOMAIN s : s[i] \in S
           /\ DOMAIN s = {} <=> s = <<>>
<1>1. Len(s) \in Nat /\ s \in [1 .. Len(s) -> S] /\ DOMAIN s = 1 .. Len(s)
  BY LenProperties
<1>2. s # <<>> => Len(s) \in Nat \ {0}
  BY EmptySeq
<1>3. s # <<>> => 1 \in DOMAIN s
  BY <1>1, <1>2
<1> QED BY <1>1, <1>3

\* Workers are finitely many, so those in a state can be counted.
LEMMA Counted ==
    ASSUME NEW s
    PROVE  IsFiniteSet(Those(s)) /\ Cardinality(Those(s)) \in Nat
  BY PoolAssumption, FS_Subset, FS_CardinalityType DEF Those

---------------------------------------------------------------------------
\* Nothing runs and nothing waits at the start.
LEMMA InitIsSound == Init => IInv
<1> SUFFICES ASSUME Init PROVE IInv
  OBVIOUS
<1>1. TypeOK
  <2>1. <<>> \in Seq(Tasks) /\ <<>> \in Seq(Handlers)
    BY EmptySeq
  <2>2. PoolTypeOK
    BY <2>1 DEF Init, PoolInit, PoolTypeOK
  <2>3. chunks \in 0 .. MaxChunks /\ next \in 1 .. MaxChunks + 1
    BY PoolAssumption DEF Init
  <2> QED BY <2>1, <2>2, <2>3 DEF Init, TypeOK
<1>2. RoundIsTicks /\ TaskIsOnce /\ OnlyGiven
  BY <1>1 DEF Init, PoolInit, RoundIsTicks, TaskIsOnce, OnlyGiven, NoTask, Given
<1>3. Those("asleep") = {}
  BY DEF Init, PoolInit, Those
<1> QED
  BY <1>1, <1>2, <1>3 DEF IInv, Init, ThreadsAreJoined, NoneBeforeProvider, UpdatesComeFirst,
     NoTaskWaitsForASleeper, InStart, InDestructor

\* The io thread's steps disturb no other thread.
LEMMA NetworkIsApart ==
    NetworkStep => UNCHANGED <<poolVars, ownerVars, ticking, tickVars, provider>>
  BY DEF NetworkStep, Accept, Arrive, Command, Handle, HandlerThrows, SessionsEnd, GreetingsEnd,
     RunReturns, netVars

\* Every step keeps the types: a task that is pushed is one of the round's.
LEMMA StepKeepsTypes == TypeOK /\ RoundIsTicks /\ [Next]_vars => TypeOK'
<1> SUFFICES ASSUME TypeOK, RoundIsTicks, [Next]_vars PROVE TypeOK'
  OBVIOUS
<1> USE DEF poolVars, ownerVars, tickVars, netVars, clients
<1>1. CASE Start \/ Stop \/ Destroy \/ OwnerStep
  <2>1. CASE NotifyPool
    BY <2>1 DEF NotifyPool, NotifyAll, TypeOK, PoolTypeOK, InStart, InStop, InDestructor
  <2>2. CASE Start \/ Stop \/ Destroy
    BY <2>2 DEF Start, Stop, Destroy, TypeOK, PoolTypeOK, InStart, InStop, InDestructor
  <2>3. CASE StartNetwork \/ SetProvider \/ RefreshCache \/ StartScheduler
    <3>1. CASE StartNetwork
      BY <3>1 DEF StartNetwork, TypeOK, PoolTypeOK, InStart
    <3>2. CASE SetProvider
      BY <3>2 DEF SetProvider, TypeOK, PoolTypeOK, InStart
    <3>3. CASE RefreshCache
      BY <3>3 DEF RefreshCache, TypeOK, PoolTypeOK, InStart
    <3>4. CASE StartScheduler
      BY <3>4 DEF StartScheduler, TypeOK, PoolTypeOK, InStart, TickStages
    <3> QED BY <2>3, <3>1, <3>2, <3>3, <3>4
  <2>4. CASE StopScheduler \/ JoinTick \/ CloseNetwork \/ JoinIo
    BY <2>4 DEF StopScheduler, JoinTick, CloseNetwork, JoinIo, Stopped, TypeOK, PoolTypeOK, InStop,
       InDestructor
  <2>5. CASE FreeGame \/ StopPool \/ JoinPool
    BY <2>5 DEF FreeGame, StopPool, BeginShutdown, JoinPool, TypeOK, PoolTypeOK, InDestructor
  <2> QED BY <1>1, <2>1, <2>2, <2>3, <2>4, <2>5 DEF OwnerStep
<1>2. CASE TickStep
  <2>1. CASE EnqueueTask
    <3>0. next \in Tasks
      BY <2>1, PoolAssumption DEF EnqueueTask, TypeOK, Tasks
    <3>1. tasks' \in Seq(Tasks)
      BY <2>1, <3>0, Appended DEF EnqueueTask, Push, TypeOK, PoolTypeOK
    <3> QED BY <2>1, <3>1 DEF EnqueueTask, Push, TypeOK, PoolTypeOK, TickStages
  <2>2. CASE NotifyWorker
    <3>1. worker' \in [Workers -> {"looks", "asleep", "runs", "gone"}]
      BY <2>2 DEF NotifyWorker, NotifyOne, Those, TypeOK, PoolTypeOK
    <3>2. next' \in 1 .. MaxChunks + 1
      BY <2>2, PoolAssumption DEF NotifyWorker, TypeOK, RoundIsTicks
    <3> QED BY <2>2, <3>1, <3>2 DEF NotifyWorker, NotifyOne, TypeOK, PoolTypeOK, TickStages
  <2>3. CASE FinishTick
    <3>1. ready' \in Seq(Handlers)
      BY <2>3, Appended DEF FinishTick, TypeOK, Handlers
    <3> QED BY <2>3, <3>1 DEF FinishTick, TypeOK, PoolTypeOK, TickStages
  <2>4. CASE CheckTicking \/ TryPop \/ EndEnqueue \/ SwapDone \/ WakeUp
    BY <2>4 DEF CheckTicking, TryPop, EndEnqueue, SwapDone, WakeUp, TypeOK, PoolTypeOK, TickStages
  <2>5. CASE PrepareChunks \/ CalculateDone
    BY <2>5, PoolAssumption DEF PrepareChunks, CalculateDone, TypeOK, PoolTypeOK, TickStages
  <2> QED BY <1>2, <2>1, <2>2, <2>3, <2>4, <2>5 DEF TickStep
<1>3. ASSUME NEW w \in Workers, Work(w) \/ Stir(w) PROVE TypeOK'
  <2>1. CASE Look(w) /\ tasks # <<>>
    <3>1. Head(tasks) \in Tasks /\ Tail(tasks) \in Seq(Tasks)
      BY <2>1, Shortened DEF TypeOK, PoolTypeOK
    <3> QED BY <1>3, <2>1, <3>1 DEF Work, Stir, WakeSpuriously, Run, poolOnly, Look, TypeOK, PoolTypeOK
  <2>2. CASE Look(w) /\ tasks = <<>>
    BY <1>3, <2>2 DEF Work, Stir, WakeSpuriously, Run, poolOnly, Look, TypeOK, PoolTypeOK
  <2>3. CASE Run(w)
    <3>1. running[w] \in Tasks
      BY <2>3 DEF Run, RoundIsTicks, TypeOK, PoolTypeOK
    <3> QED BY <1>3, <2>3, <3>1 DEF Work, Stir, poolOnly, Run, TypeOK, PoolTypeOK
  <2>4. CASE WakeSpuriously(w)
    BY <1>3, <2>4 DEF Work, Stir, WakeSpuriously, poolOnly, TypeOK, PoolTypeOK
  <2> QED BY <1>3, <2>1, <2>2, <2>3, <2>4 DEF Work, Stir
<1>4. CASE Arrive
  <2>1. ready' \in Seq(Handlers)
    BY <1>4, Appended DEF Arrive, TypeOK, Handlers
  <2> QED BY <1>4, <2>1 DEF Arrive, TypeOK, PoolTypeOK
<1>5. CASE Handle
  <2>1. ready' \in Seq(Handlers)
    BY <1>5, Shortened DEF Handle, TypeOK
  <2> QED BY <1>5, <2>1 DEF Handle, TypeOK, PoolTypeOK
<1>6. CASE Accept \/ SessionsEnd \/ GreetingsEnd \/ RunReturns
  BY <1>6 DEF Accept, SessionsEnd, GreetingsEnd, RunReturns, TypeOK, PoolTypeOK
<1>9. CASE Command
  BY <1>9 DEF Command, TypeOK, PoolTypeOK
<1>8. CASE HandlerThrows
  <2>1. ready' \in Seq(Handlers)
    BY <1>8, Shortened DEF HandlerThrows, TypeOK
  <2> QED BY <1>8, <2>1 DEF HandlerThrows, TypeOK, PoolTypeOK
<1>7. CASE UNCHANGED vars
  BY <1>7 DEF vars, TypeOK, PoolTypeOK
<1> QED
  BY <1>1, <1>2, <1>3, <1>4, <1>5, <1>6, <1>7, <1>8, <1>9 DEF Next, NetworkStep, Gone

\* start() and stop() create and join the threads in this order.
LEMMA StepJoinsThreads == ThreadsAreJoined /\ [Next]_vars => ThreadsAreJoined'
<1> SUFFICES ASSUME ThreadsAreJoined, [Next]_vars PROVE ThreadsAreJoined'
  OBVIOUS
<1> USE DEF ThreadsAreJoined, poolVars, ownerVars, tickVars, netVars, clients, InStart
<1>1. CASE Start \/ Stop \/ Destroy \/ OwnerStep
  BY <1>1 DEF Start, Stop, Destroy, OwnerStep, StartNetwork, SetProvider, RefreshCache,
     StartScheduler, StopScheduler, JoinTick, CloseNetwork, Stopped, JoinIo, FreeGame, StopPool,
     NotifyPool, JoinPool
<1>2. CASE TickStep
  BY <1>2 DEF TickStep, CheckTicking, TryPop, PrepareChunks, EnqueueTask, NotifyWorker, EndEnqueue,
     CalculateDone, SwapDone, FinishTick, WakeUp
<1>3. CASE (\E w \in Workers : Work(w) \/ Stir(w)) \/ NetworkStep
  BY <1>3 DEF Work, Stir, poolOnly, NetworkStep, Accept, Arrive, Command, Handle, HandlerThrows,
     SessionsEnd, GreetingsEnd, RunReturns
<1> QED
  BY <1>1, <1>2, <1>3 DEF Next, Gone, vars

\* Where each task of a round is.  A step that leaves the pool and the tick
\* alone disturbs nothing of it.
RoundIsSound == RoundIsTicks /\ TaskIsOnce /\ OnlyGiven

LEMMA StepKeepsRounds == TypeOK /\ ThreadsAreJoined /\ RoundIsSound /\ [Next]_vars => RoundIsSound'
<1> SUFFICES ASSUME TypeOK, ThreadsAreJoined, RoundIsSound, [Next]_vars PROVE RoundIsSound'
  OBVIOUS
<1> USE DEF poolVars, ownerVars, tickVars, netVars, clients
<1>1. CASE UNCHANGED <<tasks, running, done, worker, tickVars>>
  BY <1>1 DEF RoundIsSound, RoundIsTicks, TaskIsOnce, OnlyGiven, Given
<1>2. CASE UNCHANGED <<poolVars, round, chunks, next>> /\ {tick, tick'} \cap {"enqueue", "notify", "wait"} = {}
  BY <1>2 DEF RoundIsSound, RoundIsTicks, TaskIsOnce, OnlyGiven, Given
<1>3. CASE PrepareChunks
  <2>1. tasks = <<>> /\ tasks' = <<>> /\ \A w \in Workers : running[w] = NoTask /\ running' = running
    <3>1. tasks \in Seq(Tasks) /\ Given = {}
      BY <1>3 DEF PrepareChunks, Given, TypeOK, PoolTypeOK
    <3>2. DOMAIN tasks = {} /\ \A w \in Workers : running[w] = NoTask
      BY <3>1 DEF RoundIsSound, OnlyGiven
    <3> QED BY <1>3, <3>1, <3>2, Queued DEF PrepareChunks
  <2> QED
    BY <1>3, <2>1 DEF PrepareChunks, RoundIsSound, RoundIsTicks, TaskIsOnce, OnlyGiven, TypeOK
<1>4. CASE EnqueueTask
  <2>0. Given = 1 .. next - 1 /\ Given' = 1 .. next
    BY <1>4 DEF EnqueueTask, Given
  <2>1. next \in Tasks /\ next \in Given' /\ Given \subseteq Given' /\ next \notin Given
    BY <1>4, <2>0, PoolAssumption DEF EnqueueTask, TypeOK, Tasks
  <2>2. /\ \A i \in DOMAIN tasks : tasks[i] # next
        /\ \A w \in Workers : running[w] # next
        /\ next \notin done
    BY <1>4, <2>1 DEF EnqueueTask, RoundIsSound, RoundIsTicks, OnlyGiven, NoTask, Tasks
  <2>3. /\ DOMAIN tasks' = DOMAIN tasks \cup {Len(tasks) + 1} /\ Len(tasks) + 1 \notin DOMAIN tasks
        /\ \A i \in DOMAIN tasks : tasks'[i] = tasks[i]
        /\ tasks'[Len(tasks) + 1] = next
    BY <1>4, <2>1, Appended DEF EnqueueTask, Push, TypeOK, PoolTypeOK
  <2>4. RoundIsTicks'
    BY <1>4 DEF EnqueueTask, Push, RoundIsSound, RoundIsTicks
  <2>5. TaskIsOnce'
    BY <1>4, <2>2, <2>3 DEF EnqueueTask, Push, RoundIsSound, TaskIsOnce
  <2>6. OnlyGiven'
    BY <1>4, <2>1, <2>3 DEF EnqueueTask, Push, RoundIsSound, OnlyGiven
  <2> QED BY <2>4, <2>5, <2>6 DEF RoundIsSound
<1>5. CASE NotifyWorker
  <2>1. Given' = Given
    BY <1>5 DEF NotifyWorker, Given, TypeOK
  <2>2. \A w \in Workers : worker'[w] = "runs" <=> worker[w] = "runs"
    BY <1>5 DEF NotifyWorker, NotifyOne, Those, TypeOK, PoolTypeOK
  <2> QED
    BY <1>5, <2>1, <2>2 DEF NotifyWorker, NotifyOne, RoundIsSound, RoundIsTicks, TaskIsOnce, OnlyGiven, TypeOK
<1>6. CASE EndEnqueue
  <2>1. Given' = Given
    BY <1>6 DEF EndEnqueue, Given, TypeOK, RoundIsSound, RoundIsTicks
  <2> QED
    BY <1>6, <2>1 DEF EndEnqueue, RoundIsSound, RoundIsTicks, TaskIsOnce, OnlyGiven
<1>7. CASE CalculateDone \/ SwapDone
  <2>1. Given = 1 .. chunks /\ FuturesReady
    BY <1>7 DEF CalculateDone, SwapDone, Given
  <2>2. DOMAIN tasks = {} /\ \A w \in Workers : running[w] = NoTask
    BY <2>1 DEF RoundIsSound, OnlyGiven, TaskIsOnce, FuturesReady
  <2> QED
    BY <1>7, <2>2 DEF CalculateDone, SwapDone, RoundIsSound, RoundIsTicks, TaskIsOnce, OnlyGiven, TypeOK
<1>8. ASSUME NEW w \in Workers, Look(w), tasks # <<>>, UNCHANGED tickVars PROVE RoundIsSound'
  <2>1. running[w] = NoTask
    BY <1>8 DEF Look, RoundIsSound, RoundIsTicks
  <2>2. /\ 1 \in DOMAIN tasks /\ Head(tasks) = tasks[1] /\ Head(tasks) \in Tasks
        /\ \A i \in DOMAIN tasks' : i + 1 \in DOMAIN tasks /\ i + 1 # 1 /\ tasks'[i] = tasks[i + 1]
        /\ DOMAIN tasks' \subseteq Int
    <3>1. tasks' = Tail(tasks) /\ tasks \in Seq(Tasks)
      BY <1>8 DEF Look, TypeOK, PoolTypeOK
    <3>2. Tail(tasks) \in Seq(Tasks)
      BY <1>8, <3>1, Shortened
    <3>3. DOMAIN tasks' \subseteq Int
      BY <3>1, <3>2, Queued
    <3> QED BY <1>8, <3>1, <3>3, Shortened
  <2>3. running' = [running EXCEPT ![w] = tasks[1]] /\ worker' = [worker EXCEPT ![w] = "runs"]
    BY <1>8, <2>2 DEF Look
  <2>4. RoundIsTicks'
    BY <1>8, <2>2, <2>3 DEF RoundIsSound, RoundIsTicks, TypeOK, PoolTypeOK, NoTask, Tasks
  <2>5. TaskIsOnce'
    <3>1. \A i, j \in DOMAIN tasks' : tasks'[i] = tasks'[j] => i = j
      BY <2>2 DEF RoundIsSound, TaskIsOnce
    <3>2. \A i \in DOMAIN tasks' : tasks'[i] # tasks[1] /\ tasks'[i] \notin done
      BY <2>2 DEF RoundIsSound, TaskIsOnce
    <3>3. \A v \in Workers : running[v] # tasks[1]
      BY <2>2 DEF RoundIsSound, TaskIsOnce
    <3> QED
      BY <1>8, <2>2, <2>3, <3>1, <3>2, <3>3 DEF Look, RoundIsSound, TaskIsOnce, TypeOK, PoolTypeOK
  <2>6. OnlyGiven'
    <3>1. Given' = Given
      BY <1>8 DEF Given
    <3> QED BY <1>8, <2>2, <2>3, <3>1 DEF Look, RoundIsSound, OnlyGiven, TypeOK, PoolTypeOK
  <2> QED BY <2>4, <2>5, <2>6 DEF RoundIsSound
<1>9. ASSUME NEW w \in Workers, (Look(w) /\ tasks = <<>>) \/ WakeSpuriously(w), UNCHANGED tickVars PROVE RoundIsSound'
  <2>1. \A v \in Workers : worker'[v] = "runs" <=> worker[v] = "runs"
    BY <1>9 DEF Look, WakeSpuriously, TypeOK, PoolTypeOK
  <2> QED
    BY <1>9, <2>1 DEF Look, WakeSpuriously, RoundIsSound, RoundIsTicks, TaskIsOnce, OnlyGiven, Given
<1>10. ASSUME NEW w \in Workers, Run(w), UNCHANGED tickVars PROVE RoundIsSound'
  <2>1. running[w] # NoTask
    BY <1>10 DEF Run, RoundIsSound, RoundIsTicks
  <2>2. running' = [running EXCEPT ![w] = NoTask] /\ worker' = [worker EXCEPT ![w] = "looks"]
        /\ done' = done \cup {running[w]}
    BY <1>10 DEF Run
  <2>3. RoundIsTicks'
    BY <1>10, <2>2 DEF RoundIsSound, RoundIsTicks, TypeOK, PoolTypeOK
  <2>4. \A i \in DOMAIN tasks : tasks[i] # NoTask
    <3>1. tasks \in Seq(Tasks)
      BY DEF TypeOK, PoolTypeOK
    <3>2. \A i \in DOMAIN tasks : tasks[i] \in Tasks
      BY <3>1, Queued
    <3> QED BY <3>2 DEF NoTask, Tasks
  <2>5. TaskIsOnce'
    BY <1>10, <2>1, <2>2, <2>4 DEF Run, RoundIsSound, TaskIsOnce, TypeOK, PoolTypeOK, NoTask, Tasks
  <2>6. OnlyGiven'
    <3>1. Given' = Given
      BY <1>10 DEF Given
    <3> QED BY <1>10, <2>1, <2>2, <3>1 DEF Run, RoundIsSound, OnlyGiven, TypeOK, PoolTypeOK
  <2> QED BY <2>3, <2>5, <2>6 DEF RoundIsSound
<1>11. ASSUME NEW w \in Workers, Work(w) \/ Stir(w) PROVE RoundIsSound'
  BY <1>8, <1>9, <1>10, <1>11 DEF Work, Stir, poolOnly, Look
<1>12. CASE Start \/ Stop \/ Destroy \/ OwnerStep
  <2>1. CASE StartScheduler \/ JoinTick
    BY <1>2, <2>1 DEF StartScheduler, JoinTick, ThreadsAreJoined
  <2>2. CASE StopPool
    BY <1>1, <2>2 DEF StopPool, BeginShutdown
  <2>3. CASE NotifyPool
    <3>1. \A w \in Workers : worker'[w] = "runs" <=> worker[w] = "runs"
      BY <2>3 DEF NotifyPool, NotifyAll
    <3> QED
      BY <2>3, <3>1 DEF NotifyPool, NotifyAll, RoundIsSound, RoundIsTicks, TaskIsOnce, OnlyGiven, Given
  <2> QED
    BY <1>1, <1>12, <2>1, <2>2, <2>3 DEF Start, Stop, Destroy, OwnerStep, StartNetwork, SetProvider,
       RefreshCache, StopScheduler, CloseNetwork, JoinIo, FreeGame, JoinPool
<1>13. CASE TickStep
  BY <1>1, <1>2, <1>3, <1>4, <1>5, <1>6, <1>7, <1>13 DEF TickStep, CheckTicking, TryPop, FinishTick, WakeUp
<1>14. CASE NetworkStep \/ UNCHANGED vars
  BY <1>1, <1>14, NetworkIsApart DEF vars
<1> QED
  BY <1>11, <1>12, <1>13, <1>14 DEF Next, Gone

\* Updates are posted by ticks, and they come after the provider.
LEMMA StepPostsLater ==
    TypeOK /\ ThreadsAreJoined /\ NoneBeforeProvider /\ [Next]_vars => NoneBeforeProvider'
<1> SUFFICES ASSUME TypeOK, ThreadsAreJoined, NoneBeforeProvider, [Next]_vars, ~provider'
             PROVE  NoneBeforeProvider'
  BY DEF NoneBeforeProvider
<1> USE DEF poolVars, ownerVars, tickVars, netVars, clients
<1>1. CASE Start \/ Stop \/ Destroy \/ OwnerStep
  BY <1>1 DEF NoneBeforeProvider, ThreadsAreJoined, InStart, InDestructor, Start, Stop, Destroy,
     OwnerStep, StartNetwork, SetProvider, RefreshCache, StartScheduler, StopScheduler, JoinTick,
     CloseNetwork, Stopped, JoinIo, FreeGame, StopPool, NotifyPool, JoinPool
<1>2. CASE TickStep
  BY <1>2 DEF TickStep, CheckTicking, TryPop, PrepareChunks, EnqueueTask, NotifyWorker, EndEnqueue,
     CalculateDone, SwapDone, FinishTick, WakeUp, NoneBeforeProvider
<1>3. CASE Arrive
  BY <1>3, Appended DEF Arrive, NoneBeforeProvider, TypeOK, Handlers
<1>4. CASE Handle \/ HandlerThrows
  <2>1. CASE UNCHANGED ready
    BY <1>4, <2>1 DEF Handle, HandlerThrows, NoneBeforeProvider
  <2>2. CASE ready # <<>> /\ ready' = Tail(ready)
    <3>1. \A i \in DOMAIN ready' : i + 1 \in DOMAIN ready /\ ready'[i] = ready[i + 1]
      BY <2>2, Shortened DEF TypeOK
    <3> QED BY <1>4, <3>1 DEF Handle, HandlerThrows, NoneBeforeProvider
  <2> QED BY <1>4, <2>1, <2>2 DEF Handle, HandlerThrows
<1>5. CASE Accept \/ Command \/ SessionsEnd \/ GreetingsEnd \/ RunReturns
  BY <1>5 DEF Accept, Command, SessionsEnd, GreetingsEnd, RunReturns, NoneBeforeProvider
<1>6. CASE (\E w \in Workers : Work(w) \/ Stir(w)) \/ UNCHANGED vars
  BY <1>6 DEF Work, Stir, poolOnly, vars, NoneBeforeProvider
<1> QED
  BY <1>1, <1>2, <1>3, <1>4, <1>5, <1>6 DEF Next, NetworkStep, Gone

\* What waits for the io thread: after a network that did not start, updates
\* only, and they run before a client can have said hello.
LEMMA StepKeepsUpdates ==
    TypeOK /\ ThreadsAreJoined /\ NoneBeforeProvider /\ UpdatesComeFirst /\ [Next]_vars => UpdatesComeFirst'
<1> SUFFICES ASSUME TypeOK, ThreadsAreJoined, NoneBeforeProvider, UpdatesComeFirst, [Next]_vars, ~thrown'
             PROVE  UpdatesComeFirst'
  BY DEF UpdatesComeFirst
<1> USE DEF poolVars, ownerVars, tickVars, netVars, clients
<1>0. ~thrown
  BY DEF Next, Gone, vars, Start, Stop, Destroy, OwnerStep, StartNetwork, SetProvider, RefreshCache,
     StartScheduler, StopScheduler, JoinTick, CloseNetwork, JoinIo, FreeGame, StopPool, NotifyPool,
     JoinPool, TickStep, CheckTicking, TryPop, PrepareChunks, EnqueueTask, NotifyWorker, EndEnqueue,
     CalculateDone, SwapDone, FinishTick, WakeUp, Work, Stir, poolOnly, NetworkStep, Accept, Arrive,
     Command, Handle, HandlerThrows, SessionsEnd, GreetingsEnd, RunReturns
<1>1. CASE Start \/ Stop \/ Destroy \/ OwnerStep
  BY <1>0, <1>1, EmptySeq DEF UpdatesComeFirst, ThreadsAreJoined, InStart, InDestructor, Start, Stop,
     Destroy, OwnerStep, StartNetwork, SetProvider, RefreshCache, StartScheduler, StopScheduler,
     JoinTick, CloseNetwork, Stopped, JoinIo, FreeGame, StopPool, NotifyPool, JoinPool, TypeOK
<1>2. CASE FinishTick
  <2>1. tick # "none" /\ owner # "provide" /\ io # "returned"
    BY <1>0, <1>2 DEF FinishTick, UpdatesComeFirst, ThreadsAreJoined
  <2>2. io = "none" => \A i \in DOMAIN ready' : ready'[i] = "update"
    BY <1>0, <1>2, Appended DEF FinishTick, UpdatesComeFirst, TypeOK, Handlers
  <2> QED BY <1>0, <1>2, <2>1, <2>2 DEF FinishTick, UpdatesComeFirst
<1>3. CASE TickStep /\ UNCHANGED ready
  <2>1. UNCHANGED <<ownerVars, netVars>>
    BY <1>3 DEF TickStep, CheckTicking, TryPop, PrepareChunks, EnqueueTask, NotifyWorker, EndEnqueue,
       CalculateDone, SwapDone, FinishTick, WakeUp
  <2> QED BY <1>0, <2>1 DEF UpdatesComeFirst
<1>4. CASE Arrive
  <2>1. /\ DOMAIN ready' = DOMAIN ready \cup {Len(ready) + 1}
        /\ \A i \in DOMAIN ready : ready'[i] = ready[i]
        /\ ready'[Len(ready) + 1] = "hello"
        /\ \A i \in DOMAIN ready : i < Len(ready) + 1
    BY <1>4, Appended, LenProperties DEF Arrive, TypeOK, Handlers
  <2> QED BY <1>0, <1>4, <2>1 DEF Arrive, UpdatesComeFirst
<1>5. CASE Handle
  <2>1. /\ 1 \in DOMAIN ready /\ Head(ready) = ready[1]
        /\ \A i \in DOMAIN ready' : i + 1 \in DOMAIN ready /\ i + 1 # 1 /\ ready'[i] = ready[i + 1] /\ i \in Nat \ {0}
    BY <1>5, Shortened, LenProperties DEF Handle, TypeOK
  <2>3. owner = "provide" =>
            /\ session' => \A i \in DOMAIN ready' : ready'[i] # "update"
            /\ \A i, j \in DOMAIN ready' : ready'[i] = "hello" /\ ready'[j] = "update" => j < i
    <3> SUFFICES ASSUME owner = "provide"
                 PROVE  /\ session' => \A i \in DOMAIN ready' : ready'[i] # "update"
                        /\ \A i, j \in DOMAIN ready' :
                               ready'[i] = "hello" /\ ready'[j] = "update" => j < i
      OBVIOUS
    <3>1. /\ session => \A i \in DOMAIN ready : ready[i] # "update"
          /\ \A i, j \in DOMAIN ready : ready[i] = "hello" /\ ready[j] = "update" => j < i
      BY <1>0, <1>5 DEF Handle, UpdatesComeFirst
    <3>2. session' => session \/ ready[1] = "hello"
      BY <1>5, <2>1 DEF Handle
    <3>3. ASSUME NEW i \in DOMAIN ready', session', ready'[i] = "update" PROVE FALSE
      <4>1. i + 1 \in DOMAIN ready /\ ready[i + 1] = "update" /\ ~(i + 1 < 1)
        BY <2>1, <3>3
      <4> QED BY <2>1, <3>1, <3>2, <3>3, <4>1
    <3>4. ASSUME NEW i \in DOMAIN ready', NEW j \in DOMAIN ready',
                 ready'[i] = "hello", ready'[j] = "update"
          PROVE  j < i
      <4>1. j + 1 < i + 1
        BY <2>1, <3>1, <3>4
      <4> QED BY <2>1, <4>1
    <3> QED BY <3>3, <3>4
  <2> QED BY <1>0, <1>5, <2>3 DEF Handle, UpdatesComeFirst
<1>6. CASE (\E w \in Workers : Work(w) \/ Stir(w)) \/ UNCHANGED vars
  BY <1>0, <1>6 DEF Work, Stir, poolOnly, vars, UpdatesComeFirst
<1>8. CASE Accept \/ Command \/ SessionsEnd \/ GreetingsEnd \/ RunReturns
  BY <1>0, <1>8 DEF Accept, Command, SessionsEnd, GreetingsEnd, RunReturns, UpdatesComeFirst
<1>9. CASE HandlerThrows
  BY <1>9 DEF HandlerThrows
<1>7. CASE TickStep
  BY <1>2, <1>3, <1>7 DEF TickStep, CheckTicking, TryPop, PrepareChunks, EnqueueTask, NotifyWorker,
     EndEnqueue, CalculateDone, SwapDone, WakeUp
<1> QED
  BY <1>1, <1>4, <1>5, <1>6, <1>7, <1>8, <1>9 DEF Next, NetworkStep, Gone

\* As many workers look for a task, or are about to be woken, as tasks wait.
LEMMA StepWakesWorkers ==
    TypeOK /\ TypeOK' /\ ThreadsAreJoined /\ NoTaskWaitsForASleeper /\ [Next]_vars => NoTaskWaitsForASleeper'
<1> SUFFICES ASSUME TypeOK, TypeOK', ThreadsAreJoined, NoTaskWaitsForASleeper, [Next]_vars
             PROVE  NoTaskWaitsForASleeper'
  OBVIOUS
<1> USE DEF poolVars, ownerVars, tickVars, netVars, clients
<1>1. /\ Cardinality(Those("looks")) \in Nat /\ Len(tasks) \in Nat
      /\ Cardinality(Those("looks")') \in Nat /\ Len(tasks') \in Nat
      /\ IsFiniteSet(Those("looks"))
  <2>1. IsFiniteSet(Those("looks")')
    BY PoolAssumption, FS_Subset DEF Those
  <2> QED BY <2>1, Counted, FS_CardinalityType, LenProperties DEF TypeOK, PoolTypeOK
<1>2. ASSUME UNCHANGED <<worker, tasks>>, stopping' = stopping \/ owner' = "notify",
             tick = "notify" => tick' = "notify", owner = "notify" => owner' = "notify"
      PROVE  NoTaskWaitsForASleeper'
  <2>1. Those("asleep")' = Those("asleep") /\ Those("looks")' = Those("looks")
    BY <1>2 DEF Those
  <2> QED BY <1>1, <1>2, <2>1 DEF NoTaskWaitsForASleeper
<1>3. CASE EnqueueTask
  <2>1. Those("asleep")' = Those("asleep") /\ Those("looks")' = Those("looks")
    BY <1>3 DEF EnqueueTask, Push, Those
  <2>2. Len(tasks') = Len(tasks) + 1
    BY <1>3, Appended DEF EnqueueTask, Push, TypeOK, PoolTypeOK, Tasks
  <2> QED BY <1>1, <1>3, <2>1, <2>2 DEF EnqueueTask, Push, NoTaskWaitsForASleeper
<1>4. CASE NotifyWorker
  <2>1. CASE Those("asleep") = {}
    <3>1. Those("asleep")' = {}
      BY <1>4, <2>1 DEF NotifyWorker, NotifyOne, Those
    <3> QED BY <3>1 DEF NotifyWorker, NoTaskWaitsForASleeper
  <2>2. CASE Those("asleep") # {}
    <3>1. PICK w \in Those("asleep") : worker' = [worker EXCEPT ![w] = "looks"]
      BY <1>4, <2>2 DEF NotifyWorker, NotifyOne
    <3>2. Those("looks")' = Those("looks") \cup {w} /\ w \notin Those("looks")
      BY <3>1 DEF Those, TypeOK, PoolTypeOK
    <3>3. Cardinality(Those("looks")') = Cardinality(Those("looks")) + 1
      BY <1>1, <3>2, FS_AddElement
    <3> QED BY <1>1, <1>4, <2>2, <3>3 DEF NotifyWorker, NotifyOne, NoTaskWaitsForASleeper
  <2> QED BY <2>1, <2>2
<1>5. ASSUME NEW w \in Workers, Look(w), tasks # <<>>, UNCHANGED <<tick, owner>> PROVE NoTaskWaitsForASleeper'
  <2>1. worker' = [worker EXCEPT ![w] = "runs"] /\ Len(tasks') = Len(tasks) - 1 /\ stopping' = stopping
    BY <1>5, Shortened DEF Look, TypeOK, PoolTypeOK
  <2>2. Those("looks")' = Those("looks") \ {w} /\ w \in Those("looks") /\ Those("asleep")' = Those("asleep")
    BY <1>5, <2>1 DEF Look, Those, TypeOK, PoolTypeOK
  <2>3. Cardinality(Those("looks")') = Cardinality(Those("looks")) - 1
    BY <1>1, <2>2, FS_RemoveElement
  <2> QED BY <1>1, <1>5, <2>1, <2>2, <2>3 DEF NoTaskWaitsForASleeper
<1>6. ASSUME NEW w \in Workers, Look(w), tasks = <<>>, UNCHANGED <<tick, owner>> PROVE NoTaskWaitsForASleeper'
  <2>1. Len(tasks') = 0
    BY <1>6, EmptySeq DEF Look
  <2>2. stopping' = stopping /\ (stopping => Those("asleep")' = Those("asleep"))
    BY <1>6 DEF Look, Those, TypeOK, PoolTypeOK
  <2> QED BY <1>1, <1>6, <2>1, <2>2 DEF NoTaskWaitsForASleeper
<1>7. ASSUME NEW w \in Workers, Run(w) \/ WakeSpuriously(w), UNCHANGED <<tick, owner>> PROVE NoTaskWaitsForASleeper'
  <2>1. worker' = [worker EXCEPT ![w] = "looks"] /\ tasks' = tasks /\ stopping' = stopping
        /\ worker[w] \in {"runs", "asleep"}
    BY <1>7 DEF Run, WakeSpuriously
  <2>2. Those("looks")' = Those("looks") \cup {w} /\ w \notin Those("looks")
        /\ Those("asleep")' \subseteq Those("asleep")
    BY <2>1 DEF Those, TypeOK, PoolTypeOK
  <2>3. Cardinality(Those("looks")') = Cardinality(Those("looks")) + 1
    BY <1>1, <2>2, FS_AddElement
  <2> QED BY <1>1, <1>7, <2>1, <2>2, <2>3 DEF NoTaskWaitsForASleeper
<1>8. ASSUME NEW w \in Workers, Work(w) \/ Stir(w) PROVE NoTaskWaitsForASleeper'
  BY <1>5, <1>6, <1>7, <1>8 DEF Work, Stir, poolOnly
<1>9. CASE NotifyPool
  <2>1. Those("asleep")' = {}
    BY <1>9 DEF NotifyPool, NotifyAll, Those
  <2> QED BY <2>1 DEF NoTaskWaitsForASleeper
<1>10. CASE Start \/ Stop \/ Destroy \/ OwnerStep
  <2>1. CASE JoinTick \/ StartScheduler
    BY <1>2, <2>1 DEF JoinTick, StartScheduler, ThreadsAreJoined
  <2> QED
    BY <1>2, <1>9, <1>10, <2>1 DEF Start, Stop, Destroy, OwnerStep, StartNetwork, SetProvider,
       RefreshCache, StopScheduler, CloseNetwork, JoinIo, FreeGame, StopPool, BeginShutdown, JoinPool
<1>11. CASE TickStep
  BY <1>2, <1>3, <1>4, <1>11 DEF TickStep, CheckTicking, TryPop, PrepareChunks, EndEnqueue,
     CalculateDone, SwapDone, FinishTick, WakeUp
<1>12. CASE NetworkStep \/ UNCHANGED vars
  BY <1>2, <1>12, NetworkIsApart DEF vars
<1> QED
  BY <1>8, <1>10, <1>11, <1>12 DEF Next, Gone

LEMMA IInvHolds == Spec => []IInv
<1>1. IInv /\ [Next]_vars => IInv'
  BY StepKeepsTypes, StepJoinsThreads, StepKeepsRounds, StepPostsLater, StepKeepsUpdates, StepWakesWorkers
     DEF IInv, RoundIsSound
<1> QED BY InitIsSound, <1>1, PTL DEF Spec

---------------------------------------------------------------------------
\* Every variable has its type.
THEOREM TypeCorrect == Spec => []TypeOK
<1>1. IInv => TypeOK
  BY DEF IInv
<1> QED BY IInvHolds, <1>1, PTL

\* When stop() has returned, and before the destructor frees the world, all
\* threads are gone and the pool is empty (GameServer.hpp:61-72).
THEOREM AllIsQuiet == Spec => []NothingOutlives
<1>1. IInv => NothingOutlives
  <2> SUFFICES ASSUME IInv, (owner = "idle" /\ ~active) \/ owner \in InDestructor \cup {"network", "gone"}
               PROVE  tick = "none" /\ io = "none" /\ PoolIsQuiet
    BY DEF NothingOutlives
  <2>1. tick = "none" /\ io = "none"
    BY DEF IInv, ThreadsAreJoined, InStart, InDestructor
  <2>2. Given = {}
    BY <2>1 DEF Given
  <2>3. tasks = <<>>
    <3>1. tasks \in Seq(Tasks) /\ DOMAIN tasks = {}
      BY <2>2 DEF IInv, OnlyGiven, TypeOK, PoolTypeOK
    <3> QED BY <3>1, Queued
  <2>4. Those("runs") = {}
    BY <2>2 DEF IInv, OnlyGiven, RoundIsTicks, Those
  <2> QED BY <2>1, <2>3, <2>4 DEF PoolIsQuiet
<1> QED BY IInvHolds, <1>1, PTL

\* start() sets the provider and reads the world while no tick is under way,
\* and no update asks for a snapshot before it is set, nor, as long as no
\* handler has thrown, while it is (GameServer.cpp:97-110).
THEOREM StartUndisturbed == Spec => []StartIsUndisturbed
<1>1. IInv => StartIsUndisturbed
  <2> SUFFICES ASSUME IInv PROVE StartIsUndisturbed
    OBVIOUS
  <2>1. owner \in {"provide", "refresh"} => tick = "none"
    BY DEF IInv, ThreadsAreJoined
  <2>2. ready # <<>> => 1 \in DOMAIN ready /\ Head(ready) = ready[1]
    BY Shortened DEF IInv, TypeOK
  <2> QED BY <2>1, <2>2 DEF StartIsUndisturbed, IInv, NoneBeforeProvider, UpdatesComeFirst
<1> QED BY IInvHolds, <1>1, PTL

\* No wake-up of the pool is lost, and none of its workers sleeps through its
\* end (ThreadPool.cpp:24, 28-57).
THEOREM WorkersAreWoken == Spec => []NoTaskWaitsForASleeper
<1>1. IInv => NoTaskWaitsForASleeper
  BY DEF IInv
<1> QED BY IInvHolds, <1>1, PTL

---------------------------------------------------------------------------
\* The pool, the wake-ups and the futures implement rounds of tasks: of
\* TaskRounds!Spec the initial states and the steps, for its fairness is out
\* of the provers' reach.
ToTake == ToSet(tasks) \cup StillToEnqueue

\* A task taken is the first of the queue and nowhere else in the pool.
LEMMA TakeIsTake ==
    ASSUME IInv, NEW w \in Workers, Look(w), tasks # <<>>, UNCHANGED tickVars
    PROVE  Rounds!Take(w)
<1>1. running[w] = 0
  BY DEF Look, IInv, RoundIsTicks, NoTask
<1>2. tasks \in Seq(Tasks) /\ tasks' = Tail(tasks) /\ running' = [running EXCEPT ![w] = Head(tasks)]
  BY DEF Look, IInv, TypeOK, PoolTypeOK
<1>3. /\ 1 \in DOMAIN tasks /\ Head(tasks) = tasks[1]
      /\ \A i \in DOMAIN tasks' : i + 1 \in DOMAIN tasks /\ i + 1 # 1 /\ tasks'[i] = tasks[i + 1]
      /\ \A i \in DOMAIN tasks : i # 1 => i - 1 \in DOMAIN tasks' /\ tasks'[i - 1] = tasks[i]
  BY <1>2, Shortened
<1>4. ToSet(tasks)' = ToSet(tasks) \ {tasks[1]}
  BY <1>3 DEF ToSet, IInv, TaskIsOnce
<1>5. StillToEnqueue' = StillToEnqueue
  BY DEF StillToEnqueue, tickVars
<1>6. tasks[1] \notin StillToEnqueue
  <2>1. tasks[1] \in Given
    BY <1>3 DEF IInv, OnlyGiven
  <2> QED BY <2>1 DEF Given, StillToEnqueue, IInv, TypeOK
<1>7. tasks[1] \in ToTake /\ ToTake' = ToTake \ {tasks[1]}
  BY <1>3, <1>4, <1>5, <1>6 DEF ToTake, ToSet
<1> QED BY <1>1, <1>2, <1>3, <1>7 DEF Rounds!Take, ToTake, tickVars

\* A round ends with nothing to take and nothing running.
LEMMA ReadyIsComplete ==
    ASSUME IInv, tick = "wait", FuturesReady
    PROVE  Rounds!Complete /\ ToSet(tasks) = {}
<1>1. Given = 1 .. chunks
  BY DEF Given
<1>2. DOMAIN tasks = {} /\ \A w \in Workers : running[w] = NoTask
  BY <1>1 DEF IInv, OnlyGiven, TaskIsOnce, FuturesReady
<1>3. ToSet(tasks) = {} /\ StillToEnqueue = {}
  BY <1>2 DEF ToSet, StillToEnqueue
<1> QED BY <1>2, <1>3 DEF Rounds!Complete, NoTask

LEMMA InitMaps == Init => Rounds!Init
<1> SUFFICES ASSUME Init PROVE Rounds!Init
  OBVIOUS
<1>1. ToSet(tasks) = {} /\ StillToEnqueue = {}
  BY EmptySeq DEF Init, PoolInit, ToSet, StillToEnqueue
<1> QED BY <1>1 DEF Init, PoolInit, Rounds!Init, NoTask

LEMMA StepMaps == IInv /\ [Next]_vars => [Rounds!Next]_(Rounds!vars)
<1> SUFFICES ASSUME IInv, [Next]_vars PROVE [Rounds!Next]_(Rounds!vars)
  OBVIOUS
<1> USE DEF poolVars, ownerVars, tickVars, netVars, clients
<1>1. ASSUME UNCHANGED <<round, chunks, tasks, running>>, StillToEnqueue' = StillToEnqueue
      PROVE  UNCHANGED Rounds!vars
  BY <1>1 DEF Rounds!vars, ToSet
<1>2. CASE UNCHANGED <<round, chunks, tasks, running>> /\ {tick, tick'} \cap {"enqueue", "notify"} = {}
  BY <1>1, <1>2 DEF StillToEnqueue
<1>3. CASE UNCHANGED <<round, chunks, tasks, running, tick, next>>
  BY <1>1, <1>3 DEF StillToEnqueue
<1>4. CASE PrepareChunks
  <2>1. ToSet(tasks)' = {}
    <3>1. Given = {}
      BY <1>4 DEF PrepareChunks, Given
    <3>2. DOMAIN tasks = {} /\ tasks' = tasks
      BY <1>4, <3>1 DEF PrepareChunks, IInv, OnlyGiven
    <3> QED BY <3>2 DEF ToSet
  <2>2. StillToEnqueue' = 1 .. chunks' /\ round = "none"
    BY <1>4 DEF PrepareChunks, StillToEnqueue, IInv, RoundIsTicks, TypeOK
  <2> QED BY <1>4, <2>1, <2>2 DEF PrepareChunks, Rounds!Calculate, Rounds!Next
<1>5. CASE EnqueueTask
  <2>1. next \in Tasks /\ next \in Int /\ chunks \in Int
    BY <1>5, PoolAssumption DEF EnqueueTask, IInv, TypeOK, Tasks
  <2>2. ToSet(tasks)' = ToSet(tasks) \cup {next}
    BY <1>5, <2>1, Appended DEF EnqueueTask, Push, ToSet, IInv, TypeOK, PoolTypeOK
  <2>3. StillToEnqueue = {next} \cup StillToEnqueue'
    BY <1>5, <2>1 DEF EnqueueTask, StillToEnqueue
  <2> QED BY <1>5, <2>2, <2>3 DEF EnqueueTask, Push, Rounds!vars
<1>6. CASE NotifyWorker
  <2>1. StillToEnqueue' = StillToEnqueue
    BY <1>6 DEF NotifyWorker, StillToEnqueue
  <2> QED BY <1>1, <1>6, <2>1 DEF NotifyWorker, NotifyOne
<1>7. CASE EndEnqueue
  <2>1. StillToEnqueue = {} /\ StillToEnqueue' = {}
    BY <1>7 DEF EndEnqueue, StillToEnqueue, IInv, TypeOK
  <2> QED BY <1>1, <1>7, <2>1 DEF EndEnqueue
<1>8. CASE CalculateDone
  <2>1. Rounds!Complete /\ ToSet(tasks)' = {}
    BY <1>8, ReadyIsComplete DEF CalculateDone, ToSet
  <2>2. StillToEnqueue' = 1 .. chunks
    BY <1>8 DEF CalculateDone, StillToEnqueue, IInv, TypeOK
  <2> QED BY <1>8, <2>1, <2>2 DEF CalculateDone, Rounds!Swap, Rounds!Next
<1>9. CASE SwapDone
  <2>1. Rounds!Complete /\ ToSet(tasks)' = ToSet(tasks)
    BY <1>9, ReadyIsComplete DEF SwapDone, ToSet
  <2>2. StillToEnqueue = {} /\ StillToEnqueue' = {}
    BY <1>9 DEF SwapDone, StillToEnqueue
  <2> QED BY <1>9, <2>1, <2>2 DEF SwapDone, Rounds!EndRound, Rounds!Next
<1>10. ASSUME NEW w \in Workers, Work(w) \/ Stir(w) PROVE [Rounds!Next]_(Rounds!vars)
  <2>1. CASE Look(w) /\ tasks # <<>>
    BY <1>10, <2>1, TakeIsTake DEF Work, Stir, poolOnly, Rounds!Next
  <2>2. CASE Run(w)
    <3>1. running[w] # 0
      BY <2>2 DEF Run, IInv, RoundIsTicks, NoTask
    <3>2. StillToEnqueue' = StillToEnqueue /\ ToSet(tasks)' = ToSet(tasks) /\ UNCHANGED <<round, chunks>>
      BY <1>10, <2>2 DEF Work, Stir, poolOnly, Run, WakeSpuriously, StillToEnqueue, ToSet
    <3> QED BY <2>2, <3>1, <3>2 DEF Run, NoTask, Rounds!Finish, Rounds!Next
  <2> QED
    BY <1>3, <1>10, <2>1, <2>2 DEF Work, Stir, poolOnly, Look, WakeSpuriously
<1>11. CASE TickStep
  BY <1>2, <1>4, <1>5, <1>6, <1>7, <1>8, <1>9, <1>11 DEF TickStep, CheckTicking, TryPop, FinishTick, WakeUp
<1>12. CASE Start \/ Stop \/ Destroy \/ OwnerStep
  <2>1. CASE StartScheduler \/ JoinTick
    BY <1>2, <2>1 DEF StartScheduler, JoinTick, IInv, ThreadsAreJoined
  <2> QED
    BY <1>3, <1>12, <2>1 DEF Start, Stop, Destroy, OwnerStep, StartNetwork, SetProvider, RefreshCache,
       StopScheduler, CloseNetwork, JoinIo, FreeGame, StopPool, BeginShutdown, NotifyPool, NotifyAll, JoinPool
<1>13. CASE NetworkStep \/ UNCHANGED vars
  BY <1>3, <1>13, NetworkIsApart DEF vars
<1> QED
  BY <1>10, <1>11, <1>12, <1>13 DEF Next, Gone

\* The two rounds of a tick over the pool (GameServer.cpp:142-168): each task
\* is taken and run once, and none is given before the round before it ended.
THEOREM RoundsAreImplemented == Spec => Rounds!Init /\ [][Rounds!Next]_(Rounds!vars)
<1>1. Init => Rounds!Init
  BY InitMaps
<1>2. IInv /\ [Next]_vars => [Rounds!Next]_(Rounds!vars)
  BY StepMaps
<1> QED BY IInvHolds, <1>1, <1>2, PTL DEF Spec
=============================================================================
