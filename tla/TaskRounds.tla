------------------------------ MODULE TaskRounds ------------------------------
(***************************************************************************)
(* What a tick takes for granted of the pool, and what GameServer.tla      *)
(* builds on: a round of tasks is given to the pool at once, each is taken *)
(* by one worker and run once, the round ends when all have run and none   *)
(* before, and every round ends.  Each tick has two rounds over the same   *)
(* chunks: all are computed, then all are swapped.                         *)
(***************************************************************************)
EXTENDS Integers

CONSTANTS Workers, MaxChunks

VARIABLES
    round,      \* "none", "calculate" or "swap"
    size,       \* the number of its tasks
    pool,       \* those not yet taken
    running     \* the one each worker runs, or 0
vars == <<round, size, pool, running>>

Init == round = "none" /\ size = 0 /\ pool = {} /\ running = [w \in Workers |-> 0]

\* Every task of the round has run.
Complete == pool = {} /\ \A w \in Workers : running[w] = 0

Calculate ==
    /\ round = "none"
    /\ round' = "calculate"
    /\ \E n \in 0 .. MaxChunks : size' = n /\ pool' = 1 .. n
    /\ UNCHANGED running

Swap ==
    /\ round = "calculate" /\ Complete
    /\ round' = "swap"
    /\ pool' = 1 .. size
    /\ UNCHANGED <<size, running>>

EndRound ==
    /\ round = "swap" /\ Complete
    /\ round' = "none"
    /\ UNCHANGED <<size, pool, running>>

Take(w) ==
    /\ running[w] = 0
    /\ \E t \in pool : running' = [running EXCEPT ![w] = t] /\ pool' = pool \ {t}
    /\ UNCHANGED <<round, size>>

Finish(w) ==
    /\ running[w] # 0
    /\ running' = [running EXCEPT ![w] = 0]
    /\ UNCHANGED <<round, size, pool>>

Next == Calculate \/ Swap \/ EndRound \/ \E w \in Workers : Take(w) \/ Finish(w)

Spec ==
    /\ Init /\ [][Next]_vars
    /\ WF_vars(Swap) /\ WF_vars(EndRound)
    /\ \A w \in Workers : WF_vars(Take(w) \/ Finish(w))
=============================================================================
