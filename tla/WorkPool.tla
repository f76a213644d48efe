------------------------------ MODULE WorkPool ------------------------------
(***************************************************************************)
(* What the actor scheduler needs from its executor, whatever queues,      *)
(* steals and wakeups implement it: an accepted work item waits in a pool, *)
(* is taken by one free worker, in any order, and runs once; items may be  *)
(* discarded while they wait.  NativeActorScheduler uses the executor in   *)
(* this form (`items' and TakeWork).                                       *)
(***************************************************************************)
EXTENDS Naturals

CONSTANTS Works, Workers, None

VARIABLES
    pool,     \* work -> number of waiting items
    running,  \* worker -> the work it runs, or None
    done      \* work -> number of items that have run

vars == <<pool, running, done>>

Init ==
    /\ pool = [x \in Works |-> 0]
    /\ running = [w \in Workers |-> None]
    /\ done = [x \in Works |-> 0]

Accept(x) ==
    /\ pool' = [pool EXCEPT ![x] = @ + 1]
    /\ UNCHANGED <<running, done>>

Take(w, x) ==
    /\ running[w] = None
    /\ pool[x] > 0
    /\ pool' = [pool EXCEPT ![x] = @ - 1]
    /\ running' = [running EXCEPT ![w] = x]
    /\ UNCHANGED done

Finish(w) ==
    /\ running[w] # None
    /\ done' = [done EXCEPT ![running[w]] = @ + 1]
    /\ running' = [running EXCEPT ![w] = None]
    /\ UNCHANGED pool

Discard ==
    /\ \A x \in Works : pool'[x] \in 0..pool[x]
    /\ UNCHANGED <<running, done>>

Next ==
    \/ \E x \in Works : Accept(x) \/ \E w \in Workers : Take(w, x)
    \/ \E w \in Workers : Finish(w)
    \/ Discard

Spec == Init /\ [][Next]_vars

=============================================================================
