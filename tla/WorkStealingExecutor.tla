------------------------ MODULE WorkStealingExecutor ------------------------
(***************************************************************************)
(* The work-stealing executor under the native actor scheduler             *)
(* (actor_work_stealing_executor.cpp): one deque per worker, a shared      *)
(* injector queue, two atomic counters, and workers that sleep on an       *)
(* atomic wake epoch.                                                      *)
(*                                                                         *)
(* A step is one critical section on a queue or one access to the atomics; *)
(* the tests of the monotone flags accepting, shutdown and joined that     *)
(* stand next to each other are one step.  The wake epoch is kept as the   *)
(* one fact a worker learns from it: whether it moved since the worker     *)
(* loaded it.  A queue mutex is held exactly while its owner is at "push". *)
(***************************************************************************)
EXTENDS Naturals, Sequences, FiniteSets, SequencesExt

CONSTANTS
    Workers,         \* worker threads
    Callers,         \* other threads: they submit, reschedule and shut down
    Works,           \* the closures given to the executor
    Injector,        \* name of the injector queue ("no preferred worker")
    None,
    MaxRuns,         \* bound of the model: how often one work is enqueued
    IdleYieldLimit,  \* idle_yield_limit (32 in the code)
    ShutdownModes,   \* the modes shutdown is called with
    StartMayFail     \* whether a thread may fail to start

ASSUME ExecutorAssumption ==
    /\ Workers # {}              \* normalized_worker_count
    /\ Workers \cap Callers = {}
    /\ Injector \notin Workers
    /\ None \notin Works
    /\ MaxRuns \in Nat /\ IdleYieldLimit \in Nat
    /\ ShutdownModes \subseteq {"Drain", "Cancel"}
    /\ StartMayFail \in BOOLEAN

Threads == Workers \cup Callers
Queues  == Workers \cup {Injector}

VARIABLES
    flags,     \* accepting_, shutdown_requested_, cancelling_, joined_, started_
    queue,     \* the workers' deques and the injector; back is the right end
    runnable,  \* runnable_count_
    active,    \* active_count_
    th,        \* threads
    closing,   \* the thread inside shutdown() or a failed start()
    runs,      \* history: how often a work was accepted
    executed,  \* history: how often a work ran to its end
    late       \* history: works a non-worker pushed after the shutdown request

vars == <<flags, queue, runnable, active, th, closing, runs, executed, late>>

-----------------------------------------------------------------------------
(* target: the queue an enqueue or steal is working on.  previous: a value  *)
(* fetched from a counter.  stale: wake_epoch_ moved since it was loaded.   *)

NewThread ==
    [pc |-> "unborn", item |-> None, target |-> Injector, internal |-> FALSE,
     previous |-> 0, victims |-> {}, stale |-> FALSE, yields |-> 0,
     cancelSeen |-> FALSE, woken |-> FALSE]

NewClosing == [pc |-> "none", left |-> {}, removed |-> 0]

Init ==
    /\ flags = [accepting |-> TRUE, shutdown |-> FALSE, cancelling |-> FALSE,
                joined |-> FALSE, started |-> FALSE]
    /\ queue = [q \in Queues |-> <<>>]
    /\ runnable = 0
    /\ active = 0
    /\ th = [t \in Threads |->
               [NewThread EXCEPT !.pc = IF t \in Workers THEN "unborn" ELSE "idle"]]
    /\ closing = NewClosing
    /\ runs = [x \in Works |-> 0]
    /\ executed = [x \in Works |-> 0]
    /\ late = {}

history == <<runs, executed, late>>

Locked(q) == \E t \in Threads : th[t].pc = "push" /\ th[t].target = q

\* The epoch moves for those who loaded it and have not used it yet.
Watching(r) == r.pc \in {"recheck", "exitFlags", "exitRunnable", "exitActive",
                         "yield", "wait"} /\ ~r.woken

EpochMoved(f) == [t \in Threads |-> [f[t] EXCEPT !.stale = @ \/ Watching(f[t])]]

\* notify_one: one sleeper is woken.
NotifyOne(f) ==
    LET moved    == EpochMoved(f)
        sleepers == {w \in Workers : f[w].pc = "asleep"}
    IN  IF sleepers = {} THEN {moved}
        ELSE {[moved EXCEPT ![w].pc = "woken"] : w \in sleepers}

\* notify_all.
NotifyAll(f) ==
    LET moved == EpochMoved(f)
    IN  [t \in Threads |-> IF f[t].pc = "asleep" THEN [moved[t] EXCEPT !.pc = "woken"]
                                                 ELSE moved[t]]

-----------------------------------------------------------------------------
(* Start: the constructor creates the threads before anybody else has the  *)
(* executor.                                                               *)

StartThread(w) ==
    /\ ~flags.started
    /\ closing.pc = "none"
    /\ th[w].pc = "unborn"
    /\ th' = [th EXCEPT ![w].pc = "local"]
    /\ flags' = [flags EXCEPT !.started =
                   \A v \in Workers \ {w} : th[v].pc # "unborn"]
    /\ UNCHANGED <<queue, runnable, active, closing, history>>

\* A thread cannot be created: the started ones are stopped and joined.
StartFails ==
    /\ StartMayFail
    /\ ~flags.started
    /\ closing.pc = "none"
    /\ flags' = [flags EXCEPT !.accepting = FALSE, !.shutdown = TRUE,
                              !.cancelling = TRUE]
    /\ closing' = [NewClosing EXCEPT !.pc = "clear", !.left = Queues]
    /\ UNCHANGED <<queue, runnable, active, th, history>>

-----------------------------------------------------------------------------
(* submit and reschedule.                                                  *)

\* The test that enqueue makes before and again under the queue lock.
Refused(t, internal) ==
    \/ flags.cancelling
    \/ ~internal /\ ~flags.accepting
    \/ flags.shutdown /\ ~(internal /\ t \in Workers)
    \/ flags.joined

\* enqueue takes the queue lock and passes the test.
Admit(t, x, q, internal) ==
    /\ ~Locked(q)
    /\ ~Refused(t, internal)
    /\ runs[x] < MaxRuns
    /\ th' = [th EXCEPT ![t].pc = "push", ![t].item = x, ![t].target = q,
                        ![t].internal = internal]
    /\ UNCHANGED <<flags, queue, runnable, active, closing, history>>

\* submit by the scheduler's callers, or reschedule by a thread that is no
\* worker (an I/O completion, a canceller).
Submit(c, x, q, internal) ==
    /\ th[c].pc = "idle"
    /\ flags.started
    /\ runs[x] = 0
    /\ \A t \in Threads : th[t].item # x
    /\ Admit(c, x, q, internal)

\* A running item puts its continuation back.
Reschedule(w, q) ==
    /\ th[w].pc = "run"
    /\ Admit(w, th[w].item, q, TRUE)

\* ... and is refused once the executor is cancelling.
RescheduleRefused(w) ==
    /\ th[w].pc = "run"
    /\ Refused(w, TRUE)
    /\ th' = [th EXCEPT ![w].pc = "ran"]
    /\ UNCHANGED <<flags, queue, runnable, active, closing, history>>

EnqueuePush(t) ==
    /\ th[t].pc = "push"
    /\ queue' = [queue EXCEPT ![th[t].target] = Append(@, th[t].item)]
    /\ runnable' = runnable + 1
    /\ th' = [th EXCEPT ![t].pc = "notify", ![t].previous = runnable]
    /\ runs' = [runs EXCEPT ![th[t].item] = @ + 1]
    /\ late' = IF flags.shutdown /\ t \notin Workers
               THEN late \cup {th[t].item} ELSE late
    /\ UNCHANGED <<flags, active, closing, executed>>

RescheduledLocally(t) == th[t].internal /\ t \in Workers /\ th[t].target = t

\* Whether an enqueue wakes a worker.
WakesPeer(t) ==
    /\ ~RescheduledLocally(t)
    /\ th[t].previous + active < Cardinality(Workers)

\* The end of enqueue: wake a worker unless enough is going on already.
EnqueueNotify(t) ==
    LET back == [th EXCEPT ![t].pc = IF t \in Workers THEN "ran" ELSE "idle",
                           ![t].item = IF t \in Workers THEN @ ELSE None,
                           ![t].internal = FALSE, ![t].previous = 0,
                           ![t].target = Injector]
    IN  /\ th[t].pc = "notify"
        /\ th' \in IF WakesPeer(t) THEN NotifyOne(back) ELSE {back}
        /\ UNCHANGED <<flags, queue, runnable, active, closing, history>>

-----------------------------------------------------------------------------
(* Workers take, run and finish work.                                      *)

\* Claim item x of queue q by worker w: the counters move under the lock.
Claim(w, q, rest, x) ==
    /\ queue' = [queue EXCEPT ![q] = rest]
    /\ active' = active + 1
    /\ runnable' = runnable - 1
    /\ th' = [th EXCEPT ![w] = [NewThread EXCEPT !.pc = "run", !.item = x]]
    /\ late' = late \ {x}
    /\ UNCHANGED <<flags, closing, runs, executed>>

\* The record r at pc; what the worker will not read again is cleared.
At(r, pc) ==
    IF pc \in {"local", "asleep", "woken", "exited"}
    THEN [NewThread EXCEPT !.pc = pc, !.yields = r.yields]
    ELSE [r EXCEPT !.pc = pc]

\* Worker w moves on to pc.
Goto(w, pc) ==
    /\ th' = [th EXCEPT ![w] = At(@, pc)]
    /\ UNCHANGED <<flags, queue, runnable, active, closing, history>>

\* try_pop_local: newest first.
TryPopLocal(w) ==
    /\ th[w].pc = "local"
    /\ ~Locked(w)
    /\ IF queue[w] = <<>> THEN Goto(w, "injector")
       ELSE Claim(w, w, Front(queue[w]), Last(queue[w]))

\* try_pop_injector: oldest first.
TryPopInjector(w) ==
    /\ th[w].pc = "injector"
    /\ ~Locked(Injector)
    /\ IF queue[Injector] = <<>> THEN Goto(w, "probe")
       ELSE Claim(w, Injector, Tail(queue[Injector]), Head(queue[Injector]))

\* try_take_work looks at runnable_count_ before it steals.
Probe(w) ==
    /\ th[w].pc = "probe"
    /\ th' = [th EXCEPT ![w].pc = IF runnable = 0 THEN "epoch" ELSE "steal",
                        ![w].victims = IF runnable = 0 THEN {} ELSE Workers \ {w}]
    /\ UNCHANGED <<flags, queue, runnable, active, closing, history>>

\* Mutant: the stolen item stays in the victim's queue.
StolenFromNobody(q) == q

\* A thief takes the oldest item.
StolenFrom(q) == Tail(q)

\* try_steal visits the other workers once, from a random one on.
TrySteal(w, v) ==
    /\ th[w].pc = "steal"
    /\ v \in th[w].victims
    /\ ~Locked(v)
    /\ IF queue[v] = <<>>
       THEN /\ th' = [th EXCEPT ![w].victims = @ \ {v}]
            /\ UNCHANGED <<flags, queue, runnable, active, closing, history>>
       ELSE Claim(w, v, StolenFrom(queue[v]), Head(queue[v]))

StealFails(w) ==
    /\ th[w].pc = "steal"
    /\ th[w].victims = {}
    /\ Goto(w, "epoch")

\* The item returns or throws; active_count_ is decremented after that.
Finish(w) ==
    /\ th[w].pc \in {"run", "ran"}
    /\ active' = active - 1
    /\ executed' = [executed EXCEPT ![th[w].item] = @ + 1]
    /\ th' = [th EXCEPT ![w] =
                 [NewThread EXCEPT !.pc = IF active = 1 THEN "lastActive" ELSE "local"]]
    /\ UNCHANGED <<flags, queue, runnable, closing, runs, late>>

LastActive(w) ==
    /\ th[w].pc = "lastActive"
    /\ Goto(w, IF flags.shutdown THEN "lastRunnable" ELSE "local")

\* The last active worker of a draining executor wakes the others.
LastRunnable(w) ==
    LET on == [th EXCEPT ![w].pc = "local"]
    IN  /\ th[w].pc = "lastRunnable"
        /\ th' = IF runnable = 0 THEN NotifyAll(on) ELSE on
        /\ UNCHANGED <<flags, queue, runnable, active, closing, history>>

-----------------------------------------------------------------------------
(* Workers go to sleep or leave.                                           *)

LoadEpoch(w) ==
    /\ th[w].pc = "epoch"
    /\ th' = [th EXCEPT ![w].pc = "recheck", ![w].stale = FALSE, ![w].woken = FALSE]
    /\ UNCHANGED <<flags, queue, runnable, active, closing, history>>

\* Mutant: no second look at runnable_count_ after the epoch was loaded.
RecheckNever(w) ==
    /\ th[w].pc = "recheck"
    /\ Goto(w, "exitFlags")

Recheck(w) ==
    /\ th[w].pc = "recheck"
    /\ Goto(w, IF runnable > 0 THEN "local" ELSE "exitFlags")

\* Where a worker goes that may not leave: idle it yields, woken it looks for
\* work.
Stays(w) == IF th[w].woken THEN "local" ELSE "yield"

\* should_exit_idle_worker reads the flags, runnable_count_ and active_count_.
ExitFlags(w) ==
    /\ th[w].pc = "exitFlags"
    /\ th' = [th EXCEPT ![w].pc = IF flags.shutdown THEN "exitRunnable" ELSE Stays(w),
                        ![w].cancelSeen = flags.cancelling]
    /\ UNCHANGED <<flags, queue, runnable, active, closing, history>>

\* After a positive answer the worker leaves, but a woken one only after
\* another look at runnable_count_.
Leaves(w) == IF th[w].woken THEN "exitWoken" ELSE "exited"

\* Mutant: a worker leaves without this second look at runnable_count_.
ExitRunnableSkipped(w) ==
    /\ th[w].pc = "exitRunnable"
    /\ Goto(w, IF th[w].cancelSeen THEN Leaves(w) ELSE "exitActive")

ExitRunnable(w) ==
    /\ th[w].pc = "exitRunnable"
    /\ Goto(w, IF runnable > 0 THEN Stays(w)
               ELSE IF th[w].cancelSeen THEN Leaves(w) ELSE "exitActive")

ExitActive(w) ==
    /\ th[w].pc = "exitActive"
    /\ Goto(w, IF active = 0 THEN Leaves(w) ELSE Stays(w))

ExitWoken(w) ==
    /\ th[w].pc = "exitWoken"
    /\ Goto(w, IF runnable = 0 THEN "exited" ELSE "local")

Yield(w) ==
    /\ th[w].pc = "yield"
    /\ th' = [th EXCEPT
               ![w] = IF th[w].yields < IdleYieldLimit
                      THEN At([th[w] EXCEPT !.yields = th[w].yields + 1], "local")
                      ELSE [th[w] EXCEPT !.pc = "wait", !.yields = 0]]
    /\ UNCHANGED <<flags, queue, runnable, active, closing, history>>

\* wake_epoch_.wait(epoch): returns at once if the epoch moved.
Wait(w) ==
    /\ th[w].pc = "wait"
    /\ Goto(w, IF th[w].stale THEN "woken" ELSE "asleep")

Woken(w) ==
    /\ th[w].pc = "woken"
    /\ th' = [th EXCEPT ![w].pc = "exitFlags", ![w].woken = TRUE]
    /\ UNCHANGED <<flags, queue, runnable, active, closing, history>>

-----------------------------------------------------------------------------
(* shutdown.  The scheduler calls it once.                                 *)

Shutdown(mode) ==
    /\ flags.started
    /\ closing.pc = "none"
    /\ flags' = [flags EXCEPT !.accepting = FALSE, !.shutdown = TRUE]
    /\ closing' = [NewClosing EXCEPT !.pc = IF mode = "Cancel" THEN "cancel"
                                                              ELSE "notifyAll"]
    /\ UNCHANGED <<queue, runnable, active, th, history>>

SetCancelling ==
    /\ closing.pc = "cancel"
    /\ flags' = [flags EXCEPT !.cancelling = TRUE]
    /\ closing' = [closing EXCEPT !.pc = "clear", !.left = Queues]
    /\ UNCHANGED <<queue, runnable, active, th, history>>

\* clear_queued_work takes the queue locks one after another.
Clearable(q) == q \in closing.left /\ ~Locked(q)

ClearQueue(q) ==
    /\ closing.pc = "clear"
    /\ Clearable(q)
    /\ queue' = [queue EXCEPT ![q] = <<>>]
    /\ closing' = [closing EXCEPT !.left = @ \ {q},
                                  !.removed = @ + Len(queue[q])]
    /\ UNCHANGED <<flags, runnable, active, th, history>>

\* What clear_queued_work takes off runnable_count_.
Removed == closing.removed

ClearDone ==
    /\ closing.pc = "clear"
    /\ closing.left = {}
    /\ runnable' = runnable - Removed
    /\ closing' = [NewClosing EXCEPT !.pc = "notifyAll"]
    /\ UNCHANGED <<flags, queue, active, th, history>>

ShutdownNotify ==
    /\ closing.pc = "notifyAll"
    /\ th' = NotifyAll(th)
    /\ closing' = [closing EXCEPT !.pc = "join"]
    /\ UNCHANGED <<flags, queue, runnable, active, history>>

AllExited == \A w \in Workers : th[w].pc \in {"exited", "unborn"}

Join ==
    /\ closing.pc = "join"
    /\ AllExited
    /\ flags' = [flags EXCEPT !.joined = TRUE]
    /\ closing' = [closing EXCEPT !.pc = "done"]
    /\ UNCHANGED <<queue, runnable, active, th, history>>

-----------------------------------------------------------------------------
EnqueueSteps(t) == EnqueuePush(t) \/ EnqueueNotify(t)

TakeSteps(w) ==
    \/ TryPopLocal(w)
    \/ TryPopInjector(w)
    \/ Probe(w)
    \/ \E v \in Workers : TrySteal(w, v)
    \/ StealFails(w)

RunSteps(w) ==
    \/ \E q \in Queues : Reschedule(w, q)
    \/ RescheduleRefused(w)
    \/ Finish(w)
    \/ LastActive(w)
    \/ LastRunnable(w)

IdleSteps(w) ==
    \/ LoadEpoch(w)
    \/ Recheck(w)
    \/ ExitFlags(w)
    \/ ExitRunnable(w)
    \/ ExitActive(w)
    \/ ExitWoken(w)
    \/ Yield(w)
    \/ Wait(w)
    \/ Woken(w)

WorkerSteps(w) == EnqueueSteps(w) \/ TakeSteps(w) \/ RunSteps(w) \/ IdleSteps(w)

ClosingSteps ==
    \/ SetCancelling
    \/ \E q \in Queues : ClearQueue(q)
    \/ ClearDone
    \/ ShutdownNotify
    \/ Join

Next ==
    \/ \E w \in Workers : StartThread(w) \/ WorkerSteps(w)
    \/ StartFails
    \/ \E c \in Callers : EnqueueSteps(c)
    \/ \E c \in Callers, x \in Works : \/ Submit(c, x, Injector, FALSE)
                                       \/ \E q \in Queues : Submit(c, x, q, TRUE)
    \/ \E mode \in ShutdownModes : Shutdown(mode)
    \/ ClosingSteps

Spec == Init /\ [][Next]_vars

\* Threads are scheduled, items return, and whoever is inside enqueue, start
\* or shutdown goes on.
FairSpec ==
    /\ Spec
    /\ \A w \in Workers : WF_vars(StartThread(w)) /\ WF_vars(WorkerSteps(w))
    /\ \A c \in Callers : WF_vars(EnqueueSteps(c))
    /\ WF_vars(ClosingSteps)

-----------------------------------------------------------------------------
(* Properties.                                                             *)

PcSet == {"unborn", "idle", "push", "notify", "local", "injector", "probe", "steal",
          "run", "ran", "lastActive", "lastRunnable", "epoch", "recheck",
          "exitFlags", "exitRunnable", "exitActive", "exitWoken", "yield", "wait",
          "asleep", "woken", "exited"}

ThreadType ==
    [pc : PcSet, item : Works \cup {None}, target : Queues, internal : BOOLEAN,
     previous : Nat, victims : SUBSET Workers, stale : BOOLEAN, yields : Nat,
     cancelSeen : BOOLEAN, woken : BOOLEAN]

\* The types of the executor's state.
TypeOK ==
    /\ flags \in [accepting : BOOLEAN, shutdown : BOOLEAN, cancelling : BOOLEAN,
                  joined : BOOLEAN, started : BOOLEAN]
    /\ queue \in [Queues -> Seq(Works)]
    /\ runnable \in Nat
    /\ active \in Nat
    /\ th \in [Threads -> ThreadType]
    /\ closing \in [pc : {"none", "cancel", "clear", "notifyAll", "join", "done"},
                    left : SUBSET Queues, removed : Nat]
    /\ runs \in [Works -> Nat]
    /\ executed \in [Works -> Nat]
    /\ late \subseteq Works

Running(w) == \/ th[w].pc \in {"run", "ran"}
              \/ th[w].pc \in {"push", "notify"}

\* The places in the queues, and in how many of them x waits.
Slots == UNION {{q} \X DOMAIN queue[q] : q \in Queues}

QueuedCount(x) == Cardinality({s \in Slots : queue[s[1]][s[2]] = x})

Queued == \E q \in Queues : queue[q] # <<>>

Pool == INSTANCE WorkPool WITH
            pool    <- [x \in Works |-> QueuedCount(x)],
            running <- [w \in Workers |-> IF Running(w) THEN th[w].item ELSE None],
            done    <- executed

\* The executor implements the pool: pops, steals and the clearing at shutdown
\* never run an item twice, lose it or hand it to two workers.
ImplementsPool == Pool!Spec

\* A cancelled executor leaves nothing behind, and a drained one only what a
\* thread outside of it was still pushing when shutdown was requested.
ShutdownLeavesOnlyLate ==
    /\ flags.cancelling /\ flags.joined => ~Queued /\ runnable = 0 /\ active = 0
    /\ flags.shutdown /\ AllExited => \A q \in Queues : ToSet(queue[q]) \subseteq late

\* Every accepted item runs, whatever sleeps and steals happen on the way,
\* unless a cancelling shutdown discards it or it came too late for a drain.
AcceptedWorkRuns ==
    \A x \in Works : \A n \in 1..MaxRuns :
        runs[x] = n ~> executed[x] >= n \/ flags.cancelling \/ x \in late

=============================================================================
