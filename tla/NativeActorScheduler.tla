------------------------ MODULE NativeActorScheduler ------------------------
(***************************************************************************)
(* The native actor scheduler of OBCX: one FIFO mailbox per                *)
(* actor:partition key, at most one active ActorTask per mailbox, a        *)
(* bounded number of pending invocations, and two shutdown modes.          *)
(*                                                                         *)
(* One action is one critical section of native_actor_scheduler.cpp (a     *)
(* scoped_lock on a mailbox or on the scheduler state) or one piece of     *)
(* code that runs between two of them: handle_message, ActorTask::resume,  *)
(* a completion callback, a call of the executor.  Threads interleave      *)
(* between those steps.                                                    *)
(*                                                                         *)
(* A mailbox object is named by the invocation whose enqueue created it,   *)
(* so a mailbox that was reclaimed and its successor under the same key    *)
(* are different objects.  A ScheduleRequest or executor item (mailbox,    *)
(* generation) is named by the invocation that had this generation when it *)
(* was made; the code's staleness tests compare generations and so does    *)
(* the model.  The work-stealing executor is abstracted to a bag of items  *)
(* that any idle worker may take in any order.                             *)
(***************************************************************************)
EXTENDS Naturals, Sequences, FiniteSets, FiniteSetsExt, SequencesExt

CONSTANTS
    Invocations,             \* calls of enqueue, each made at most once
    Keys, Actors, Messages,  \* mailbox keys, actor ids, message ids
    KeyOf, ActorOf,          \* mailbox key of an invocation, actor of a key
    MessageOf,               \* message id of an invocation (ids may repeat)
    Workers,                 \* threads of the work-stealing executor
    Callers,                 \* threads that enqueue, cancel and shut down
    IoThreads,               \* threads that run Asio completion handlers
    None,
    UseGlobalSharing,        \* options.use_global_sharing
    MaxPendingTasks, MaxPendingPerActor, MaxPendingPerPartition, \* 0 = no limit
    MaxIdleHandoffYields,    \* max_idle_handoff_yields (4 in the code)
    MaxLocalHandoffs,        \* max_local_handoffs (15 in the code)
    ShutdownModes,           \* the modes callers of shutdown use
    MaxSuspensions           \* bound of the model: suspensions of one task

ASSUME ConstantsAssumption ==
    /\ KeyOf \in [Invocations -> Keys]
    /\ ActorOf \in [Keys -> Actors]
    /\ MessageOf \in [Invocations -> Messages]
    /\ None \notin Invocations
    /\ UseGlobalSharing \in BOOLEAN
    /\ ShutdownModes \subseteq {"Drain", "Cancel"}
    /\ {MaxPendingTasks, MaxPendingPerActor, MaxPendingPerPartition,
        MaxLocalHandoffs, MaxSuspensions} \subseteq Nat
    /\ MaxIdleHandoffYields \in Nat \ {0}
    /\ Workers \cap Callers = {}
    /\ Workers \cap IoThreads = {}
    /\ Callers \cap IoThreads = {}

\* Whatever has happened so far involves finitely many calls, keys and threads:
\* the sums over them in the properties mean something only then.
ASSUME FinitenessAssumption ==
    /\ IsFiniteSet(Invocations)
    /\ IsFiniteSet(Keys)
    /\ IsFiniteSet(Workers) /\ IsFiniteSet(Callers) /\ IsFiniteSet(IoThreads)

VARIABLES
    sched,      \* NativeActorSchedulerState: flags, counters, actors, metrics
    mailboxes,  \* state->mailboxes: key -> mailbox object, or None
    box,        \* NativeActorMailbox objects
    inv,        \* PendingNativeInvocation / ActiveNativeInvocation objects
    items,      \* executor queues: invocation -> number of queued work items
    unswept,    \* keys that a cancelling shutdown still has to visit
    th,         \* threads
    result,     \* history: what the completion handler received
    calls       \* history: how often the completion handler was called

vars == <<sched, mailboxes, box, inv, items, unswept, th, result, calls>>

Threads == Workers \cup Callers \cup IoThreads

-----------------------------------------------------------------------------
(* The objects and their initial values.                                   *)

Statuses == {"Idle", "Runnable", "Running", "Suspended", "Stopping"}

Results == {"ok", "failed", "cancelled", "stopped", "backpressure"}

\* ActorTask as the scheduler sees it: not valid() before handle_message has
\* returned, then what done(), suspension() and take_result() answer after a
\* resume.  "failed": take_result throws or returns a failure, or the task
\* suspended without a runtime boundary.
TaskStates == {"invalid", "created", "yielded", "awaiting", "ok", "failed"}

NewMailbox ==
    [status |-> "Idle", claimed |-> FALSE, generation |-> 0,
     pending |-> <<>>, active |-> None, settled |-> 0]

\* ioPending: the task's Asio operation is in phase Pending.
\* submitted, ticket and settledAt are history: whether enqueue was called, and
\* the number of accepted invocations at admission and at the step that took
\* the invocation out of its mailbox.
NewInvocation ==
    [submitted |-> FALSE, home |-> None, gen |-> 0, actor |-> FALSE, task |-> "invalid",
     suspensions |-> 0, epoch |-> 0, readyEpoch |-> 0, completedEpoch |-> 0,
     cancelAfterResume |-> FALSE, ioPending |-> FALSE, ticket |-> 0, settledAt |-> 0]

IdleThread ==
    [pc |-> "idle", cur |-> None, events |-> <<>>, request |-> None,
     touched |-> None, next |-> "idle", attempts |-> 0, handoffs |-> 0,
     epoch |-> 0]

NewSched ==
    [accepting |-> TRUE, stopping |-> FALSE, cancelling |-> FALSE,
     stopped |-> FALSE, executorShutdown |-> FALSE, late |-> {}, actors |-> {},
     pendingTasks |-> 0,
     actorPending |-> [a \in Actors |-> 0],
     partitionPending |-> [k \in Keys |-> 0],
     accepted |-> 0, rejected |-> 0, retired |-> 0]

Init ==
    /\ sched = NewSched
    /\ mailboxes = [k \in Keys |-> None]
    /\ box = [b \in Invocations |-> NewMailbox]
    /\ inv = [i \in Invocations |-> NewInvocation]
    /\ items = [i \in Invocations |-> 0]
    /\ unswept = {}
    /\ th = [t \in Threads |-> IdleThread]
    /\ result = [i \in Invocations |-> None]
    /\ calls = [i \in Invocations |-> 0]

\* A cancelling shutdown visits the mailboxes while it holds state->mutex.
StateMutexFree == \A c \in Callers : th[c].pc # "sweep"

-----------------------------------------------------------------------------
(* Helpers that several critical sections share.                           *)

Event(i, r) == [inv |-> i, result |-> r]

\* invoke_completions comes first; a thread without events goes on at once.
Deliver(rec, evs, then) ==
    [rec EXCEPT !.events = evs,
                !.next = IF evs = <<>> THEN "idle" ELSE then,
                !.pc = IF evs = <<>> THEN then ELSE "deliver"]

\* pending_limit_exceeded
PendingLimitExceeded(i) ==
    \/ MaxPendingTasks > 0 /\ sched.pendingTasks >= MaxPendingTasks
    \/ MaxPendingPerActor > 0
       /\ sched.actorPending[ActorOf[KeyOf[i]]] >= MaxPendingPerActor
    \/ MaxPendingPerPartition > 0
       /\ sched.partitionPending[KeyOf[i]] >= MaxPendingPerPartition

\* increment_pending: the per-actor and per-partition counters exist only
\* when their limit does.
IncrementPending(s, i) ==
    [s EXCEPT !.pendingTasks = @ + 1,
              !.actorPending[ActorOf[KeyOf[i]]] =
                  IF MaxPendingPerActor > 0 THEN @ + 1 ELSE @,
              !.partitionPending[KeyOf[i]] =
                  IF MaxPendingPerPartition > 0 THEN @ + 1 ELSE @]

\* Mutant: the per-partition counter is never released.
DecrementPendingNoPartition(s, k, n) ==
    [s EXCEPT !.pendingTasks = @ - n,
              !.actorPending[ActorOf[k]] =
                  IF MaxPendingPerActor > 0 THEN @ - n ELSE @]

\* decrement_pending, once for each of the n invocations of mailbox key k
\* that a critical section takes out of the mailbox.
DecrementPending(s, k, n) ==
    [s EXCEPT !.pendingTasks = @ - n,
              !.actorPending[ActorOf[k]] =
                  IF MaxPendingPerActor > 0 THEN @ - n ELSE @,
              !.partitionPending[k] =
                  IF MaxPendingPerPartition > 0 THEN @ - n ELSE @]

\* The invocations that prepare_next_locked pops because their actor was not
\* registered at admission: none once the scheduler is cancelling.
Unregistered(v, q) ==
    IF sched.cancelling THEN <<>>
    ELSE LET live == {n \in 1..Len(q) : v[q[n]].actor}
         IN  SubSeq(q, 1, IF live = {} THEN Len(q) ELSE Min(live) - 1)

UnregisteredEvents(v, q) ==
    LET u == Unregistered(v, q) IN [n \in 1..Len(u) |-> Event(u[n], "failed")]

\* Mutant: the youngest pending invocation is activated first.
PrepareNextLifo(v, m) ==
    IF m.pending = <<>> \/ sched.cancelling
    THEN [m EXCEPT !.status = IF sched.stopping THEN "Stopping" ELSE "Idle"]
    ELSE [m EXCEPT !.pending = Front(@), !.active = Last(m.pending),
                   !.generation = @ + 1, !.status = "Runnable"]

\* Mutant: a draining shutdown already parks the mailbox.
PrepareNextNotWhenStopping(v, m) ==
    LET dropped == Len(Unregistered(v, m.pending))
        rest    == SubSeq(m.pending, dropped + 1, Len(m.pending))
        parked  == [m EXCEPT !.pending = rest, !.settled = @ + dropped,
                             !.status = IF sched.stopping THEN "Stopping"
                                                          ELSE "Idle"]
    IN  IF rest = <<>> \/ sched.stopping
        THEN parked
        ELSE [parked EXCEPT !.pending = Tail(rest), !.active = Head(rest),
                            !.generation = @ + 1, !.status = "Runnable"]

\* prepare_next_locked: drop what has no actor, activate the oldest of the
\* rest under a new generation, or park the mailbox.
PrepareNext(v, m) ==
    LET dropped == Len(Unregistered(v, m.pending))
        rest    == SubSeq(m.pending, dropped + 1, Len(m.pending))
        parked  == [m EXCEPT !.pending = rest, !.settled = @ + dropped,
                             !.status = IF sched.stopping THEN "Stopping"
                                                          ELSE "Idle"]
    IN  IF rest = <<>> \/ sched.cancelling
        THEN parked
        ELSE [parked EXCEPT !.pending = Tail(rest), !.active = Head(rest),
                            !.generation = @ + 1, !.status = "Runnable"]

\* complete_active_locked: the active invocation leaves, the next one comes.
CompleteActive(v, m) ==
    PrepareNext(v, [m EXCEPT !.active = None, !.settled = @ + 1])

\* active.reset() destroys the ActorTask and abandons its Asio operation.  What
\* is left are the facts about i that requests and histories still name.
Destroyed(x) ==
    [x EXCEPT !.task = "invalid", !.suspensions = 0, !.epoch = 0,
              !.readyEpoch = 0, !.completedEpoch = 0, !.ioPending = FALSE,
              !.settledAt = sched.accepted]

\* What a critical section that left a mailbox as m does to the invocation
\* objects v: those in `gone' left the mailbox, a newly active one gets its
\* generation.
InvAfter(v, m, gone) ==
    [i \in Invocations |->
       LET x == IF i \in gone THEN Destroyed(v[i]) ELSE v[i]
       IN  IF i = m.active /\ x.gen = 0 THEN [x EXCEPT !.gen = m.generation] ELSE x]

EventInvs(evs) == {evs[n].inv : n \in DOMAIN evs}

\* The common shape of the critical sections that take invocations out of
\* mailbox b: its new value m, the completion events, and the thread's record.
Settle(b, m, evs, t, rec) ==
    /\ box' = [box EXCEPT ![b] = m]
    /\ inv' = InvAfter(inv, m, EventInvs(evs))
    /\ sched' = DecrementPending(sched, KeyOf[b], Len(evs))
    /\ th' = [th EXCEPT ![t] = rec]

\* complete_active_locked of mailbox b by thread t with result r, after which
\* the thread delivers the events and goes on at pc `then'.
SettleActive(b, r, t, rec, then) ==
    LET m   == CompleteActive(inv, box[b])
        evs == <<Event(box[b].active, r)>>
               \o UnregisteredEvents(inv, box[b].pending)
    IN  Settle(b, m, evs, t,
               Deliver([rec EXCEPT !.request = m.active, !.cur = None], evs, then))

\* The staleness test of run_mailbox, on_external_ready and
\* fail_schedule_request: the mailbox's active invocation still has the
\* generation the request was made for.
IsCurrent(i) ==
    LET a == box[inv[i].home].active
    IN  a # None /\ inv[a].gen = inv[i].gen
-----------------------------------------------------------------------------
(* Callers: enqueue, cancel, register_actor.                               *)

RegisterActor(a) ==
    /\ StateMutexFree
    /\ sched' = [sched EXCEPT !.actors = @ \cup {a}]
    /\ UNCHANGED <<mailboxes, box, inv, items, unswept, th, result, calls>>

\* enqueue when !accepting or at a limit: only the rejection is delivered.
EnqueueRejected(c, i, r) ==
    /\ sched' = [sched EXCEPT !.rejected = @ + 1]
    /\ inv' = [inv EXCEPT ![i].submitted = TRUE]
    /\ th' = [th EXCEPT ![c] = Deliver(@, <<Event(i, r)>>, "publish")]
    /\ UNCHANGED <<mailboxes, box, items, unswept, result, calls>>

\* enqueue of an admitted invocation: count it, find or create its mailbox,
\* append it, and activate the next one if the mailbox is idle and unclaimed.
EnqueueAdmitted(c, i) ==
    LET k    == KeyOf[i]
        b    == IF mailboxes[k] = None THEN i ELSE mailboxes[k]
        s    == IncrementPending([sched EXCEPT !.accepted = @ + 1], i)
        v    == [inv EXCEPT ![i] = [@ EXCEPT !.submitted = TRUE, !.home = b,
                                             !.actor = ActorOf[k] \in sched.actors,
                                             !.ticket = s.accepted]]
        push == [box[b] EXCEPT !.pending = Append(@, i)]
        go   == push.status = "Idle" /\ ~push.claimed
        m    == IF go THEN PrepareNext(v, push) ELSE push
        evs  == IF go THEN UnregisteredEvents(v, push.pending) ELSE <<>>
        rec  == [th[c] EXCEPT !.touched = b,
                              !.request = IF go THEN m.active ELSE None]
    IN  /\ mailboxes' = [mailboxes EXCEPT ![k] = b]
        /\ box' = [box EXCEPT ![b] = m]
        /\ inv' = InvAfter(v, m, EventInvs(evs))
        /\ sched' = DecrementPending(s, k, Len(evs))
        /\ th' = [th EXCEPT ![c] = Deliver(rec, evs, "publish")]
        /\ UNCHANGED <<items, unswept, result, calls>>

Enqueue(c, i) ==
    /\ th[c].pc = "idle"
    /\ StateMutexFree
    /\ ~inv[i].submitted
    /\ \/ ~sched.accepting /\ EnqueueRejected(c, i, "stopped")
       \/ sched.accepting /\ PendingLimitExceeded(i)
          /\ EnqueueRejected(c, i, "backpressure")
       \/ sched.accepting /\ ~PendingLimitExceeded(i) /\ EnqueueAdmitted(c, i)

\* Mutant: the pending counters are not decremented.
CancelPendingNoDecrement(c, b, n) ==
    LET m   == [box[b] EXCEPT !.pending = RemoveAt(@, n), !.settled = @ + 1]
        evs == <<Event(box[b].pending[n], "cancelled")>>
    IN  /\ box' = [box EXCEPT ![b] = m]
        /\ inv' = InvAfter(inv, m, EventInvs(evs))
        /\ th' = [th EXCEPT ![c] = Deliver([@ EXCEPT !.touched = b], evs, "publish")]
        /\ UNCHANGED sched

\* cancel of a pending invocation: it leaves the queue wherever it stands.
CancelPending(c, b, n) ==
    LET i == box[b].pending[n]
        m == [box[b] EXCEPT !.pending = RemoveAt(@, n), !.settled = @ + 1]
        evs == <<Event(i, "cancelled")>>
    IN  Settle(b, m, evs, c, Deliver([th[c] EXCEPT !.touched = b], evs, "publish"))

\* Mutant: a running invocation is settled by the canceller.
CancelActiveWhileRunning(c, b) ==
    SettleActive(b, "cancelled", c, [th[c] EXCEPT !.touched = b], "publish")

\* cancel of the active invocation: a running one only gets its flag, and
\* run_mailbox settles it after the resume; any other is settled here.
CancelActive(c, b) ==
    LET i   == box[b].active
        rec == [th[c] EXCEPT !.touched = b]
    IN  IF box[b].status = "Running"
        THEN /\ inv' = [inv EXCEPT ![i].cancelAfterResume = TRUE]
             /\ th' = [th EXCEPT ![c] = Deliver(rec, <<>>, "publish")]
             /\ UNCHANGED <<box, sched>>
        ELSE SettleActive(b, "cancelled", c, rec, "publish")

\* cancel(actor, partition, message id). The calls that find no mailbox or no such
\* message change nothing; that the latter also try to reclaim the mailbox is left to
\* whoever made it idle.
Cancel(c, k, msg) ==
    LET b == mailboxes[k]
        q == box[b].pending
        matches == {n \in 1..Len(q) : MessageOf[q[n]] = msg}
    IN  /\ th[c].pc = "idle"
        /\ StateMutexFree
        /\ b # None
        /\ \/ matches # {} /\ CancelPending(c, b, Min(matches))
           \/ /\ matches = {} /\ box[b].active # None
              /\ MessageOf[box[b].active] = msg
              /\ CancelActive(c, b)
        /\ UNCHANGED <<mailboxes, items, unswept, result, calls>>

-----------------------------------------------------------------------------
(* The tail of enqueue, cancel, on_external_ready and run_mailbox:         *)
(* invoke_completions, publish_requests, reclaim_idle_mailbox.             *)

\* One completion handler runs (after which settledAt is no longer of interest).
InvokeCompletion(t) ==
    /\ th[t].pc = "deliver"
    /\ LET e == Head(th[t].events) IN
       /\ result' = [result EXCEPT ![e.inv] = e.result]
       /\ calls' = [calls EXCEPT ![e.inv] = @ + 1]
       /\ inv' = [inv EXCEPT ![e.inv].settledAt = 0]
       /\ th' = [th EXCEPT ![t] = Deliver(@, Tail(@.events), @.next)]
    /\ UNCHANGED <<sched, mailboxes, box, items, unswept>>

\* run_mailbox keeps its request for itself: it is internal and prefers this
\* worker, because run_mailbox made this worker the preferred one.
CanHandOff(t) ==
    /\ th[t].pc = "dispatch"
    /\ ~UseGlobalSharing
    /\ th[t].request # None
    /\ th[t].handoffs < MaxLocalHandoffs

\* The recursive call of run_mailbox, whose caller returns right after it.
LocalHandoff(w) ==
    /\ CanHandOff(w)
    /\ th' = [th EXCEPT ![w] = [IdleThread EXCEPT
                                   !.pc = "begin", !.cur = th[w].request,
                                   !.handoffs = th[w].handoffs + 1]]
    /\ UNCHANGED <<sched, mailboxes, box, inv, items, unswept, result, calls>>

\* The executor takes work until its shutdown is requested, and from its own
\* workers also while it drains.
ExecutorAccepts(t) == ~sched.executorShutdown \/ t \in Workers

\* Mutant: requests are published before the completions are invoked.
AtPublishTooEarly(t) == th[t].pc \in {"publish", "dispatch", "deliver"}

AtPublish(t) == th[t].pc = "publish" \/ (th[t].pc = "dispatch" /\ ~CanHandOff(t))

\* publish_request; a refused request fails its invocation if it is current.
\* The executor tests its flags before it pushes, so a push may also land after
\* the shutdown request that it did not see (WorkStealingExecutor, `late').
PublishRequest(t) ==
    LET r == th[t].request IN
    /\ AtPublish(t)
    /\ r # None
    /\ \/ /\ items' = [items EXCEPT ![r] = @ + 1]
          /\ sched' = IF ExecutorAccepts(t) THEN sched
                      ELSE [sched EXCEPT !.late = @ \cup {r}]
          /\ th' = [th EXCEPT ![t] = IF @.touched = None THEN IdleThread
                                     ELSE [@ EXCEPT !.request = None,
                                                    !.pc = "publish"]]
          /\ UNCHANGED <<box, inv>>
       \/ /\ ~ExecutorAccepts(t)
          /\ LET b   == inv[r].home
                 rec == [th[t] EXCEPT !.request = None, !.touched = b,
                                      !.pc = "publish"]
             IN  IF IsCurrent(r) /\ box[b].status = "Runnable"
                 THEN LET m   == CompleteActive(inv, box[b])
                          evs == <<Event(box[b].active, "stopped")>>
                                 \o UnregisteredEvents(inv, box[b].pending)
                      IN  Settle(b, m, evs, t, Deliver(rec, evs, "publish"))
                 ELSE /\ th' = [th EXCEPT ![t] = rec]
                      /\ UNCHANGED <<sched, box, inv>>
          /\ UNCHANGED items
    /\ UNCHANGED <<mailboxes, unswept, result, calls>>

\* Mutant: a mailbox whose last message is still active counts as idle.
ReclaimableWhileActive(m) == m.pending = <<>> /\ ~m.claimed

\* Mutant: the claim of a worker is not respected.
ReclaimableWhileClaimed(m) ==
    m.status = "Idle" /\ m.active = None /\ m.pending = <<>>

Reclaimable(m) ==
    m.status = "Idle" /\ m.active = None /\ m.pending = <<>> /\ ~m.claimed

\* reclaim_idle_mailbox: an idle mailbox that is still the one of its key
\* leaves the map, and its counters go to the retired metrics.  (Erasing a
\* zero partition counter only makes it absent, which reads as zero.)
ReclaimIdleMailbox(t) ==
    LET b == th[t].touched IN
    /\ AtPublish(t)
    /\ th[t].request = None
    /\ b # None => StateMutexFree
    /\ IF b # None /\ mailboxes[KeyOf[b]] = b /\ Reclaimable(box[b])
       THEN /\ mailboxes' = [mailboxes EXCEPT ![KeyOf[b]] = None]
            /\ sched' = [sched EXCEPT !.retired = @ + box[b].settled]
       ELSE UNCHANGED <<mailboxes, sched>>
    /\ th' = [th EXCEPT ![t] = IdleThread]
    /\ UNCHANGED <<box, inv, items, unswept, result, calls>>
-----------------------------------------------------------------------------
(* Workers: run_mailbox.                                                   *)

\* Mutant: work is taken from an empty queue.
TakeWorkUnchecked(w) ==
    /\ th[w].pc = "idle"
    /\ ~sched.stopped
    /\ \E i \in Invocations :
          /\ inv[i].gen > 0
          /\ items' = [items EXCEPT ![i] = @ - 1]
          /\ th' = [th EXCEPT ![w] = [IdleThread EXCEPT !.pc = "begin", !.cur = i]]
    /\ UNCHANGED <<sched, mailboxes, box, inv, unswept, result, calls>>

\* The executor hands a queued item to an idle worker, until they have left.
TakeWork(w) ==
    /\ th[w].pc = "idle"
    /\ ~sched.stopped
    /\ \E i \in Invocations :
          /\ items[i] > 0
          /\ items' = [items EXCEPT ![i] = @ - 1]
          /\ th' = [th EXCEPT ![w] = [IdleThread EXCEPT !.pc = "begin", !.cur = i]]
    /\ UNCHANGED <<sched, mailboxes, box, inv, unswept, result, calls>>

\* First critical section: claim the runnable mailbox, or return on a stale item.
Begin(w) ==
    LET i == th[w].cur
        b == inv[i].home
    IN  /\ th[w].pc = "begin"
        /\ IF IsCurrent(i) /\ box[b].status = "Runnable"
           THEN /\ box' = [box EXCEPT ![b].status = "Running"]
                /\ th' = [th EXCEPT ![w] =
                      [@ EXCEPT !.touched = b,
                                !.pc = IF inv[i].task = "invalid" THEN "start"
                                                                  ELSE "resume"]]
           ELSE /\ th' = [th EXCEPT ![w] = IdleThread]
                /\ UNCHANGED box
        /\ UNCHANGED <<sched, mailboxes, inv, items, unswept, result, calls>>

\* handle_message returned a task: publish it into the running mailbox.
AttachTask(w) ==
    LET i == th[w].cur IN
    /\ th[w].pc = "start"
    /\ IF IsCurrent(i)
       THEN /\ inv' = [inv EXCEPT ![i].task = "created"]
            /\ th' = [th EXCEPT ![w].pc = "resume"]
       ELSE /\ th' = [th EXCEPT ![w] = IdleThread]
            /\ UNCHANGED inv
    /\ UNCHANGED <<sched, mailboxes, box, items, unswept, result, calls>>

\* handle_message threw: the invocation fails, whatever was asked of it.
StartError(w) ==
    LET i == th[w].cur
        b == inv[i].home
    IN  /\ th[w].pc = "start"
        /\ IF IsCurrent(i)
           THEN SettleActive(b, "failed", w, th[w], "publish")
           ELSE /\ th' = [th EXCEPT ![w] = [@ EXCEPT !.pc = "publish", !.cur = None]]
                /\ UNCHANGED <<sched, box, inv>>
        /\ UNCHANGED <<mailboxes, items, unswept, result, calls>>

\* The task after a resume that ended in s: an Asio await takes a new epoch and
\* starts its operation.
Resumed(x, s) ==
    [x EXCEPT !.task = s,
              !.suspensions = IF s \in {"yielded", "awaiting"} THEN @ + 1 ELSE @,
              !.epoch = IF s = "awaiting" THEN @ + 1 ELSE @,
              !.ioPending = (s = "awaiting")]

\* task->resume() runs actor code, without any lock, to its next suspension or
\* to its end.
Resume(w, s) ==
    LET i == th[w].cur IN
    /\ th[w].pc = "resume"
    /\ s \in {"yielded", "awaiting"} => inv[i].suspensions < MaxSuspensions
    /\ inv' = [inv EXCEPT ![i] = Resumed(@, s)]
    /\ th' = [th EXCEPT ![w].pc = "post"]
    /\ UNCHANGED <<sched, mailboxes, box, items, unswept, result, calls>>

\* run_mailbox loads `cancelling' under the mailbox lock, before it completes
\* the task.  Until the shutdown has visited this mailbox, that load may have
\* come before the store while prepare_next_locked's load comes after it.
ObservedCancelling(b) ==
    IF KeyOf[b] \in unswept THEN BOOLEAN ELSE {sched.cancelling}

\* Mutant: a completion that came before the suspension is not looked at.
ReadyNowNever(i) == FALSE

\* The Asio operation of a suspending task reported while it still ran.
ReadyNow(i) == inv[i].task = "awaiting" /\ inv[i].readyEpoch = inv[i].epoch

\* The task suspended and stays the mailbox's owner: it is runnable again at
\* once if it yielded or if its Asio operation already reported completion.
KeepActive(w, b, i) ==
    LET again == inv[i].task = "yielded" \/ ReadyNow(i)
    IN  /\ box' = [box EXCEPT ![b].status = IF again THEN "Runnable" ELSE "Suspended"]
        /\ inv' = IF ReadyNow(i)
                  THEN [inv EXCEPT ![i] = [@ EXCEPT !.readyEpoch = 0,
                                                    !.completedEpoch = inv[i].epoch]]
                  ELSE inv
        /\ th' = [th EXCEPT ![w] = [@ EXCEPT !.request = IF again THEN i ELSE None,
                                             !.cur = None, !.pc = "dispatch"]]
        /\ UNCHANGED sched

\* A recurrent mailbox that became idle is claimed for this worker.
ClaimsIdleMailbox(m) ==
    /\ ~UseGlobalSharing
    /\ m.active = None
    /\ m.status = "Idle"
    /\ m.generation > 1

\* The invocation is over: complete_active_locked, then the claim.
FinishActive(w, b, r) ==
    LET m     == CompleteActive(inv, box[b])
        owns  == ClaimsIdleMailbox(m)
        evs   == <<Event(box[b].active, r)>>
                 \o UnregisteredEvents(inv, box[b].pending)
        rec   == [th[w] EXCEPT !.request = m.active, !.cur = None]
    IN  Settle(b, [m EXCEPT !.claimed = IF owns THEN TRUE ELSE @], evs, w,
               Deliver(rec, evs, IF owns THEN "claim" ELSE "dispatch"))

\* The task is cancelled by a shutdown (its load of `cancelling' gave c) or by
\* a cancel that found it running.
CancelObserved(c, i) == c \/ inv[i].cancelAfterResume

\* The critical section after the resume.
AfterResume(w) ==
    LET i == th[w].cur
        b == inv[i].home
        suspended == inv[i].task \in {"yielded", "awaiting"}
    IN  /\ th[w].pc = "post"
        /\ \/ /\ ~IsCurrent(i)
              /\ th' = [th EXCEPT ![w] = IdleThread]
              /\ UNCHANGED <<sched, box, inv>>
           \/ /\ IsCurrent(i)
              /\ \E c \in ObservedCancelling(b) :
                    \/ CancelObserved(c, i) /\ FinishActive(w, b, "cancelled")
                    \/ ~CancelObserved(c, i) /\ suspended /\ KeepActive(w, b, i)
                    \/ /\ ~CancelObserved(c, i) /\ ~suspended
                       /\ FinishActive(w, b, IF inv[i].task = "ok" THEN "ok" ELSE "failed")
        /\ UNCHANGED <<mailboxes, items, unswept, result, calls>>

\* The claim is dropped under the mailbox lock, before the next invocation is
\* prepared.
ReleaseClaim(m) == [m EXCEPT !.claimed = FALSE]

\* One round of the idle handoff loop of a worker that owns an idle mailbox.
IdleHandoff(w) ==
    LET b == th[w].touched
        released == ReleaseClaim(box[b])
        m   == PrepareNext(inv, released)
        evs == UnregisteredEvents(inv, released.pending)
    IN  /\ th[w].pc = "claim"
        /\ \/ /\ box[b].active # None \/ box[b].status # "Idle" \/ ~box[b].claimed
              /\ th' = [th EXCEPT ![w] = [@ EXCEPT !.pc = "dispatch", !.attempts = 0]]
              /\ UNCHANGED <<sched, box, inv>>
           \/ /\ box[b].active = None /\ box[b].status = "Idle" /\ box[b].claimed
              /\ IF box[b].pending # <<>> \/ th[w].attempts + 1 = MaxIdleHandoffYields
                 THEN Settle(b, m, evs, w,
                             Deliver([th[w] EXCEPT !.request = m.active, !.attempts = 0],
                                     evs, "dispatch"))
                 ELSE /\ th' = [th EXCEPT ![w].attempts = @ + 1]
                      /\ UNCHANGED <<sched, box, inv>>
        /\ UNCHANGED <<mailboxes, items, unswept, result, calls>>

-----------------------------------------------------------------------------
(* I/O threads: the completion of an Asio operation.                       *)

\* ActorAsioOperationState: the first completion wins the compare-exchange
\* and calls make_runnable; an abandoned operation calls nothing.
OperationCompletes(o, i) ==
    /\ th[o].pc = "idle"
    /\ inv[i].ioPending
    /\ inv' = [inv EXCEPT ![i].ioPending = FALSE]
    /\ th' = [th EXCEPT ![o] = [IdleThread EXCEPT !.pc = "ready", !.cur = i,
                                                  !.epoch = inv[i].epoch]]
    /\ UNCHANGED <<sched, mailboxes, box, items, unswept, result, calls>>

\* on_external_ready(generation, epoch).  A completion that comes while the
\* task still runs is kept for the critical section after the resume; one that
\* finds its generation or epoch gone is late and changes nothing.
OnExternalReady(o) ==
    LET i == th[o].cur
        b == inv[i].home
        e == th[o].epoch
        current == IsCurrent(i) /\ ~sched.cancelling
        early   == /\ current /\ box[b].status = "Running"
                   /\ e \notin {inv[i].readyEpoch, inv[i].completedEpoch}
        awaited == /\ current /\ box[b].status = "Suspended"
                   /\ e = inv[i].epoch /\ e # inv[i].completedEpoch
    IN  /\ th[o].pc = "ready"
        /\ \/ /\ early
              /\ inv' = [inv EXCEPT ![i].readyEpoch = e]
              /\ th' = [th EXCEPT ![o] = IdleThread]
              /\ UNCHANGED box
           \/ /\ awaited
              /\ box' = [box EXCEPT ![b].status = "Runnable"]
              /\ inv' = [inv EXCEPT ![i].completedEpoch = e]
              /\ th' = [th EXCEPT ![o] = [IdleThread EXCEPT !.pc = "publish",
                                                            !.request = i]]
           \/ /\ ~early /\ ~awaited
              /\ th' = [th EXCEPT ![o] = IdleThread]
              /\ UNCHANGED <<box, inv>>
        /\ UNCHANGED <<sched, mailboxes, items, unswept, result, calls>>

-----------------------------------------------------------------------------
(* shutdown and release_actors.                                            *)

\* The first caller takes the shutdown over; a later one waits for `stopped'.
Shutdown(c, mode) ==
    LET drain == mode = "Drain" IN
    /\ th[c].pc = "idle"
    /\ StateMutexFree
    /\ ~sched.stopped
    /\ IF sched.stopping
       THEN /\ th' = [th EXCEPT ![c].pc = "waitStopped"]
            /\ UNCHANGED <<sched, unswept>>
       ELSE /\ sched' = [sched EXCEPT !.stopping = TRUE, !.accepting = FALSE,
                                      !.cancelling = ~drain]
            /\ unswept' = IF drain THEN {} ELSE {k \in Keys : mailboxes[k] # None}
            /\ th' = [th EXCEPT ![c] = [IdleThread EXCEPT
                                         !.pc = IF drain THEN "drain" ELSE "sweep"]]
    /\ UNCHANGED <<mailboxes, box, inv, items, result, calls>>

\* Mutant: Drain does not wait.
DrainDoneAtOnce(c) ==
    /\ th[c].pc = "drain"
    /\ th' = [th EXCEPT ![c].pc = "stopExecutor"]
    /\ UNCHANGED <<sched, mailboxes, box, inv, items, unswept, result, calls>>

\* Drain waits for the pending counter.
DrainDone(c) ==
    /\ th[c].pc = "drain"
    /\ sched.pendingTasks = 0
    /\ th' = [th EXCEPT ![c].pc = "stopExecutor"]
    /\ UNCHANGED <<sched, mailboxes, box, inv, items, unswept, result, calls>>

\* The sweep settles an active invocation that no worker is running.
SweepsActive(m) == m.active # None /\ m.status # "Running"

\* Cancel visits the mailboxes one by one: all pending invocations are
\* cancelled, an active one unless it is running, then it is marked.
SweepMailbox(c, k) ==
    LET b    == mailboxes[k]
        q    == box[b].pending
        a    == box[b].active
        ends == SweepsActive(box[b])
        running == a # None /\ ~ends
        gone == IF ends THEN Append(q, a) ELSE q
        evs  == [n \in 1..Len(gone) |-> Event(gone[n], "cancelled")]
        m    == [box[b] EXCEPT !.pending = <<>>, !.settled = @ + Len(gone),
                               !.status = IF running THEN @ ELSE "Stopping",
                               !.claimed = IF a = None THEN FALSE ELSE @,
                               !.active = IF running THEN @ ELSE None]
    IN  /\ th[c].pc = "sweep"
        /\ k \in unswept
        /\ box' = [box EXCEPT ![b] = m]
        /\ inv' = InvAfter([i \in Invocations |->
                              IF running /\ i = a
                              THEN [inv[i] EXCEPT !.cancelAfterResume = TRUE]
                              ELSE inv[i]], m, EventInvs(evs))
        /\ sched' = DecrementPending(sched, k, Len(gone))
        /\ th' = [th EXCEPT ![c].events = @ \o evs]
        /\ unswept' = unswept \ {k}
        /\ UNCHANGED <<mailboxes, items, result, calls>>

\* All mailboxes are visited: release state->mutex, then deliver.
SweepDone(c) ==
    /\ th[c].pc = "sweep"
    /\ unswept = {}
    /\ th' = [th EXCEPT ![c] = Deliver(@, @.events, "stopExecutor")]
    /\ UNCHANGED <<sched, mailboxes, box, inv, items, unswept, result, calls>>

\* executor.shutdown(Drain) refuses further work and then joins the workers,
\* which leave when none of them is active and nothing is queued but, at most,
\* what was pushed late.
StopExecutor(c) ==
    /\ th[c].pc = "stopExecutor"
    /\ sched' = [sched EXCEPT !.executorShutdown = TRUE]
    /\ th' = [th EXCEPT ![c].pc = "join"]
    /\ UNCHANGED <<mailboxes, box, inv, items, unswept, result, calls>>

WorkersExited ==
    /\ \A w \in Workers : th[w].pc = "idle"
    /\ \A i \in Invocations : items[i] > 0 => i \in sched.late

Joined(c) ==
    /\ th[c].pc = "join"
    /\ WorkersExited
    /\ sched' = [sched EXCEPT !.stopped = TRUE]
    /\ th' = [th EXCEPT ![c] = IdleThread]
    /\ UNCHANGED <<mailboxes, box, inv, items, unswept, result, calls>>

ShutdownReturns(c) ==
    /\ th[c].pc = "waitStopped"
    /\ sched.stopped
    /\ th' = [th EXCEPT ![c] = IdleThread]
    /\ UNCHANGED <<sched, mailboxes, box, inv, items, unswept, result, calls>>

\* release_actors: after its own shutdown call has returned.
ReleaseActors ==
    /\ sched.stopped
    /\ sched.actors # {}
    /\ sched' = [sched EXCEPT !.actors = {}]
    /\ UNCHANGED <<mailboxes, box, inv, items, unswept, th, result, calls>>

-----------------------------------------------------------------------------
ResumeOutcomes == {"yielded", "awaiting", "ok", "failed"}

CallerNext(c) ==
    \/ \E i \in Invocations : Enqueue(c, i)
    \/ \E k \in Keys, msg \in Messages : Cancel(c, k, msg)
    \/ \E mode \in ShutdownModes : Shutdown(c, mode)

ShutdownSteps(c) ==
    \/ DrainDone(c)
    \/ \E k \in Keys : SweepMailbox(c, k)
    \/ SweepDone(c)
    \/ StopExecutor(c)
    \/ Joined(c)
    \/ ShutdownReturns(c)

TailSteps(t) == InvokeCompletion(t) \/ PublishRequest(t) \/ ReclaimIdleMailbox(t)

WorkerSteps(w) ==
    \/ TakeWork(w)
    \/ Begin(w)
    \/ AttachTask(w)
    \/ StartError(w)
    \/ \E s \in ResumeOutcomes : Resume(w, s)
    \/ AfterResume(w)
    \/ IdleHandoff(w)
    \/ LocalHandoff(w)

IoSteps(o) == (\E i \in Invocations : OperationCompletes(o, i)) \/ OnExternalReady(o)

Next ==
    \/ \E a \in Actors : RegisterActor(a)
    \/ \E c \in Callers : CallerNext(c) \/ ShutdownSteps(c)
    \/ \E t \in Threads : TailSteps(t)
    \/ \E w \in Workers : WorkerSteps(w)
    \/ \E o \in IoThreads : IoSteps(o)
    \/ ReleaseActors

Spec == Init /\ [][Next]_vars

\* Every thread keeps running: workers and I/O threads by the operating
\* system's scheduling, an Asio operation because it completes, fails or is
\* cancelled, and a shutdown call because its thread does nothing else.
FairSpec ==
    /\ Spec
    /\ \A t \in Threads : WF_vars(TailSteps(t))
    /\ \A w \in Workers : WF_vars(WorkerSteps(w))
    /\ \A o \in IoThreads : WF_vars(IoSteps(o))
    /\ \A c \in Callers : WF_vars(ShutdownSteps(c))
-----------------------------------------------------------------------------
(* Properties.                                                             *)

CallerPcs == {"idle", "deliver", "publish", "sweep", "drain", "stopExecutor",
              "join", "waitStopped"}
WorkerPcs == {"idle", "begin", "start", "resume", "post", "claim", "dispatch",
              "deliver", "publish"}
IoPcs     == {"idle", "ready", "publish", "deliver"}

PcSet     == CallerPcs \cup WorkerPcs \cup IoPcs

SchedType ==
    [accepting : BOOLEAN, stopping : BOOLEAN, cancelling : BOOLEAN,
     stopped : BOOLEAN, executorShutdown : BOOLEAN, late : SUBSET Invocations,
     actors : SUBSET Actors,
     pendingTasks : Int, actorPending : [Actors -> Int],
     partitionPending : [Keys -> Int], accepted : Nat, rejected : Nat,
     retired : Nat]

MailboxType ==
    [status : Statuses, claimed : BOOLEAN, generation : Nat,
     pending : Seq(Invocations), active : Invocations \cup {None}, settled : Nat]

InvocationType ==
    [submitted : BOOLEAN, home : Invocations \cup {None}, gen : Nat,
     actor : BOOLEAN, task : TaskStates, suspensions : Nat, epoch : Nat,
     readyEpoch : Nat, completedEpoch : Nat, cancelAfterResume : BOOLEAN,
     ioPending : BOOLEAN, ticket : Nat, settledAt : Nat]

EventType == [inv : Invocations, result : Results]

ThreadType ==
    [pc : PcSet, cur : Invocations \cup {None}, events : Seq(EventType),
     request : Invocations \cup {None}, touched : Invocations \cup {None},
     next : PcSet, attempts : Nat, handoffs : Nat, epoch : Nat]

\* The types of the scheduler's objects.
TypeOK ==
    /\ sched \in SchedType
    /\ mailboxes \in [Keys -> Invocations \cup {None}]
    /\ box \in [Invocations -> MailboxType]
    /\ inv \in [Invocations -> InvocationType]
    /\ items \in [Invocations -> Nat]
    /\ unswept \subseteq Keys
    /\ th \in [Threads -> ThreadType]
    /\ result \in [Invocations -> Results \cup {None}]
    /\ calls \in [Invocations -> Nat]

\* A worker that runs actor code, or is about to look at what it did.
Executing(w) == th[w].pc \in {"start", "resume", "post"}

\* While a worker is between the claim of a mailbox and the critical section
\* after the resume, the mailbox is Running and its active invocation is the
\* worker's: nobody resets `active' under the task pointer that run_mailbox
\* keeps across its unlocked regions.
WorkerOwnsMailbox ==
    \A w \in Workers : Executing(w) =>
        LET i == th[w].cur IN
        /\ inv[i].home # None
        /\ box[inv[i].home].active = i
        /\ box[inv[i].home].status = "Running"

\* At most one ActorTask runs per actor:partition key, also across the
\* reclamation and re-creation of the key's mailbox object.
ExclusiveExecution ==
    \A w1, w2 \in Workers :
        w1 # w2 /\ Executing(w1) /\ Executing(w2)
        => KeyOf[th[w1].cur] # KeyOf[th[w2].cur]

\* A mailbox object that is not in the map owns no work.
UnmappedMailboxIsDead ==
    \A b \in Invocations : mailboxes[KeyOf[b]] # b =>
        /\ box[b].active = None
        /\ box[b].pending = <<>>
        /\ box[b].status = "Idle"
        /\ ~box[b].claimed

Held(i) == \E b \in Invocations :
              box[b].active = i \/ \E n \in DOMAIN box[b].pending : box[b].pending[n] = i

\* FIFO per key: an invocation is activated only after every earlier admitted
\* invocation of its key has left the mailbox.
FifoPerKey ==
    \A i, j \in Invocations :
        /\ KeyOf[i] = KeyOf[j]
        /\ inv[i].ticket > 0 /\ inv[i].ticket < inv[j].ticket
        /\ inv[j].gen > 0
        => ~Held(i)

\* In how many places an invocation is held.
Occurrences(i) ==
    LET InSeq(q) == Cardinality({n \in DOMAIN q : q[n] = i})
        InEvents(q) == Cardinality({n \in DOMAIN q : q[n].inv = i})
        InBox(b) == InSeq(box[b].pending) + (IF box[b].active = i THEN 1 ELSE 0)
    IN  MapThenSumSet(InBox, Invocations)
        + MapThenSumSet(LAMBDA t : InEvents(th[t].events), Threads)
        + calls[i]

\* The invocation j was already waiting in the mailbox when i left it.
WaitedBehind(i, j) ==
    /\ inv[i].gen > 0
    /\ KeyOf[i] = KeyOf[j]
    /\ inv[i].ticket < inv[j].ticket
    /\ inv[j].ticket <= inv[i].settledAt

\* The result of an active invocation is delivered before its immediate
\* successor, the message that waited next in the queue, starts to run:
\* run_mailbox and cancel call invoke_completions before they publish.
ResultBeforeNextMessage ==
    \A w \in Workers, i \in Invocations :
        LET j == th[w].cur IN
        /\ Executing(w)
        /\ WaitedBehind(i, j)
        /\ inv[i].home = inv[j].home /\ inv[j].gen = inv[i].gen + 1
        => calls[i] = 1

\* Every submitted invocation is in exactly one place: in a mailbox, in the completion
\* list of one thread, or completed, and its handler ran at most once; and its result
\* is delivered before its immediate successor of the mailbox starts.
OneResultInOrder ==
    /\ \A i \in Invocations : Occurrences(i) = IF inv[i].submitted THEN 1 ELSE 0
    /\ ResultBeforeNextMessage

\* native-actor-execution/spec.md, "FIFO handoff after completion": "the
\* scheduler publishes the completed result before starting the oldest pending
\* message", read for every message that was pending at the completion.
ResultBeforeSuccessor ==
    \A w \in Workers, i \in Invocations :
        Executing(w) /\ WaitedBehind(i, th[w].cur) => calls[i] = 1

\* Pending work in a mailbox without an active invocation is only there while
\* the worker that claimed it, or a cancelling shutdown, is about to take it.
NoStrandedPending ==
    \A b \in Invocations :
        box[b].pending # <<>> /\ box[b].active = None
        => box[b].claimed \/ KeyOf[b] \in unswept

\* Each runnable mailbox has exactly one continuation under way (a queued item, a
\* request some thread is about to publish, a handed-off call), and a running or
\* suspended one has none.
OneContinuation ==
    \A b \in Invocations : box[b].active # None =>
        LET i == box[b].active IN
        items[i]
        + Cardinality({t \in Threads : th[t].request = i})
        + Cardinality({w \in Workers : th[w].pc = "begin" /\ th[w].cur = i})
        = IF box[b].status = "Runnable" THEN 1 ELSE 0

\* A suspended mailbox waits for an operation that can still report: the completion
\* that raced the suspension was not lost.
NoLostWakeup ==
    \A b \in Invocations : box[b].status = "Suspended" =>
        LET i == box[b].active IN
        /\ i # None
        /\ inv[i].completedEpoch # inv[i].epoch
        /\ \/ inv[i].ioPending
           \/ \E o \in IoThreads : th[o].pc = "ready" /\ th[o].cur = i
                                   /\ th[o].epoch = inv[i].epoch
           \/ sched.cancelling

\* Nothing that was accepted is forgotten, and nothing is run twice: what can run has
\* one continuation, what waits has somebody to wake it, and what is queued has an
\* owner, also while a shutdown sweeps the mailboxes.
NoLostWork == OneContinuation /\ NoLostWakeup /\ NoStrandedPending

HeldOf(k) == Cardinality({i \in Invocations : KeyOf[i] = k /\ Held(i)})

\* The global, per-actor and per-partition counters count exactly the queued,
\* running and suspended invocations, and stay within their limits.
BackpressureCounters ==
    /\ sched.pendingTasks = MapThenSumSet(HeldOf, Keys)
    /\ MaxPendingTasks > 0 => sched.pendingTasks <= MaxPendingTasks
    /\ MaxPendingPerPartition > 0 => \A k \in Keys :
          /\ sched.partitionPending[k] = HeldOf(k)
          /\ HeldOf(k) <= MaxPendingPerPartition
    /\ MaxPendingPerActor > 0 => \A a \in Actors :
          LET n == MapThenSumSet(HeldOf, {k \in Keys : ActorOf[k] = a})
          IN  sched.actorPending[a] = n /\ n <= MaxPendingPerActor

\* Once shutdown has returned, no worker runs, no invocation is held, and no
\* request, late executor item or I/O completion belongs to a live task.
StoppedIsQuiescent ==
    sched.stopped =>
        /\ \A w \in Workers : th[w].pc = "idle"
        /\ sched.pendingTasks = 0
        /\ \A i \in Invocations : ~Held(i) /\ (items[i] > 0 => ~IsCurrent(i))

\* "Every accepted caller MUST receive a terminal result", and so does every
\* rejected one.
EveryInvocationCompletes ==
    \A i \in Invocations : inv[i].submitted ~> calls[i] = 1

\* shutdown finishes, in both modes.
ShutdownCompletes == sched.stopping ~> sched.stopped

=============================================================================
