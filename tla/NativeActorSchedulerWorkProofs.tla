-------------------- MODULE NativeActorSchedulerWorkProofs --------------------
(***************************************************************************)
(* Machine-checked proofs that NativeActorScheduler loses no work, counts  *)
(* it right, stops with nothing left and gives every call one result, for  *)
(* every set of invocations, keys, actors and threads and every value of   *)
(* the limits.  They build on the invariants of NativeActorSchedulerProofs.*)
(***************************************************************************)
EXTENDS NativeActorSchedulerProofs

USE ConstantsAssumption

-----------------------------------------------------------------------------
(* No work is lost and the books are right: the invariant.                 *)

\* The flags of the scheduler are raised in one order.
FlagInv ==
    /\ sched.cancelling => sched.stopping
    /\ sched.stopping => ~sched.accepting

\* What mailbox b looks like between two critical sections.
BoxLive(b) ==
    LET m == box[b]
        k == KeyOf[b]
    IN
    /\ m.active # None <=> m.status \in {"Runnable", "Running", "Suspended"}
    /\ m.status = "Stopping" => sched.stopping
    /\ m.claimed => m.active = None /\ m.status = "Idle"
    /\ m.pending # <<>> /\ m.active = None => m.claimed \/ k \in unswept
    /\ sched.cancelling =>
          /\ m.pending # <<>> => k \in unswept
          /\ m.active # None => k \in unswept \/ m.status = "Running"

\* Every mailbox is as BoxLive says.
BoxesLive == \A b \in Invocations : BoxLive(b)

\* A thread has a request only on the way to publish_requests, and completion
\* events only while it delivers or collects them.
AtTail(r) ==
    \/ r.pc \in {"publish", "dispatch"}
    \/ r.pc = "deliver" /\ r.next \in {"publish", "dispatch"}

\* No thread keeps a request or a result it has no step left to hand over.
TailInv == \A t \in Threads :
              /\ th[t].request # None => AtTail(th[t])
              /\ th[t].events # <<>> => th[t].pc \in {"deliver", "sweep"}

\* Neither a readiness report nor a completion is ahead of the suspension epoch.
EpochInv == \A i \in Invocations : /\ inv[i].readyEpoch <= inv[i].epoch
                                   /\ inv[i].completedEpoch <= inv[i].epoch

\* Thread t has the continuation of i; it is about to report i's operation; it
\* runs i's task.
Carries(t, i) ==
    \/ th[t].request = i
    \/ t \in Workers /\ th[t].pc = "begin" /\ th[t].cur = i

\* Thread t is about to report the operation of i to on_external_ready.
Reports(t, i) == t \in IoThreads /\ th[t].pc = "ready" /\ th[t].cur = i

\* Worker t runs the task of i.
Runs(t, i) == t \in Workers /\ Executing(t) /\ th[t].cur = i

\* The operation of i is under way or its completion is about to be reported.
Waits(i) == inv[i].ioPending \/ \E o \in Threads : Reports(o, i)

\* The current epoch of i has neither been reported nor completed.
Unreported(i) ==
    inv[i].readyEpoch # inv[i].epoch /\ inv[i].completedEpoch # inv[i].epoch

\* One continuation for a runnable invocation, none otherwise.
TokenOK(i, status) ==
    /\ status = "Runnable" =>
          \/ items[i] = 1 /\ \A t \in Threads : ~Carries(t, i)
          \/ /\ items[i] = 0
             /\ \E t \in Threads : /\ Carries(t, i)
                                   /\ \A u \in Threads : Carries(u, i) => u = t
    /\ status # "Runnable" => items[i] = 0 /\ \A t \in Threads : ~Carries(t, i)

\* The operation of i is reported once, under its epoch.
ReportOK(i) ==
    /\ inv[i].ioPending => Unreported(i)
    /\ \A o \in Threads : Reports(o, i) =>
          /\ th[o].epoch = inv[i].epoch
          /\ ~inv[i].ioPending /\ Unreported(i)
          /\ \A u \in Threads : Reports(u, i) => u = o

\* Who resumes i.
WakeOK(i, status) ==
    /\ status = "Runnable" => ~Waits(i)
    /\ status = "Running" => \E w \in Threads : Runs(w, i)
    /\ status = "Suspended" => /\ inv[i].completedEpoch # inv[i].epoch
                               /\ Waits(i) \/ sched.cancelling
    /\ \A w \in Threads : Runs(w, i) =>
          IF th[w].pc = "post" /\ inv[i].task = "awaiting"
          THEN /\ inv[i].completedEpoch # inv[i].epoch
               /\ Waits(i) \/ inv[i].readyEpoch = inv[i].epoch \/ sched.cancelling
          ELSE ~Waits(i)

\* The continuation, the report and the waker of i, in a mailbox of this status.
TaskOK(i, status) == TokenOK(i, status) /\ ReportOK(i) /\ WakeOK(i, status)

\* Every active invocation has what its mailbox's status calls for.
TasksLive == \A b, i \in Invocations, s \in Statuses :
                box[b].active = i /\ box[b].status = s => TaskOK(i, s)

\* What keeps accepted work from being lost; implies NoLostWork.
Live == FlagInv /\ BoxesLive /\ TailInv /\ EpochInv /\ TasksLive

\* What a mailbox holds, and what all of them hold.
Content(m) == ({m.active} \ {None}) \cup {m.pending[n] : n \in DOMAIN m.pending}

\* The invocations that the mailboxes bx hold.
HeldSet(bx) == {i \in Invocations : \E b \in Invocations : i \in Content(bx[b])}

\* Those in H of one key.
OfKey(H, k) == {i \in H : KeyOf[i] = k}

\* Those in H of one actor.
OfActor(H, a) == {i \in H : ActorOf[KeyOf[i]] = a}

\* The counters of s count the invocations in H and respect the limits.
Counts(H, s) ==
    /\ IsFiniteSet(H)
    /\ s.pendingTasks = Cardinality(H)
    /\ MaxPendingTasks > 0 => s.pendingTasks <= MaxPendingTasks
    /\ MaxPendingPerPartition > 0 => \A k \in Keys :
          /\ s.partitionPending[k] = Cardinality(OfKey(H, k))
          /\ s.partitionPending[k] <= MaxPendingPerPartition
    /\ MaxPendingPerActor > 0 => \A a \in Actors :
          /\ s.actorPending[a] = Cardinality(OfActor(H, a))
          /\ s.actorPending[a] <= MaxPendingPerActor

\* The counters count what the mailboxes hold; implies BackpressureCounters.
CountInv == Counts(HeldSet(box), sched)

\* A caller whose shutdown has nothing left to wait for in the mailboxes.
Closing(r) ==
    r.pc \in {"stopExecutor", "join"} \/ (r.pc = "deliver" /\ r.next = "stopExecutor")

\* The shutdown stops the executor only after the drain or the sweep.
ShutInv ==
    /\ \A t \in Threads : /\ th[t].pc = "drain" => sched.stopping /\ ~sched.cancelling
                          /\ th[t].pc = "sweep" => sched.cancelling
    /\ unswept # {} => sched.cancelling
    /\ (\E t \in Threads : Closing(th[t])) \/ sched.executorShutdown \/ sched.stopped =>
          /\ sched.stopping /\ unswept = {}
          /\ sched.cancelling \/ HeldSet(box) = {}
    /\ sched.stopped => HeldSet(box) = {} /\ \A w \in Workers : th[w].pc = "idle"

\* Thread t is to deliver the result of i.
InEvents(i, t) == \E n \in DOMAIN th[t].events : th[t].events[n].inv = i

\* Every invocation is in one place, when H is what the mailboxes hold.
Place(H, v) ==
    /\ \A i \in Invocations :
          /\ calls[i] \in {0, 1}
          /\ ~v[i].submitted => calls[i] = 0
          /\ v[i].submitted => \/ calls[i] = 1
                               \/ i \in H
                               \/ \E t \in Threads : InEvents(i, t)
          /\ i \in H => calls[i] = 0
    /\ \A t \in Threads : \A n \in DOMAIN th[t].events :
          LET i == th[t].events[n].inv IN
          /\ v[i].submitted /\ calls[i] = 0 /\ i \notin H
          /\ \A u \in Threads : \A k \in DOMAIN th[u].events :
                th[u].events[k].inv = i => u = t /\ k = n

\* Place, of the current state.
PlaceInv == Place(HeldSet(box), inv)

\* The successor of an invocation whose result is not delivered is still with
\* the thread that delivers it.
Succ(v) == \A i, j \in Invocations :
    /\ v[i].gen > 0 /\ v[i].home = v[j].home /\ v[j].gen = v[i].gen + 1
    /\ v[i].ticket < v[j].ticket /\ v[j].ticket <= v[i].settledAt
    => \E t \in Threads : th[t].request = j /\ InEvents(i, t)

\* Succ, of the current state.
SuccInv == Succ(inv)

\* The active invocation has the youngest generation, and what is still queued
\* behind a predecessor that has left came after it left.
Top(bx, v, last) ==
    /\ \A b \in Invocations : bx[b].active # None =>
          v[bx[b].active].gen = bx[b].generation
    /\ \A i \in Invocations : v[i].settledAt <= last
    /\ \A i, b \in Invocations :
          /\ v[i].home = b /\ v[i].gen > 0 /\ v[i].gen = bx[b].generation
          /\ bx[b].active # i /\ v[i].settledAt > 0
          => sched.cancelling \/ \A n \in DOMAIN bx[b].pending :
                                    v[bx[b].pending[n]].ticket > v[i].settledAt

\* Top, of the current state.
TopInv == Top(box, inv, sched.accepted)

\* A step that moves nothing into or out of a mailbox, a list of events or the
\* history.
SameContents ==
    \A b \in Invocations : /\ box'[b].active = box[b].active
                           /\ box'[b].pending = box[b].pending
                           /\ box'[b].generation = box[b].generation

\* No invocation changes its home, generation, ticket or settling.
SameHistory ==
    \A i \in Invocations : /\ inv'[i].home = inv[i].home /\ inv'[i].gen = inv[i].gen
                           /\ inv'[i].ticket = inv[i].ticket
                           /\ inv'[i].settledAt = inv[i].settledAt
                           /\ inv'[i].submitted = inv[i].submitted

\* The counters keep their values; a cancelling shutdown stays one.
SameCounters ==
    /\ sched'.pendingTasks = sched.pendingTasks
    /\ sched'.actorPending = sched.actorPending
    /\ sched'.partitionPending = sched.partitionPending
    /\ sched'.accepted = sched.accepted
    /\ sched.cancelling => sched'.cancelling

\* A step that the bookkeeping does not see.
Calm ==
    /\ SameContents /\ SameHistory /\ SameCounters
    /\ \A t \in Threads : /\ th'[t].events = th[t].events
                          /\ th[t].events # <<>> => th'[t].request = th[t].request
    /\ calls' = calls

\* A step that changes nothing in the course of the shutdown.
SameFlags ==
    /\ sched'.accepting = sched.accepting /\ sched'.stopping = sched.stopping
    /\ sched'.cancelling = sched.cancelling /\ sched'.stopped = sched.stopped
    /\ sched'.executorShutdown = sched.executorShutdown
    /\ unswept' = unswept

\* No thread enters the drain, the sweep or the end of the shutdown.
SameCourse ==
    /\ \A t \in Threads :
          /\ th'[t].pc \in {"drain", "sweep"} => th'[t].pc = th[t].pc
          /\ Closing(th'[t]) => Closing(th[t])
          /\ t \in Workers /\ th'[t].pc # "idle" => th[t].pc # "idle" \/ ~sched.stopped
    /\ SameFlags

-----------------------------------------------------------------------------
(* What a step leaves alone.                                               *)

\* The invocation objects x and y have the same task; the task of x is cleared.
TaskEq(x, y) ==
    /\ x.task = y.task /\ x.epoch = y.epoch /\ x.readyEpoch = y.readyEpoch
    /\ x.completedEpoch = y.completedEpoch /\ x.ioPending = y.ioPending

\* What leaves a mailbox waits for nothing.
TaskCleared(x) ==
    x.epoch = 0 /\ x.readyEpoch = 0 /\ x.completedEpoch = 0 /\ x.ioPending = FALSE

\* A step leaves the task of i and everything that concerns it alone.
SameFields(i) == TaskEq(inv'[i], inv[i])

\* A step leaves i, its continuation, its report and its runner alone.
SameTask(i) ==
    /\ items'[i] = items[i]
    /\ SameFields(i)
    /\ \A t \in Threads :
          /\ Carries(t, i)' <=> Carries(t, i)
          /\ Reports(t, i)' <=> Reports(t, i)
          /\ Runs(t, i)' <=> Runs(t, i)
          /\ Reports(t, i) => th'[t].epoch = th[t].epoch
          /\ Runs(t, i) => th'[t].pc = th[t].pc

\* Such a step keeps what holds of i.
LEMMA FrameTask ==
    ASSUME NEW i \in Invocations, NEW s, TaskOK(i, s), SameTask(i),
           sched.cancelling => sched'.cancelling
    PROVE  TaskOK(i, s)'
<1>1. TokenOK(i, s)'
  BY DEF TaskOK, TokenOK, SameTask
<1>2. Unreported(i)' <=> Unreported(i)
  BY DEF Unreported, SameTask, SameFields, TaskEq
<1>3. ReportOK(i)'
  BY <1>2 DEF TaskOK, ReportOK, SameTask, SameFields, TaskEq
<1>4. Waits(i)' <=> Waits(i)
  BY DEF Waits, SameTask, SameFields, TaskEq
<1>5. WakeOK(i, s)'
  BY <1>4 DEF TaskOK, WakeOK, SameTask, SameFields, TaskEq
<1> QED
  BY <1>1, <1>3, <1>5 DEF TaskOK

\* Thread t has nothing to do with i.
Apart(t, i) == ~Carries(t, i) /\ ~Reports(t, i) /\ ~Runs(t, i)

\* What the other threads have is untouched when one record changes.
LEMMA OtherThreads ==
    ASSUME th \in [Threads -> ThreadType], NEW t \in Threads, NEW rec,
           th' = [th EXCEPT ![t] = rec], NEW u \in Threads, u # t, NEW i
    PROVE  /\ Carries(u, i)' <=> Carries(u, i)
           /\ Reports(u, i)' <=> Reports(u, i)
           /\ Runs(u, i)' <=> Runs(u, i)
           /\ th'[u] = th[u]
<1>1. th'[u] = th[u]
  OBVIOUS
<1> QED
  BY <1>1 DEF Carries, Reports, Runs, Executing

\* An invocation that t has nothing to do with, before and after, is left alone.
LEMMA Bystander ==
    ASSUME th \in [Threads -> ThreadType], NEW t \in Threads, NEW rec,
           th' = [th EXCEPT ![t] = rec], NEW i \in Invocations,
           Apart(t, i), Apart(t, i)',
           items'[i] = items[i], SameFields(i)
    PROVE  SameTask(i)
<1> SUFFICES ASSUME NEW u \in Threads
             PROVE  /\ Carries(u, i)' <=> Carries(u, i)
                    /\ Reports(u, i)' <=> Reports(u, i)
                    /\ Runs(u, i)' <=> Runs(u, i)
                    /\ Reports(u, i) => th'[u].epoch = th[u].epoch
                    /\ Runs(u, i) => th'[u].pc = th[u].pc
  BY DEF SameTask
<1>1. CASE u = t
  BY <1>1 DEF Apart
<1>2. CASE u # t
  BY Zenon, <1>2, OtherThreads
<1> QED
  BY <1>1, <1>2

\* An invocation without a generation concerns no thread.
LEMMA FreshIsApart ==
    ASSUME IInv, NEW i \in Invocations, inv[i].gen = 0
    PROVE  /\ items[i] = 0 /\ ~inv[i].ioPending
           /\ \A t \in Threads : Apart(t, i)
<1>1. items[i] \in Nat /\ inv[i].ioPending \in BOOLEAN /\ i # None
  BY DEF IInv, TypeOK, InvocationType
<1>2. items[i] = 0 /\ ~inv[i].ioPending
  BY <1>1 DEF IInv, HolderInv
<1>3. ASSUME NEW t \in Threads
      PROVE  Apart(t, i)
  <2>1. RecOK(th[t], inv)
    BY ThreadFacts
  <2> QED
    BY <1>1, <2>1 DEF RecOK, Apart, Carries, Reports, Runs, Executing
<1> QED
  BY <1>2, <1>3

\* A queued invocation has no generation yet, and is not the active one.
LEMMA QueuedIsFresh ==
    ASSUME IInv, Fifo, NEW b \in Invocations, NEW n \in DOMAIN box[b].pending
    PROVE  /\ box[b].pending[n] \in Invocations
           /\ inv[box[b].pending[n]].gen = 0
           /\ box[b].pending[n] # box[b].active
<1> DEFINE i == box[b].pending[n]
<1>1. i \in Invocations
  BY DEF IInv, TypeOK, MailboxType
<1>2. inv[i].home = b /\ KeyOf[i] = KeyOf[b]
  BY <1>1 DEF IInv, Structure, HomeInv
<1>3. inv[i].gen \in Nat /\ inv[i].ticket \in Nat
  BY <1>1 DEF IInv, TypeOK, InvocationType
<1>4. inv[i].gen = 0
  <2>1. inv[i].gen > 0 => inv[i].ticket < inv[i].ticket
    BY <1>1, <1>2 DEF Fifo, FifoInv
  <2> QED
    BY <1>3, <2>1
<1>5. box[b].active # None => inv[box[b].active].gen > 0
  BY DEF IInv, Structure, HomeInv
<1> QED
  BY <1>1, <1>4, <1>5

\* What a critical section of thread t on mailbox b, which becomes m, does to
\* the active invocation and its continuation: it drops the active invocation,
\* activates a queued one and keeps its request, or leaves it as it is.
Moves(b, m, t, rec) ==
    /\ rec.pc \notin {"begin", "start", "resume", "post", "ready"}
    /\ rec.events # <<>> => rec.pc \in {"deliver", "sweep"}
    /\ th[t].pc \notin {"begin", "ready"}
    /\ \/ /\ m.active = None
          /\ m.generation = box[b].generation
          /\ box[b].active # None => m.pending = <<>> \/ sched.cancelling
          /\ rec.request = None
          /\ th[t].request \in {None, box[b].active}
          /\ \A i \in Invocations : Runs(t, i) => i = box[b].active
       \/ /\ m.active # None /\ inv[m.active].gen = 0 /\ m.status = "Runnable"
          /\ m.generation = box[b].generation + 1 /\ ~sched.cancelling
          /\ rec.request = m.active /\ AtTail(rec)
          /\ th[t].request \in {None, box[b].active}
          /\ \A i \in Invocations : Runs(t, i) => i = box[b].active
       \/ /\ m.active # None
          /\ m.active = box[b].active /\ m.status = box[b].status
          /\ m.generation = box[b].generation
          /\ rec.request = None /\ th[t].request = None
          /\ ~Executing(t)

\* The whole critical section.
Section(b, m, t, rec) ==
    /\ box' = [box EXCEPT ![b] = m]
    /\ th' = [th EXCEPT ![t] = rec]
    /\ items' = items
    /\ sched'.cancelling = sched.cancelling
    /\ sched'.stopping = sched.stopping
    /\ sched'.accepting = sched.accepting
    /\ unswept' \in {unswept, unswept \ {KeyOf[b]}}
    /\ mailboxes'[KeyOf[b]] = b
    /\ \A i \in Invocations : SameFields(i) \/ (inv'[i].home = b /\ TaskCleared(inv'[i]))
    /\ m.active # None /\ m.active = box[b].active => SameFields(m.active)
    /\ Moves(b, m, t, rec)

\* A critical section on b leaves the other mailboxes as they should be.
LEMMA SectionBoxes ==
    ASSUME IInv, IInv', Live, NEW b \in Invocations, NEW m \in MailboxType,
           NEW t \in Threads, NEW rec \in ThreadType,
           Section(b, m, t, rec), BoxLive(b)'
    PROVE  BoxesLive'
<1> SUFFICES ASSUME NEW c \in Invocations, c # b
             PROVE  BoxLive(c)'
  BY DEF BoxesLive
<1>1. box'[c] = box[c]
  BY DEF Section, IInv, TypeOK
<1>2. BoxLive(c)
  BY DEF Live, BoxesLive
<1>3. CASE KeyOf[c] = KeyOf[b]
  <2>1. mailboxes'[KeyOf[c]] # c
    BY <1>3 DEF Section
  <2>2. /\ box'[c].active = None /\ box'[c].pending = <<>>
        /\ box'[c].status = "Idle" /\ ~box'[c].claimed
    BY <2>1 DEF IInv, Structure, MapInv
  <2> QED
    BY <2>2 DEF BoxLive
<1>4. CASE KeyOf[c] # KeyOf[b]
  <2>1. KeyOf[c] \in unswept' <=> KeyOf[c] \in unswept
    BY <1>4 DEF Section
  <2> QED
    BY <1>1, <1>2, <2>1 DEF BoxLive, Section
<1> QED
  BY <1>3, <1>4

\* ... and every active invocation with its continuation and waker.
LEMMA SectionTasks ==
    ASSUME IInv, IInv', Live, NEW b \in Invocations, NEW m \in MailboxType,
           NEW t \in Threads, NEW rec \in ThreadType, Section(b, m, t, rec)
    PROVE  TasksLive'
<1> SUFFICES ASSUME NEW c \in Invocations, NEW i \in Invocations, NEW s \in Statuses,
                    box'[c].active = i, box'[c].status = s
             PROVE  TaskOK(i, s)'
  BY DEF TasksLive
<1>1. /\ th \in [Threads -> ThreadType] /\ th' = [th EXCEPT ![t] = rec]
      /\ th'[t] = rec /\ items' = items /\ i # None
      /\ sched.cancelling => sched'.cancelling
  BY DEF IInv, TypeOK, Section
<1>2. inv'[i].home = c
  BY DEF IInv, Structure, HomeInv
<1>a. ~Reports(t, i) /\ ~Reports(t, i)' /\ ~Runs(t, i)'
  BY <1>1 DEF Section, Moves, Reports, Runs, Executing
<1>b. /\ Carries(t, i) <=> th[t].request = i
      /\ Carries(t, i)' <=> rec.request = i
  BY <1>1 DEF Section, Moves, Carries
<1>3. CASE c # b
  <2>1. box[c].active = i /\ box[c].status = s
    BY <1>3 DEF Section, IInv, TypeOK
  <2>2. inv[i].home = c /\ (box[b].active # None => inv[box[b].active].home = b)
    BY <1>1, <2>1 DEF IInv, Structure, HomeInv
  <2>3. i # box[b].active
    BY <1>1, <1>3, <2>2
  <2>4. i # m.active
    <3>1. box'[b] = m
      BY DEF Section, IInv, TypeOK
    <3> QED
      BY <1>1, <1>2, <1>3, <3>1 DEF IInv, Structure, HomeInv
  <2>5. SameFields(i)
    BY <1>2, <1>3 DEF Section
  <2>6. Apart(t, i) /\ Apart(t, i)'
    <3>1. th[t].request # i /\ rec.request # i
      BY <1>1, <2>3, <2>4 DEF Section, Moves
    <3>2. ~Runs(t, i)
      BY <2>3 DEF Section, Moves, Runs
    <3> QED
      BY <1>a, <1>b, <3>1, <3>2 DEF Apart
  <2>7. SameTask(i)
    BY Zenon, <1>1, <2>5, <2>6, Bystander
  <2>8. TaskOK(i, s)
    BY <2>1 DEF Live, TasksLive
  <2> QED
    BY <1>1, <2>7, <2>8, FrameTask
<1>4. CASE c = b
  <2>0. i = m.active /\ s = m.status
    BY <1>4 DEF Section, IInv, TypeOK
  <2>1. CASE inv[m.active].gen = 0 /\ m.status = "Runnable" /\ rec.request = m.active
    <3>1. /\ items[i] = 0 /\ ~inv[i].ioPending
          /\ \A u \in Threads : Apart(u, i)
      BY <2>0, <2>1, FreshIsApart
    <3>2. ~inv'[i].ioPending
      BY <3>1 DEF Section, SameFields, TaskEq, TaskCleared
    <3>3. \A u \in Threads : u # t => Apart(u, i)'
      <4> SUFFICES ASSUME NEW u \in Threads, u # t
                   PROVE  Apart(u, i)'
        OBVIOUS
      <4>1. Apart(u, i)
        BY <3>1
      <4>2. /\ Carries(u, i)' <=> Carries(u, i)
            /\ Reports(u, i)' <=> Reports(u, i)
            /\ Runs(u, i)' <=> Runs(u, i)
        BY Zenon, <1>1, OtherThreads
      <4> QED
        BY <4>1, <4>2 DEF Apart
    <3>4. Carries(t, i)'
      BY <1>b, <2>0, <2>1
    <3>5. TokenOK(i, s)'
      <4>1. s = "Runnable" /\ items'[i] = 0
        BY <1>1, <2>0, <2>1, <3>1
      <4>2. \A u \in Threads : Carries(u, i)' => u = t
        BY <3>3 DEF Apart
      <4> QED
        BY <3>4, <4>1, <4>2 DEF TokenOK
    <3>6. \A u \in Threads : ~Reports(u, i)' /\ ~Runs(u, i)'
      BY <1>a, <3>3 DEF Apart
    <3>7. ReportOK(i)'
      BY <3>2, <3>6 DEF ReportOK
    <3>8. ~Waits(i)'
      BY <3>2, <3>6 DEF Waits
    <3>9. WakeOK(i, s)'
      <4>1. s = "Runnable"
        BY <2>0, <2>1
      <4> QED
        BY <3>6, <3>8, <4>1 DEF WakeOK
    <3> QED
      BY <3>5, <3>7, <3>9 DEF TaskOK
  <2>2. CASE /\ m.active = box[b].active /\ m.status = box[b].status
             /\ rec.request = None /\ th[t].request = None /\ ~Executing(t)
    <3>1. Apart(t, i) /\ Apart(t, i)'
      <4>1. ~Runs(t, i)
        BY <2>2 DEF Runs
      <4> QED
        BY <1>1, <1>a, <1>b, <2>2, <4>1 DEF Apart
    <3>2. SameTask(i)
      <4>1. SameFields(i)
        BY <1>1, <2>0, <2>2 DEF Section
      <4> QED
        BY Zenon, <1>1, <3>1, <4>1, Bystander
    <3>3. TaskOK(i, s)
      BY <2>0, <2>2 DEF Live, TasksLive
    <3> QED
      BY <1>1, <3>2, <3>3, FrameTask
  <2> QED
    BY <1>1, <2>0, <2>1, <2>2 DEF Section, Moves
<1> QED
  BY <1>3, <1>4

\* A critical section on b keeps Live when it leaves b as BoxLive says.
LEMMA SectionLive ==
    ASSUME IInv, IInv', Live, NEW b \in Invocations, NEW m \in MailboxType,
           NEW t \in Threads, NEW rec \in ThreadType,
           Section(b, m, t, rec), BoxLive(b)'
    PROVE  Live'
<1>1. FlagInv'
  BY DEF Live, FlagInv, Section
<1>2. TailInv'
  BY DEF Live, TailInv, Section, Moves, IInv, TypeOK
<1>3. EpochInv'
  BY DEF Live, EpochInv, Section, SameFields, TaskEq, TaskCleared
<1> QED
  BY <1>1, <1>2, <1>3, SectionBoxes, SectionTasks DEF Live

\* A step of one thread that moves no continuation, report or task.
LEMMA QuietLive ==
    ASSUME IInv, Live, NEW t \in Threads, NEW rec \in ThreadType,
           th' = [th EXCEPT ![t] = rec], items' = items, box' = box,
           \A i \in Invocations : SameFields(i),
           sched.cancelling => sched'.cancelling, FlagInv', BoxesLive',
           rec.request = th[t].request, rec.request # None => AtTail(rec),
           rec.events # <<>> => rec.pc \in {"deliver", "sweep"},
           th[t].pc \notin {"begin", "start", "resume", "post", "ready"},
           rec.pc \notin {"begin", "start", "resume", "post", "ready"}
    PROVE  Live'
<1>1. th \in [Threads -> ThreadType] /\ th'[t] = rec
  BY DEF IInv, TypeOK
<1>2. TailInv'
  BY <1>1 DEF Live, TailInv
<1>3. EpochInv'
  BY DEF Live, EpochInv, SameFields, TaskEq
<1>4. TasksLive'
  <2> SUFFICES ASSUME NEW c \in Invocations, NEW i \in Invocations, NEW s \in Statuses,
                      box[c].active = i, box[c].status = s
               PROVE  TaskOK(i, s)'
    BY DEF TasksLive
  <2>1. TaskOK(i, s)
    BY DEF Live, TasksLive
  <2>2. SameTask(i)
    <3> SUFFICES ASSUME NEW u \in Threads
                 PROVE  /\ Carries(u, i)' <=> Carries(u, i)
                        /\ Reports(u, i)' <=> Reports(u, i)
                        /\ Runs(u, i)' <=> Runs(u, i)
                        /\ Reports(u, i) => th'[u].epoch = th[u].epoch
                        /\ Runs(u, i) => th'[u].pc = th[u].pc
      BY DEF SameTask
    <3>1. CASE u = t
      BY <1>1, <3>1 DEF Carries, Reports, Runs, Executing
    <3>2. CASE u # t
      BY Zenon, <1>1, <3>2, OtherThreads
    <3> QED
      BY <3>1, <3>2
  <2> QED
    BY <2>1, <2>2, FrameTask
<1> QED
  BY <1>2, <1>3, <1>4 DEF Live

\* The mailboxes stay as they are when neither they nor the flags change.
LEMMA SameBoxes ==
    ASSUME Live, box' = box, unswept' = unswept,
           sched'.cancelling = sched.cancelling,
           sched'.stopping = sched.stopping, sched'.accepting = sched.accepting
    PROVE  BoxesLive' /\ FlagInv'
BY DEF Live, BoxesLive, BoxLive, FlagInv

\* A critical section clears the tasks of what leaves the mailbox, and no other.
LEMMA InvAfterFields ==
    ASSUME NEW v \in [Invocations -> InvocationType], NEW m \in MailboxType,
           NEW gone, sched.accepted \in Nat, NEW i \in Invocations
    PROVE  /\ i \notin gone => TaskEq(InvAfter(v, m, gone)[i], v[i])
           /\ i \in gone => TaskCleared(InvAfter(v, m, gone)[i])
<1> DEFINE d == IF i \in gone THEN Destroyed(v[i]) ELSE v[i]
           r == InvAfter(v, m, gone)[i]
<1>1. r = IF i = m.active /\ d.gen = 0 THEN [d EXCEPT !.gen = m.generation] ELSE d
  BY DEF InvAfter
<1>2. v[i] \in InvocationType
  OBVIOUS
<1>3. i \notin gone => d = v[i]
  OBVIOUS
<1>4. i \in gone => /\ d \in InvocationType
                    /\ d.epoch = 0 /\ d.readyEpoch = 0
                    /\ d.completedEpoch = 0 /\ d.ioPending = FALSE
  <2> SUFFICES ASSUME i \in gone
               PROVE  /\ d \in InvocationType
                      /\ d.epoch = 0 /\ d.readyEpoch = 0
                      /\ d.completedEpoch = 0 /\ d.ioPending = FALSE
    BY Zenon
  <2>1. d = Destroyed(v[i])
    OBVIOUS
  <2>2. Destroyed(v[i]) \in InvocationType
    BY <1>2, DestroyedFacts
  <2>3. LET y == Destroyed(v[i]) IN /\ y.epoch = 0 /\ y.readyEpoch = 0
                                    /\ y.completedEpoch = 0 /\ y.ioPending = FALSE
    BY <1>2 DEF Destroyed, InvocationType
  <2> QED
    BY <2>1, <2>2, <2>3
<1> HIDE DEF d, r
<1>5. d \in InvocationType
  BY <1>2, <1>3, <1>4
<1>6. /\ r.task = d.task /\ r.epoch = d.epoch /\ r.readyEpoch = d.readyEpoch
      /\ r.completedEpoch = d.completedEpoch /\ r.ioPending = d.ioPending
  BY <1>1, <1>5 DEF InvocationType
<1> QED
  BY <1>3, <1>4, <1>6 DEF r, TaskEq, TaskCleared

\* decrement_pending and increment_pending leave the flags alone.
LEMMA CountersKeepFlags ==
    ASSUME NEW s \in SchedType, NEW k \in Keys, NEW n, NEW i \in Invocations
    PROVE  /\ DecrementPending(s, k, n).cancelling = s.cancelling
           /\ DecrementPending(s, k, n).stopping = s.stopping
           /\ DecrementPending(s, k, n).accepting = s.accepting
           /\ IncrementPending(s, i).cancelling = s.cancelling
           /\ IncrementPending(s, i).stopping = s.stopping
           /\ IncrementPending(s, i).accepting = s.accepting
BY DEF DecrementPending, IncrementPending, SchedType

\* prepare_next_locked on a mailbox without an active invocation.
LEMMA PrepareNextLive ==
    ASSUME NEW v, NEW m \in MailboxType, TypeOK, m.active = None
    PROVE  LET p == PrepareNext(v, m) IN
           /\ p.pending # <<>> => m.pending # <<>>
           /\ \/ /\ p.active = None
                 /\ p.status = IF sched.stopping THEN "Stopping" ELSE "Idle"
                 /\ p.pending = <<>> \/ sched.cancelling
              \/ /\ p.active # None /\ p.status = "Runnable" /\ ~sched.cancelling
                 /\ \E n \in DOMAIN m.pending : p.active = m.pending[n]
<1> DEFINE p == PrepareNext(v, m)
           d == Len(Unregistered(v, m.pending))
           rest == SubSeq(m.pending, d + 1, Len(m.pending))
           parked == [m EXCEPT !.pending = rest, !.settled = @ + d,
                               !.status = IF sched.stopping THEN "Stopping"
                                                            ELSE "Idle"]
<1>1. /\ Within(p.pending, m.pending)
      /\ p \in MailboxType
      /\ \/ /\ p.active = m.active
            /\ p.generation = m.generation
            /\ p.status \in {"Idle", "Stopping"}
         \/ /\ p.active # None
            /\ \E n \in DOMAIN m.pending : p.active = m.pending[n]
            /\ p.generation = m.generation + 1
            /\ p.status = "Runnable"
  BY PrepareNextFacts
<1>2. p.pending # <<>> => m.pending # <<>>
  <2>1. p.pending \in Seq(Invocations) /\ m.pending \in Seq(Invocations)
    BY <1>1 DEF MailboxType
  <2> SUFFICES ASSUME p.pending # <<>>, m.pending = <<>>
               PROVE  FALSE
    OBVIOUS
  <2>2. 1 \in DOMAIN p.pending
    BY <2>1
  <2> HIDE DEF p
  <2> QED
    BY <1>1, <2>2 DEF Within
<1>3. CASE rest = <<>> \/ sched.cancelling
  <2>1. p = parked
    BY Zenon, <1>3 DEF PrepareNext
  <2> HIDE DEF rest, d
  <2>2. /\ p.pending = rest /\ p.active = None
        /\ p.status = IF sched.stopping THEN "Stopping" ELSE "Idle"
    BY <2>1 DEF MailboxType
  <2> QED
    BY <1>2, <1>3, <2>2
<1>4. CASE ~(rest = <<>> \/ sched.cancelling)
  <2>1. p = [parked EXCEPT !.pending = Tail(rest), !.active = Head(rest),
                           !.generation = @ + 1, !.status = "Runnable"]
    BY <1>4 DEF PrepareNext
  <2> HIDE DEF rest, d
  <2>2. p.status = "Runnable"
    BY <2>1 DEF MailboxType
  <2> QED
    BY <1>1, <1>2, <1>4, <2>2
<1> QED
  BY Zenon, <1>3, <1>4

\* A mailbox holds nothing twice.
Distinct(m) ==
    /\ \A l, n \in DOMAIN m.pending : l # n => m.pending[l] # m.pending[n]
    /\ \A n \in DOMAIN m.pending : m.pending[n] # m.active

\* Turning m into m2 takes out what the events name, each once, and nothing else.
Takes(m, evs, m2) ==
    /\ EventInvs(evs) \subseteq Content(m)
    /\ Content(m2) = Content(m) \ EventInvs(evs)
    /\ \A l, n \in DOMAIN evs : l # n => evs[l].inv # evs[n].inv

\* A mailbox holds no invocation twice: tickets grow along the queue.
LEMMA BoxIsDistinct ==
    ASSUME IInv, Fifo, NEW b \in Invocations
    PROVE  Distinct(box[b])
<1> DEFINE q == box[b].pending
<1>1. q \in Seq(Invocations) /\ \A n \in DOMAIN q : q[n] \in Invocations
  BY DEF IInv, TypeOK, MailboxType
<1>2. ASSUME NEW l \in DOMAIN q, NEW n \in DOMAIN q, l # n
      PROVE  q[l] # q[n]
  <2>1. l \in Nat /\ n \in Nat
    <3>1. DOMAIN q \subseteq Nat
      BY ONLY <1>1
    <3> HIDE DEF q
    <3> QED
      BY Zenon, <3>1
  <2>2. inv[q[l]].ticket \in Nat /\ inv[q[n]].ticket \in Nat
    BY Zenon, <1>1 DEF IInv, TypeOK, InvocationType
  <2>3. /\ l < n => inv[q[l]].ticket < inv[q[n]].ticket
        /\ n < l => inv[q[n]].ticket < inv[q[l]].ticket
    BY DEF Fifo, FifoInv
  <2> QED
    BY <1>2, <2>1, <2>2, <2>3
<1> QED
  BY <1>2, QueuedIsFresh DEF Distinct

\* The dropped invocations are a prefix of the queue, and their events name them.
LEMMA DroppedEvents ==
    ASSUME NEW v, NEW q \in Seq(Invocations), TypeOK
    PROVE  LET d == Len(Unregistered(v, q))
               e == UnregisteredEvents(v, q)
           IN  /\ d \in 0..Len(q)
               /\ e \in Seq(EventType) /\ Len(e) = d /\ DOMAIN e = 1..d
               /\ \A n \in 1..d : e[n].inv = q[n]
<1> DEFINE live == {n \in 1..Len(q) : v[q[n]].actor}
           l == IF live = {} THEN Len(q) ELSE Min(live) - 1
           u == Unregistered(v, q)
           e == UnregisteredEvents(v, q)
<1>1. u \in Seq(Invocations) /\ Len(u) \in 0..Len(q)
  BY UnregisteredPrefix
<1>2. \A n \in 1..Len(u) : u[n] = q[n]
  <2>1. CASE sched.cancelling
    BY <2>1 DEF Unregistered
  <2>2. CASE ~sched.cancelling
    <3>1. u = SubSeq(q, 1, l)
      BY Zenon, <2>2 DEF Unregistered
    <3>2. live \subseteq Nat /\ Len(q) \in Nat /\ \A n \in live : n \in 1..Len(q)
      OBVIOUS
    <3>3. l \in 0..Len(q)
      <4>1. live # {} => Min(live) \in live
        BY Zenon, <3>2, MinMember
      <4> QED
        BY <3>2, <4>1
    <3> HIDE DEF l
    <3>4. Len(SubSeq(q, 1, l)) = l /\ \A n \in 1..l : SubSeq(q, 1, l)[n] = q[n]
      BY <3>2, <3>3
    <3> QED
      BY Zenon, <3>1, <3>4
  <2> QED
    BY <2>1, <2>2
<1>3. e \in Seq(EventType)
  BY UnregisteredEventsType
<1>4. e = [n \in 1..Len(u) |-> Event(u[n], "failed")]
  BY DEF UnregisteredEvents
<1> HIDE DEF u, e
<1>5. Len(u) \in Nat
  BY <1>1
<1>6. DOMAIN e = 1..Len(u) /\ \A n \in 1..Len(u) : e[n].inv = u[n]
  BY <1>4 DEF Event
<1>7. Len(e) = Len(u)
  BY <1>3, <1>5, <1>6
<1> QED
  BY <1>1, <1>2, <1>3, <1>6, <1>7 DEF u, e

\* What prepare_next_locked leaves is the rest of the queue.
LEMMA PreparedContent ==
    ASSUME NEW v, NEW m \in MailboxType, TypeOK, m.active = None
    PROVE  LET d == Len(Unregistered(v, m.pending))
           IN  Content(PrepareNext(v, m)) = {m.pending[n] : n \in (d + 1)..Len(m.pending)}
<1> DEFINE q == m.pending
           d == Len(Unregistered(v, q))
           rest == SubSeq(q, d + 1, Len(q))
           parked == [m EXCEPT !.pending = rest, !.settled = @ + d,
                               !.status = IF sched.stopping THEN "Stopping"
                                                            ELSE "Idle"]
           p == PrepareNext(v, m)
           R == {q[n] : n \in (d + 1)..Len(q)}
<1>1. q \in Seq(Invocations) /\ Len(q) \in Nat /\ DOMAIN q = 1..Len(q)
  BY DEF MailboxType
<1>2. d \in 0..Len(q)
  BY <1>1, UnregisteredPrefix
<1> HIDE DEF d
<1>3. /\ rest \in Seq(Invocations) /\ Len(rest) = Len(q) - d
      /\ \A n \in 1..(Len(q) - d) : rest[n] = q[n + d]
  BY <1>1, <1>2
<1>4. R = {rest[n] : n \in 1..Len(rest)}
  <2>1. ASSUME NEW n \in (d + 1)..Len(q)
        PROVE  \E k \in 1..Len(rest) : q[n] = rest[k]
    <3>1. n - d \in 1..Len(rest) /\ (n - d) + d = n
      BY <1>1, <1>2, <1>3
    <3>2. rest[n - d] = q[n]
      BY Zenon, <1>3, <3>1
    <3> QED
      BY Zenon, <3>1, <3>2
  <2>2. ASSUME NEW k \in 1..Len(rest)
        PROVE  \E n \in (d + 1)..Len(q) : q[n] = rest[k]
    <3>1. k \in 1..(Len(q) - d)
      BY Zenon, <1>3
    <3> HIDE DEF rest, q
    <3>2. k + d \in (d + 1)..Len(q)
      BY <1>1, <1>2, <3>1
    <3> QED
      BY Zenon, <1>3, <3>1, <3>2
  <2> DEFINE B == {rest[n] : n \in 1..Len(rest)}
  <2>3. ASSUME NEW x \in R
        PROVE  x \in B
    <3>1. PICK n \in (d + 1)..Len(q) : x = q[n]
      OBVIOUS
    <3> HIDE DEF rest
    <3> QED
      BY Zenon, <2>1, <3>1
  <2>4. ASSUME NEW x \in B
        PROVE  x \in R
    <3> HIDE DEF rest
    <3>1. PICK k \in 1..Len(rest) : x = rest[k]
      OBVIOUS
    <3> QED
      BY Zenon, <2>2, <3>1
  <2> HIDE DEF R, B
  <2>5. R = B
    BY Zenon, <2>3, <2>4
  <2> QED
    BY <2>5 DEF B
<1> HIDE DEF rest, R
<1>5. CASE rest = <<>> \/ sched.cancelling
  <2>1. p = parked
    BY Zenon, <1>5 DEF PrepareNext, rest, d
  <2>2. p.pending = rest /\ p.active = None
    BY <2>1 DEF MailboxType
  <2>3. DOMAIN rest = 1..Len(rest)
    BY <1>3
  <2> HIDE DEF p
  <2>4. Content(p) = R
    BY <1>4, <2>2, <2>3 DEF Content
  <2> QED
    BY <2>4 DEF p, R, d
<1>6. CASE ~(rest = <<>> \/ sched.cancelling)
  <2>1. p = [parked EXCEPT !.pending = Tail(rest), !.active = Head(rest),
                           !.generation = @ + 1, !.status = "Runnable"]
    BY <1>6 DEF PrepareNext, rest, d
  <2> DEFINE hd == Head(rest)
             tl == Tail(rest)
  <2>2. /\ rest # <<>> /\ hd \in Invocations /\ tl \in Seq(Invocations)
        /\ hd = rest[1] /\ Len(rest) \in Nat \ {0} /\ Len(tl) = Len(rest) - 1
        /\ \A n \in 1..Len(tl) : tl[n] = rest[n + 1]
    <3>1. rest \in Seq(Invocations) /\ rest # <<>>
      BY Zenon, <1>3, <1>6
    <3> HIDE DEF rest
    <3>2. hd = rest[1] /\ Len(rest) \in Nat \ {0}
      BY ONLY <3>1
    <3> QED
      BY Zenon, <3>1, <3>2, HeadTailProperties
  <2> HIDE DEF hd, tl
  <2>3. p.pending = tl /\ p.active = hd
    BY <2>1 DEF MailboxType, hd, tl
  <2>4. DOMAIN tl = 1..Len(tl) /\ hd # None
    BY <2>2
  <2> HIDE DEF p
  <2>5. R = {hd} \cup {tl[n] : n \in 1..Len(tl)}
    <3>1. ASSUME NEW n \in 1..Len(rest)
          PROVE  rest[n] = hd \/ \E k \in 1..Len(tl) : rest[n] = tl[k]
      <4>1. CASE n = 1
        BY <2>2, <4>1
      <4>2. CASE n # 1
        <5>1. n - 1 \in 1..Len(tl) /\ (n - 1) + 1 = n
          BY <2>2, <4>2
        <5> QED
          BY Zenon, <2>2, <5>1
      <4> QED
        BY <4>1, <4>2
    <3>2. 1 \in 1..Len(rest) /\ \A k \in 1..Len(tl) : k + 1 \in 1..Len(rest)
      BY <2>2
    <3> DEFINE A == {rest[n] : n \in 1..Len(rest)}
               B == {hd} \cup {tl[n] : n \in 1..Len(tl)}
    <3>3. ASSUME NEW x \in A
          PROVE  x \in B
      BY Zenon, <3>1
    <3>4. ASSUME NEW x \in B
          PROVE  x \in A
      BY <2>2, <3>2
    <3> HIDE DEF A, B
    <3>5. A = B
      BY Zenon, <3>3, <3>4
    <3> QED
      BY Zenon, <1>4, <3>5 DEF A, B
  <2>6. Content(p) = R
    BY <2>3, <2>4, <2>5 DEF Content
  <2> QED
    BY <2>6 DEF p, R, d
<1> QED
  BY <1>5, <1>6

\* What leaves a mailbox in prepare_next_locked leaves it with an event.
LEMMA PrepareTakes ==
    ASSUME NEW v, NEW m \in MailboxType, TypeOK, m.active = None, Distinct(m)
    PROVE  Takes(m, UnregisteredEvents(v, m.pending), PrepareNext(v, m))
<1> DEFINE q == m.pending
           d == Len(Unregistered(v, q))
           e == UnregisteredEvents(v, q)
           p == PrepareNext(v, m)
<1>1. q \in Seq(Invocations) /\ Len(q) \in Nat /\ DOMAIN q = 1..Len(q)
      /\ \A n \in 1..Len(q) : q[n] # None
  BY DEF MailboxType
<1>2. /\ d \in 0..Len(q) /\ DOMAIN e = 1..d
      /\ \A n \in 1..d : e[n].inv = q[n]
  BY <1>1, DroppedEvents
<1>3. Content(p) = {q[n] : n \in (d + 1)..Len(q)}
  BY PreparedContent
<1> HIDE DEF d, e, p
<1>4. Content(m) = {q[n] : n \in 1..Len(q)}
  BY Zenon, <1>1 DEF Content
<1>5. EventInvs(e) = {q[n] : n \in 1..d}
  BY Zenon, <1>2 DEF EventInvs
<1>6. \A l, n \in 1..Len(q) : l # n => q[l] # q[n]
  BY Zenon, <1>1 DEF Distinct
<1>7. 1..d \subseteq 1..Len(q) /\ (d + 1)..Len(q) \subseteq 1..Len(q)
      /\ (1..d) \cap ((d + 1)..Len(q)) = {}
      /\ \A n \in 1..Len(q) : n \in 1..d \/ n \in (d + 1)..Len(q)
  BY <1>1, <1>2
<1>8. EventInvs(e) \subseteq Content(m)
  BY <1>4, <1>5, <1>7
<1>9. Content(p) = Content(m) \ EventInvs(e)
  <2>1. ASSUME NEW x \in Content(p)
        PROVE  x \in Content(m) /\ x \notin EventInvs(e)
    <3>1. PICK n \in (d + 1)..Len(q) : x = q[n]
      BY <1>3
    <3> QED
      BY Zenon, <1>4, <1>5, <1>6, <1>7, <3>1
  <2>2. ASSUME NEW x \in Content(m), x \notin EventInvs(e)
        PROVE  x \in Content(p)
    <3>1. PICK n \in 1..Len(q) : x = q[n]
      BY <1>4
    <3> QED
      BY <1>3, <1>5, <1>7, <2>2, <3>1
  <2> QED
    BY <2>1, <2>2
<1>10. \A l, n \in DOMAIN e : l # n => e[l].inv # e[n].inv
  BY <1>2, <1>6, <1>7
<1> QED
  BY <1>8, <1>9, <1>10 DEF Takes, e, p

\* The active invocation leaves first.
LEMMA HeadTakes ==
    ASSUME NEW m, NEW x, NEW m2, NEW a \in EventType, NEW evs \in Seq(EventType),
           Distinct(m), m.active # None, a.inv = m.active,
           Content(x) = Content(m) \ {m.active}, Takes(x, evs, m2)
    PROVE  Takes(m, <<a>> \o evs, m2)
<1> DEFINE f == <<a>> \o evs
<1>1. /\ DOMAIN f = 1..(Len(evs) + 1) /\ f[1] = a /\ Len(evs) \in Nat
      /\ DOMAIN evs = 1..Len(evs)
      /\ \A n \in 1..Len(evs) : f[n + 1] = evs[n]
  OBVIOUS
<1>2. \A n \in DOMAIN f : n = 1 \/ (n - 1 \in DOMAIN evs /\ f[n] = evs[n - 1])
  <2> SUFFICES ASSUME NEW n \in DOMAIN f, n # 1
               PROVE  n - 1 \in DOMAIN evs /\ f[n] = evs[n - 1]
    OBVIOUS
  <2>1. n - 1 \in 1..Len(evs) /\ (n - 1) + 1 = n
    BY <1>1
  <2> HIDE DEF f
  <2> QED
    BY Zenon, <1>1, <2>1
<1> HIDE DEF f
<1>3. EventInvs(f) = {m.active} \cup EventInvs(evs)
  <2>1. ASSUME NEW y \in EventInvs(f)
        PROVE  y \in {m.active} \cup EventInvs(evs)
    BY <1>1, <1>2 DEF EventInvs
  <2>2. m.active \in EventInvs(f)
    BY <1>1 DEF EventInvs
  <2>3. ASSUME NEW y \in EventInvs(evs)
        PROVE  y \in EventInvs(f)
    <3>1. PICK n \in DOMAIN evs : y = evs[n].inv
      BY DEF EventInvs
    <3>2. n + 1 \in DOMAIN f /\ f[n + 1] = evs[n]
      BY <1>1
    <3> QED
      BY <3>1, <3>2 DEF EventInvs
  <2> QED
    BY <2>1, <2>2, <2>3
<1>4. m.active \in Content(m)
  BY DEF Content
<1>5. EventInvs(f) \subseteq Content(m) /\ Content(m2) = Content(m) \ EventInvs(f)
  BY <1>3, <1>4 DEF Takes
<1>6. \A n \in DOMAIN evs : evs[n].inv # m.active
  BY Zenon DEF Takes, EventInvs
<1>7. ASSUME NEW l \in DOMAIN f, NEW n \in DOMAIN f, l # n
      PROVE  f[l].inv # f[n].inv
  <2>1. CASE l = 1
    BY <1>1, <1>2, <1>6, <1>7, <2>1
  <2>2. CASE n = 1
    BY <1>1, <1>2, <1>6, <1>7, <2>2
  <2>3. CASE l # 1 /\ n # 1
    <3>1. l - 1 # n - 1
      BY <1>1, <1>7
    <3> QED
      BY <1>2, <2>3, <3>1 DEF Takes
  <2> QED
    BY <2>1, <2>2, <2>3
<1> QED
  BY Zenon, <1>5, <1>7 DEF Takes, f

\* complete_active_locked takes the active invocation and what it drops.
LEMMA CompleteTakes ==
    ASSUME NEW m \in MailboxType, TypeOK, m.active # None, Distinct(m), NEW r \in Results
    PROVE  Takes(m, <<Event(m.active, r)>> \o UnregisteredEvents(inv, m.pending),
                 CompleteActive(inv, m))
<1> DEFINE n == m.settled + 1
           x == [m EXCEPT !.active = None, !.settled = n]
           a == Event(m.active, r)
           e == UnregisteredEvents(inv, m.pending)
<1>1. CompleteActive(inv, m) = PrepareNext(inv, x)
  BY DEF CompleteActive, MailboxType
<1>2. n \in Nat
  BY DEF MailboxType
<1> HIDE DEF n
<1>3. x \in MailboxType /\ x.active = None /\ x.pending = m.pending
  BY Zenon, <1>2 DEF MailboxType
<1> HIDE DEF x
<1>4. \A k \in DOMAIN x.pending : x.pending[k] \in Invocations
  BY <1>3 DEF MailboxType
<1>5. Distinct(x)
  BY <1>3, <1>4 DEF Distinct
<1>6. Takes(x, e, PrepareNext(inv, x))
  BY <1>3, <1>5, PrepareTakes
<1>7. a \in EventType /\ a.inv = m.active
  BY DEF Event, EventType, MailboxType
<1>8. e \in Seq(EventType)
  BY UnregisteredEventsType DEF MailboxType
<1>9. Content(x) = Content(m) \ {m.active}
  BY <1>3 DEF Content, Distinct
<1> HIDE DEF a, e
<1> QED
  BY <1>1, <1>6, <1>7, <1>8, <1>9, HeadTakes DEF a, e

\* cancel takes out the one it found.
LEMMA RemoveAtRange ==
    ASSUME NEW q \in Seq(Invocations), NEW n \in 1..Len(q),
           \A l, k \in 1..Len(q) : l # k => q[l] # q[k]
    PROVE  LET r == RemoveAt(q, n)
           IN  {r[k] : k \in DOMAIN r} = {q[k] : k \in DOMAIN q} \ {q[n]}
<1> DEFINE a == SubSeq(q, 1, n - 1)
           b == SubSeq(q, n + 1, Len(q))
           r == a \o b
<1>1. /\ a \in Seq(Invocations) /\ Len(a) = n - 1 /\ DOMAIN a = 1..(n - 1)
      /\ \A k \in 1..(n - 1) : a[k] = q[k]
  OBVIOUS
<1>2. /\ b \in Seq(Invocations) /\ Len(b) = Len(q) - n /\ DOMAIN b = 1..(Len(q) - n)
      /\ \A k \in 1..(Len(q) - n) : b[k] = q[k + n]
  OBVIOUS
<1> HIDE DEF a, b
<1>3. /\ DOMAIN r = 1..(Len(q) - 1)
      /\ \A k \in DOMAIN r : \/ k \in DOMAIN a /\ r[k] = a[k]
                             \/ k - Len(a) \in DOMAIN b /\ r[k] = b[k - Len(a)]
      /\ \A k \in DOMAIN a : k \in DOMAIN r /\ r[k] = a[k]
      /\ \A k \in DOMAIN b : k + Len(a) \in DOMAIN r /\ r[k + Len(a)] = b[k]
  <2>1. DOMAIN r = 1..(Len(q) - 1) /\ Len(a) + Len(b) = Len(q) - 1
    BY <1>1, <1>2
  <2>2. a \in Seq(Invocations) /\ b \in Seq(Invocations)
    BY <1>1, <1>2
  <2>3. \A j \in 1..Len(a) + Len(b) :
           r[j] = IF j <= Len(a) THEN a[j] ELSE b[j - Len(a)]
    BY ONLY <2>2, ConcatProperties
  <2> HIDE DEF r
  <2>4. ASSUME NEW k \in DOMAIN r
        PROVE  \/ k \in DOMAIN a /\ r[k] = a[k]
               \/ k - Len(a) \in DOMAIN b /\ r[k] = b[k - Len(a)]
    <3>1. k \in 1..Len(a) + Len(b)
      BY Zenon, <2>1
    <3>2. CASE k <= Len(a)
      <4>1. k \in DOMAIN a
        BY <1>1, <1>2, <3>1, <3>2
      <4> QED
        BY <2>3, <3>1, <3>2, <4>1
    <3>3. CASE ~(k <= Len(a))
      <4>0. Len(a) \in Nat /\ Len(b) \in Nat
        BY ONLY <1>1, <1>2
      <4>1. k - Len(a) \in 1..Len(b)
        BY ONLY <3>1, <3>3, <4>0
      <4> QED
        BY Zenon, <1>2, <2>3, <3>1, <3>3, <4>1
    <3> QED
      BY <3>2, <3>3
  <2>5. ASSUME NEW k \in DOMAIN a
        PROVE  k \in DOMAIN r /\ r[k] = a[k]
    <3>0. k \in 1..Len(a) /\ Len(a) \in Nat /\ Len(b) \in Nat
      BY <1>1, <1>2
    <3>1. k \in 1..Len(a) + Len(b) /\ k <= Len(a)
      BY ONLY <3>0
    <3> QED
      BY Zenon, <2>1, <2>3, <3>1
  <2>6. ASSUME NEW k \in DOMAIN b
        PROVE  k + Len(a) \in DOMAIN r /\ r[k + Len(a)] = b[k]
    <3>1. k + Len(a) \in 1..Len(a) + Len(b) /\ ~(k + Len(a) <= Len(a))
          /\ (k + Len(a)) - Len(a) = k
      <4>1. k \in 1..Len(b) /\ Len(a) \in Nat /\ Len(b) \in Nat
        BY <1>1, <1>2
      <4> QED
        BY ONLY <4>1
    <3> QED
      BY Zenon, <2>1, <2>3, <3>1
  <2> QED
    BY <2>1, <2>4, <2>5, <2>6
<1>4. RemoveAt(q, n) = r
  BY DEF RemoveAt, a, b
<1> HIDE DEF r
<1>5. ASSUME NEW k \in DOMAIN r
      PROVE  \E l \in 1..Len(q) : l # n /\ r[k] = q[l]
  <2>1. CASE k \in DOMAIN a /\ r[k] = a[k]
    BY <1>1, <2>1
  <2>2. CASE k - Len(a) \in DOMAIN b /\ r[k] = b[k - Len(a)]
    <3> DEFINE l == k - Len(a)
    <3>1. l \in 1..(Len(q) - n)
      BY <1>2, <2>2
    <3>2. r[k] = q[l + n] /\ l + n \in 1..Len(q) /\ l + n # n
      BY <1>2, <2>2, <3>1
    <3> QED
      BY <3>2
  <2> QED
    BY <1>3, <2>1, <2>2
<1>6. ASSUME NEW l \in 1..Len(q), l # n
      PROVE  \E k \in DOMAIN r : r[k] = q[l]
  <2>1. CASE l < n
    <3>1. l \in 1..(n - 1)
      BY <2>1
    <3> QED
      BY Zenon, <1>1, <1>3, <3>1
  <2>2. CASE ~(l < n)
    <3>1. l - n \in 1..(Len(q) - n) /\ (l - n) + n = l
      BY <1>6, <2>2
    <3>2. b[l - n] = q[l] /\ l - n \in DOMAIN b
      BY Zenon, <1>2, <3>1
    <3> QED
      BY <1>3, <3>2
  <2> QED
    BY <2>1, <2>2
<1>7. DOMAIN q = 1..Len(q)
  OBVIOUS
<1> DEFINE A == {r[k] : k \in DOMAIN r}
           B == {q[k] : k \in DOMAIN q} \ {q[n]}
<1>8. ASSUME NEW x \in A
      PROVE  x \in B
  BY <1>5, <1>7
<1>9. ASSUME NEW x \in B
      PROVE  x \in A
  BY <1>6, <1>7
<1> HIDE DEF A, B
<1>10. A = B
  BY Zenon, <1>8, <1>9
<1> QED
  BY Zenon, <1>4, <1>10 DEF A, B

\* What a mailbox holds has it as its home.
LEMMA ContentIsHome ==
    ASSUME IInv, NEW b \in Invocations, NEW i \in Content(box[b])
    PROVE  i \in Invocations /\ inv[i].home = b
<1>1. box[b].active \in Invocations \cup {None} /\ box[b].pending \in Seq(Invocations)
  BY DEF IInv, TypeOK, MailboxType
<1> QED
  BY <1>1 DEF Content, IInv, Structure, HomeInv

\* A critical section that takes invocations out of a mailbox.
LEMMA SettleLive ==
    ASSUME IInv, IInv', Live,
           NEW b \in Invocations, NEW m \in MailboxType, NEW evs \in Seq(EventType),
           NEW t \in Threads, NEW rec \in ThreadType,
           Settle(b, m, evs, t, rec),
           UNCHANGED <<mailboxes, items, unswept>>,
           mailboxes[KeyOf[b]] = b, Takes(box[b], evs, m), Moves(b, m, t, rec),
           BoxLive(b)'
    PROVE  Live'
<1>1. /\ box' = [box EXCEPT ![b] = m] /\ th' = [th EXCEPT ![t] = rec]
      /\ inv' = InvAfter(inv, m, EventInvs(evs))
      /\ sched' = DecrementPending(sched, KeyOf[b], Len(evs))
  BY DEF Settle
<1>2. /\ TypeOK /\ inv \in [Invocations -> InvocationType] /\ sched \in SchedType
      /\ sched.accepted \in Nat /\ KeyOf[b] \in Keys
  BY Zenon DEF IInv, TypeOK, SchedType
<1> DEFINE gone == EventInvs(evs)
<1>3. \A i \in Invocations : i \in gone => inv[i].home = b
  BY ContentIsHome DEF Takes
<1>4. inv' = InvAfter(inv, m, gone)
  BY <1>1
<1> HIDE DEF gone
<1>5. \A i \in Invocations : inv'[i].home = inv[i].home
  BY <1>2, <1>4, InvAfterFacts
<1>6. ASSUME NEW i \in Invocations
      PROVE  /\ i \notin gone => SameFields(i)
             /\ i \in gone => TaskCleared(inv'[i])
  <2>1. /\ i \notin gone => TaskEq(InvAfter(inv, m, gone)[i], inv[i])
        /\ i \in gone => TaskCleared(InvAfter(inv, m, gone)[i])
    BY <1>2, InvAfterFields
  <2> QED
    BY <1>4, <2>1 DEF SameFields
<1>7. /\ sched'.cancelling = sched.cancelling
      /\ sched'.stopping = sched.stopping
      /\ sched'.accepting = sched.accepting
  BY <1>1, <1>2, CountersKeepFlags
<1>8. m.active # None /\ m.active = box[b].active => SameFields(m.active)
  <2>1. m.active # None => m.active \in Content(m)
    BY DEF Content
  <2> QED
    BY <1>6, <2>1 DEF gone, MailboxType, Takes
<1>9. \A i \in Invocations : SameFields(i) \/ (inv'[i].home = b /\ TaskCleared(inv'[i]))
  BY <1>3, <1>5, <1>6
<1>10. Section(b, m, t, rec)
  BY <1>1, <1>7, <1>8, <1>9 DEF Section
<1> QED
  BY <1>10, SectionLive

\* What prepare_next_locked leaves in a mailbox without an active invocation.
LEMMA PreparedBox ==
    ASSUME IInv, Live, NEW b \in Invocations, NEW x \in MailboxType,
           x.active = None, ~x.claimed,
           x.pending # <<>> => box[b].pending # <<>>,
           NEW v, NEW m \in MailboxType,
           m.active = PrepareNext(v, x).active, m.status = PrepareNext(v, x).status,
           m.pending = PrepareNext(v, x).pending,
           m.claimed => m.active = None /\ m.status = "Idle",
           box'[b] = m, unswept' = unswept,
           sched'.cancelling = sched.cancelling, sched'.stopping = sched.stopping
    PROVE  BoxLive(b)'
<1>1. TypeOK /\ sched.stopping \in BOOLEAN /\ sched.cancelling \in BOOLEAN
  BY Zenon DEF IInv, TypeOK, SchedType
<1>2. /\ m.pending # <<>> => x.pending # <<>>
      /\ \/ /\ m.active = None
            /\ m.status = IF sched.stopping THEN "Stopping" ELSE "Idle"
            /\ m.pending = <<>> \/ sched.cancelling
         \/ /\ m.active # None /\ m.status = "Runnable" /\ ~sched.cancelling
            /\ \E n \in DOMAIN x.pending : m.active = x.pending[n]
  BY <1>1, PrepareNextLive
<1>3. BoxLive(b)
  BY DEF Live, BoxesLive
<1> QED
  BY <1>1, <1>2, <1>3 DEF BoxLive

\* Where a thread goes that has the events evs to deliver.
LEMMA DeliverTail ==
    ASSUME NEW rec \in ThreadType, NEW evs, NEW then
    PROVE  LET d == Deliver(rec, evs, then) IN
           /\ d.events = evs
           /\ evs # <<>> => d.pc = "deliver" /\ d.next = then
           /\ evs = <<>> => d.pc = then /\ d.next = "idle"
BY DEF Deliver, ThreadType

\* Thread t takes the events evs out of mailbox b, which becomes m.
Leaves(b, m, evs, t, rec) ==
    /\ Settle(b, m, evs, t, rec)
    /\ UNCHANGED <<mailboxes, items, unswept, result, calls>>
    /\ mailboxes[KeyOf[b]] = b
    /\ Takes(box[b], evs, m)
    /\ Within(m.pending, box[b].pending)
    /\ Moves(b, m, t, rec)
    /\ BoxLive(b)'
    /\ rec.events = evs /\ th[t].events = <<>>
    /\ rec.pc \in {"deliver", "publish", "dispatch", "claim"}
    /\ rec.next # "stopExecutor"
    /\ t \in Workers => th[t].pc # "idle"

\* Thread t takes invocations out of some mailbox and has their results.
SomeLeave(t) ==
    \E b \in Invocations, m \in MailboxType, evs \in Seq(EventType), rec \in ThreadType :
        Leaves(b, m, evs, t, rec)

\* Taking invocations out of a mailbox loses no work.
LEMMA LeavesLive ==
    ASSUME IInv, IInv', Live, NEW t \in Threads, SomeLeave(t)
    PROVE  Live'
BY SettleLive DEF SomeLeave, Leaves

\* complete_active_locked, whatever the thread does next.
LEMMA CompletionLeaves ==
    ASSUME IInv, Fifo, Live, NEW b \in Invocations, box[b].active # None,
           NEW r \in Results, NEW t \in Threads, NEW x \in ThreadType,
           NEW then \in {"publish", "dispatch", "claim"},
           NEW m \in MailboxType,
           LET c == CompleteActive(inv, box[b])
               evs == <<Event(box[b].active, r)>> \o UnregisteredEvents(inv, box[b].pending)
           IN  /\ m.active = c.active /\ m.status = c.status /\ m.pending = c.pending
               /\ m.generation = c.generation
               /\ m.claimed => m.active = None /\ m.status = "Idle"
               /\ m.active # None => then # "claim"
               /\ x.request = m.active
               /\ Settle(b, m, evs, t, Deliver(x, evs, then)),
           UNCHANGED <<mailboxes, items, unswept, result, calls>>,
           th[t].pc \notin {"begin", "ready", "sweep", "deliver"},
           t \in Workers => th[t].pc # "idle",
           th[t].request \in {None, box[b].active},
           \A i \in Invocations : Runs(t, i) => i = box[b].active
    PROVE  SomeLeave(t)
<1> DEFINE n == box[b].settled + 1
           y == [box[b] EXCEPT !.active = None, !.settled = n]
           c == CompleteActive(inv, box[b])
           evs == <<Event(box[b].active, r)>> \o UnregisteredEvents(inv, box[b].pending)
           d == Deliver(x, evs, then)
<1>1. TypeOK /\ box[b] \in MailboxType /\ Distinct(box[b]) /\ sched \in SchedType
      /\ KeyOf[b] \in Keys
  BY BoxIsDistinct DEF IInv, TypeOK
<1>2. evs \in Seq(EventType) /\ evs # <<>>
  BY <1>1, CompletionEvents
<1>3. Takes(box[b], evs, c)
  BY <1>1, CompleteTakes
<1>4. mailboxes[KeyOf[b]] = b
  BY DEF IInv, Structure, MapInv
<1>5. n \in Nat
  BY <1>1 DEF MailboxType
<1>6. c = PrepareNext(inv, y)
  BY <1>1 DEF CompleteActive, MailboxType
<1> HIDE DEF n
<1>7. /\ y \in MailboxType /\ y.active = None /\ y.pending = box[b].pending
      /\ y.generation = box[b].generation /\ y.claimed = box[b].claimed
  BY Zenon, <1>1, <1>5 DEF MailboxType
<1>8. ~y.claimed
  BY <1>7 DEF Live, BoxesLive, BoxLive
<1> HIDE DEF y, evs
<1>9. /\ m.active = c.active /\ m.status = c.status /\ m.pending = c.pending
      /\ m.generation = c.generation
      /\ m.claimed => m.active = None /\ m.status = "Idle"
      /\ m.active # None => then # "claim"
      /\ x.request = m.active
      /\ Settle(b, m, evs, t, d)
  BY DEF evs
<1>10. Takes(box[b], evs, m)
  BY <1>3, <1>9 DEF Takes, Content
<1>11. /\ c.pending # <<>> => y.pending # <<>>
       /\ \/ /\ c.active = None
             /\ c.status = IF sched.stopping THEN "Stopping" ELSE "Idle"
             /\ c.pending = <<>> \/ sched.cancelling
          \/ /\ c.active # None /\ c.status = "Runnable" /\ ~sched.cancelling
             /\ \E k \in DOMAIN y.pending : c.active = y.pending[k]
  BY <1>1, <1>6, <1>7, PrepareNextLive
<1>12. /\ Within(c.pending, y.pending)
       /\ c.active = None => c.generation = y.generation
       /\ c.active # None => c.generation = y.generation + 1
  BY <1>1, <1>6, <1>7, PrepareNextFacts
<1> HIDE DEF c
<1>13. BoxLive(b)'
  <2>1. /\ box' = [box EXCEPT ![b] = m]
        /\ sched' = DecrementPending(sched, KeyOf[b], Len(evs))
    BY <1>9 DEF Settle
  <2>2. box'[b] = m
    BY <2>1 DEF IInv, TypeOK
  <2>3. sched'.cancelling = sched.cancelling /\ sched'.stopping = sched.stopping
    BY <1>1, <2>1, CountersKeepFlags
  <2> QED
    BY <1>6, <1>7, <1>8, <1>9, <2>2, <2>3, PreparedBox
<1>14. /\ d.events = evs /\ d.pc = "deliver" /\ d.next = then
       /\ d.request = m.active /\ d \in ThreadType
  <2>1. then \in PcSet
    BY DEF PcSet, CallerPcs, WorkerPcs
  <2> QED
    BY <1>2, <1>9, <2>1, DeliverTail, DeliverFacts
<1> HIDE DEF d
<1>15. th[t].events = <<>>
  BY DEF Live, TailInv
<1>16. m.active # None => inv[m.active].gen = 0
  BY <1>7, <1>9, <1>11, QueuedIsFresh
<1>17. Moves(b, m, t, d)
  <2>1. CASE m.active = None
    BY <1>7, <1>9, <1>11, <1>12, <1>14, <2>1 DEF Moves
  <2>2. CASE m.active # None
    <3>1. AtTail(d)
      BY <1>9, <1>14, <2>2 DEF AtTail
    <3> QED
      BY <1>7, <1>9, <1>11, <1>12, <1>14, <1>16, <2>2, <3>1 DEF Moves
  <2> QED
    BY <2>1, <2>2
<1>18. Within(m.pending, box[b].pending)
  BY <1>7, <1>9, <1>12
<1>19. d.pc \in {"deliver", "publish", "dispatch", "claim"} /\ d.next # "stopExecutor"
  BY <1>14
<1>20. Leaves(b, m, evs, t, d)
  BY <1>4, <1>9, <1>10, <1>13, <1>14, <1>15, <1>17, <1>18, <1>19 DEF Leaves
<1> QED
  BY <1>2, <1>14, <1>20 DEF SomeLeave

\* cancel of a queued invocation takes it out of its mailbox.
LEMMA CancelPendingLeaves ==
    ASSUME IInv, Fifo, Live, NEW c \in Callers, NEW b \in Invocations,
           mailboxes[KeyOf[b]] = b, NEW n \in 1..Len(box[b].pending),
           th[c].pc = "idle", CancelPending(c, b, n),
           UNCHANGED <<mailboxes, items, unswept, result, calls>>
    PROVE  SomeLeave(c)
<1> DEFINE q == box[b].pending
           i == q[n]
           rest == RemoveAt(q, n)
           k == box[b].settled + 1
           m == [box[b] EXCEPT !.pending = rest, !.settled = k]
           evs == <<Event(i, "cancelled")>>
           x == [th[c] EXCEPT !.touched = b]
           rec == Deliver(x, evs, "publish")
<1>0. c \in Threads /\ box[b] \in MailboxType /\ sched \in SchedType /\ KeyOf[b] \in Keys
      /\ c \notin Workers
  BY DEF Threads, IInv, TypeOK
<1>1. q \in Seq(Invocations) /\ i \in Invocations /\ k \in Nat /\ DOMAIN q = 1..Len(q)
      /\ b # None
  BY <1>0 DEF MailboxType
<1>2. rest \in Seq(Invocations) /\ Within(rest, q)
  BY Zenon, <1>1, RemoveAtWithin
<1>3. Settle(b, m, evs, c, rec)
  BY <1>0 DEF CancelPending, MailboxType
<1>a. Distinct(box[b])
  BY BoxIsDistinct
<1>b. {rest[l] : l \in DOMAIN rest} = {q[l] : l \in DOMAIN q} \ {i}
  <2>1. \A l, j \in 1..Len(q) : l # j => q[l] # q[j]
    BY Zenon, <1>1, <1>a DEF Distinct
  <2> QED
    BY Zenon, <1>1, <2>1, RemoveAtRange
<1> HIDE DEF rest, k
<1>4. /\ m \in MailboxType /\ m.pending = rest /\ m.active = box[b].active
      /\ m.generation = box[b].generation /\ m.status = box[b].status
      /\ m.claimed = box[b].claimed
  BY Zenon, <1>0, <1>1, <1>2 DEF MailboxType
<1>5. evs \in Seq(EventType) /\ evs # <<>>
      /\ EventInvs(evs) = {i} /\ \A l, j \in DOMAIN evs : l = j
  BY <1>1 DEF Event, EventType, Results, EventInvs
<1>6. x \in ThreadType /\ x.request = th[c].request
  BY Zenon, <1>0, ThreadFacts DEF ThreadType
<1>7. "publish" \in PcSet
  BY DEF PcSet, CallerPcs
<1> HIDE DEF x, evs, m
<1>8. /\ rec \in ThreadType /\ rec.events = evs /\ rec.pc = "deliver"
      /\ rec.next = "publish" /\ rec.request = th[c].request
  BY <1>5, <1>6, <1>7, DeliverFacts, DeliverTail
<1> HIDE DEF rec
<1>9. th[c].request = None /\ th[c].events = <<>>
  BY <1>0 DEF Live, TailInv, AtTail
<1>10. Takes(box[b], evs, m)
  <2>1. i \in Content(box[b]) /\ i # box[b].active
    BY Zenon, <1>1, <1>a DEF Content, Distinct
  <2>2. Content(m) = Content(box[b]) \ {i}
    <3> DEFINE Q == {q[l] : l \in DOMAIN q}
               R == {rest[l] : l \in DOMAIN rest}
               A == {box[b].active} \ {None}
    <3>1. Content(m) = A \cup R /\ Content(box[b]) = A \cup Q
      BY <1>4 DEF Content
    <3>2. R = Q \ {i} /\ i \notin A
      BY Zenon, <1>b, <2>1
    <3> HIDE DEF Q, R, A
    <3> QED
      BY <3>1, <3>2
  <2> QED
    BY <1>5, <2>1, <2>2 DEF Takes
<1>11. Moves(b, m, c, rec)
  <2>1. ~Executing(c) /\ \A j \in Invocations : ~Runs(c, j)
    BY <1>0 DEF Executing, Runs
  <2> QED
    BY <1>4, <1>8, <1>9, <2>1 DEF Moves
<1>12. BoxLive(b)'
  <2>1. /\ box' = [box EXCEPT ![b] = m]
        /\ sched' = DecrementPending(sched, KeyOf[b], Len(evs))
    BY <1>3 DEF Settle
  <2>2. box'[b] = m
    BY <2>1 DEF IInv, TypeOK
  <2>3. sched'.cancelling = sched.cancelling /\ sched'.stopping = sched.stopping
    BY <1>0, <2>1, CountersKeepFlags
  <2>4. q # <<>>
    BY <1>1
  <2>5. BoxLive(b)
    BY DEF Live, BoxesLive
  <2> QED
    BY <1>4, <2>2, <2>3, <2>4, <2>5 DEF BoxLive
<1>13. Leaves(b, m, evs, c, rec)
  BY <1>0, <1>2, <1>3, <1>4, <1>8, <1>9, <1>10, <1>11, <1>12 DEF Leaves
<1> QED
  BY <1>4, <1>5, <1>8, <1>13 DEF SomeLeave

\* Completing the active invocation takes it out of its mailbox.
LEMMA SettleActiveLeaves ==
    ASSUME IInv, Fifo, Live, NEW b \in Invocations, box[b].active # None,
           NEW r \in Results, NEW t \in Threads, NEW x \in ThreadType,
           SettleActive(b, r, t, x, "publish"),
           UNCHANGED <<mailboxes, items, unswept, result, calls>>,
           th[t].pc \notin {"begin", "ready", "sweep", "deliver"},
           t \in Workers => th[t].pc # "idle",
           th[t].request \in {None, box[b].active},
           \A i \in Invocations : Runs(t, i) => i = box[b].active
    PROVE  SomeLeave(t)
<1> DEFINE c == CompleteActive(inv, box[b])
           evs == <<Event(box[b].active, r)>> \o UnregisteredEvents(inv, box[b].pending)
           y == [x EXCEPT !.request = c.active, !.cur = None]
<1>1. Settle(b, c, evs, t, Deliver(y, evs, "publish"))
  BY DEF SettleActive
<1>2. TypeOK /\ box[b] \in MailboxType
  BY DEF IInv, TypeOK
<1>3. c \in MailboxType /\ c.claimed = box[b].claimed
  BY <1>2, CompleteActiveFacts
<1>4. ~box[b].claimed
  BY DEF Live, BoxesLive, BoxLive
<1> HIDE DEF c
<1>5. y \in ThreadType /\ y.request = c.active
  BY Zenon, <1>3 DEF ThreadType, MailboxType
<1> HIDE DEF y
<1> QED
  BY <1>1, <1>3, <1>4, <1>5, CompletionLeaves DEF c

\* cancel takes the invocation out, or marks the one that runs.
LEMMA CancelLeaves ==
    ASSUME IInv, Fifo, Live, NEW c \in Callers, NEW k \in Keys, NEW msg \in Messages,
           Cancel(c, k, msg)
    PROVE  \/ SomeLeave(c)
           \/ \E b \in Invocations :
                 /\ box[b].active # None /\ box[b].status = "Running"
                 /\ inv' = [inv EXCEPT ![box[b].active].cancelAfterResume = TRUE]
                 /\ th' = [th EXCEPT ![c] = Deliver([th[c] EXCEPT !.touched = b],
                                                    <<>>, "publish")]
                 /\ UNCHANGED <<box, sched, mailboxes, items, unswept, result, calls>>
<1> DEFINE b == mailboxes[k]
           q == box[b].pending
           matches == {n \in 1..Len(q) : MessageOf[q[n]] = msg}
<1>1. /\ b \in Invocations /\ KeyOf[b] = k /\ th[c].pc = "idle" /\ c \in Threads
      /\ c \notin Workers /\ UNCHANGED <<mailboxes, items, unswept, result, calls>>
  BY DEF Cancel, IInv, TypeOK, Structure, MapInv, Threads
<1>2. CASE matches # {} /\ CancelPending(c, b, Min(matches))
  <2>1. q \in Seq(Invocations)
    BY <1>1 DEF IInv, TypeOK, MailboxType
  <2>2. matches \subseteq Nat /\ matches \subseteq 1..Len(q)
    BY <2>1
  <2>3. Min(matches) \in matches
    BY Zenon, <1>2, <2>2, MinMember
  <2>4. Min(matches) \in 1..Len(q)
    BY <2>2, <2>3
  <2> HIDE DEF matches
  <2> QED
    BY <1>1, <1>2, <2>4, CancelPendingLeaves
<1>3. CASE box[b].active # None /\ CancelActive(c, b)
  <2>1. CASE box[b].status = "Running"
    <3>1. /\ inv' = [inv EXCEPT ![box[b].active].cancelAfterResume = TRUE]
          /\ th' = [th EXCEPT ![c] = Deliver([th[c] EXCEPT !.touched = b], <<>>, "publish")]
          /\ UNCHANGED <<box, sched>>
      BY <1>3, <2>1 DEF CancelActive
    <3> HIDE DEF b
    <3> QED
      BY Zenon, <1>1, <1>3, <2>1, <3>1
  <2>2. CASE box[b].status # "Running"
    <3> DEFINE x == [th[c] EXCEPT !.touched = b]
    <3>1. SettleActive(b, "cancelled", c, x, "publish") /\ "cancelled" \in Results
      BY <1>3, <2>2 DEF CancelActive, Results
    <3>2. x \in ThreadType
      BY Zenon, <1>1, ThreadFacts DEF ThreadType
    <3>3. th[c].request = None
      BY <1>1 DEF Live, TailInv, AtTail
    <3>4. \A i \in Invocations : ~Runs(c, i)
      BY <1>1 DEF Runs
    <3> HIDE DEF b, x
    <3> QED
      BY Zenon, <1>1, <1>3, <3>1, <3>2, <3>3, <3>4, SettleActiveLeaves
  <2> QED
    BY Zenon, <2>1, <2>2
<1> QED
  BY Zenon, <1>2, <1>3 DEF Cancel

\* A worker at work runs the active invocation of its mailbox.
LEMMA RunsIsActive ==
    ASSUME IInv, NEW w \in Threads, NEW i \in Invocations, Runs(w, i)
    PROVE  /\ inv[i].home \in Invocations /\ box[inv[i].home].active = i
           /\ box[inv[i].home].status = "Running" /\ IsCurrent(i)
<1>1. w \in Workers /\ Executing(w) /\ th[w].cur = i /\ i # None
  BY DEF Runs
<1>2. /\ inv[i].home # None /\ box[inv[i].home].active = i
      /\ box[inv[i].home].status = "Running"
  BY <1>1 DEF IInv, WorkerOwnsMailbox
<1>3. inv[i].home \in Invocations
  BY <1>2 DEF IInv, TypeOK, InvocationType
<1> QED
  BY <1>1, <1>2, <1>3 DEF IsCurrent

\* A handler that throws before it returns a task leaves its mailbox.
LEMMA StartErrorLeaves ==
    ASSUME IInv, Fifo, Live, NEW w \in Workers, StartError(w)
    PROVE  SomeLeave(w)
<1> DEFINE i == th[w].cur
           b == inv[i].home
<1>1. /\ w \in Threads /\ i \in Invocations /\ th[w].pc = "start" /\ Runs(w, i)
      /\ th[w] \in ThreadType
      /\ UNCHANGED <<mailboxes, items, unswept, result, calls>>
  <2>1. w \in Threads
    BY DEF Threads
  <2> QED
    BY <2>1, ThreadFacts DEF StartError, RecOK, Executing, Runs
<1>2. b \in Invocations /\ box[b].active = i /\ IsCurrent(i)
  BY <1>1, RunsIsActive
<1>3. SettleActive(b, "failed", w, th[w], "publish") /\ "failed" \in Results
  BY <1>2 DEF StartError, Results
<1>4. th[w].request = None
  BY <1>1 DEF Live, TailInv, AtTail
<1>5. \A j \in Invocations : Runs(w, j) => j = box[b].active
  BY <1>2 DEF Runs
<1>6. box[b].active # None
  BY <1>1, <1>2
<1> HIDE DEF b
<1> QED
  BY <1>1, <1>2, <1>3, <1>4, <1>5, <1>6, SettleActiveLeaves

\* The end of a task, with the claim of an idle mailbox, takes it out.
LEMMA FinishActiveLeaves ==
    ASSUME IInv, Fifo, Live, NEW w \in Workers, th[w].pc = "post",
           NEW i \in Invocations, Runs(w, i), NEW b \in Invocations, box[b].active = i,
           NEW r \in Results, FinishActive(w, b, r),
           UNCHANGED <<mailboxes, items, unswept, result, calls>>
    PROVE  SomeLeave(w)
<1> DEFINE m    == CompleteActive(inv, box[b])
           owns == ClaimsIdleMailbox(m)
           cl   == IF owns THEN TRUE ELSE m.claimed
           m2   == [m EXCEPT !.claimed = cl]
           evs  == <<Event(box[b].active, r)>>
                   \o UnregisteredEvents(inv, box[b].pending)
           rec  == [th[w] EXCEPT !.request = m.active, !.cur = None]
           then == IF owns THEN "claim" ELSE "dispatch"
<1>1. TypeOK /\ box[b] \in MailboxType /\ w \in Threads /\ box[b].active # None
  BY DEF IInv, TypeOK, Threads
<1>2. m \in MailboxType /\ m.claimed = box[b].claimed
  BY <1>1, CompleteActiveFacts
<1>3. ~box[b].claimed
  BY <1>1 DEF Live, BoxesLive, BoxLive
<1>4. Settle(b, m2, evs, w, Deliver(rec, evs, then))
  BY <1>2 DEF FinishActive
<1>5. th[w] \in ThreadType
  BY <1>1, ThreadFacts
<1> HIDE DEF m
<1>6. /\ then \in {"publish", "dispatch", "claim"} /\ cl \in BOOLEAN
      /\ m.active # None => then # "claim"
      /\ cl => m.active = None /\ m.status = "Idle"
  BY Zenon, <1>2, <1>3 DEF MailboxType, ClaimsIdleMailbox
<1> HIDE DEF then, cl, owns
<1>7. /\ m2 \in MailboxType /\ m2.active = m.active /\ m2.status = m.status
      /\ m2.pending = m.pending /\ m2.generation = m.generation /\ m2.claimed = cl
  BY Zenon, <1>2, <1>6 DEF MailboxType
<1>8. rec \in ThreadType /\ rec.request = m.active
  BY Zenon, <1>2, <1>5 DEF ThreadType, MailboxType
<1> HIDE DEF rec, m2
<1>9. th[w].request = None
  BY <1>1 DEF Live, TailInv, AtTail
<1>10. \A j \in Invocations : Runs(w, j) => j = box[b].active
  BY DEF Runs
<1> QED
  BY <1>1, <1>4, <1>6, <1>7, <1>8, <1>9, <1>10, CompletionLeaves DEF m

\* The critical section after a resume settles the invocation or keeps it.
LEMMA AfterResumeLeaves ==
    ASSUME IInv, Fifo, Live, NEW w \in Workers, AfterResume(w)
    PROVE  \/ SomeLeave(w)
           \/ \E b, i \in Invocations : 
                 /\ Runs(w, i) /\ box[b].active = i /\ box[b].status = "Running"
                 /\ th[w].pc = "post" /\ inv[i].task \in {"yielded", "awaiting"}
                 /\ sched.cancelling => KeyOf[b] \in unswept
                 /\ KeepActive(w, b, i)
                 /\ UNCHANGED <<mailboxes, items, unswept, result, calls>>
<1> DEFINE i == th[w].cur
           b == inv[i].home
           out == IF inv[i].task = "ok" THEN "ok" ELSE "failed"
<1>1. /\ w \in Threads /\ i \in Invocations /\ th[w].pc = "post" /\ Runs(w, i)
      /\ UNCHANGED <<mailboxes, items, unswept, result, calls>>
  <2>1. w \in Threads
    BY DEF Threads
  <2> QED
    BY <2>1, ThreadFacts DEF AfterResume, RecOK, Executing, Runs
<1>2. /\ b \in Invocations /\ box[b].active = i /\ IsCurrent(i)
      /\ box[b].status = "Running"
  BY <1>1, RunsIsActive
<1>3. {"cancelled", "ok", "failed"} \subseteq Results /\ out \in {"ok", "failed"}
  BY DEF Results
<1>4. PICK c \in ObservedCancelling(b) :
         \/ CancelObserved(c, i) /\ FinishActive(w, b, "cancelled")
         \/ /\ ~CancelObserved(c, i) /\ inv[i].task \in {"yielded", "awaiting"}
            /\ KeepActive(w, b, i)
         \/ FinishActive(w, b, out)
  BY <1>2 DEF AfterResume
<1>5. CASE FinishActive(w, b, "cancelled")
  <2> HIDE DEF b
  <2> QED
    BY <1>1, <1>2, <1>3, <1>5, FinishActiveLeaves
<1>6. CASE FinishActive(w, b, out)
  <2> HIDE DEF out, b
  <2> QED
    BY <1>1, <1>2, <1>3, <1>6, FinishActiveLeaves
<1>7. CASE /\ ~CancelObserved(c, i) /\ inv[i].task \in {"yielded", "awaiting"}
           /\ KeepActive(w, b, i)
  <2>1. sched.cancelling => KeyOf[b] \in unswept
    BY Zenon, <1>7 DEF CancelObserved, ObservedCancelling
  <2> HIDE DEF b
  <2> QED
    BY <1>1, <1>2, <1>7, <2>1
<1> QED
  BY <1>4, <1>5, <1>6, <1>7

\* One round of the idle handoff settles nothing, or takes over the mailbox.
LEMMA IdleHandoffLeaves ==
    ASSUME IInv, Fifo, Live, NEW w \in Workers, IdleHandoff(w)
    PROVE  \/ SomeLeave(w)
           \/ \E rec \in ThreadType :
                 /\ th[w].pc = "claim" /\ rec.pc \in {"claim", "dispatch"}
                 /\ rec.request = th[w].request /\ rec.events = th[w].events
                 /\ th' = [th EXCEPT ![w] = rec]
                 /\ UNCHANGED <<sched, mailboxes, box, inv, items, unswept, result, calls>>
<1>0. th[w].touched \in Invocations
  <2>1. w \in Threads
    BY DEF Threads
  <2> QED
    BY <2>1, ThreadFacts DEF IdleHandoff, RecOK
<1>b. PICK b \in Invocations : b = th[w].touched
  BY <1>0
<1> DEFINE r == th[w]
           y == ReleaseClaim(box[b])
           m == PrepareNext(inv, y)
           evs == UnregisteredEvents(inv, y.pending)
           x == [r EXCEPT !.request = m.active, !.attempts = 0]
           d == Deliver(x, evs, "dispatch")
<1>1. /\ w \in Threads /\ b \in Invocations /\ r.pc = "claim" /\ r \in ThreadType
      /\ UNCHANGED <<mailboxes, items, unswept, result, calls>>
  <2>1. w \in Threads
    BY DEF Threads
  <2> QED
    BY <2>1, ThreadFacts DEF IdleHandoff, RecOK
<1>2. TypeOK /\ box[b] \in MailboxType /\ sched \in SchedType /\ KeyOf[b] \in Keys
      /\ th \in [Threads -> ThreadType]
  BY <1>1 DEF IInv, TypeOK
<1>3. CASE th' = [th EXCEPT ![w] = [@ EXCEPT !.pc = "dispatch", !.attempts = 0]]
           /\ UNCHANGED <<sched, box, inv>>
  <2> DEFINE rec == [r EXCEPT !.pc = "dispatch", !.attempts = 0]
  <2>1. /\ rec \in ThreadType /\ rec.pc = "dispatch" /\ rec.request = r.request
        /\ rec.events = r.events
    BY Zenon, <1>1 DEF ThreadType, PcSet, WorkerPcs
  <2>2. th' = [th EXCEPT ![w] = rec]
    BY <1>1, <1>2, <1>3
  <2> HIDE DEF rec
  <2> QED
    BY Zenon, <1>1, <1>3, <2>1, <2>2
<1>4. CASE th' = [th EXCEPT ![w].attempts = @ + 1] /\ UNCHANGED <<sched, box, inv>>
  <2> DEFINE n == r.attempts + 1
             rec == [r EXCEPT !.attempts = n]
  <2>1. n \in Nat
    BY <1>1 DEF ThreadType
  <2>2. th' = [th EXCEPT ![w] = rec]
    BY <1>1, <1>2, <1>4 DEF ThreadType
  <2> HIDE DEF n
  <2>3. /\ rec \in ThreadType /\ rec.pc = "claim" /\ rec.request = r.request
        /\ rec.events = r.events
    BY Zenon, <1>1, <2>1 DEF ThreadType
  <2> HIDE DEF rec
  <2> QED
    BY Zenon, <1>1, <1>4, <2>2, <2>3
<1>5. CASE /\ box[b].active = None /\ box[b].claimed
           /\ Settle(b, m, evs, w, d)
  <2>1. /\ y \in MailboxType /\ y.pending = box[b].pending /\ ~y.claimed
        /\ y.active = None /\ y.generation = box[b].generation
    BY Zenon, <1>2, <1>5 DEF ReleaseClaim, MailboxType
  <2>2. Distinct(y) /\ Content(y) = Content(box[b])
    BY <1>1, <1>5, <2>1, BoxIsDistinct DEF Distinct, Content
  <2> HIDE DEF y
  <2>3. /\ m \in MailboxType /\ m.claimed = y.claimed
        /\ Within(m.pending, y.pending)
        /\ m.active = None => m.generation = y.generation
        /\ m.active # None => m.generation = y.generation + 1
    BY <1>2, <2>1, PrepareNextFacts
  <2>4. /\ \/ /\ m.active = None
              /\ m.pending = <<>> \/ sched.cancelling
           \/ /\ m.active # None /\ m.status = "Runnable" /\ ~sched.cancelling
              /\ \E n \in DOMAIN y.pending : m.active = y.pending[n]
    BY <1>2, <2>1, PrepareNextLive
  <2>5. Takes(y, evs, m)
    BY <1>2, <2>1, <2>2, PrepareTakes
  <2>6. evs \in Seq(EventType)
    BY <1>2, <2>1, UnregisteredEventsType DEF MailboxType
  <2>7. BoxLive(b)'
    <3>1. /\ box' = [box EXCEPT ![b] = m]
          /\ sched' = DecrementPending(sched, KeyOf[b], Len(evs))
      BY <1>5 DEF Settle
    <3>2. box'[b] = m /\ unswept' = unswept
      BY <1>1, <3>1 DEF IInv, TypeOK
    <3> HIDE DEF evs
    <3>3. sched'.cancelling = sched.cancelling /\ sched'.stopping = sched.stopping
      BY <1>1, <1>2, <3>1, CountersKeepFlags
    <3>4. /\ m.active = PrepareNext(inv, y).active /\ m.status = PrepareNext(inv, y).status
          /\ m.pending = PrepareNext(inv, y).pending
      OBVIOUS
    <3>5. y.pending # <<>> => box[b].pending # <<>>
      BY <2>1
    <3>6. ~m.claimed
      BY <2>1, <2>3
    <3> HIDE DEF m
    <3> QED
      BY <1>1, <2>1, <2>3, <3>2, <3>3, <3>4, <3>5, <3>6, PreparedBox
  <2> HIDE DEF m, evs
  <2>8. x \in ThreadType /\ x.request = m.active
    BY Zenon, <1>1, <2>3 DEF ThreadType, MailboxType
  <2> HIDE DEF x
  <2>9. /\ d \in ThreadType /\ d.request = m.active /\ d.events = evs
        /\ d.pc \in {"deliver", "dispatch"} /\ d.next # "stopExecutor"
        /\ AtTail(d) /\ (evs # <<>> => d.pc = "deliver")
    <3>1. "dispatch" \in PcSet
      BY DEF PcSet, WorkerPcs
    <3>2. d \in ThreadType /\ d.request = m.active
      BY <2>6, <2>8, <3>1, DeliverFacts
    <3>3. /\ d.events = evs
          /\ evs # <<>> => d.pc = "deliver" /\ d.next = "dispatch"
          /\ evs = <<>> => d.pc = "dispatch" /\ d.next = "idle"
      BY <2>8, DeliverTail
    <3> HIDE DEF d
    <3> QED
      BY <3>2, <3>3 DEF AtTail
  <2> HIDE DEF d
  <2>10. r.request = None /\ r.events = <<>>
    BY <1>1 DEF Live, TailInv, AtTail
  <2>11. m.active # None => inv[m.active].gen = 0
    BY <1>1, <2>1, <2>4, QueuedIsFresh
  <2>12. Moves(b, m, w, d)
    <3>1. \A i \in Invocations : ~Runs(w, i)
      BY <1>1 DEF Runs, Executing
    <3>2. CASE m.active = None
      BY <1>1, <1>5, <2>1, <2>3, <2>9, <2>10, <3>1, <3>2 DEF Moves
    <3>3. CASE m.active # None
      BY <1>1, <1>5, <2>1, <2>3, <2>4, <2>9, <2>10, <2>11, <3>1, <3>3 DEF Moves
    <3> QED
      BY <3>2, <3>3
  <2>13. Takes(box[b], evs, m)
    BY <2>2, <2>5 DEF Takes
  <2>14. mailboxes[KeyOf[b]] = b
    BY <1>1, <1>5 DEF IInv, Structure, MapInv
  <2>15. Leaves(b, m, evs, w, d)
    BY <1>1, <1>5, <2>1, <2>3, <2>7, <2>9, <2>10, <2>12, <2>13, <2>14 DEF Leaves
  <2> QED
    BY <1>1, <2>3, <2>6, <2>9, <2>15 DEF SomeLeave
<1> QED
  BY <1>b, <1>3, <1>4, <1>5 DEF IdleHandoff

\* publish_request pushes the request, settles a request that was refused, or
\* drops a refused request that is stale.
LEMMA PublishRequestLeaves ==
    ASSUME IInv, Fifo, Live, ShutInv, NEW t \in Threads, PublishRequest(t)
    PROVE  LET r == th[t].request IN
           /\ r \in Invocations /\ AtPublish(t) /\ th[t].events = <<>>
           /\ \/ SomeLeave(t)
              \/ \E rec \in ThreadType :
                    /\ rec.request = None /\ rec.pc \in {"idle", "publish"}
                    /\ rec.events = <<>>
                    /\ th' = [th EXCEPT ![t] = rec]
                    /\ UNCHANGED <<mailboxes, box, inv, unswept, result, calls>>
                    /\ \/ /\ items' = [items EXCEPT ![r] = @ + 1]
                          /\ \/ sched' = sched
                             \/ sched' = [sched EXCEPT !.late = @ \cup {r}]
                       \/ /\ UNCHANGED <<sched, items>>
                          /\ \A b \in Invocations : box[b].active # r
<1> DEFINE r == th[t].request
           b == inv[r].home
           rec == [th[t] EXCEPT !.request = None, !.touched = b, !.pc = "publish"]
           rec0 == IF th[t].touched = None THEN IdleThread
                   ELSE [th[t] EXCEPT !.request = None, !.pc = "publish"]
<1>1. /\ r \in Invocations /\ inv[r].gen > 0 /\ AtPublish(t)
      /\ th[t].pc \in {"publish", "dispatch"} /\ th[t] \in ThreadType
      /\ UNCHANGED <<mailboxes, unswept, result, calls>>
  BY ThreadFacts DEF PublishRequest, AtPublish, RecOK
<1>2. th[t].events = <<>>
  BY <1>1 DEF Live, TailInv
<1>3. CASE /\ items' = [items EXCEPT ![r] = @ + 1]
           /\ sched' = sched \/ sched' = [sched EXCEPT !.late = @ \cup {r}]
           /\ th' = [th EXCEPT ![t] = rec0]
           /\ UNCHANGED <<box, inv>>
  <2>1. /\ rec0 \in ThreadType /\ rec0.request = None /\ rec0.pc \in {"idle", "publish"}
        /\ rec0.events = <<>>
    <3>1. IdleThread \in ThreadType /\ IdleThread.request = None
          /\ IdleThread.pc = "idle" /\ IdleThread.events = <<>>
      BY ThreadFacts DEF IdleThread
    <3>2. LET z == [th[t] EXCEPT !.request = None, !.pc = "publish"]
          IN  /\ z \in ThreadType /\ z.request = None /\ z.pc = "publish"
              /\ z.events = <<>>
      BY Zenon, <1>1, <1>2 DEF ThreadType, PcSet, CallerPcs
    <3> QED
      BY <3>1, <3>2
  <2> HIDE DEF rec0
  <2> QED
    BY Zenon, <1>1, <1>2, <1>3, <2>1
<1> DEFINE refused == /\ ~ExecutorAccepts(t) /\ UNCHANGED items
                      /\ IF IsCurrent(r) /\ box[b].status = "Runnable"
                         THEN LET m   == CompleteActive(inv, box[b])
                                  evs == <<Event(box[b].active, "stopped")>>
                                         \o UnregisteredEvents(inv, box[b].pending)
                              IN  Settle(b, m, evs, t, Deliver(rec, evs, "publish"))
                         ELSE /\ th' = [th EXCEPT ![t] = rec]
                              /\ UNCHANGED <<sched, box, inv>>
<1>4. CASE refused
  <2>1. b \in Invocations \cup {None}
    BY <1>1 DEF IInv, TypeOK, InvocationType
  <2>2. rec \in ThreadType /\ rec.request = None /\ rec.pc = "publish"
        /\ rec.events = <<>>
    BY Zenon, <1>1, <1>2, <2>1 DEF ThreadType, PcSet, CallerPcs
  <2>3. CASE IsCurrent(r) /\ box[b].status = "Runnable"
    <3> DEFINE m   == CompleteActive(inv, box[b])
               n == box[b].settled + 1
               y == [box[b] EXCEPT !.active = None, !.settled = n]
    <3>1. b \in Invocations /\ box[b].active = r /\ mailboxes[KeyOf[b]] = b
      BY <1>1, <2>3, CurrentIsActive
    <3>2. TypeOK /\ box[b] \in MailboxType /\ "stopped" \in Results /\ box[b].active # None
      BY <1>1, <3>1 DEF IInv, TypeOK, Results
    <3>3. sched.executorShutdown /\ UNCHANGED items
      BY <1>4 DEF ExecutorAccepts
    <3>4. r \in HeldSet(box)
      BY <1>1, <3>1, <3>2 DEF HeldSet, Content
    <3>5. sched.cancelling
      BY <3>3, <3>4 DEF ShutInv
    <3>6. m.active = None
      <4>1. m = PrepareNext(inv, y)
        BY <3>2 DEF CompleteActive, MailboxType
      <4>2. n \in Nat
        BY <3>2 DEF MailboxType
      <4> HIDE DEF n
      <4>3. y \in MailboxType /\ y.active = None
        BY Zenon, <3>2, <4>2 DEF MailboxType
      <4> HIDE DEF y
      <4> QED
        BY <3>2, <3>5, <4>1, <4>3, PrepareNextLive
    <3>7. m \in MailboxType /\ m.claimed = box[b].claimed
      BY <3>2, CompleteActiveFacts
    <3>8. ~box[b].claimed
      BY <3>1, <3>2 DEF Live, BoxesLive, BoxLive
    <3>9. LET evs == <<Event(box[b].active, "stopped")>>
                     \o UnregisteredEvents(inv, box[b].pending)
          IN  Settle(b, m, evs, t, Deliver(rec, evs, "publish"))
      BY Zenon, <1>4, <2>3
    <3>10. \A i \in Invocations : ~Runs(t, i)
      BY <1>1 DEF Runs, Executing
    <3>11. SomeLeave(t)
      <4> HIDE DEF b, rec, y, n
      <4>1. rec.request = m.active
        BY <2>2, <3>6
      <4>2. th[t].request \in {None, box[b].active}
        BY <3>1
      <4>3. th[t].pc \notin {"begin", "ready", "sweep", "deliver", "idle"}
        BY <1>1
      <4> QED
        BY <1>1, <2>2, <3>1, <3>2, <3>3, <3>6, <3>7, <3>8, <3>9, <3>10, <4>1, <4>2, <4>3,
           CompletionLeaves
    <3> QED
      BY <1>1, <1>2, <3>11
  <2>4. CASE ~(IsCurrent(r) /\ box[b].status = "Runnable")
    <3>1. th' = [th EXCEPT ![t] = rec] /\ UNCHANGED <<sched, box, inv, items>>
      BY <1>4, <2>4
    <3>2. ASSUME NEW c \in Invocations, box[c].active = r
          PROVE  FALSE
      <4>1. r # None /\ box[c].status \in Statuses
        BY <1>1 DEF IInv, TypeOK, MailboxType
      <4>2. b = c
        BY <3>2, <4>1 DEF IInv, Structure, HomeInv
      <4>3. IsCurrent(r)
        BY <3>2, <4>1, <4>2 DEF IsCurrent
      <4>4. box[c].status # "Runnable"
        BY <2>4, <4>2, <4>3
      <4>5. TaskOK(r, box[c].status)
        BY <1>1, <3>2, <4>1 DEF Live, TasksLive
      <4>6. Carries(t, r)
        BY DEF Carries
      <4> QED
        BY <4>4, <4>5, <4>6 DEF TaskOK, TokenOK
    <3> HIDE DEF rec
    <3> QED
      BY Zenon, <1>1, <1>2, <2>2, <3>1, <3>2
  <2> QED
    BY <2>3, <2>4
<1>5. \/ /\ items' = [items EXCEPT ![r] = @ + 1]
         /\ sched' = sched \/ sched' = [sched EXCEPT !.late = @ \cup {r}]
         /\ th' = [th EXCEPT ![t] = rec0]
         /\ UNCHANGED <<box, inv>>
      \/ refused
  BY <1>1 DEF PublishRequest, IInv, TypeOK
<1> QED
  BY <1>3, <1>4, <1>5

\* The scheduler's state when only a metric, an actor or a late item is added.
LEMMA SchedSame ==
    ASSUME IInv,
           \/ sched' = sched
           \/ \E x : sched' = [sched EXCEPT !.late = x]
           \/ \E x : sched' = [sched EXCEPT !.retired = x]
           \/ \E x : sched' = [sched EXCEPT !.actors = x]
           \/ \E x : sched' = [sched EXCEPT !.rejected = x],
           unswept' = unswept
    PROVE  SameCounters /\ SameFlags
<1>1. sched \in SchedType
  BY DEF IInv, TypeOK
<1> QED
  BY <1>1 DEF SameCounters, SameFlags, SchedType

\* One thread goes from one pc to another.
LEMMA CalmStep ==
    ASSUME IInv, NEW t \in Threads, NEW rec \in ThreadType, th' = [th EXCEPT ![t] = rec],
           rec.events = th[t].events, th[t].events # <<>> => rec.request = th[t].request,
           ~Closing(rec), rec.pc \notin {"drain", "sweep"},
           t \in Workers /\ rec.pc # "idle" => th[t].pc # "idle" \/ ~sched.stopped,
           SameContents, SameHistory, SameCounters, SameFlags, calls' = calls
    PROVE  Calm /\ SameCourse
<1>1. \A u \in Threads : th'[u] = IF u = t THEN rec ELSE th[u]
  BY DEF IInv, TypeOK
<1> QED
  BY <1>1 DEF Calm, SameCourse

\* A step that only updates one invocation object, and not its history.
LEMMA TaskUpdate ==
    ASSUME IInv, NEW i \in Invocations, NEW x \in InvocationType,
           inv' = [inv EXCEPT ![i] = x], x.home = inv[i].home, x.gen = inv[i].gen,
           x.ticket = inv[i].ticket, x.settledAt = inv[i].settledAt,
           x.submitted = inv[i].submitted
    PROVE  SameHistory /\ \A j \in Invocations : j # i => inv'[j] = inv[j]
BY DEF SameHistory, IInv, TypeOK

\* A thread that is about to publish or deliver nothing has no events.
LEMMA NoEvents ==
    ASSUME Live, NEW t \in Threads, th[t].pc \notin {"deliver", "sweep"}
    PROVE  th[t].events = <<>>
BY DEF Live, TailInv

\* A thread that is not at the tail of a call has no request.
LEMMA NoRequest ==
    ASSUME Live, NEW t \in Threads, th[t].pc \notin {"deliver", "publish", "dispatch"}
    PROVE  th[t].request = None
BY DEF Live, TailInv, AtTail

\* What an idle thread's record says.
LEMMA IdleFacts ==
    /\ IdleThread \in ThreadType /\ IdleThread.pc = "idle" /\ IdleThread.cur = None
    /\ IdleThread.events = <<>> /\ IdleThread.request = None
    /\ IdleThread.next = "idle" /\ ~Closing(IdleThread)
BY DEF IdleThread, ThreadType, PcSet, CallerPcs, Closing

\* register_actor and release_actors.
LEMMA ActorsLive ==
    ASSUME IInv, Live, UNCHANGED <<box, inv, items, unswept, th, calls>>,
           \E x : sched' = [sched EXCEPT !.actors = x]
    PROVE  Live' /\ Calm /\ SameCourse
<1>1. SameCounters /\ SameFlags
  BY Zenon, SchedSame
<1>2. Calm /\ SameCourse
  BY <1>1 DEF Calm, SameCourse, SameContents, SameHistory
<1>3. BoxesLive' /\ FlagInv'
  BY <1>1, SameBoxes DEF SameFlags
<1>4. TailInv' /\ EpochInv'
  BY DEF Live, TailInv, EpochInv
<1>5. TasksLive'
  <2> SUFFICES ASSUME NEW c \in Invocations, NEW i \in Invocations, NEW s \in Statuses,
                      box[c].active = i, box[c].status = s
               PROVE  TaskOK(i, s)'
    BY DEF TasksLive
  <2>1. TaskOK(i, s)
    BY DEF Live, TasksLive
  <2>2. SameTask(i)
    BY DEF SameTask, SameFields, TaskEq, Carries, Reports, Runs, Executing
  <2> QED
    BY <1>1, <2>1, <2>2, FrameTask DEF SameFlags
<1> QED
  BY <1>2, <1>3, <1>4, <1>5 DEF Live

\* A quiet step of one thread.
LEMMA QuietCalm ==
    ASSUME IInv, Live, NEW t \in Threads, NEW rec \in ThreadType,
           th' = [th EXCEPT ![t] = rec], UNCHANGED <<items, box, calls>>,
           \A i \in Invocations : SameFields(i), SameHistory, SameCounters, SameFlags,
           rec.request = th[t].request, rec.request # None => AtTail(rec),
           rec.events = th[t].events, rec.events # <<>> => rec.pc = "deliver",
           th[t].pc \notin {"begin", "start", "resume", "post", "ready"},
           rec.pc \notin {"begin", "start", "resume", "post", "ready", "drain", "sweep"},
           ~Closing(rec), t \in Workers /\ rec.pc # "idle" => th[t].pc # "idle"
    PROVE  Live' /\ Calm /\ SameCourse
<1>1. Calm /\ SameCourse
  BY Zenon, CalmStep DEF SameContents
<1>2. BoxesLive' /\ FlagInv'
  BY SameBoxes DEF SameFlags
<1>3. sched.cancelling => sched'.cancelling
  BY DEF SameFlags
<1> QED
  BY Zenon, <1>1, <1>2, <1>3, QuietLive

\* A step that leaves inv alone leaves the history and the tasks alone.
LEMMA InvUnchanged ==
    ASSUME inv' = inv
    PROVE  SameHistory /\ \A i \in Invocations : SameFields(i)
BY DEF SameHistory, SameFields, TaskEq

\* cancel of a running invocation only raises its flag.
LEMMA CancelRunningLive ==
    ASSUME IInv, Live, NEW c \in Callers, th[c].pc = "idle", NEW b \in Invocations,
           box[b].active # None,
           inv' = [inv EXCEPT ![box[b].active].cancelAfterResume = TRUE],
           th' = [th EXCEPT ![c] = Deliver([th[c] EXCEPT !.touched = b], <<>>, "publish")],
           UNCHANGED <<box, sched, mailboxes, items, unswept, result, calls>>
    PROVE  Live' /\ Calm /\ SameCourse
<1> DEFINE i == box[b].active
           x == [inv[i] EXCEPT !.cancelAfterResume = TRUE]
           y == [th[c] EXCEPT !.touched = b]
           rec == Deliver(y, <<>>, "publish")
<1>1. c \in Threads /\ c \notin Workers /\ th[c] \in ThreadType /\ i \in Invocations
      /\ inv[i] \in InvocationType /\ inv \in [Invocations -> InvocationType]
  <2>1. c \in Threads
    BY DEF Threads
  <2> QED
    BY Zenon, <2>1, ThreadFacts DEF IInv, TypeOK, MailboxType
<1>2. y \in ThreadType /\ y.request = th[c].request
  BY Zenon, <1>1 DEF ThreadType
<1>3. th[c].request = None /\ th[c].events = <<>>
  BY <1>1, NoRequest, NoEvents
<1> HIDE DEF y
<1>4. /\ rec \in ThreadType /\ rec.request = None /\ rec.events = <<>>
      /\ rec.pc = "publish"
  <2> DEFINE evs == <<>>
             d == Deliver(y, evs, "publish")
  <2>1. "publish" \in PcSet /\ evs \in Seq(EventType)
    BY DEF PcSet, CallerPcs
  <2> HIDE DEF evs
  <2>2. d \in ThreadType /\ d.request = y.request
    BY <1>2, <2>1, DeliverFacts
  <2>3. d.events = evs /\ (evs = <<>> => d.pc = "publish")
    BY <1>2, DeliverTail
  <2> HIDE DEF d
  <2> QED
    BY <1>2, <1>3, <2>1, <2>2, <2>3 DEF d, evs
<1>5. th' = [th EXCEPT ![c] = rec]
  BY DEF y
<1>6. /\ x \in InvocationType /\ x.home = inv[i].home /\ x.gen = inv[i].gen
      /\ x.ticket = inv[i].ticket /\ x.settledAt = inv[i].settledAt
      /\ x.submitted = inv[i].submitted /\ TaskEq(x, inv[i])
  BY Zenon, <1>1 DEF InvocationType, TaskEq
<1>7. inv' = [inv EXCEPT ![i] = x]
  BY <1>1
<1> HIDE DEF rec, x
<1>8. SameHistory /\ \A j \in Invocations : j # i => inv'[j] = inv[j]
  BY Zenon, <1>1, <1>6, <1>7, TaskUpdate
<1>9. \A j \in Invocations : SameFields(j)
  <2>1. inv'[i] = x
    BY <1>1, <1>7
  <2> QED
    BY <1>6, <1>8, <2>1 DEF SameFields, TaskEq
<1>10. SameCounters /\ SameFlags
  BY SchedSame
<1>11. ~Closing(rec)
  BY <1>4 DEF Closing
<1> QED
  BY Zenon, <1>1, <1>3, <1>4, <1>5, <1>8, <1>9, <1>10, <1>11, QuietCalm

\* A round of the idle handoff that does not take over the mailbox.
LEMMA IdleHandoffLive ==
    ASSUME IInv, Live, NEW w \in Workers, NEW rec \in ThreadType,
           th[w].pc = "claim", rec.pc \in {"claim", "dispatch"},
           rec.request = th[w].request, rec.events = th[w].events,
           th' = [th EXCEPT ![w] = rec],
           UNCHANGED <<sched, mailboxes, box, inv, items, unswept, result, calls>>
    PROVE  Live' /\ Calm /\ SameCourse
<1>1. w \in Threads
  BY DEF Threads
<1>2. th[w].request = None /\ th[w].events = <<>>
  BY <1>1, NoRequest, NoEvents
<1>3. SameCounters /\ SameFlags /\ SameHistory /\ \A i \in Invocations : SameFields(i)
  BY SchedSame, InvUnchanged
<1>4. ~Closing(rec)
  BY DEF Closing
<1> QED
  BY Zenon, <1>1, <1>2, <1>3, <1>4, QuietCalm

\* shutdown on a stopped scheduler.
LEMMA ShutdownReturnsLive ==
    ASSUME IInv, Live, NEW c \in Callers, ShutdownReturns(c)
    PROVE  Live' /\ Calm /\ SameCourse
<1>1. c \in Threads /\ c \notin Workers
  BY DEF Threads
<1>2. th[c].request = None /\ th[c].events = <<>>
  BY <1>1, NoRequest, NoEvents DEF ShutdownReturns
<1>3. SameCounters /\ SameFlags /\ SameHistory /\ \A i \in Invocations : SameFields(i)
  BY SchedSame, InvUnchanged DEF ShutdownReturns
<1> QED
  BY Zenon, <1>1, <1>2, <1>3, IdleFacts, QuietCalm DEF ShutdownReturns

\* The end of a call, with the reclamation of its mailbox.
LEMMA ReclaimIdleMailboxLive ==
    ASSUME IInv, Live, NEW t \in Threads, ReclaimIdleMailbox(t)
    PROVE  Live' /\ Calm /\ SameCourse
<1>1. /\ th[t].pc \in {"publish", "dispatch"} /\ th[t].request = None
      /\ th' = [th EXCEPT ![t] = IdleThread]
      /\ UNCHANGED <<box, inv, items, unswept, result, calls>>
      /\ \/ sched' = sched
         \/ \E x : sched' = [sched EXCEPT !.retired = x]
  BY Zenon DEF ReclaimIdleMailbox, AtPublish
<1>2. th[t].events = <<>>
  BY <1>1, NoEvents
<1>3. SameCounters /\ SameFlags /\ SameHistory /\ \A i \in Invocations : SameFields(i)
  BY <1>1, SchedSame, InvUnchanged
<1> QED
  BY Zenon, <1>1, <1>2, <1>3, IdleFacts, QuietCalm

\* A rejected invocation is answered by its caller.
LEMMA EnqueueRejectedLive ==
    ASSUME IInv, Live, NEW c \in Callers, NEW i \in Invocations, NEW r \in Results,
           th[c].pc = "idle", EnqueueRejected(c, i, r)
    PROVE  /\ Live'
           /\ \E rec \in ThreadType :
                /\ rec.pc = "deliver" /\ rec.next = "publish" /\ rec.request = None
                /\ rec.events = <<Event(i, r)>> /\ th' = [th EXCEPT ![c] = rec]
           /\ th[c].events = <<>> /\ th[c].request = None
           /\ SameCounters /\ SameFlags
           /\ inv'[i].submitted
           /\ \A j \in Invocations : /\ inv'[j] = inv[j] \/ j = i
                                     /\ inv'[j].home = inv[j].home /\ inv'[j].gen = inv[j].gen
                                     /\ inv'[j].ticket = inv[j].ticket
                                     /\ inv'[j].settledAt = inv[j].settledAt
           /\ UNCHANGED <<mailboxes, box, items, unswept, result, calls>>
<1> DEFINE evs == <<Event(i, r)>>
           rec == Deliver(th[c], evs, "publish")
           x == [inv[i] EXCEPT !.submitted = TRUE]
<1>1. c \in Threads /\ c \notin Workers /\ th[c] \in ThreadType
      /\ inv[i] \in InvocationType /\ inv \in [Invocations -> InvocationType]
      /\ th \in [Threads -> ThreadType]
  <2>1. c \in Threads
    BY DEF Threads
  <2> QED
    BY <2>1, ThreadFacts DEF IInv, TypeOK
<1>2. evs \in Seq(EventType) /\ evs # <<>> /\ "publish" \in PcSet
  BY DEF Event, EventType, PcSet, CallerPcs
<1>3. /\ th' = [th EXCEPT ![c] = rec]
      /\ inv' = [inv EXCEPT ![i] = x]
      /\ \E n : sched' = [sched EXCEPT !.rejected = n]
      /\ UNCHANGED <<mailboxes, box, items, unswept, result, calls>>
  BY Zenon, <1>1 DEF EnqueueRejected
<1>4. th[c].request = None /\ th[c].events = <<>>
  BY <1>1, NoRequest, NoEvents
<1> HIDE DEF evs
<1>5. /\ rec \in ThreadType /\ rec.request = None /\ rec.events = evs
      /\ rec.pc = "deliver" /\ rec.next = "publish"
  BY <1>1, <1>2, <1>4, DeliverFacts, DeliverTail
<1>6. /\ x \in InvocationType /\ x.home = inv[i].home /\ x.gen = inv[i].gen
      /\ x.ticket = inv[i].ticket /\ x.settledAt = inv[i].settledAt
      /\ x.submitted /\ TaskEq(x, inv[i])
  BY Zenon, <1>1 DEF InvocationType, TaskEq
<1> HIDE DEF rec, x
<1>7. inv'[i] = x /\ \A j \in Invocations : j # i => inv'[j] = inv[j]
  BY <1>1, <1>3
<1>8. \A j \in Invocations : SameFields(j)
  BY <1>6, <1>7 DEF SameFields, TaskEq
<1>9. SameCounters /\ SameFlags
  BY Zenon, <1>3, SchedSame
<1>10. BoxesLive' /\ FlagInv'
  BY <1>3, <1>9, SameBoxes DEF SameFlags
<1>11. Live'
  BY Zenon, <1>1, <1>3, <1>4, <1>5, <1>8, <1>9, <1>10, QuietLive DEF SameFlags
<1> QED
  BY Zenon, <1>3, <1>4, <1>5, <1>6, <1>7, <1>9, <1>11 DEF evs

\* One completion handler runs.
LEMMA InvokeCompletionLive ==
    ASSUME IInv, Live, NEW t \in Threads, InvokeCompletion(t)
    PROVE  LET e == Head(th[t].events) IN
           /\ Live'
           /\ th[t].pc = "deliver" /\ th[t].events # <<>>
           /\ e.inv \in Invocations
           /\ \E rec \in ThreadType :
                /\ rec.events = Tail(th[t].events) /\ rec.request = th[t].request
                /\ \/ rec.pc = "deliver" /\ rec.next = th[t].next
                   \/ rec.pc = th[t].next /\ rec.next = "idle"
                /\ th' = [th EXCEPT ![t] = rec]
           /\ calls' = [calls EXCEPT ![e.inv] = @ + 1]
           /\ inv'[e.inv].settledAt = 0
           /\ \A j \in Invocations : /\ inv'[j] = inv[j] \/ j = e.inv
                                     /\ inv'[j].home = inv[j].home /\ inv'[j].gen = inv[j].gen
                                     /\ inv'[j].ticket = inv[j].ticket
                                     /\ inv'[j].submitted = inv[j].submitted
           /\ UNCHANGED <<sched, mailboxes, box, items, unswept>>
<1> DEFINE r == th[t]
           e == Head(r.events)
           i == e.inv
           tl == Tail(r.events)
           rec == Deliver(r, tl, r.next)
           x == [inv[i] EXCEPT !.settledAt = 0]
<1>1. r \in ThreadType /\ RecOK(r, inv) /\ r.pc = "deliver"
      /\ inv \in [Invocations -> InvocationType] /\ th \in [Threads -> ThreadType]
  BY ThreadFacts DEF InvokeCompletion, IInv, TypeOK
<1>2. /\ r.events \in Seq(EventType) /\ r.events # <<>> /\ r.next \in PcSet
      /\ r.next \in {"idle", "publish", "dispatch", "claim", "stopExecutor"}
  BY <1>1 DEF ThreadType, RecOK
<1>3. tl \in Seq(EventType) /\ i \in Invocations
  <2>1. e \in EventType
    BY <1>2
  <2> QED
    BY <1>2, <2>1 DEF EventType
<1>4. /\ th' = [th EXCEPT ![t] = rec]
      /\ inv' = [inv EXCEPT ![i] = x]
      /\ calls' = [calls EXCEPT ![i] = @ + 1]
      /\ UNCHANGED <<sched, mailboxes, box, items, unswept>>
  BY <1>1, <1>3 DEF InvokeCompletion
<1>5. inv[i] \in InvocationType
  BY <1>1, <1>3
<1>6. /\ x.home = inv[i].home /\ x.gen = inv[i].gen
      /\ x.ticket = inv[i].ticket /\ x.settledAt = 0
      /\ x.submitted = inv[i].submitted /\ TaskEq(x, inv[i])
  BY <1>5 DEF InvocationType, TaskEq
<1> HIDE DEF e, i, x, tl
<1>7. /\ rec \in ThreadType /\ rec.request = r.request /\ rec.events = tl
      /\ \/ rec.pc = "deliver" /\ rec.next = r.next
         \/ rec.pc = r.next /\ rec.next = "idle" /\ tl = <<>>
  <2> DEFINE nx == r.next
  <2>1. nx \in PcSet
    BY <1>2
  <2> HIDE DEF r, nx
  <2>2. LET d == Deliver(r, tl, nx)
        IN  /\ d \in ThreadType /\ d.request = r.request /\ d.events = tl
            /\ \/ d.pc = "deliver" /\ d.next = nx
               \/ d.pc = nx /\ d.next = "idle" /\ tl = <<>>
    BY <1>1, <1>3, <2>1, DeliverFacts, DeliverTail
  <2> QED
    BY <2>2 DEF nx
<1> HIDE DEF rec
<1>8. inv'[i] = x /\ \A j \in Invocations : j # i => inv'[j] = inv[j]
  BY <1>1, <1>3, <1>4
<1>9. \A j \in Invocations : SameFields(j)
  BY <1>6, <1>8 DEF SameFields, TaskEq
<1>10. BoxesLive' /\ FlagInv'
  BY <1>4, SameBoxes
<1>11. rec.request # None => AtTail(rec)
  BY <1>1, <1>7 DEF Live, TailInv, AtTail
<1>12. Live'
  BY Zenon, <1>1, <1>2, <1>4, <1>7, <1>9, <1>10, <1>11, QuietLive
<1> QED
  BY Zenon, <1>1, <1>2, <1>3, <1>4, <1>6, <1>7, <1>8, <1>12 DEF e, i, tl

\* What a step of the shutdown that only moves its caller does.
LEMMA CourseLive ==
    ASSUME IInv, Live, NEW c \in Callers, NEW rec \in ThreadType,
           th' = [th EXCEPT ![c] = rec], rec.request = None, rec.events = th[c].events,
           rec.events # <<>> => rec.pc \in {"deliver", "sweep"},
           th[c].request = None,
           th[c].pc \notin {"begin", "start", "resume", "post", "ready"},
           rec.pc \notin {"begin", "start", "resume", "post", "ready"},
           FlagInv', BoxesLive', SameCounters,
           UNCHANGED <<mailboxes, box, inv, items, result, calls>>
    PROVE  Live' /\ Calm
<1>1. c \in Threads
  BY DEF Threads
<1>2. SameHistory /\ \A i \in Invocations : SameFields(i)
  BY InvUnchanged
<1>3. \A u \in Threads : th'[u] = IF u = c THEN rec ELSE th[u]
  BY DEF IInv, TypeOK
<1>4. Calm
  BY <1>1, <1>2, <1>3 DEF Calm, SameContents
<1>5. Live'
  BY Zenon, <1>1, <1>2, QuietLive DEF SameCounters
<1> QED
  BY <1>4, <1>5

\* The first shutdown call raises the flags; a cancelling one has every mailbox
\* to visit.
LEMMA ShutdownLive ==
    ASSUME IInv, Live, ShutInv, NEW c \in Callers, NEW mode \in ShutdownModes,
           Shutdown(c, mode)
    PROVE  Live' /\ Calm /\ ShutInv'
<1> DEFINE drain == mode = "Drain"
<1>1. /\ c \in Threads /\ c \notin Workers /\ th[c].pc = "idle" /\ ~sched.stopped
      /\ UNCHANGED <<mailboxes, box, inv, items, result, calls>>
      /\ sched \in SchedType /\ th \in [Threads -> ThreadType]
  BY DEF Shutdown, Threads, IInv, TypeOK
<1>2. th[c].request = None /\ th[c].events = <<>>
  BY <1>1, NoRequest, NoEvents
<1>3. CASE sched.stopping
  <2> DEFINE rec == [th[c] EXCEPT !.pc = "waitStopped"]
  <2>1. th' = [th EXCEPT ![c] = rec] /\ UNCHANGED <<sched, unswept>>
    BY <1>1, <1>3 DEF Shutdown
  <2>2. /\ rec \in ThreadType /\ rec.pc = "waitStopped" /\ rec.events = th[c].events
        /\ rec.request = th[c].request /\ ~Closing(rec)
    <3>1. /\ rec \in ThreadType /\ rec.pc = "waitStopped" /\ rec.events = th[c].events
          /\ rec.request = th[c].request
      <4>1. "waitStopped" \in PcSet
        BY DEF PcSet, CallerPcs
      <4> QED
        BY Zenon, <1>1, <4>1, ThreadFacts DEF ThreadType
    <3> HIDE DEF rec
    <3>2. ~Closing(rec)
      BY <3>1 DEF Closing
    <3> QED
      BY Zenon, <3>1, <3>2
  <2> HIDE DEF rec
  <2>3. SameCounters /\ SameFlags /\ BoxesLive' /\ FlagInv'
    BY <1>1, <2>1, SchedSame, SameBoxes
  <2>4. Live' /\ Calm
    BY Zenon, <1>1, <1>2, <2>1, <2>2, <2>3, CourseLive
  <2>5. \A u \in Threads : th'[u] = IF u = c THEN rec ELSE th[u]
    BY <1>1, <2>1
  <2>6. ShutInv'
    BY <1>1, <2>1, <2>2, <2>5 DEF ShutInv
  <2> QED
    BY <2>4, <2>6
<1>4. CASE ~sched.stopping
  <2> DEFINE pc == IF drain THEN "drain" ELSE "sweep"
             rec == [IdleThread EXCEPT !.pc = pc]
             cn == ~drain
  <2>1. /\ th' = [th EXCEPT ![c] = rec]
        /\ unswept' = IF drain THEN {} ELSE {k \in Keys : mailboxes[k] # None}
    BY <1>4 DEF Shutdown
  <2>2. /\ sched'.stopping /\ ~sched'.accepting /\ (sched'.cancelling <=> ~drain)
        /\ sched'.stopped = sched.stopped /\ SameCounters
        /\ sched'.executorShutdown = sched.executorShutdown /\ ~sched.cancelling
    <3>1. sched' = [sched EXCEPT !.stopping = TRUE, !.accepting = FALSE, !.cancelling = cn]
      BY <1>4 DEF Shutdown
    <3>2. cn \in BOOLEAN /\ ~sched.cancelling
      BY <1>4 DEF Live, FlagInv
    <3>3. cn <=> ~drain
      OBVIOUS
    <3> HIDE DEF cn
    <3> QED
      BY <1>1, <3>1, <3>2, <3>3 DEF SchedType, SameCounters
  <2>3. /\ pc \in {"drain", "sweep"} /\ (drain => pc = "drain") /\ (~drain => pc = "sweep")
    OBVIOUS
  <2> HIDE DEF pc, drain
  <2>4. /\ rec \in ThreadType /\ rec.pc = pc /\ rec.events = <<>> /\ rec.request = None
        /\ ~Closing(rec)
    BY Zenon, <2>3, IdleFacts DEF ThreadType, PcSet, CallerPcs, Closing
  <2> HIDE DEF rec
  <2>5. FlagInv'
    BY <2>2 DEF FlagInv
  <2>6. unswept = {}
    BY <2>2 DEF ShutInv
  <2>7. BoxesLive'
    <3> SUFFICES ASSUME NEW b \in Invocations
                 PROVE  BoxLive(b)'
      BY DEF BoxesLive
    <3>1. BoxLive(b) /\ KeyOf[b] \in Keys
      BY DEF Live, BoxesLive
    <3>2. CASE drain
      BY <1>1, <2>2, <2>6, <3>1, <3>2 DEF BoxLive
    <3>3. CASE ~drain
      <4>1. mailboxes[KeyOf[b]] = b => KeyOf[b] \in unswept'
        BY <2>1, <3>1, <3>3
      <4>2. mailboxes[KeyOf[b]] # b => box[b].active = None /\ box[b].pending = <<>>
        BY DEF IInv, Structure, MapInv
      <4> QED
        BY <1>1, <2>2, <2>6, <3>1, <4>1, <4>2 DEF BoxLive
    <3> QED
      BY <3>2, <3>3
  <2>8. Live' /\ Calm
    <3>1. rec.pc \notin {"begin", "start", "resume", "post", "ready"}
      BY <2>3, <2>4
    <3> QED
      BY Zenon, <1>1, <1>2, <2>1, <2>2, <2>4, <2>5, <2>7, <3>1, CourseLive
  <2>9. \A u \in Threads : th'[u] = IF u = c THEN rec ELSE th[u]
    BY <1>1, <2>1
  <2>10. ShutInv'
    <3>1. \A u \in Threads : th[u].pc \notin {"drain", "sweep"} /\ ~Closing(th[u])
      BY <1>4, <2>2 DEF ShutInv
    <3>2. ~sched.executorShutdown /\ ~sched.stopped
      BY <1>4 DEF ShutInv
    <3>3. \A u \in Threads : ~Closing(th'[u])
      BY <2>4, <2>9, <3>1
    <3>4. \A u \in Threads : /\ th'[u].pc = "drain" => drain
                             /\ th'[u].pc = "sweep" => ~drain
      BY <2>3, <2>4, <2>9, <3>1
    <3>5. unswept' # {} => ~drain
      BY <2>1
    <3> QED
      BY <2>2, <3>2, <3>3, <3>4, <3>5 DEF ShutInv
  <2> QED
    BY <2>8, <2>10
<1> QED
  BY <1>3, <1>4

\* What a cancelling shutdown has left when no worker runs: nothing.
LEMMA QuietIsEmpty ==
    ASSUME IInv, Live, unswept = {}, sched.cancelling, \A w \in Workers : th[w].pc = "idle"
    PROVE  HeldSet(box) = {}
<1> SUFFICES ASSUME NEW b \in Invocations, NEW i \in Content(box[b])
             PROVE  FALSE
  BY Zenon DEF HeldSet
<1>1. BoxLive(b) /\ box[b] \in MailboxType
  BY DEF Live, BoxesLive, IInv, TypeOK
<1>2. box[b].pending = <<>> /\ (box[b].active # None => box[b].status = "Running")
  BY <1>1 DEF BoxLive
<1>3. i = box[b].active /\ i # None /\ i \in Invocations
  BY <1>1, <1>2 DEF Content, MailboxType
<1>4. TaskOK(i, "Running")
  BY <1>2, <1>3 DEF Live, TasksLive, Statuses
<1>5. PICK w \in Threads : Runs(w, i)
  BY <1>4 DEF TaskOK, WakeOK
<1> QED
  BY <1>5 DEF Runs, Executing

\* The last steps of shutdown: drained or swept, executor stopped, joined.
LEMMA ShutdownTailLive ==
    ASSUME IInv, Live, ShutInv, CountInv, NEW c \in Callers,
           DrainDone(c) \/ SweepDone(c) \/ StopExecutor(c) \/ Joined(c)
    PROVE  Live' /\ Calm /\ ShutInv'
<1>1. /\ c \in Threads /\ c \notin Workers /\ sched \in SchedType /\ th[c] \in ThreadType
      /\ th \in [Threads -> ThreadType] /\ IdleThread \in ThreadType
  <2>1. c \in Threads
    BY DEF Threads
  <2> QED
    BY <2>1, ThreadFacts DEF IInv, TypeOK
<1>2. ASSUME NEW rec, th' = [th EXCEPT ![c] = rec]
      PROVE  \A u \in Threads : th'[u] = IF u = c THEN rec ELSE th[u]
  BY <1>1, <1>2
<1>3. CASE DrainDone(c)
  <2> DEFINE rec == [th[c] EXCEPT !.pc = "stopExecutor"]
  <2>1. /\ th' = [th EXCEPT ![c] = rec] /\ th[c].pc = "drain" /\ sched.pendingTasks = 0
        /\ UNCHANGED <<sched, mailboxes, box, inv, items, unswept, result, calls>>
    BY <1>1, <1>3 DEF DrainDone
  <2>2. th[c].request = None /\ th[c].events = <<>>
    BY <1>1, <2>1, NoRequest, NoEvents
  <2>3. /\ rec \in ThreadType /\ rec.pc = "stopExecutor" /\ rec.events = th[c].events
        /\ rec.request = th[c].request
    BY Zenon, <1>1 DEF ThreadType, PcSet, CallerPcs
  <2> HIDE DEF rec
  <2>4. SameCounters /\ SameFlags /\ BoxesLive' /\ FlagInv'
    BY <2>1, SchedSame, SameBoxes
  <2>5. Live' /\ Calm
    BY Zenon, <1>1, <2>1, <2>2, <2>3, <2>4, CourseLive
  <2>6. HeldSet(box) = {}
    BY Zenon, <2>1, FS_EmptySet DEF CountInv, Counts
  <2>7. \A u \in Threads : th'[u] = IF u = c THEN rec ELSE th[u]
    BY Zenon, <1>2, <2>1
  <2>8. sched.stopping /\ unswept = {}
    BY <1>1, <2>1 DEF ShutInv
  <2>9. ShutInv'
    BY <1>1, <2>1, <2>3, <2>6, <2>7, <2>8 DEF ShutInv
  <2> QED
    BY <2>5, <2>9
<1>4. CASE SweepDone(c)
  <2> DEFINE evs == th[c].events
             rec == Deliver(th[c], evs, "stopExecutor")
  <2>1. /\ th' = [th EXCEPT ![c] = rec] /\ th[c].pc = "sweep" /\ unswept = {}
        /\ UNCHANGED <<sched, mailboxes, box, inv, items, unswept, result, calls>>
    BY <1>1, <1>4 DEF SweepDone
  <2>2. th[c].request = None
    BY <1>1, <2>1, NoRequest
  <2>3. evs \in Seq(EventType) /\ "stopExecutor" \in PcSet
    BY <1>1 DEF ThreadType, PcSet, CallerPcs
  <2> HIDE DEF evs
  <2>4. /\ rec \in ThreadType /\ rec.request = th[c].request /\ rec.events = evs
        /\ evs # <<>> => rec.pc = "deliver"
        /\ rec.pc \in {"deliver", "stopExecutor"}
    BY <1>1, <2>3, DeliverFacts, DeliverTail
  <2> HIDE DEF rec
  <2>5. SameCounters /\ SameFlags /\ BoxesLive' /\ FlagInv'
    BY <2>1, SchedSame, SameBoxes
  <2>6. Live' /\ Calm
    BY Zenon, <1>1, <2>1, <2>2, <2>4, <2>5, CourseLive DEF evs
  <2>7. sched.cancelling /\ sched.stopping
    BY <1>1, <2>1 DEF ShutInv, Live, FlagInv
  <2>8. \A u \in Threads : th'[u] = IF u = c THEN rec ELSE th[u]
    BY Zenon, <1>2, <2>1
  <2>9. ShutInv'
    BY <1>1, <2>1, <2>4, <2>7, <2>8 DEF ShutInv
  <2> QED
    BY <2>6, <2>9
<1>5. CASE StopExecutor(c)
  <2> DEFINE rec == [th[c] EXCEPT !.pc = "join"]
  <2>1. /\ th' = [th EXCEPT ![c] = rec] /\ th[c].pc = "stopExecutor"
        /\ UNCHANGED <<mailboxes, box, inv, items, unswept, result, calls>>
        /\ sched' = [sched EXCEPT !.executorShutdown = TRUE]
    BY <1>1, <1>5 DEF StopExecutor
  <2>2. th[c].request = None /\ th[c].events = <<>>
    BY <1>1, <2>1, NoRequest, NoEvents
  <2>3. /\ rec \in ThreadType /\ rec.pc = "join" /\ rec.events = th[c].events
        /\ rec.request = th[c].request
    BY Zenon, <1>1 DEF ThreadType, PcSet, CallerPcs
  <2> HIDE DEF rec
  <2>4. /\ SameCounters /\ sched'.cancelling = sched.cancelling
        /\ sched'.stopping = sched.stopping /\ sched'.accepting = sched.accepting
        /\ sched'.stopped = sched.stopped
    BY <1>1, <2>1 DEF SchedType, SameCounters
  <2>5. BoxesLive' /\ FlagInv'
    BY <2>1, <2>4, SameBoxes
  <2>6. Live' /\ Calm
    BY Zenon, <1>1, <2>1, <2>2, <2>3, <2>4, <2>5, CourseLive
  <2>7. Closing(th[c])
    BY <2>1 DEF Closing
  <2>8. \A u \in Threads : th'[u] = IF u = c THEN rec ELSE th[u]
    BY Zenon, <1>2, <2>1
  <2>9. ShutInv'
    BY <1>1, <2>1, <2>3, <2>4, <2>7, <2>8 DEF ShutInv
  <2> QED
    BY <2>6, <2>9
<1>6. CASE Joined(c)
  <2>1. /\ th' = [th EXCEPT ![c] = IdleThread] /\ th[c].pc = "join" /\ WorkersExited
        /\ UNCHANGED <<mailboxes, box, inv, items, unswept, result, calls>>
        /\ sched' = [sched EXCEPT !.stopped = TRUE]
    BY <1>6 DEF Joined
  <2>2. th[c].request = None /\ th[c].events = <<>>
    BY <1>1, <2>1, NoRequest, NoEvents
  <2>3. /\ SameCounters /\ sched'.cancelling = sched.cancelling
        /\ sched'.stopping = sched.stopping /\ sched'.accepting = sched.accepting
        /\ sched'.executorShutdown = sched.executorShutdown
    BY <1>1, <2>1 DEF SchedType, SameCounters
  <2>4. BoxesLive' /\ FlagInv'
    BY <2>1, <2>3, SameBoxes
  <2>5. Live' /\ Calm
    BY Zenon, <1>1, <2>1, <2>2, <2>3, <2>4, IdleFacts, CourseLive
  <2>6. Closing(th[c])
    BY <2>1 DEF Closing
  <2>7. sched.stopping /\ unswept = {} /\ (sched.cancelling \/ HeldSet(box) = {})
    BY <1>1, <2>6 DEF ShutInv
  <2>8. HeldSet(box) = {} /\ \A w \in Workers : th[w].pc = "idle"
    BY <2>1, <2>7, QuietIsEmpty DEF WorkersExited
  <2>9. \A u \in Threads : th'[u] = IF u = c THEN IdleThread ELSE th[u]
    BY Zenon, <1>2, <2>1
  <2>10. \A w \in Workers : th'[w].pc = "idle"
    BY <2>8, <2>9 DEF Threads, IdleThread
  <2>11. ShutInv'
    BY <1>1, <2>1, <2>3, <2>7, <2>8, <2>9, <2>10, IdleFacts DEF ShutInv
  <2> QED
    BY <2>5, <2>11
<1> QED
  BY <1>3, <1>4, <1>5, <1>6

\* A step that does not concern the shutdown.
LEMMA SameCourseShut ==
    ASSUME IInv, ShutInv, SameCourse, HeldSet(box') \subseteq HeldSet(box)
    PROVE  ShutInv'
<1>1. HeldSet(box)' = HeldSet(box')
  BY DEF HeldSet
<1>2. Workers \subseteq Threads
  BY DEF Threads
<1> QED
  BY <1>1, <1>2 DEF ShutInv, SameCourse, SameFlags

\* Thread record r concerns no task but that of i.
OnlyFor(r, i) ==
    /\ r.request \in {None, i}
    /\ r.pc \in {"begin", "start", "resume", "post", "ready"} => r.cur = i

\* A step of one thread that moves the continuation, the report or the task of i.
LEMMA TokenLive ==
    ASSUME IInv, Live, NEW t \in Threads, NEW rec \in ThreadType,
           th' = [th EXCEPT ![t] = rec], NEW i \in Invocations,
           rec.events = <<>>, th[t].events = <<>>, rec.request # None => AtTail(rec),
           OnlyFor(th[t], i), OnlyFor(rec, i),
           \A j \in Invocations : j # i => items'[j] = items[j] /\ SameFields(j),
           SameContents, \A c \in Invocations : box[c].active # i => box'[c] = box[c],
           \A c \in Invocations : box[c].active = i =>
               BoxLive(c)' /\ \A s \in Statuses : box'[c].status = s => TaskOK(i, s)',
           inv'[i].readyEpoch <= inv'[i].epoch, inv'[i].completedEpoch <= inv'[i].epoch,
           SameHistory, SameCounters, SameFlags, calls' = calls,
           ~Closing(rec), rec.pc \notin {"drain", "sweep"},
           t \in Workers /\ rec.pc # "idle" => th[t].pc # "idle" \/ ~sched.stopped
    PROVE  Live' /\ Calm /\ SameCourse
<1>1. Calm /\ SameCourse
  BY Zenon, CalmStep
<1>2. th \in [Threads -> ThreadType] /\ th'[t] = rec
  BY DEF IInv, TypeOK
<1>3. FlagInv'
  BY DEF Live, FlagInv, SameFlags
<1>4. BoxesLive'
  <2> SUFFICES ASSUME NEW c \in Invocations, box[c].active # i
               PROVE  BoxLive(c)'
    BY DEF BoxesLive
  <2>1. box'[c] = box[c] /\ BoxLive(c)
    BY DEF Live, BoxesLive
  <2> QED
    BY <2>1 DEF BoxLive, SameFlags
<1>5. TailInv'
  BY <1>2 DEF Live, TailInv
<1>6. EpochInv'
  BY DEF Live, EpochInv, SameFields, TaskEq
<1>7. TasksLive'
  <2> SUFFICES ASSUME NEW c \in Invocations, NEW j \in Invocations, NEW s \in Statuses,
                      box'[c].active = j, box'[c].status = s
               PROVE  TaskOK(j, s)'
    BY DEF TasksLive
  <2>1. box[c].active = j
    BY DEF SameContents
  <2>2. CASE j = i
    BY <2>1, <2>2
  <2>3. CASE j # i
    <3>1. box[c].status = s
      BY <2>1, <2>3
    <3>2. TaskOK(j, s)
      BY <2>1, <3>1 DEF Live, TasksLive
    <3>3. Apart(t, j) /\ Apart(t, j)'
      <4>1. j # None
        OBVIOUS
      <4> QED
        BY <1>2, <2>3, <4>1 DEF Apart, Carries, Reports, Runs, Executing, OnlyFor
    <3>4. SameTask(j)
      BY Zenon, <1>2, <2>3, <3>3, Bystander
    <3> QED
      BY <3>2, <3>4, FrameTask DEF SameFlags
  <2> QED
    BY <2>2, <2>3
<1> QED
  BY <1>1, <1>3, <1>4, <1>5, <1>6, <1>7 DEF Live

\* The box of an active invocation, and what holds of it.
LEMMA ActiveFacts ==
    ASSUME IInv, Live, NEW c \in Invocations, NEW i \in Invocations, box[c].active = i
    PROVE  /\ inv[i].home = c /\ IsCurrent(i) /\ BoxLive(c)
           /\ box[c].status \in {"Runnable", "Running", "Suspended"}
           /\ ~box[c].claimed
           /\ TaskOK(i, box[c].status)
<1>1. i # None /\ box[c].status \in Statuses
  BY Zenon DEF IInv, TypeOK, MailboxType
<1>2. inv[i].home = c
  BY <1>1 DEF IInv, Structure, HomeInv
<1>3. IsCurrent(i)
  BY <1>1, <1>2 DEF IsCurrent
<1>4. TaskOK(i, box[c].status)
  BY <1>1 DEF Live, TasksLive
<1> QED
  BY <1>1, <1>2, <1>3, <1>4 DEF Live, BoxesLive, BoxLive

\* A mailbox that stays as it is.
LEMMA SameBoxLive ==
    ASSUME NEW c \in Invocations, BoxLive(c), box'[c] = box[c], SameFlags
    PROVE  BoxLive(c)'
BY DEF BoxLive, SameFlags

\* run_mailbox hands its request to itself.
LEMMA LocalHandoffLive ==
    ASSUME IInv, Live, NEW w \in Workers, LocalHandoff(w)
    PROVE  Live' /\ Calm /\ SameCourse
<1> DEFINE i == th[w].request
           n == th[w].handoffs + 1
           rec == [IdleThread EXCEPT !.pc = "begin", !.cur = i, !.handoffs = n]
<1>1. /\ w \in Threads /\ th[w].pc = "dispatch" /\ i \in Invocations
      /\ th' = [th EXCEPT ![w] = rec] /\ th[w] \in ThreadType
      /\ th \in [Threads -> ThreadType]
      /\ UNCHANGED <<sched, mailboxes, box, inv, items, unswept, result, calls>>
  <2>1. w \in Threads
    BY DEF Threads
  <2> QED
    BY <2>1, ThreadFacts DEF LocalHandoff, CanHandOff, IInv, TypeOK
<1>2. n \in Nat
  BY <1>1 DEF ThreadType
<1> HIDE DEF n
<1>3. PICK j \in Invocations : j = i
  BY <1>1
<1>4. /\ rec \in ThreadType /\ rec.pc = "begin" /\ rec.cur = j /\ rec.request = None
      /\ rec.events = <<>> /\ ~Closing(rec)
  BY Zenon, <1>2, <1>3, IdleFacts DEF ThreadType, PcSet, WorkerPcs, Closing
<1> HIDE DEF rec
<1>5. th[w].events = <<>>
  BY <1>1, NoEvents
<1>6. SameCounters /\ SameFlags /\ SameHistory /\ \A k \in Invocations : SameFields(k)
  BY <1>1, SchedSame, InvUnchanged
<1>7. OnlyFor(th[w], j) /\ OnlyFor(rec, j)
  BY <1>1, <1>3, <1>4 DEF OnlyFor
<1>8. ASSUME NEW c \in Invocations, box[c].active = j
      PROVE  BoxLive(c)' /\ \A s \in Statuses : box'[c].status = s => TaskOK(j, s)'
  <2>1. BoxLive(c) /\ TaskOK(j, box[c].status)
    BY <1>8, ActiveFacts
  <2>2. SameTask(j)
    <3>1. /\ Carries(w, j) /\ Carries(w, j)' /\ ~Reports(w, j) /\ ~Reports(w, j)'
          /\ ~Runs(w, j) /\ ~Runs(w, j)'
      BY <1>1, <1>3, <1>4 DEF Carries, Reports, Runs, Executing
    <3>2. items'[j] = items[j] /\ SameFields(j)
      BY <1>1, <1>6
    <3> SUFFICES ASSUME NEW u \in Threads, u # w
                 PROVE  /\ Carries(u, j)' <=> Carries(u, j)
                        /\ Reports(u, j)' <=> Reports(u, j)
                        /\ Runs(u, j)' <=> Runs(u, j)
                        /\ th'[u] = th[u]
      BY <3>1, <3>2 DEF SameTask
    <3> QED
      BY Zenon, <1>1, OtherThreads
  <2>3. ASSUME NEW s \in Statuses, box'[c].status = s
        PROVE  TaskOK(j, s)'
    BY <1>1, <2>1, <2>2, <2>3, FrameTask
  <2> QED
    BY <1>1, <1>6, <2>1, <2>3, SameBoxLive
<1>9. /\ inv'[j].readyEpoch <= inv'[j].epoch /\ inv'[j].completedEpoch <= inv'[j].epoch
  BY <1>1 DEF Live, EpochInv
<1> QED
  BY Zenon, <1>1, <1>4, <1>5, <1>6, <1>7, <1>8, <1>9, TokenLive DEF SameContents

\* The continuation of a runnable invocation goes from a thread to the executor.
LEMMA PushLive ==
    ASSUME IInv, Live, NEW t \in Threads, NEW rec \in ThreadType, NEW i \in Invocations,
           th[t].request = i, th[t].pc \in {"publish", "dispatch"},
           th[t].events = <<>>, rec.request = None, rec.pc \in {"idle", "publish"},
           rec.events = <<>>, th' = [th EXCEPT ![t] = rec],
           UNCHANGED <<mailboxes, box, inv, unswept, result, calls>>,
           SameCounters, SameFlags,
           \/ items' = [items EXCEPT ![i] = @ + 1]
           \/ items' = items /\ \A b \in Invocations : box[b].active # i
    PROVE  Live' /\ Calm /\ SameCourse
<1>1. th \in [Threads -> ThreadType] /\ th'[t] = rec /\ items \in [Invocations -> Nat]
  BY DEF IInv, TypeOK
<1>2. SameHistory /\ \A k \in Invocations : SameFields(k)
  BY InvUnchanged
<1>3. OnlyFor(th[t], i) /\ OnlyFor(rec, i) /\ ~Closing(rec)
  BY DEF OnlyFor, Closing
<1>4. /\ Carries(t, i) /\ ~Reports(t, i) /\ ~Runs(t, i)
      /\ ~Carries(t, i)' /\ ~Reports(t, i)' /\ ~Runs(t, i)'
  BY <1>1 DEF Carries, Reports, Runs, Executing
<1>5. \A u \in Threads : u # t => /\ Carries(u, i)' <=> Carries(u, i)
                                  /\ Reports(u, i)' <=> Reports(u, i)
                                  /\ Runs(u, i)' <=> Runs(u, i)
                                  /\ th'[u] = th[u]
  BY Zenon, <1>1, OtherThreads
<1>6. ASSUME NEW c \in Invocations, box[c].active = i
      PROVE  BoxLive(c)' /\ \A s \in Statuses : box'[c].status = s => TaskOK(i, s)'
  <2>1. BoxLive(c) /\ TaskOK(i, box[c].status)
    BY <1>6, ActiveFacts
  <2>2. /\ box[c].status = "Runnable" /\ items[i] = 0
        /\ \A u \in Threads : Carries(u, i) => u = t
    BY <1>4, <2>1 DEF TaskOK, TokenOK
  <2>3. items'[i] = 1
    BY <1>1, <1>6, <2>2
  <2>4. TokenOK(i, "Runnable")'
    BY <1>4, <1>5, <2>2, <2>3 DEF TokenOK
  <2>5. ReportOK(i)' /\ WakeOK(i, "Runnable")'
    <3>1. \A u \in Threads : /\ Reports(u, i)' <=> Reports(u, i)
                             /\ Runs(u, i)' <=> Runs(u, i)
                             /\ Reports(u, i) \/ Runs(u, i) => th'[u] = th[u]
      BY <1>4, <1>5
    <3>2. Waits(i)' <=> Waits(i)
      BY <3>1 DEF Waits
    <3>3. ReportOK(i)'
      BY <2>1, <3>1 DEF TaskOK, ReportOK, Unreported
    <3>4. WakeOK(i, "Runnable")'
      BY <1>2, <2>1, <2>2, <3>1, <3>2 DEF TaskOK, WakeOK, SameFlags
    <3> QED
      BY <3>3, <3>4
  <2>6. BoxLive(c)'
    BY <1>2, <2>1, SameBoxLive
  <2> QED
    BY <2>2, <2>4, <2>5, <2>6 DEF TaskOK
<1>7. /\ inv'[i].readyEpoch <= inv'[i].epoch /\ inv'[i].completedEpoch <= inv'[i].epoch
  BY DEF Live, EpochInv
<1>8. \A j \in Invocations : j # i => items'[j] = items[j]
  BY <1>1
<1>9. /\ t \in Workers /\ rec.pc # "idle" => th[t].pc # "idle"
      /\ rec.pc \notin {"drain", "sweep"} /\ (rec.request # None => AtTail(rec))
  OBVIOUS
<1>10. SameContents /\ \A c \in Invocations : box[c].active # i => box'[c] = box[c]
  BY DEF SameContents
<1>11. \A j \in Invocations : j # i => items'[j] = items[j] /\ SameFields(j)
  BY <1>2, <1>8
<1>12. t \in Workers /\ rec.pc # "idle" => th[t].pc # "idle" \/ ~sched.stopped
  BY <1>9
<1> QED
  BY Zenon, <1>2, <1>3, <1>6, <1>7, <1>9, <1>10, <1>11, <1>12, TokenLive

\* The executor hands an item to a worker.
LEMMA TakeWorkLive ==
    ASSUME IInv, Live, NEW w \in Workers, TakeWork(w)
    PROVE  Live' /\ Calm /\ SameCourse
<1>1. /\ w \in Threads /\ th[w].pc = "idle" /\ ~sched.stopped
      /\ th \in [Threads -> ThreadType] /\ items \in [Invocations -> Nat]
      /\ UNCHANGED <<sched, mailboxes, box, inv, unswept, result, calls>>
  BY DEF TakeWork, Threads, IInv, TypeOK
<1>2. PICK i \in Invocations :
          /\ items[i] > 0 /\ items' = [items EXCEPT ![i] = @ - 1]
          /\ th' = [th EXCEPT ![w] = [IdleThread EXCEPT !.pc = "begin", !.cur = i]]
  BY Zenon DEF TakeWork
<1> DEFINE rec == [IdleThread EXCEPT !.pc = "begin", !.cur = i]
<1>3. /\ rec \in ThreadType /\ rec.pc = "begin" /\ rec.cur = i /\ rec.request = None
      /\ rec.events = <<>> /\ ~Closing(rec)
  BY Zenon, IdleFacts DEF ThreadType, PcSet, WorkerPcs, Closing
<1>4. th' = [th EXCEPT ![w] = rec]
  BY <1>2
<1> HIDE DEF rec
<1>5. th'[w] = rec /\ th[w].request = None /\ th[w].events = <<>>
  BY Zenon, <1>1, <1>4, NoRequest, NoEvents
<1>6. SameCounters /\ SameFlags /\ SameHistory /\ \A k \in Invocations : SameFields(k)
  BY <1>1, SchedSame, InvUnchanged
<1>7. OnlyFor(th[w], i) /\ OnlyFor(rec, i)
  BY <1>1, <1>3, <1>5 DEF OnlyFor
<1>8. /\ ~Carries(w, i) /\ ~Reports(w, i) /\ ~Runs(w, i)
      /\ Carries(w, i)' /\ ~Reports(w, i)' /\ ~Runs(w, i)'
  BY <1>1, <1>3, <1>5 DEF Carries, Reports, Runs, Executing
<1>9. \A u \in Threads : u # w => /\ Carries(u, i)' <=> Carries(u, i)
                                  /\ Reports(u, i)' <=> Reports(u, i)
                                  /\ Runs(u, i)' <=> Runs(u, i)
                                  /\ th'[u] = th[u]
  BY Zenon, <1>1, <1>4, OtherThreads
<1>10. ASSUME NEW c \in Invocations, box[c].active = i
       PROVE  BoxLive(c)' /\ \A s \in Statuses : box'[c].status = s => TaskOK(i, s)'
  <2>1. BoxLive(c) /\ TaskOK(i, box[c].status)
    BY <1>10, ActiveFacts
  <2>2. /\ box[c].status = "Runnable" /\ items[i] = 1
        /\ \A u \in Threads : ~Carries(u, i)
    BY <1>1, <1>2, <2>1 DEF TaskOK, TokenOK
  <2>3. items'[i] = 0
    BY <1>1, <1>2, <2>2
  <2>4. TokenOK(i, "Runnable")'
    BY <1>1, <1>8, <1>9, <2>2, <2>3 DEF TokenOK
  <2>5. ReportOK(i)' /\ WakeOK(i, "Runnable")'
    <3>1. \A u \in Threads : /\ Reports(u, i)' <=> Reports(u, i)
                             /\ Runs(u, i)' <=> Runs(u, i)
                             /\ Reports(u, i) \/ Runs(u, i) => th'[u] = th[u]
      BY <1>8, <1>9
    <3>2. Waits(i)' <=> Waits(i)
      BY <1>1, <3>1 DEF Waits
    <3>3. ReportOK(i)'
      BY <1>1, <2>1, <3>1 DEF TaskOK, ReportOK, Unreported
    <3>4. WakeOK(i, "Runnable")'
      BY <1>1, <2>1, <2>2, <3>1, <3>2 DEF TaskOK, WakeOK
    <3> QED
      BY <3>3, <3>4
  <2>6. BoxLive(c)'
    BY <1>1, <1>6, <2>1, SameBoxLive
  <2> QED
    BY <1>1, <2>2, <2>4, <2>5, <2>6 DEF TaskOK
<1>11. /\ inv'[i].readyEpoch <= inv'[i].epoch /\ inv'[i].completedEpoch <= inv'[i].epoch
  BY <1>1 DEF Live, EpochInv
<1>12. \A j \in Invocations : j # i => items'[j] = items[j]
  BY <1>1, <1>2
<1>13. \A j \in Invocations : j # i => items'[j] = items[j] /\ SameFields(j)
  BY Zenon, <1>6, <1>7, <1>12
<1>14. SameContents /\ \A c \in Invocations : box[c].active # i => box'[c] = box[c]
  BY Zenon, <1>1 DEF SameContents
<1> QED
  BY Zenon, <1>1, <1>3, <1>4, <1>5, <1>6, <1>7, <1>10, <1>11, <1>13, <1>14, TokenLive

\* A worker claims a runnable mailbox, or drops a stale item.
LEMMA BeginLive ==
    ASSUME IInv, Live, NEW w \in Workers, Begin(w)
    PROVE  Live' /\ Calm /\ SameCourse
<1>0. /\ w \in Threads /\ th[w].pc = "begin" /\ th[w].cur \in Invocations
      /\ th[w] \in ThreadType /\ inv[th[w].cur].gen > 0
      /\ th \in [Threads -> ThreadType] /\ box \in [Invocations -> MailboxType]
      /\ UNCHANGED <<sched, mailboxes, inv, items, unswept, result, calls>>
  <2>1. w \in Threads
    BY DEF Threads
  <2> QED
    BY Zenon, <2>1, ThreadFacts DEF Begin, RecOK, IInv, TypeOK
<1>1. PICK i \in Invocations : i = th[w].cur
  BY <1>0
<1>2. th[w].request = None /\ th[w].events = <<>> /\ OnlyFor(th[w], i)
  BY <1>0, <1>1, NoRequest, NoEvents DEF OnlyFor
<1>3. SameCounters /\ SameFlags /\ SameHistory /\ \A k \in Invocations : SameFields(k)
  BY <1>0, SchedSame, InvUnchanged
<1>4. Carries(w, i) /\ ~Reports(w, i) /\ ~Runs(w, i)
  BY <1>0, <1>1 DEF Carries, Reports, Runs, Executing
<1>5. /\ inv'[i].readyEpoch <= inv'[i].epoch /\ inv'[i].completedEpoch <= inv'[i].epoch
  BY <1>0 DEF Live, EpochInv
<1>6. CASE IsCurrent(i) /\ box[inv[i].home].status = "Runnable"
  <2>1. /\ inv[i].home \in Invocations /\ box[inv[i].home].active = i
    BY <1>0, <1>1, <1>6, CurrentIsActive
  <2>2. PICK b \in Invocations : b = inv[i].home
    BY <2>1
  <2> DEFINE pc == IF inv[i].task = "invalid" THEN "start" ELSE "resume"
             rec == [th[w] EXCEPT !.touched = b, !.pc = pc]
             m == [box[b] EXCEPT !.status = "Running"]
  <2>3. th' = [th EXCEPT ![w] = rec] /\ box' = [box EXCEPT ![b] = m]
    BY <1>0, <1>1, <1>6, <2>2 DEF Begin
  <2>4. pc \in {"start", "resume"}
    OBVIOUS
  <2> HIDE DEF pc
  <2>5. /\ rec \in ThreadType /\ rec.pc = pc /\ rec.cur = i /\ rec.request = None
        /\ rec.events = <<>> /\ ~Closing(rec)
    BY Zenon, <1>0, <1>1, <1>2, <2>4 DEF ThreadType, PcSet, WorkerPcs, Closing
  <2>6. /\ m.active = box[b].active /\ m.pending = box[b].pending
        /\ m.generation = box[b].generation /\ m.claimed = box[b].claimed
        /\ m.status = "Running"
    BY <1>0 DEF MailboxType
  <2> HIDE DEF rec, m
  <2>7. th'[w] = rec /\ box'[b] = m /\ \A c \in Invocations : c # b => box'[c] = box[c]
    BY <1>0, <2>3
  <2>8. OnlyFor(rec, i)
    BY <2>5 DEF OnlyFor
  <2>9. ~Carries(w, i)' /\ ~Reports(w, i)' /\ Runs(w, i)'
    BY <2>4, <2>5, <2>7 DEF Carries, Reports, Runs, Executing
  <2>10. \A u \in Threads : u # w => /\ Carries(u, i)' <=> Carries(u, i)
                                     /\ Reports(u, i)' <=> Reports(u, i)
                                     /\ Runs(u, i)' <=> Runs(u, i)
                                     /\ th'[u] = th[u]
    BY Zenon, <1>0, <2>3, OtherThreads
  <2>11. BoxLive(b) /\ TaskOK(i, "Runnable")
    BY <1>6, <2>1, <2>2, ActiveFacts
  <2>12. \A u \in Threads : Runs(u, i) => FALSE
    BY <1>6, RunsIsActive
  <2>13. TokenOK(i, "Running")'
    BY <1>0, <1>4, <2>9, <2>10, <2>11 DEF TaskOK, TokenOK
  <2>14. \A u \in Threads : Reports(u, i)' <=> Reports(u, i)
    BY <1>4, <2>9, <2>10
  <2>15. ReportOK(i)'
    BY <1>0, <1>4, <2>10, <2>11, <2>14 DEF TaskOK, ReportOK, Unreported
  <2>16. ~Waits(i)'
    BY <1>0, <2>11, <2>14 DEF TaskOK, WakeOK, Waits
  <2>17. WakeOK(i, "Running")'
    <3>1. \A u \in Threads : Runs(u, i)' => u = w
      BY <2>10, <2>12
    <3>2. th'[w].pc # "post"
      BY <2>4, <2>5, <2>7
    <3> QED
      BY <1>0, <2>9, <2>16, <3>1, <3>2 DEF WakeOK
  <2>18. TaskOK(i, "Running")'
    BY <2>13, <2>15, <2>17 DEF TaskOK
  <2>19. BoxLive(b)'
    BY <1>3, <2>1, <2>2, <2>6, <2>7, <2>11 DEF BoxLive, SameFlags
  <2>20. ASSUME NEW c \in Invocations, box[c].active = i
         PROVE  BoxLive(c)' /\ \A s \in Statuses : box'[c].status = s => TaskOK(i, s)'
    <3>1. c = b
      BY <2>2, <2>20, ActiveFacts
    <3> QED
      BY <2>6, <2>7, <2>18, <2>19, <3>1
  <2>21. SameContents
    BY <2>6, <2>7 DEF SameContents
  <2>22. \A c \in Invocations : box[c].active # i => box'[c] = box[c]
    BY <2>1, <2>2, <2>7
  <2>23. rec.pc \notin {"drain", "sweep", "idle"}
    BY <2>4, <2>5
  <2> QED
    BY Zenon, <1>0, <1>2, <1>3, <1>5, <2>3, <2>5, <2>8, <2>20, <2>21, <2>22, <2>23, TokenLive
<1>7. CASE ~(IsCurrent(i) /\ box[inv[i].home].status = "Runnable")
  <2>1. th' = [th EXCEPT ![w] = IdleThread] /\ box' = box
    BY <1>0, <1>1, <1>7 DEF Begin
  <2>2. ASSUME NEW c \in Invocations, box[c].active = i
        PROVE  FALSE
    <3>1. inv[i].home = c /\ IsCurrent(i) /\ TaskOK(i, box[c].status)
      BY <2>2, ActiveFacts
    <3> QED
      BY <1>0, <1>4, <1>7, <3>1 DEF TaskOK, TokenOK
  <2>3. OnlyFor(IdleThread, i)
    BY IdleFacts DEF OnlyFor
  <2> QED
    BY Zenon, <1>0, <1>2, <1>3, <1>5, <2>1, <2>2, <2>3, IdleFacts, TokenLive DEF SameContents
<1> QED
  BY <1>6, <1>7

\* A step of the worker that runs i, other than the last one.
LEMMA WorkLive ==
    ASSUME IInv, Live, NEW w \in Workers, NEW i \in Invocations, Runs(w, i),
           NEW pc \in {"resume", "post"}, th' = [th EXCEPT ![w].pc = pc],
           NEW x \in InvocationType, inv' = [inv EXCEPT ![i] = x],
           x.home = inv[i].home, x.gen = inv[i].gen, x.ticket = inv[i].ticket,
           x.settledAt = inv[i].settledAt, x.submitted = inv[i].submitted,
           ~Waits(i), x.readyEpoch <= x.epoch, x.completedEpoch <= x.epoch,
           IF pc = "post" /\ x.task = "awaiting"
           THEN x.ioPending /\ x.readyEpoch # x.epoch /\ x.completedEpoch # x.epoch
           ELSE ~x.ioPending,
           UNCHANGED <<sched, mailboxes, box, items, unswept, result, calls>>
    PROVE  Live' /\ Calm /\ SameCourse
<1> DEFINE rec == [th[w] EXCEPT !.pc = pc]
<1>1. /\ w \in Threads /\ Executing(w) /\ th[w].cur = i /\ th[w] \in ThreadType
      /\ th \in [Threads -> ThreadType] /\ inv \in [Invocations -> InvocationType]
  <2>1. w \in Threads
    BY DEF Threads
  <2> QED
    BY <2>1, ThreadFacts DEF Runs, IInv, TypeOK
<1>2. th[w].request = None /\ th[w].events = <<>>
  BY <1>1, NoRequest, NoEvents DEF Executing
<1>3. /\ rec \in ThreadType /\ rec.pc = pc /\ rec.cur = i /\ rec.request = None
      /\ rec.events = <<>> /\ ~Closing(rec)
  BY Zenon, <1>1, <1>2 DEF ThreadType, PcSet, WorkerPcs, Closing
<1>4. th' = [th EXCEPT ![w] = rec]
  BY <1>1
<1> HIDE DEF rec
<1>5. th'[w] = rec /\ inv'[i] = x /\ \A j \in Invocations : j # i => inv'[j] = inv[j]
  BY <1>1, <1>4
<1>6. SameCounters /\ SameFlags /\ SameHistory
  BY Zenon, SchedSame, TaskUpdate
<1>7. \A j \in Invocations : j # i => items'[j] = items[j] /\ SameFields(j)
  BY <1>5 DEF SameFields, TaskEq
<1>8. OnlyFor(th[w], i) /\ OnlyFor(rec, i)
  BY <1>1, <1>2, <1>3 DEF OnlyFor
<1>9. /\ ~Carries(w, i) /\ ~Reports(w, i)
      /\ ~Carries(w, i)' /\ ~Reports(w, i)' /\ Runs(w, i)'
  BY <1>1, <1>2, <1>3, <1>5 DEF Carries, Reports, Runs, Executing
<1>10. \A u \in Threads : u # w => /\ Carries(u, i)' <=> Carries(u, i)
                                   /\ Reports(u, i)' <=> Reports(u, i)
                                   /\ Runs(u, i)' <=> Runs(u, i)
  <2> HIDE DEF rec
  <2> TAKE u \in Threads
  <2> HAVE u # w
  <2>1. w \in Threads /\ th \in [Threads -> ThreadType] /\ th' = [th EXCEPT ![w] = rec]
    BY <1>1, <1>4
  <2> QED
    BY Zenon, <2>1, OtherThreads
<1>11. \A u \in Threads : u # w => ~Runs(u, i)
  BY <1>1 DEF Runs, IInv, DistinctCur
<1>12. \A u \in Threads : ~Reports(u, i)'
  BY <1>9, <1>10 DEF Waits
<1>13. ASSUME NEW c \in Invocations, box[c].active = i
       PROVE  BoxLive(c)' /\ \A s \in Statuses : box'[c].status = s => TaskOK(i, s)'
  <2>1. BoxLive(c) /\ inv[i].home = c /\ TaskOK(i, box[c].status)
    BY <1>13, ActiveFacts
  <2>2. box[c].status = "Running"
    BY <1>1, <2>1, RunsIsActive
  <2>3. TokenOK(i, "Running")'
    BY <1>9, <1>10, <2>1, <2>2 DEF TaskOK, TokenOK
  <2>4. ReportOK(i)'
    BY <1>5, <1>12 DEF ReportOK, Unreported
  <2>5. WakeOK(i, "Running")'
    <3>1. Waits(i)' <=> x.ioPending
      BY <1>5, <1>12 DEF Waits
    <3>2. \A u \in Threads : Runs(u, i)' => u = w
      BY <1>10, <1>11
    <3> QED
      BY <1>1, <1>3, <1>5, <1>9, <3>1, <3>2 DEF WakeOK
  <2>6. BoxLive(c)'
    BY <1>6, <2>1, SameBoxLive
  <2> QED
    BY <2>2, <2>3, <2>4, <2>5, <2>6 DEF TaskOK
<1>14. SameContents /\ \A c \in Invocations : box'[c] = box[c]
  BY DEF SameContents
<1>15. rec.pc \notin {"drain", "sweep"} /\ th[w].pc # "idle"
  BY <1>1, <1>3 DEF Executing
<1> QED
  BY Zenon, <1>1, <1>2, <1>3, <1>4, <1>5, <1>6, <1>7, <1>8, <1>13, <1>14, <1>15, TokenLive

\* What a worker that has not resumed its task yet knows.
LEMMA BeforeResume ==
    ASSUME IInv, Live, NEW w \in Workers, th[w].pc \in {"start", "resume"}
    PROVE  /\ th[w].cur \in Invocations /\ Runs(w, th[w].cur) /\ IsCurrent(th[w].cur)
           /\ ~Waits(th[w].cur) /\ w \in Threads /\ inv[th[w].cur] \in InvocationType
<1>1. w \in Threads
  BY DEF Threads
<1>2. th[w].cur \in Invocations
  BY <1>1, ThreadFacts DEF RecOK
<1>3. PICK i \in Invocations : i = th[w].cur
  BY <1>2
<1>4. Runs(w, i)
  BY <1>3 DEF Runs, Executing
<1>5. /\ inv[i].home \in Invocations /\ box[inv[i].home].active = i
      /\ box[inv[i].home].status = "Running" /\ IsCurrent(i)
  BY <1>1, <1>4, RunsIsActive
<1>6. TaskOK(i, "Running")
  BY <1>5, ActiveFacts
<1>7. ~Waits(i)
  BY <1>1, <1>4, <1>6 DEF TaskOK, WakeOK
<1> QED
  BY <1>1, <1>3, <1>4, <1>5, <1>7 DEF IInv, TypeOK

\* attach_task: the handler has returned its coroutine.
LEMMA AttachTaskLive ==
    ASSUME IInv, Live, NEW w \in Workers, AttachTask(w)
    PROVE  Live' /\ Calm /\ SameCourse
<1>0. th[w].pc = "start"
  BY DEF AttachTask
<1>1. PICK i \in Invocations : /\ i = th[w].cur /\ Runs(w, i) /\ IsCurrent(i) /\ ~Waits(i)
                               /\ inv[i] \in InvocationType
  BY <1>0, BeforeResume
<1> DEFINE x == [inv[i] EXCEPT !.task = "created"]
<1>2. /\ x \in InvocationType /\ x.home = inv[i].home /\ x.gen = inv[i].gen
      /\ x.ticket = inv[i].ticket /\ x.settledAt = inv[i].settledAt
      /\ x.submitted = inv[i].submitted /\ x.epoch = inv[i].epoch
      /\ x.readyEpoch = inv[i].readyEpoch /\ x.completedEpoch = inv[i].completedEpoch
      /\ x.ioPending = inv[i].ioPending /\ x.task = "created"
  BY <1>1 DEF InvocationType, TaskStates
<1>3. /\ inv' = [inv EXCEPT ![i] = x] /\ th' = [th EXCEPT ![w].pc = "resume"]
      /\ UNCHANGED <<sched, mailboxes, box, items, unswept, result, calls>>
  BY <1>1 DEF AttachTask, IInv, TypeOK
<1> HIDE DEF x
<1>4. x.readyEpoch <= x.epoch /\ x.completedEpoch <= x.epoch /\ ~x.ioPending
  BY <1>1, <1>2 DEF Live, EpochInv, Waits
<1> QED
  BY Zenon, <1>1, <1>2, <1>3, <1>4, WorkLive

\* The resume of a task, whatever it does before control returns.
LEMMA ResumeLive ==
    ASSUME IInv, Live, NEW w \in Workers, NEW s \in ResumeOutcomes, Resume(w, s)
    PROVE  Live' /\ Calm /\ SameCourse
<1>0. th[w].pc = "resume"
  BY DEF Resume
<1>1. PICK i \in Invocations : /\ i = th[w].cur /\ Runs(w, i) /\ IsCurrent(i) /\ ~Waits(i)
                               /\ inv[i] \in InvocationType
  BY <1>0, BeforeResume
<1> DEFINE n == IF s \in {"yielded", "awaiting"} THEN inv[i].suspensions + 1
                ELSE inv[i].suspensions
           e == IF s = "awaiting" THEN inv[i].epoch + 1 ELSE inv[i].epoch
           p == (s = "awaiting")
           x == [inv[i] EXCEPT !.task = s, !.suspensions = n, !.epoch = e, !.ioPending = p]
<1>2. n \in Nat /\ e \in Nat /\ p \in BOOLEAN /\ s \in TaskStates
  BY <1>1 DEF InvocationType, ResumeOutcomes, TaskStates
<1>3. Resumed(inv[i], s) = x
  BY <1>1 DEF Resumed, InvocationType
<1>4. /\ inv' = [inv EXCEPT ![i] = x] /\ th' = [th EXCEPT ![w].pc = "post"]
      /\ UNCHANGED <<sched, mailboxes, box, items, unswept, result, calls>>
  BY <1>1, <1>3 DEF Resume, IInv, TypeOK
<1>5. /\ inv[i].readyEpoch <= inv[i].epoch /\ inv[i].completedEpoch <= inv[i].epoch
      /\ inv[i].readyEpoch \in Nat /\ inv[i].completedEpoch \in Nat /\ inv[i].epoch \in Nat
  BY <1>1 DEF Live, EpochInv, InvocationType
<1>6. /\ p <=> s = "awaiting"
      /\ s = "awaiting" => e = inv[i].epoch + 1
      /\ s # "awaiting" => e = inv[i].epoch
  OBVIOUS
<1> HIDE DEF n, e, p
<1>7. /\ x \in InvocationType /\ x.home = inv[i].home /\ x.gen = inv[i].gen
      /\ x.ticket = inv[i].ticket /\ x.settledAt = inv[i].settledAt
      /\ x.submitted = inv[i].submitted /\ x.epoch = e
      /\ x.readyEpoch = inv[i].readyEpoch /\ x.completedEpoch = inv[i].completedEpoch
      /\ x.ioPending = p /\ x.task = s
  BY Zenon, <1>1, <1>2 DEF InvocationType
<1> HIDE DEF x
<1>8. x.readyEpoch <= x.epoch /\ x.completedEpoch <= x.epoch
      /\ (s = "awaiting" => x.readyEpoch # x.epoch /\ x.completedEpoch # x.epoch)
  BY <1>2, <1>5, <1>6, <1>7
<1>9. IF x.task = "awaiting"
      THEN x.ioPending /\ x.readyEpoch # x.epoch /\ x.completedEpoch # x.epoch
      ELSE ~x.ioPending
  BY <1>6, <1>7, <1>8
<1> QED
  BY Zenon, <1>1, <1>4, <1>7, <1>8, <1>9, WorkLive

\* A task that suspended keeps its mailbox: it is queued again, or somebody will
\* report.
LEMMA KeepActiveLive ==
    ASSUME IInv, Live, NEW w \in Workers, NEW b \in Invocations, NEW i \in Invocations,
           Runs(w, i), box[b].active = i, box[b].status = "Running",
           th[w].pc = "post", inv[i].task \in {"yielded", "awaiting"},
           sched.cancelling => KeyOf[b] \in unswept,
           KeepActive(w, b, i),
           UNCHANGED <<mailboxes, items, unswept, result, calls>>
    PROVE  Live' /\ Calm /\ SameCourse
<1> DEFINE ready == ReadyNow(i)
           again == inv[i].task = "yielded" \/ ready
           st == IF again THEN "Runnable" ELSE "Suspended"
           rq == IF again THEN i ELSE None
           m == [box[b] EXCEPT !.status = st]
           rec == [th[w] EXCEPT !.request = rq, !.cur = None, !.pc = "dispatch"]
           x == IF ready THEN [inv[i] EXCEPT !.readyEpoch = 0, !.completedEpoch = inv[i].epoch]
                ELSE inv[i]
<1>1. /\ w \in Threads /\ th[w].cur = i /\ th[w] \in ThreadType
      /\ th \in [Threads -> ThreadType] /\ inv \in [Invocations -> InvocationType]
      /\ box \in [Invocations -> MailboxType] /\ inv[i] \in InvocationType
      /\ box[b] \in MailboxType
  <2>1. w \in Threads
    BY DEF Threads
  <2> QED
    BY <2>1, ThreadFacts DEF Runs, IInv, TypeOK
<1>2. /\ th' = [th EXCEPT ![w] = rec] /\ box' = [box EXCEPT ![b] = m]
      /\ inv' = [inv EXCEPT ![i] = x] /\ sched' = sched
  <2>1. CASE ready
    BY <1>1, <2>1 DEF KeepActive
  <2>2. CASE ~ready
    <3>1. inv' = inv /\ x = inv[i]
      BY <2>2 DEF KeepActive
    <3> QED
      BY <1>1, <2>2, <3>1 DEF KeepActive
  <2> QED
    BY <2>1, <2>2
<1>3. th[w].request = None /\ th[w].events = <<>>
  BY <1>1, NoRequest, NoEvents
<1>4. /\ TaskOK(i, "Running") /\ BoxLive(b) /\ ~box[b].claimed /\ inv[i].home = b
  BY ActiveFacts
<1>5. /\ inv[i].readyEpoch <= inv[i].epoch /\ inv[i].completedEpoch <= inv[i].epoch
      /\ inv[i].readyEpoch \in Nat /\ inv[i].completedEpoch \in Nat /\ inv[i].epoch \in Nat
  BY <1>1 DEF Live, EpochInv, InvocationType
<1>6. again => ~Waits(i)
  <2>1. CASE inv[i].task = "yielded"
    BY <1>1, <1>4, <2>1 DEF TaskOK, WakeOK
  <2>2. CASE ready
    <3>1. ~Unreported(i)
      BY <2>2 DEF ReadyNow, Unreported
    <3> QED
      BY <1>4, <3>1 DEF TaskOK, ReportOK, Waits
  <2> QED
    BY <2>1, <2>2
<1>7. ~again => /\ inv[i].completedEpoch # inv[i].epoch
                /\ Waits(i) \/ sched.cancelling
  <2>1. ~again => inv[i].task = "awaiting" /\ inv[i].readyEpoch # inv[i].epoch
    BY DEF ReadyNow
  <2> QED
    BY <1>1, <1>4, <2>1 DEF TaskOK, WakeOK
<1>8. /\ x \in InvocationType /\ x.home = inv[i].home /\ x.gen = inv[i].gen
      /\ x.ticket = inv[i].ticket /\ x.settledAt = inv[i].settledAt
      /\ x.submitted = inv[i].submitted /\ x.ioPending = inv[i].ioPending
      /\ x.readyEpoch <= x.epoch /\ x.completedEpoch <= x.epoch
      /\ ~again => x = inv[i]
  <2>1. CASE ready
    <3> DEFINE e == inv[i].epoch
               y == [inv[i] EXCEPT !.readyEpoch = 0, !.completedEpoch = e]
    <3>1. x = y /\ e \in Nat /\ again
      BY <1>5, <2>1
    <3> HIDE DEF e, x, again
    <3>2. /\ y \in InvocationType /\ y.home = inv[i].home /\ y.gen = inv[i].gen
          /\ y.ticket = inv[i].ticket /\ y.settledAt = inv[i].settledAt
          /\ y.submitted = inv[i].submitted /\ y.ioPending = inv[i].ioPending
          /\ y.readyEpoch = 0 /\ y.epoch = inv[i].epoch /\ y.completedEpoch = e
      BY Zenon, <1>1, <3>1 DEF InvocationType
    <3> HIDE DEF y
    <3> QED
      BY <1>5, <3>1, <3>2 DEF e
  <2>2. CASE ~ready
    BY <1>1, <1>5, <2>2
  <2> QED
    BY <2>1, <2>2
<1>9. /\ again => st = "Runnable" /\ rq = i
      /\ ~again => st = "Suspended" /\ rq = None
      /\ st \in {"Runnable", "Suspended"} /\ rq \in {i, None}
  OBVIOUS
<1> HIDE DEF again, ready, st, rq, x
<1>s. PICK s0 \in {"Runnable", "Suspended"} : s0 = st
  BY <1>9
<1>10. /\ rec \in ThreadType /\ rec.pc = "dispatch" /\ rec.request = rq
       /\ rec.events = <<>> /\ rec.cur = None /\ ~Closing(rec) /\ AtTail(rec)
  <2>1. /\ rec \in ThreadType /\ rec.pc = "dispatch" /\ rec.request = rq
        /\ rec.events = <<>> /\ rec.cur = None
    <3>1. "dispatch" \in PcSet
      BY DEF PcSet, WorkerPcs
    <3> QED
      BY Zenon, <1>1, <1>3, <1>9, <3>1 DEF ThreadType
  <2> HIDE DEF rec
  <2>2. ~Closing(rec) /\ AtTail(rec)
    BY <2>1 DEF Closing, AtTail
  <2> QED
    BY Zenon, <2>1, <2>2
<1>11. /\ m.active = box[b].active /\ m.pending = box[b].pending
       /\ m.generation = box[b].generation /\ m.claimed = box[b].claimed
       /\ m.status = st
  BY <1>1 DEF MailboxType
<1> HIDE DEF rec, m
<1>12. /\ th'[w] = rec /\ box'[b] = m /\ \A c \in Invocations : c # b => box'[c] = box[c]
       /\ inv'[i] = x /\ \A j \in Invocations : j # i => inv'[j] = inv[j]
  BY <1>1, <1>2
<1>13. SameCounters /\ SameFlags /\ SameHistory /\ SameContents
  <2>1. SameCounters /\ SameFlags
    BY <1>2, SchedSame
  <2>2. SameHistory
    BY Zenon, <1>2, <1>8, TaskUpdate
  <2>3. SameContents
    BY <1>11, <1>12 DEF SameContents
  <2> QED
    BY <2>1, <2>2, <2>3
<1>14. \A j \in Invocations : j # i => items'[j] = items[j] /\ SameFields(j)
  BY <1>12 DEF SameFields, TaskEq
<1>15. OnlyFor(th[w], i) /\ OnlyFor(rec, i)
  BY <1>1, <1>3, <1>9, <1>10 DEF OnlyFor
<1>16. /\ ~Carries(w, i) /\ ~Reports(w, i)
       /\ ~Reports(w, i)' /\ ~Runs(w, i)' /\ (Carries(w, i)' <=> again)
  BY <1>1, <1>3, <1>9, <1>10, <1>12 DEF Carries, Reports, Runs, Executing
<1>17. \A u \in Threads : u # w => /\ Carries(u, i)' <=> Carries(u, i)
                                   /\ Reports(u, i)' <=> Reports(u, i)
                                   /\ Runs(u, i)' <=> Runs(u, i)
                                   /\ th'[u] = th[u]
  BY Zenon, <1>1, <1>2, OtherThreads
<1>18. \A u \in Threads : ~Runs(u, i)'
  <2>1. \A u \in Threads : u # w => ~Runs(u, i)
    BY <1>1 DEF Runs, IInv, DistinctCur, Executing
  <2> QED
    BY <1>16, <1>17, <2>1
<1>19. TokenOK(i, s0)'
  BY <1>s, <1>1, <1>4, <1>9, <1>16, <1>17 DEF TaskOK, TokenOK
<1>20. \A u \in Threads : (Reports(u, i)' <=> Reports(u, i)) /\ (Reports(u, i) => u # w)
  BY <1>16, <1>17
<1>21. Waits(i)' <=> Waits(i)
  BY <1>8, <1>12, <1>20 DEF Waits
<1>22. ReportOK(i)'
  <2>1. CASE again
    BY <1>6, <1>21, <2>1 DEF ReportOK, Waits
  <2>2. CASE ~again
    BY <1>4, <1>8, <1>12, <1>17, <1>20, <2>2 DEF TaskOK, ReportOK, Unreported
  <2> QED
    BY <2>1, <2>2
<1>23. WakeOK(i, s0)'
  <2>1. CASE again
    BY <1>s, <1>6, <1>9, <1>18, <1>21, <2>1 DEF WakeOK
  <2>2. CASE ~again
    BY <1>s, <1>2, <1>7, <1>8, <1>9, <1>12, <1>18, <1>21, <2>2 DEF WakeOK
  <2> QED
    BY <2>1, <2>2
<1>24. BoxLive(b)'
  BY <1>4, <1>9, <1>11, <1>12, <1>13 DEF BoxLive, SameFlags
<1>25. ASSUME NEW c \in Invocations, box[c].active = i
       PROVE  BoxLive(c)' /\ \A s \in Statuses : box'[c].status = s => TaskOK(i, s)'
  <2>1. c = b
    BY <1>4, <1>25, ActiveFacts
  <2> QED
    BY <1>s, <1>11, <1>12, <1>19, <1>22, <1>23, <1>24, <2>1 DEF TaskOK
<1>26. \A c \in Invocations : box[c].active # i => box'[c] = box[c]
  BY <1>12
<1>27. inv'[i].readyEpoch <= inv'[i].epoch /\ inv'[i].completedEpoch <= inv'[i].epoch
  BY <1>8, <1>12
<1> QED
  BY Zenon, <1>1, <1>2, <1>3, <1>10, <1>13, <1>14, <1>15, <1>25, <1>26, <1>27, TokenLive

\* An operation completes, and its thread is about to report it.
LEMMA OperationCompletesLive ==
    ASSUME IInv, Live, NEW o \in IoThreads, NEW i \in Invocations, OperationCompletes(o, i)
    PROVE  Live' /\ Calm /\ SameCourse
<1> DEFINE e == inv[i].epoch
           rec == [IdleThread EXCEPT !.pc = "ready", !.cur = i, !.epoch = e]
           x == [inv[i] EXCEPT !.ioPending = FALSE]
<1>1. /\ o \in Threads /\ o \notin Workers /\ th[o].pc = "idle" /\ inv[i].ioPending
      /\ th \in [Threads -> ThreadType] /\ inv \in [Invocations -> InvocationType]
      /\ inv[i] \in InvocationType
      /\ th' = [th EXCEPT ![o] = rec]
      /\ UNCHANGED <<sched, mailboxes, box, items, unswept, result, calls>>
  BY DEF OperationCompletes, Threads, IInv, TypeOK
<1>2. inv' = [inv EXCEPT ![i] = x]
  BY <1>1 DEF OperationCompletes
<1>3. e \in Nat
  BY <1>1 DEF InvocationType
<1>4. /\ x \in InvocationType /\ x.home = inv[i].home /\ x.gen = inv[i].gen
      /\ x.ticket = inv[i].ticket /\ x.settledAt = inv[i].settledAt
      /\ x.submitted = inv[i].submitted /\ x.epoch = e
      /\ x.readyEpoch = inv[i].readyEpoch /\ x.completedEpoch = inv[i].completedEpoch
      /\ ~x.ioPending /\ x.task = inv[i].task
  BY Zenon, <1>1 DEF InvocationType
<1> HIDE DEF x
<1>5. /\ rec \in ThreadType /\ rec.pc = "ready" /\ rec.cur = i /\ rec.request = None
      /\ rec.events = <<>> /\ rec.epoch = e /\ ~Closing(rec)
  <2> HIDE DEF e
  <2> QED
    BY Zenon, <1>3, IdleFacts DEF ThreadType, PcSet, IoPcs, Closing
<1> HIDE DEF rec
<1>6. th[o].request = None /\ th[o].events = <<>>
  BY <1>1, NoRequest, NoEvents
<1>7. th'[o] = rec /\ inv'[i] = x /\ \A j \in Invocations : j # i => inv'[j] = inv[j]
  BY <1>1, <1>2
<1>8. SameCounters /\ SameFlags /\ SameHistory
  BY Zenon, <1>1, <1>2, <1>4, SchedSame, TaskUpdate
<1>9. \A j \in Invocations : j # i => items'[j] = items[j] /\ SameFields(j)
  BY <1>1, <1>7 DEF SameFields, TaskEq
<1>10. OnlyFor(th[o], i) /\ OnlyFor(rec, i)
  BY <1>1, <1>5, <1>6 DEF OnlyFor
<1>11. /\ ~Carries(o, i) /\ ~Reports(o, i) /\ ~Runs(o, i)
       /\ ~Carries(o, i)' /\ Reports(o, i)' /\ ~Runs(o, i)'
  BY <1>1, <1>5, <1>6, <1>7 DEF Carries, Reports, Runs, Executing
<1>12. \A u \in Threads : u # o => /\ Carries(u, i)' <=> Carries(u, i)
                                   /\ Reports(u, i)' <=> Reports(u, i)
                                   /\ Runs(u, i)' <=> Runs(u, i)
                                   /\ th'[u] = th[u]
  BY Zenon, <1>1, OtherThreads
<1>13. ASSUME NEW c \in Invocations, box[c].active = i
       PROVE  BoxLive(c)' /\ \A s \in Statuses : box'[c].status = s => TaskOK(i, s)'
  <2>1. BoxLive(c) /\ TaskOK(i, box[c].status)
    BY <1>13, ActiveFacts
  <2>2. Unreported(i) /\ \A u \in Threads : ~Reports(u, i)
    BY <1>1, <2>1 DEF TaskOK, ReportOK
  <2>3. Unreported(i)' /\ \A u \in Threads : Reports(u, i)' => u = o
    BY <1>4, <1>7, <1>12, <2>2 DEF Unreported
  <2>4. ReportOK(i)'
    BY <1>4, <1>5, <1>7, <2>3 DEF ReportOK
  <2>5. Waits(i) /\ Waits(i)'
    BY <1>1, <1>11 DEF Waits
  <2>6. ASSUME NEW s \in Statuses, box'[c].status = s
        PROVE  TaskOK(i, s)'
    <3>1. TaskOK(i, s)
      BY <1>1, <2>1, <2>6
    <3>2. TokenOK(i, s)'
      BY <1>1, <1>11, <1>12, <3>1 DEF TaskOK, TokenOK
    <3>3. \A u \in Threads : /\ Runs(u, i)' <=> Runs(u, i)
                             /\ Runs(u, i) => th'[u] = th[u]
      BY <1>11, <1>12
    <3>4. WakeOK(i, s)'
      BY <1>1, <1>4, <1>7, <2>5, <3>1, <3>3 DEF TaskOK, WakeOK
    <3> QED
      BY <2>4, <3>2, <3>4 DEF TaskOK
  <2>7. BoxLive(c)'
    BY <1>1, <1>8, <2>1, SameBoxLive
  <2> QED
    BY <2>6, <2>7
<1>14. SameContents /\ \A c \in Invocations : box'[c] = box[c]
  BY <1>1 DEF SameContents
<1>15. inv'[i].readyEpoch <= inv'[i].epoch /\ inv'[i].completedEpoch <= inv'[i].epoch
  BY <1>4, <1>7 DEF Live, EpochInv
<1> QED
  BY Zenon, <1>1, <1>5, <1>6, <1>8, <1>9, <1>10, <1>13, <1>14, <1>15, TokenLive

\* on_external_ready: the report of a current operation wakes its task or is kept
\* for the worker that still runs it.
LEMMA OnExternalReadyLive ==
    ASSUME IInv, Live, NEW o \in IoThreads, OnExternalReady(o)
    PROVE  Live' /\ Calm /\ SameCourse
<1>0. /\ o \in Threads /\ o \notin Workers /\ th[o].pc = "ready" /\ th[o].cur \in Invocations
      /\ th[o] \in ThreadType /\ inv[th[o].cur].gen > 0
      /\ th \in [Threads -> ThreadType] /\ inv \in [Invocations -> InvocationType]
      /\ box \in [Invocations -> MailboxType]
      /\ UNCHANGED <<sched, mailboxes, items, unswept, result, calls>>
  <2>1. o \in Threads /\ o \notin Workers
    BY DEF Threads
  <2> QED
    BY Zenon, <2>1, ThreadFacts DEF OnExternalReady, RecOK, IInv, TypeOK
<1>1. PICK i \in Invocations : i = th[o].cur
  BY <1>0
<1>2. PICK e : e = th[o].epoch
  OBVIOUS
<1>3. th[o].request = None /\ th[o].events = <<>> /\ OnlyFor(th[o], i)
  BY <1>0, <1>1, NoRequest, NoEvents DEF OnlyFor
<1>4. SameCounters /\ SameFlags
  BY <1>0, SchedSame
<1>5. Reports(o, i) /\ ~Carries(o, i) /\ ~Runs(o, i) /\ Waits(i)
  BY <1>0, <1>1, <1>3 DEF Carries, Reports, Runs, Executing, Waits
<1>6. inv[i] \in InvocationType /\ inv[i].gen > 0 /\ e \in Nat
  BY <1>0, <1>1, <1>2 DEF ThreadType
<1>7. ASSUME NEW c \in Invocations, box[c].active = i
      PROVE  /\ BoxLive(c) /\ TaskOK(i, box[c].status) /\ inv[i].home = c /\ IsCurrent(i)
             /\ box[c].status \in {"Running", "Suspended"}
             /\ e = inv[i].epoch /\ ~inv[i].ioPending /\ Unreported(i)
             /\ \A u \in Threads : Reports(u, i) => u = o
  <2>1. /\ BoxLive(c) /\ TaskOK(i, box[c].status) /\ inv[i].home = c /\ IsCurrent(i)
        /\ box[c].status \in {"Runnable", "Running", "Suspended"}
    BY <1>7, ActiveFacts
  <2>2. ReportOK(i) /\ WakeOK(i, box[c].status)
    BY <2>1 DEF TaskOK
  <2>3. box[c].status # "Runnable"
    BY <1>5, <2>2 DEF WakeOK
  <2> QED
    BY <1>0, <1>2, <1>5, <2>1, <2>2, <2>3 DEF ReportOK
<1>8. inv[i].readyEpoch <= inv[i].epoch /\ inv[i].completedEpoch <= inv[i].epoch
  BY DEF Live, EpochInv
<1> DEFINE current == IsCurrent(i) /\ ~sched.cancelling
           early   == /\ current /\ box[inv[i].home].status = "Running"
                      /\ e \notin {inv[i].readyEpoch, inv[i].completedEpoch}
           awaited == /\ current /\ box[inv[i].home].status = "Suspended"
                      /\ e = inv[i].epoch /\ e # inv[i].completedEpoch
<1>9. \/ /\ early
         /\ inv' = [inv EXCEPT ![i].readyEpoch = e]
         /\ th' = [th EXCEPT ![o] = IdleThread]
         /\ UNCHANGED box
      \/ /\ awaited
         /\ box' = [box EXCEPT ![inv[i].home].status = "Runnable"]
         /\ inv' = [inv EXCEPT ![i].completedEpoch = e]
         /\ th' = [th EXCEPT ![o] = [IdleThread EXCEPT !.pc = "publish", !.request = i]]
      \/ /\ ~early /\ ~awaited
         /\ th' = [th EXCEPT ![o] = IdleThread]
         /\ UNCHANGED <<box, inv>>
  BY Zenon, <1>1, <1>2 DEF OnExternalReady
<1>10. ASSUME NEW rec, th' = [th EXCEPT ![o] = rec]
       PROVE  /\ th'[o] = rec
              /\ \A u \in Threads : u # o => /\ Carries(u, i)' <=> Carries(u, i)
                                             /\ Reports(u, i)' <=> Reports(u, i)
                                             /\ Runs(u, i)' <=> Runs(u, i)
                                             /\ th'[u] = th[u]
  BY Zenon, <1>0, <1>10, OtherThreads
<1>11. OnlyFor(IdleThread, i)
  BY IdleFacts DEF OnlyFor
<1>12. th' = [th EXCEPT ![o] = IdleThread] =>
       /\ ~Carries(o, i)' /\ ~Reports(o, i)' /\ ~Runs(o, i)'
  <2>1. SUFFICES ASSUME th' = [th EXCEPT ![o] = IdleThread]
                 PROVE  /\ ~Carries(o, i)' /\ ~Reports(o, i)' /\ ~Runs(o, i)'
    OBVIOUS
  <2>2. th'[o] = IdleThread
    BY <1>0, <2>1
  <2> QED
    BY <2>2, IdleFacts DEF Carries, Reports, Runs, Executing
<1>13. CASE /\ early
            /\ inv' = [inv EXCEPT ![i].readyEpoch = e]
            /\ th' = [th EXCEPT ![o] = IdleThread]
            /\ UNCHANGED box
  <2>1. inv[i].home \in Invocations /\ box[inv[i].home].active = i
    BY <1>6, <1>13, CurrentIsActive
  <2>2. e = inv[i].epoch
    BY <1>7, <2>1
  <2> DEFINE x == [inv[i] EXCEPT !.readyEpoch = e]
  <2>3. inv' = [inv EXCEPT ![i] = x]
    BY <1>0, <1>13
  <2>4. /\ x \in InvocationType /\ x.home = inv[i].home /\ x.gen = inv[i].gen
        /\ x.ticket = inv[i].ticket /\ x.settledAt = inv[i].settledAt
        /\ x.submitted = inv[i].submitted /\ x.epoch = inv[i].epoch
        /\ x.readyEpoch = e /\ x.completedEpoch = inv[i].completedEpoch
        /\ x.ioPending = inv[i].ioPending /\ x.task = inv[i].task
    BY <1>6 DEF InvocationType
  <2> HIDE DEF x
  <2>5. inv'[i] = x /\ \A j \in Invocations : j # i => inv'[j] = inv[j]
    BY <1>0, <2>3
  <2>6. SameHistory
    BY Zenon, <2>3, <2>4, TaskUpdate
  <2>7. \A j \in Invocations : j # i => items'[j] = items[j] /\ SameFields(j)
    BY <1>0, <2>5 DEF SameFields, TaskEq
  <2>8. ASSUME NEW c \in Invocations, box[c].active = i
        PROVE  BoxLive(c)' /\ \A s \in Statuses : box'[c].status = s => TaskOK(i, s)'
    <3>1. /\ BoxLive(c) /\ TaskOK(i, box[c].status) /\ inv[i].home = c
          /\ ~inv[i].ioPending /\ Unreported(i)
          /\ \A u \in Threads : Reports(u, i) => u = o
      BY <1>7, <2>8
    <3>2. box[c].status = "Running"
      BY <1>13, <3>1
    <3>3. TokenOK(i, "Running")'
      BY Zenon, <1>0, <1>5, <1>10, <1>12, <1>13, <3>1, <3>2 DEF TaskOK, TokenOK
    <3>4. (\A u \in Threads : ~Reports(u, i)') /\ ~inv'[i].ioPending
      BY Zenon, <1>10, <1>12, <1>13, <2>4, <2>5, <3>1
    <3>5. ReportOK(i)'
      BY <3>4 DEF ReportOK
    <3>6. \A u \in Threads : /\ Runs(u, i)' <=> Runs(u, i)
                             /\ Runs(u, i) => th'[u] = th[u]
      BY Zenon, <1>5, <1>10, <1>12, <1>13
    <3>7. \A u \in Threads : Runs(u, i) =>
             /\ th[u].pc = "post" /\ inv[i].task = "awaiting"
             /\ inv[i].completedEpoch # inv[i].epoch
      BY <1>5, <3>1, <3>2 DEF TaskOK, WakeOK
    <3>8. WakeOK(i, "Running")'
      <4>1. \E u \in Threads : Runs(u, i)'
        BY <3>1, <3>2, <3>6 DEF TaskOK, WakeOK
      <4> QED
        BY <2>2, <2>4, <2>5, <3>6, <3>7, <4>1 DEF WakeOK
    <3>9. BoxLive(c)'
      BY <1>4, <1>13, <3>1, SameBoxLive
    <3> QED
      BY <1>13, <3>2, <3>3, <3>5, <3>8, <3>9 DEF TaskOK
  <2>9. SameContents /\ \A c \in Invocations : box'[c] = box[c]
    BY <1>13 DEF SameContents
  <2>10. inv'[i].readyEpoch <= inv'[i].epoch /\ inv'[i].completedEpoch <= inv'[i].epoch
    BY <1>6, <1>8, <2>2, <2>4, <2>5
  <2> QED
    BY Zenon, <1>0, <1>3, <1>4, <1>11, <1>13, <2>6, <2>7, <2>8, <2>9, <2>10, IdleFacts, TokenLive
<1>14. CASE /\ awaited
            /\ box' = [box EXCEPT ![inv[i].home].status = "Runnable"]
            /\ inv' = [inv EXCEPT ![i].completedEpoch = e]
            /\ th' = [th EXCEPT ![o] = [IdleThread EXCEPT !.pc = "publish", !.request = i]]
  <2>0. inv[i].home \in Invocations /\ box[inv[i].home].active = i
    BY <1>6, <1>14, CurrentIsActive
  <2>1. PICK b \in Invocations : b = inv[i].home
    BY <2>0
  <2> DEFINE x == [inv[i] EXCEPT !.completedEpoch = e]
             m == [box[b] EXCEPT !.status = "Runnable"]
             rec == [IdleThread EXCEPT !.pc = "publish", !.request = i]
  <2>2. /\ inv' = [inv EXCEPT ![i] = x] /\ box' = [box EXCEPT ![b] = m]
        /\ th' = [th EXCEPT ![o] = rec]
    BY <1>0, <1>14, <2>1
  <2>3. /\ x \in InvocationType /\ x.home = inv[i].home /\ x.gen = inv[i].gen
        /\ x.ticket = inv[i].ticket /\ x.settledAt = inv[i].settledAt
        /\ x.submitted = inv[i].submitted /\ x.epoch = inv[i].epoch
        /\ x.completedEpoch = e /\ x.readyEpoch = inv[i].readyEpoch
        /\ x.ioPending = inv[i].ioPending /\ x.task = inv[i].task
    BY <1>6 DEF InvocationType
  <2>4. /\ rec \in ThreadType /\ rec.pc = "publish" /\ rec.request = i
        /\ rec.events = <<>> /\ ~Closing(rec) /\ AtTail(rec) /\ OnlyFor(rec, i)
    BY Zenon, IdleFacts DEF ThreadType, PcSet, IoPcs, Closing, AtTail, OnlyFor
  <2>5. /\ m.active = box[b].active /\ m.pending = box[b].pending
        /\ m.generation = box[b].generation /\ m.claimed = box[b].claimed
        /\ m.status = "Runnable"
    BY <1>0 DEF MailboxType
  <2> HIDE DEF x, m, rec
  <2>6. /\ inv'[i] = x /\ \A j \in Invocations : j # i => inv'[j] = inv[j]
        /\ box'[b] = m /\ \A c \in Invocations : c # b => box'[c] = box[c]
        /\ th'[o] = rec
    BY <1>0, <2>2
  <2>7. SameHistory /\ SameContents
    BY Zenon, <2>2, <2>3, <2>5, <2>6, TaskUpdate DEF SameContents
  <2>8. \A j \in Invocations : j # i => items'[j] = items[j] /\ SameFields(j)
    BY <1>0, <2>6 DEF SameFields, TaskEq
  <2>9. /\ BoxLive(b) /\ TaskOK(i, box[b].status) /\ box[b].status = "Suspended"
        /\ ~inv[i].ioPending /\ \A u \in Threads : Reports(u, i) => u = o
    BY <1>7, <1>14, <2>0, <2>1
  <2>10. Carries(o, i)' /\ ~Reports(o, i)' /\ ~Runs(o, i)'
    BY <1>0, <2>4, <2>6 DEF Carries, Reports, Runs, Executing
  <2>11. TokenOK(i, "Runnable")'
    BY Zenon, <1>0, <1>5, <1>10, <2>2, <2>9, <2>10 DEF TaskOK, TokenOK
  <2>12. (\A u \in Threads : ~Reports(u, i)') /\ ~inv'[i].ioPending
    BY Zenon, <1>10, <2>2, <2>3, <2>6, <2>9, <2>10
  <2>13. \A u \in Threads : ~Runs(u, i)'
    <3>1. \A u \in Threads : ~Runs(u, i)
      BY <2>1, <2>9, RunsIsActive
    <3> QED
      BY Zenon, <1>10, <2>2, <2>10, <3>1
  <2>14. ReportOK(i)' /\ WakeOK(i, "Runnable")'
    BY <2>12, <2>13 DEF ReportOK, WakeOK, Waits
  <2>15. TaskOK(i, "Runnable")'
    BY <2>11, <2>14 DEF TaskOK
  <2>16. BoxLive(b)'
    BY <1>4, <2>5, <2>6, <2>9 DEF BoxLive, SameFlags
  <2>17. ASSUME NEW c \in Invocations, box[c].active = i
         PROVE  BoxLive(c)' /\ \A s \in Statuses : box'[c].status = s => TaskOK(i, s)'
    <3>1. c = b
      BY <1>7, <2>1, <2>17
    <3> QED
      BY <2>5, <2>6, <2>15, <2>16, <3>1
  <2>18. \A c \in Invocations : box[c].active # i => box'[c] = box[c]
    BY <2>0, <2>1, <2>6
  <2>19. inv'[i].readyEpoch <= inv'[i].epoch /\ inv'[i].completedEpoch <= inv'[i].epoch
    BY <1>6, <1>8, <1>14, <2>3, <2>6
  <2> QED
    BY Zenon, <1>0, <1>3, <1>4, <2>2, <2>4, <2>7, <2>8, <2>17, <2>18, <2>19, TokenLive
<1>15. CASE /\ ~early /\ ~awaited
            /\ th' = [th EXCEPT ![o] = IdleThread]
            /\ UNCHANGED <<box, inv>>
  <2>1. SameHistory /\ \A j \in Invocations : SameFields(j)
    BY <1>15, InvUnchanged
  <2>2. ASSUME NEW c \in Invocations, box[c].active = i
        PROVE  BoxLive(c)' /\ \A s \in Statuses : box'[c].status = s => TaskOK(i, s)'
    <3>1. /\ BoxLive(c) /\ TaskOK(i, box[c].status) /\ inv[i].home = c /\ IsCurrent(i)
          /\ box[c].status \in {"Running", "Suspended"}
          /\ e = inv[i].epoch /\ ~inv[i].ioPending /\ Unreported(i)
          /\ \A u \in Threads : Reports(u, i) => u = o
      BY <1>7, <2>2
    <3>2. sched.cancelling
      BY <1>15, <3>1 DEF Unreported
    <3>3. (\A u \in Threads : ~Reports(u, i)') /\ ~inv'[i].ioPending
      BY Zenon, <1>10, <1>12, <1>15, <3>1
    <3>4. ASSUME NEW s \in Statuses, box'[c].status = s
          PROVE  TaskOK(i, s)'
      <4>1. TaskOK(i, s) /\ s \in {"Running", "Suspended"}
        BY <1>15, <3>1, <3>4
      <4>2. TokenOK(i, s)'
        BY Zenon, <1>0, <1>5, <1>10, <1>12, <1>15, <4>1 DEF TaskOK, TokenOK
      <4>3. ReportOK(i)'
        BY <3>3 DEF ReportOK
      <4>4. \A u \in Threads : /\ Runs(u, i)' <=> Runs(u, i)
                               /\ Runs(u, i) => th'[u] = th[u]
        BY Zenon, <1>5, <1>10, <1>12, <1>15
      <4>5. \A u \in Threads : Runs(u, i) =>
               /\ th[u].pc = "post" /\ inv[i].task = "awaiting"
               /\ inv[i].completedEpoch # inv[i].epoch
        BY <1>5, <4>1 DEF TaskOK, WakeOK
      <4>6. WakeOK(i, s)'
        <5>1. s = "Running" => \E u \in Threads : Runs(u, i)'
          BY <4>1, <4>4 DEF TaskOK, WakeOK
        <5>2. s = "Suspended" => inv[i].completedEpoch # inv[i].epoch
          BY <4>1 DEF TaskOK, WakeOK
        <5> QED
          BY <1>0, <1>15, <3>2, <4>1, <4>4, <4>5, <5>1, <5>2 DEF WakeOK
      <4> QED
        BY <4>2, <4>3, <4>6 DEF TaskOK
    <3>5. BoxLive(c)'
      BY <1>4, <1>15, <3>1, SameBoxLive
    <3> QED
      BY <3>4, <3>5
  <2>3. SameContents /\ \A c \in Invocations : box'[c] = box[c]
    BY <1>15 DEF SameContents
  <2>4. inv'[i].readyEpoch <= inv'[i].epoch /\ inv'[i].completedEpoch <= inv'[i].epoch
    BY <1>8, <1>15
  <2>5. \A j \in Invocations : items'[j] = items[j]
    BY <1>0
  <2> QED
    BY Zenon, <1>0, <1>3, <1>4, <1>11, <1>15, <2>1, <2>2, <2>3, <2>4, <2>5, IdleFacts, TokenLive
<1> QED
  BY <1>9, <1>13, <1>14, <1>15

-----------------------------------------------------------------------------
(* What leaves the mailboxes.                                              *)

\* Thread t takes the invocations that evs name out of mailbox b, which becomes
\* m, when the mailboxes were bx and the invocation objects v.
Takeout(bx, v, b, m, evs, t, rec) ==
    /\ box' = [bx EXCEPT ![b] = m]
    /\ th' = [th EXCEPT ![t] = rec]
    /\ calls' = calls
    /\ sched'.cancelling = sched.cancelling
    /\ \A i \in Invocations :
          /\ inv'[i].home = v[i].home /\ inv'[i].ticket = v[i].ticket
          /\ inv'[i].submitted = v[i].submitted
          /\ inv'[i].gen = IF i = m.active /\ v[i].gen = 0 THEN m.generation ELSE v[i].gen
          /\ inv'[i].settledAt = IF i \in EventInvs(evs) THEN sched.accepted
                                                         ELSE v[i].settledAt
    /\ Takes(bx[b], evs, m)
    /\ Within(m.pending, bx[b].pending)
    /\ rec.events = th[t].events \o evs
    /\ th[t].events # <<>> => th[t].request = None
    /\ \/ /\ m.active = None
          /\ m.generation = bx[b].generation
          /\ bx[b].active # None => m.pending = <<>> \/ sched.cancelling
       \/ /\ m.active # None /\ v[m.active].gen = 0
          /\ m.generation = bx[b].generation + 1 /\ ~sched.cancelling
          /\ rec.request = m.active
       \/ /\ m.active # None /\ m.active = bx[b].active
          /\ m.generation = bx[b].generation

\* The mailboxes bx and invocations v that a takeout starts from.
Base(bx, v) ==
    /\ bx \in [Invocations -> MailboxType] /\ v \in [Invocations -> InvocationType]
    /\ HomeInv(bx, v)
    /\ \A b \in Invocations : \A n \in DOMAIN bx[b].pending : v[bx[b].pending[n]].gen = 0

\* What leaves is the active invocation or has no generation.
TakenOK(bx, v, b, m, gone) ==
    /\ \A i \in gone : /\ i \in Invocations /\ v[i].home = b /\ i # m.active
                       /\ v[i].gen > 0 => i = bx[b].active
    /\ m.active # None => m.active \in Invocations /\ v[m.active].home = b
    /\ bx[b].active # None =>
          /\ bx[b].active \in Invocations /\ v[bx[b].active].gen > 0
          /\ bx[b].active = m.active \/ bx[b].active \in gone
    /\ m.active # None /\ m.active # bx[b].active =>
          \E n \in DOMAIN bx[b].pending : m.active = bx[b].pending[n]
    /\ \A n \in DOMAIN m.pending : m.pending[n] \in Invocations

\* A takeout is of this kind.
LEMMA TakeoutFacts ==
    ASSUME NEW bx, NEW v, Base(bx, v), NEW b \in Invocations, NEW m \in MailboxType,
           NEW evs \in Seq(EventType), NEW t \in Threads, NEW rec,
           Takeout(bx, v, b, m, evs, t, rec)
    PROVE  TakenOK(bx, v, b, m, EventInvs(evs))
<1>1. /\ bx[b] \in MailboxType /\ bx[b].pending \in Seq(Invocations)
      /\ bx[b].active \in Invocations \cup {None} /\ m.active \in Invocations \cup {None}
      /\ m.pending \in Seq(Invocations)
  BY DEF Base, MailboxType
<1>2. /\ EventInvs(evs) \subseteq Content(bx[b])
      /\ Content(m) = Content(bx[b]) \ EventInvs(evs)
  BY DEF Takeout, Takes
<1>3. ASSUME NEW i \in Content(bx[b])
      PROVE  /\ i \in Invocations /\ v[i].home = b
             /\ \/ i = bx[b].active /\ v[i].gen > 0
                \/ v[i].gen = 0 /\ \E n \in DOMAIN bx[b].pending : i = bx[b].pending[n]
  BY <1>1 DEF Content, Base, HomeInv
<1>4. m.active # None => m.active \in Content(m)
  BY DEF Content
<1>5. \A n \in DOMAIN m.pending : /\ m.pending[n] \in Invocations
                                  /\ v[m.pending[n]].gen = 0
  BY <1>1 DEF Takeout, Within, Base
<1>6. bx[b].active # None => bx[b].active \in Content(bx[b])
  BY DEF Content
<1>7. bx[b].active # None => bx[b].active \in EventInvs(evs) \/ bx[b].active = m.active
  <2> SUFFICES ASSUME bx[b].active # None, bx[b].active \notin EventInvs(evs)
               PROVE  bx[b].active = m.active
    OBVIOUS
  <2>1. bx[b].active \in Content(m) /\ v[bx[b].active].gen > 0
    BY <1>2, <1>6 DEF Base, HomeInv
  <2> QED
    BY <1>5, <2>1 DEF Content
<1>8. ASSUME NEW i \in EventInvs(evs)
      PROVE  /\ i \in Invocations /\ v[i].home = b /\ i # m.active
             /\ v[i].gen > 0 => i = bx[b].active
  BY <1>2, <1>3, <1>4
<1>9. m.active # None => m.active \in Invocations /\ v[m.active].home = b
  BY <1>2, <1>3, <1>4
<1>10. m.active # None /\ m.active # bx[b].active =>
          \E n \in DOMAIN bx[b].pending : m.active = bx[b].pending[n]
  BY <1>2, <1>3, <1>4
<1>11. bx[b].active # None => bx[b].active \in Invocations /\ v[bx[b].active].gen > 0
  BY <1>1 DEF Base, HomeInv
<1> QED
  BY <1>5, <1>7, <1>8, <1>9, <1>10, <1>11 DEF TakenOK

\* The generation that a takeout gives.
LEMMA TakeoutGen ==
    ASSUME NEW bx, NEW v, Base(bx, v), NEW b \in Invocations, NEW m \in MailboxType,
           NEW evs \in Seq(EventType), NEW t \in Threads, NEW rec,
           Takeout(bx, v, b, m, evs, t, rec), NEW i \in Invocations
    PROVE  /\ v[i].gen \in Nat /\ v[i].ticket \in Nat /\ v[i].settledAt \in Nat
           /\ bx[b].generation \in Nat
           /\ v[i].home = b => v[i].gen <= bx[b].generation
           /\ \/ inv'[i].gen = v[i].gen
              \/ /\ i = m.active /\ v[i].gen = 0 /\ rec.request = i /\ v[i].home = b
                 /\ inv'[i].gen = bx[b].generation + 1 /\ ~sched.cancelling
                 /\ m.generation = bx[b].generation + 1
<1>1. v[i] \in InvocationType /\ bx[b] \in MailboxType /\ b # None
  BY DEF Base
<1>2. /\ v[i].gen \in Nat /\ v[i].ticket \in Nat /\ v[i].settledAt \in Nat
      /\ bx[b].generation \in Nat
  BY Zenon, <1>1 DEF InvocationType, MailboxType
<1>3. v[i].home = b => v[i].gen <= bx[b].generation
  BY <1>1 DEF Base, HomeInv
<1>4. bx[b].active # None => v[bx[b].active].gen > 0
  BY DEF Base, HomeInv
<1>a. TakenOK(bx, v, b, m, EventInvs(evs))
  BY TakeoutFacts
<1>5. m.active # None => v[m.active].home = b
  BY <1>a DEF TakenOK
<1>6. inv'[i].gen = IF i = m.active /\ v[i].gen = 0 THEN m.generation ELSE v[i].gen
  BY DEF Takeout
<1>7. CASE i = m.active /\ v[i].gen = 0
  <2>1. m.active # None /\ m.active # bx[b].active
    BY <1>4, <1>7
  <2>2. /\ m.generation = bx[b].generation + 1 /\ ~sched.cancelling
        /\ rec.request = m.active
    BY <2>1 DEF Takeout
  <2> QED
    BY <1>2, <1>3, <1>5, <1>6, <1>7, <2>1, <2>2
<1>8. CASE ~(i = m.active /\ v[i].gen = 0)
  BY <1>2, <1>3, <1>6, <1>8
<1> QED
  BY <1>7, <1>8

\* What Top says of the queue behind the last invocation that has left.
LEMMA QueuedLater ==
    ASSUME NEW bx, NEW v, NEW last, Top(bx, v, last),
           NEW i \in Invocations, NEW b \in Invocations, v[i].home = b, v[i].gen > 0,
           v[i].gen = bx[b].generation, bx[b].active # i, v[i].settledAt > 0,
           ~sched.cancelling, NEW n \in DOMAIN bx[b].pending
    PROVE  v[bx[b].pending[n]].ticket > v[i].settledAt
BY Zenon DEF Top

\* A takeout keeps the order of the generations.
LEMMA TakeoutTop ==
    ASSUME NEW bx, NEW v, Base(bx, v), NEW b \in Invocations, NEW m \in MailboxType,
           NEW evs \in Seq(EventType), NEW t \in Threads, NEW rec,
           Takeout(bx, v, b, m, evs, t, rec),
           NEW last \in Nat, sched.accepted \in Nat, sched.accepted <= last,
           sched'.accepted = last, Top(bx, v, last)
    PROVE  TopInv'
<1> DEFINE gone == EventInvs(evs)
<1>0. /\ \A c \in Invocations : box'[c] = IF c = b THEN m ELSE bx[c]
      /\ sched'.cancelling = sched.cancelling
      /\ \A i \in Invocations :
          /\ inv'[i].home = v[i].home /\ inv'[i].ticket = v[i].ticket
          /\ inv'[i].settledAt = IF i \in gone THEN sched.accepted ELSE v[i].settledAt
  BY DEF Takeout, Base
<1>f. TakenOK(bx, v, b, m, gone)
  BY TakeoutFacts
<1> HIDE DEF gone
<1>1. ASSUME NEW c \in Invocations, box'[c].active # None
      PROVE  inv'[box'[c].active].gen = box'[c].generation
  <2>1. CASE c # b
    <3>1. box'[c] = bx[c] /\ bx[c].active \in Invocations /\ bx[c].active # None
      BY Zenon, <1>0, <1>1, <2>1 DEF Base, MailboxType
    <3>2. v[bx[c].active].gen > 0 /\ v[bx[c].active].gen = bx[c].generation
      BY <3>1 DEF Base, HomeInv, Top
    <3>3. inv'[bx[c].active].gen = v[bx[c].active].gen
      BY <3>1, <3>2 DEF Takeout
    <3> QED
      BY <3>1, <3>2, <3>3
  <2>2. CASE c = b
    <3>1. box'[c] = m /\ m.active # None /\ m.active \in Invocations
      BY <1>0, <1>1, <1>f, <2>2 DEF TakenOK
    <3>2. inv'[m.active].gen = IF v[m.active].gen = 0 THEN m.generation ELSE v[m.active].gen
      BY <3>1 DEF Takeout
    <3>3. CASE v[m.active].gen = 0
      BY <3>1, <3>2, <3>3
    <3>4. CASE v[m.active].gen # 0
      <4>1. m.active = bx[b].active /\ m.generation = bx[b].generation
        BY Zenon, <3>1, <3>4 DEF Takeout
      <4> QED
        BY <3>1, <3>2, <3>4, <4>1 DEF Top
    <3> QED
      BY <3>3, <3>4
  <2> QED
    BY <2>1, <2>2
<1>2. ASSUME NEW i \in Invocations
      PROVE  inv'[i].settledAt <= last
  <2>1. v[i].settledAt <= last
    BY DEF Top
  <2> QED
    BY Zenon, <1>0, <2>1
<1>3. ASSUME NEW i \in Invocations, NEW c \in Invocations,
             inv'[i].home = c, inv'[i].gen > 0, inv'[i].gen = box'[c].generation,
             box'[c].active # i, inv'[i].settledAt > 0, ~sched.cancelling,
             NEW n \in DOMAIN box'[c].pending
      PROVE  inv'[box'[c].pending[n]].ticket > inv'[i].settledAt
  <2>g. /\ v[i].gen \in Nat /\ v[i].settledAt \in Nat /\ bx[b].generation \in Nat
        /\ v[i].home = b => v[i].gen <= bx[b].generation
        /\ \/ inv'[i].gen = v[i].gen
           \/ i = m.active /\ v[i].home = b
    BY TakeoutGen
  <2>1. CASE c # b
    <3>1. /\ box'[c] = bx[c] /\ v[i].home = c /\ i \notin gone
          /\ inv'[i].gen = v[i].gen /\ inv'[i].settledAt = v[i].settledAt
      BY Zenon, <1>0, <1>3, <1>f, <2>1, <2>g DEF TakenOK
    <3>2. v[bx[c].pending[n]].ticket > v[i].settledAt
      BY Zenon, <1>3, <3>1 DEF Top
    <3>3. bx[c].pending[n] \in Invocations
      BY <1>3, <3>1 DEF Base, MailboxType
    <3> QED
      BY <1>0, <3>1, <3>2, <3>3
  <2>2. CASE c = b
    <3>1. /\ box'[c] = m /\ v[i].home = b /\ m.active # i
          /\ inv'[i].gen = v[i].gen /\ m.pending[n] \in Invocations
      BY Zenon, <1>0, <1>3, <1>f, <2>2, <2>g DEF TakenOK
    <3>2. m.generation = bx[b].generation
      BY <1>3, <3>1, <2>g DEF Takeout
    <3>3. n \in DOMAIN m.pending /\ m.pending # <<>>
      <4>1. m.pending \in Seq(Invocations) /\ n \in DOMAIN m.pending
        BY <1>3, <3>1 DEF MailboxType
      <4> QED
        BY <4>1
    <3>4. i # bx[b].active
      <4> SUFFICES ASSUME i = bx[b].active
                   PROVE  FALSE
        OBVIOUS
      <4>1. i # None /\ m.active # bx[b].active
        BY <3>1
      <4>2. CASE m.active = None
        BY <1>3, <3>3, <4>1, <4>2 DEF Takeout
      <4>3. CASE m.active # None
        <5>1. m.generation = bx[b].generation + 1
          BY Zenon, <4>1, <4>3 DEF Takeout
        <5> QED
          BY ONLY <2>g, <3>2, <5>1
      <4> QED
        BY <4>2, <4>3
    <3>5. i \notin gone
      BY <1>3, <1>f, <3>1, <3>4 DEF TakenOK
    <3>6. PICK l \in DOMAIN bx[b].pending : m.pending[n] = bx[b].pending[l]
      BY <3>3 DEF Takeout, Within
    <3>7. v[bx[b].pending[l]].ticket > v[i].settledAt
      <4>1. v[i].gen > 0 /\ v[i].gen = bx[b].generation /\ v[i].settledAt > 0
        BY Zenon, <1>0, <1>3, <3>1, <3>2, <3>5
      <4> QED
        BY Zenon, <1>3, <3>1, <3>4, <4>1, QueuedLater
    <3> QED
      BY <1>0, <3>1, <3>5, <3>6, <3>7
  <2> QED
    BY <2>1, <2>2
<1> QED
  BY Zenon, <1>0, <1>1, <1>2, <1>3 DEF TopInv, Top

\* Thread t gets the events evs behind its own.
Appended(t, evs, rec) ==
    LET l == Len(th[t].events) IN
    /\ \A u \in Threads : u # t => th'[u] = th[u]
    /\ th'[t].events = rec.events /\ th'[t].request = rec.request
    /\ l \in Nat /\ DOMAIN th[t].events = 1..l
    /\ \A n \in DOMAIN rec.events :
          \/ n \in DOMAIN th[t].events /\ rec.events[n] = th[t].events[n]
          \/ n - l \in DOMAIN evs /\ rec.events[n] = evs[n - l] /\ n > l
    /\ \A n \in DOMAIN th[t].events :
          n \in DOMAIN rec.events /\ rec.events[n] = th[t].events[n]
    /\ \A n \in DOMAIN evs : n + l \in DOMAIN rec.events /\ rec.events[n + l] = evs[n]

\* What the threads deliver after a takeout.
LEMMA TakeoutEvents ==
    ASSUME th \in [Threads -> ThreadType], NEW evs \in Seq(EventType),
           NEW t \in Threads, NEW rec, th' = [th EXCEPT ![t] = rec],
           rec.events = th[t].events \o evs
    PROVE  Appended(t, evs, rec)
<1> DEFINE e == th[t].events
           l == Len(e)
           f == rec.events
<1>1. e \in Seq(EventType)
  BY DEF ThreadType
<1>2. th'[t] = rec /\ \A u \in Threads : u # t => th'[u] = th[u]
  OBVIOUS
<1>3. f = e \o evs
  OBVIOUS
<1> HIDE DEF e, f
<1>4. l \in Nat /\ Len(evs) \in Nat /\ DOMAIN e = 1..l /\ DOMAIN evs = 1..Len(evs)
  BY <1>1
<1>5. /\ DOMAIN f = 1..(l + Len(evs))
      /\ \A j \in 1..l + Len(evs) : f[j] = IF j <= l THEN e[j] ELSE evs[j - l]
  <2>1. f \in Seq(EventType) /\ Len(f) = l + Len(evs)
    BY <1>1, <1>3
  <2> QED
    BY <1>1, <1>3, <2>1, ConcatProperties
<1> HIDE DEF l
<1>6. \A n \in DOMAIN f : \/ n \in DOMAIN e /\ f[n] = e[n]
                          \/ n - l \in DOMAIN evs /\ f[n] = evs[n - l] /\ n > l
  <2> SUFFICES ASSUME NEW n \in 1..(l + Len(evs))
               PROVE  \/ n \in DOMAIN e /\ f[n] = e[n]
                      \/ n - l \in DOMAIN evs /\ f[n] = evs[n - l] /\ n > l
    BY <1>5
  <2>1. CASE n <= l
    BY <1>4, <1>5, <2>1
  <2>2. CASE ~(n <= l)
    <3>1. n - l \in 1..Len(evs) /\ n > l
      BY <1>4, <2>2
    <3> QED
      BY <1>4, <1>5, <2>2, <3>1
  <2> QED
    BY <2>1, <2>2
<1>7. \A n \in DOMAIN e : n \in DOMAIN f /\ f[n] = e[n]
  BY <1>4, <1>5
<1>8. ASSUME NEW n \in DOMAIN evs
      PROVE  n + l \in DOMAIN f /\ f[n + l] = evs[n]
  <2>1. n + l \in 1..(l + Len(evs)) /\ ~(n + l <= l) /\ (n + l) - l = n
    BY <1>4
  <2> QED
    BY <1>5, <2>1
<1> QED
  BY Zenon, <1>2, <1>4, <1>6, <1>7, <1>8 DEF e, f, l, Appended

\* A takeout keeps the successor of an undelivered result where it is.
LEMMA TakeoutSucc ==
    ASSUME th \in [Threads -> ThreadType],
           NEW bx, NEW v, Base(bx, v), NEW b \in Invocations, NEW m \in MailboxType,
           NEW evs \in Seq(EventType), NEW t \in Threads, NEW rec,
           Takeout(bx, v, b, m, evs, t, rec),
           NEW last, Top(bx, v, last), Succ(v)
    PROVE  SuccInv'
<1> DEFINE gone == EventInvs(evs)
<1> SUFFICES ASSUME NEW i \in Invocations, NEW j \in Invocations,
                    inv'[i].gen > 0, inv'[i].home = inv'[j].home,
                    inv'[j].gen = inv'[i].gen + 1,
                    inv'[i].ticket < inv'[j].ticket, inv'[j].ticket <= inv'[i].settledAt
             PROVE  \E u \in Threads : th'[u].request = j /\ InEvents(i, u)'
  BY DEF SuccInv, Succ
<1>0. /\ inv'[i].home = v[i].home /\ inv'[i].ticket = v[i].ticket
      /\ inv'[j].home = v[j].home /\ inv'[j].ticket = v[j].ticket
      /\ i \notin gone => inv'[i].settledAt = v[i].settledAt
      /\ th' = [th EXCEPT ![t] = rec] /\ rec.events = th[t].events \o evs
      /\ th[t].events # <<>> => th[t].request = None
  BY DEF Takeout
<1>f. TakenOK(bx, v, b, m, gone)
  BY TakeoutFacts
<1>gi. /\ v[i].gen \in Nat /\ v[i].ticket \in Nat /\ v[i].settledAt \in Nat
       /\ bx[b].generation \in Nat
       /\ v[i].home = b => v[i].gen <= bx[b].generation
       /\ \/ inv'[i].gen = v[i].gen
          \/ /\ i = m.active /\ v[i].gen = 0 /\ rec.request = i /\ v[i].home = b
             /\ inv'[i].gen = bx[b].generation + 1 /\ ~sched.cancelling
  BY TakeoutGen
<1>gj. /\ v[j].gen \in Nat /\ v[j].ticket \in Nat
       /\ v[j].home = b => v[j].gen <= bx[b].generation
       /\ \/ inv'[j].gen = v[j].gen
          \/ /\ j = m.active /\ v[j].gen = 0 /\ rec.request = j /\ v[j].home = b
             /\ inv'[j].gen = bx[b].generation + 1 /\ ~sched.cancelling
  BY TakeoutGen
<1>e. Appended(t, evs, rec)
  BY Zenon, <1>0, TakeoutEvents
<1>h. v[j].home = v[i].home
  BY Zenon, <1>0
<1>d. i \in gone => InEvents(i, t)'
  <2> SUFFICES ASSUME i \in gone
               PROVE  InEvents(i, t)'
    OBVIOUS
  <2>1. PICK n \in DOMAIN evs : evs[n].inv = i
    BY DEF EventInvs
  <2> QED
    BY <1>e, <2>1 DEF InEvents, Appended
<1>1. CASE inv'[i].gen # v[i].gen
  <2>1. v[j].home = b /\ inv'[i].gen = bx[b].generation + 1
    BY <1>1, <1>gi, <1>h
  <2>2. inv'[j].gen <= bx[b].generation + 1
    BY <1>gi, <1>gj, <2>1
  <2> QED
    BY <1>gi, <2>1, <2>2
<1>2. CASE inv'[i].gen = v[i].gen /\ inv'[j].gen # v[j].gen
  <2>1. /\ j = m.active /\ v[j].gen = 0 /\ rec.request = j /\ v[i].home = b
        /\ v[i].gen = bx[b].generation /\ ~sched.cancelling /\ m.active # bx[b].active
        /\ m.active # None
    <3>1. /\ j = m.active /\ v[j].gen = 0 /\ rec.request = j /\ v[j].home = b
          /\ inv'[j].gen = bx[b].generation + 1 /\ ~sched.cancelling
      BY <1>2, <1>gj
    <3>2. v[i].gen = bx[b].generation
      <4>1. v[i].gen + 1 = bx[b].generation + 1
        BY Zenon, <1>0, <1>2, <3>1
      <4>2. v[i].gen \in Nat /\ bx[b].generation \in Nat
        BY Zenon, <1>gi
      <4> QED
        BY ONLY <4>1, <4>2
    <3>3. m.active # bx[b].active /\ m.active # None
      BY <1>f, <3>1 DEF TakenOK
    <3> QED
      BY <1>h, <3>1, <3>2, <3>3
  <2>2. CASE i \in gone
    BY <1>d, <1>e, <2>1, <2>2 DEF Appended
  <2>3. CASE i \notin gone
    <3>1. i # bx[b].active
      BY <1>f, <2>1, <2>3 DEF TakenOK
    <3>2. PICK n \in DOMAIN bx[b].pending : j = bx[b].pending[n]
      BY <1>f, <2>1 DEF TakenOK
    <3>3. v[i].settledAt > 0 /\ v[i].gen > 0
      <4>1. v[i].ticket < v[j].ticket /\ v[j].ticket <= v[i].settledAt
        BY <1>0, <2>3
      <4> QED
        BY <1>2, <1>gi, <1>gj, <4>1
    <3>4. v[j].ticket > v[i].settledAt
      <4>1. v[bx[b].pending[n]].ticket > v[i].settledAt
        BY Zenon, <2>1, <3>1, <3>3, QueuedLater
      <4> QED
        BY Zenon, <3>2, <4>1
    <3> QED
      <4>1. v[j].ticket <= v[i].settledAt
        BY Zenon, <1>0, <2>3
      <4>2. v[j].ticket \in Nat /\ v[i].settledAt \in Nat
        BY Zenon, <1>gi, <1>gj
      <4> QED
        BY ONLY <3>4, <4>1, <4>2
  <2> QED
    BY <2>2, <2>3
<1>3. CASE inv'[i].gen = v[i].gen /\ inv'[j].gen = v[j].gen
  <2>1. i \notin gone
    <3> SUFFICES ASSUME i \in gone
                 PROVE  FALSE
      OBVIOUS
    <3>1. v[i].home = b /\ i = bx[b].active /\ i # None
      BY <1>3, <1>f DEF TakenOK
    <3>2. v[i].gen = bx[b].generation
      BY <3>1 DEF Top
    <3>3. inv'[j].gen = bx[b].generation + 1 /\ v[j].home = b
      BY <1>3, <1>h, <3>1, <3>2
    <3> QED
      BY <1>3, <1>gi, <1>gj, <3>3
  <2>2. PICK u \in Threads : th[u].request = j /\ InEvents(i, u)
    BY Zenon, <1>0, <1>3, <2>1 DEF Succ
  <2>3. u # t
    <3>1. th[u].events # <<>>
      <4>1. th[u].events \in Seq(EventType)
        BY DEF ThreadType
      <4> QED
        BY <2>2, <4>1 DEF InEvents
    <3> QED
      BY <1>0, <2>2, <3>1
  <2> QED
    <3>1. th'[u] = th[u]
      BY <1>e, <2>3 DEF Appended
    <3>2. InEvents(i, u)'
      BY <2>2, <3>1 DEF InEvents
    <3> QED
      BY <2>2, <3>1, <3>2
<1> QED
  BY <1>1, <1>2, <1>3

\* What the mailboxes hold after a takeout.
HeldAfter(bx, v, b, gone) ==
    /\ gone \subseteq HeldSet(bx)
    /\ HeldSet(box)' = HeldSet(bx) \ gone
    /\ \A i \in gone : i \in Invocations /\ v[i].home = b

\* What the mailboxes hold once the invocations of evs have left b.
LEMMA TakeoutHeld ==
    ASSUME NEW bx, NEW v, Base(bx, v), NEW b \in Invocations, NEW m \in MailboxType,
           NEW evs \in Seq(EventType), box' = [bx EXCEPT ![b] = m],
           Takes(bx[b], evs, m)
    PROVE  HeldAfter(bx, v, b, EventInvs(evs))
<1> DEFINE gone == EventInvs(evs)
<1>1. \A c \in Invocations : box'[c] = IF c = b THEN m ELSE bx[c]
  BY DEF Base
<1>2. ASSUME NEW c \in Invocations, NEW i \in Content(bx[c])
      PROVE  i \in Invocations /\ v[i].home = c
  <2>1. bx[c].active \in Invocations \cup {None} /\ bx[c].pending \in Seq(Invocations)
    BY Zenon DEF Base, MailboxType
  <2> QED
    BY <2>1 DEF Content, Base, HomeInv
<1>3. gone \subseteq Content(bx[b]) /\ Content(m) = Content(bx[b]) \ gone
  BY DEF Takes
<1>4. \A i \in gone : i \in Invocations /\ v[i].home = b
  BY <1>2, <1>3
<1> HIDE DEF gone
<1>5. gone \subseteq HeldSet(bx)
  BY <1>3, <1>4 DEF HeldSet
<1>6. HeldSet(box)' = {i \in Invocations : \E c \in Invocations : i \in Content(box'[c])}
  BY DEF HeldSet
<1>7. ASSUME NEW i \in Invocations, NEW c \in Invocations, i \in Content(box'[c])
      PROVE  i \in Content(bx[c]) /\ i \notin gone
  <2>1. CASE c = b
    BY <1>1, <1>3, <1>7, <2>1
  <2>2. CASE c # b
    BY <1>1, <1>2, <1>4, <1>7, <2>2
  <2> QED
    BY <2>1, <2>2
<1>8. ASSUME NEW i \in Invocations, NEW c \in Invocations, i \in Content(bx[c]), i \notin gone
      PROVE  i \in Content(box'[c])
  BY <1>1, <1>3, <1>8
<1>9. HeldSet(box)' = HeldSet(bx) \ gone
  BY <1>6, <1>7, <1>8 DEF HeldSet
<1> QED
  BY Zenon, <1>4, <1>5, <1>9 DEF gone, HeldAfter

\* A takeout moves invocations from the mailbox to the thread's events.
LEMMA TakeoutPlace ==
    ASSUME th \in [Threads -> ThreadType],
           NEW bx, NEW v, Base(bx, v), NEW b \in Invocations, NEW m \in MailboxType,
           NEW evs \in Seq(EventType), NEW t \in Threads, NEW rec,
           Takeout(bx, v, b, m, evs, t, rec), Place(HeldSet(bx), v)
    PROVE  PlaceInv'
<1> DEFINE gone == EventInvs(evs)
           H == HeldSet(bx)
           l == Len(th[t].events)
<1>0. /\ \A i \in Invocations : inv'[i].submitted = v[i].submitted
      /\ th' = [th EXCEPT ![t] = rec] /\ rec.events = th[t].events \o evs
      /\ calls' = calls /\ box' = [bx EXCEPT ![b] = m] /\ Takes(bx[b], evs, m)
  BY DEF Takeout
<1>1. /\ gone \subseteq H /\ HeldSet(box)' = H \ gone
      /\ \A i \in gone : i \in Invocations /\ v[i].home = b
  <2>1. HeldAfter(bx, v, b, gone)
    BY Zenon, <1>0, TakeoutHeld
  <2> QED
    BY <2>1 DEF HeldAfter
<1>2. \A i \in gone : v[i].submitted
  BY <1>1 DEF Base, HomeInv
<1>e. Appended(t, evs, rec)
  BY Zenon, <1>0, TakeoutEvents
<1>3. \A n \in DOMAIN evs : evs[n].inv \in gone
  BY DEF EventInvs
<1>4. \A i \in gone : \E n \in DOMAIN evs : evs[n].inv = i
  BY DEF EventInvs
<1>5. \A x, y \in DOMAIN evs : x # y => evs[x].inv # evs[y].inv
  BY <1>0 DEF Takes
<1>6. /\ evs \in Seq(EventType) /\ DOMAIN evs \subseteq Nat
      /\ \A u \in Threads : DOMAIN th[u].events \subseteq Nat
      /\ \A u \in Threads : \A n \in DOMAIN th[u].events :
            th[u].events[n].inv \in Invocations
  <2>1. \A u \in Threads : th[u].events \in Seq(EventType)
    BY DEF ThreadType
  <2>2. \A e \in EventType : e.inv \in Invocations
    BY DEF EventType
  <2>3. ASSUME NEW u \in Threads
        PROVE  /\ DOMAIN th[u].events \subseteq Nat
               /\ \A n \in DOMAIN th[u].events : th[u].events[n].inv \in Invocations
    BY <2>1, <2>2
  <2> QED
    BY <2>3
<1> HIDE DEF gone, H
<1>7. Place(H, v)
  BY DEF H

\* An event of the new state is an old one of the same thread or one of evs.
<1>8. ASSUME NEW u \in Threads, NEW n \in DOMAIN th'[u].events
      PROVE  \/ n \in DOMAIN th[u].events /\ th'[u].events[n] = th[u].events[n]
             \/ u = t /\ n - l \in DOMAIN evs /\ th'[u].events[n] = evs[n - l] /\ n \in Int
  <2>1. CASE u # t
    <3>1. th'[u] = th[u]
      BY <1>e, <2>1 DEF Appended
    <3> QED
      BY <1>8, <3>1
  <2>2. CASE u = t
    <3>1. rec.events \in Seq(EventType) /\ th'[t].events = rec.events
      <4>1. th[t].events \in Seq(EventType)
        BY DEF ThreadType
      <4> QED
        BY <1>0, <1>e, <4>1 DEF Appended
    <3>2. n \in DOMAIN rec.events /\ n \in Int
      BY <1>8, <2>2, <3>1
    <3> QED
      BY Zenon, <1>e, <2>2, <3>1, <3>2 DEF Appended
  <2> QED
    BY <2>1, <2>2
<1>9. ASSUME NEW i \in Invocations
      PROVE  /\ calls'[i] \in {0, 1}
             /\ ~inv'[i].submitted => calls'[i] = 0
             /\ inv'[i].submitted => \/ calls'[i] = 1
                                     \/ i \in H \ gone
                                     \/ \E u \in Threads : InEvents(i, u)'
             /\ i \in H \ gone => calls'[i] = 0
  <2>1. i \in gone => InEvents(i, t)'
    <3> SUFFICES ASSUME i \in gone
                 PROVE  InEvents(i, t)'
      OBVIOUS
    <3>1. PICK n \in DOMAIN evs : evs[n].inv = i
      BY <1>4
    <3> QED
      BY <1>e, <3>1 DEF InEvents, Appended
  <2>2. ASSUME NEW u \in Threads, InEvents(i, u)
        PROVE  InEvents(i, u)'
    <3>1. CASE u = t
      <4>1. PICK n \in DOMAIN th[t].events : th[t].events[n].inv = i
        BY <2>2, <3>1 DEF InEvents
      <4>2. n \in DOMAIN th'[t].events /\ th'[t].events[n] = th[t].events[n]
        BY Zenon, <1>e, <4>1 DEF Appended
      <4> QED
        BY Zenon, <3>1, <4>1, <4>2 DEF InEvents
    <3>2. CASE u # t
      <4>1. th'[u] = th[u]
        BY <1>e, <3>2 DEF Appended
      <4> QED
        BY <2>2, <4>1 DEF InEvents
    <3> QED
      BY <3>1, <3>2
  <2>3. /\ calls[i] \in {0, 1}
        /\ ~v[i].submitted => calls[i] = 0
        /\ v[i].submitted => \/ calls[i] = 1
                             \/ i \in H
                             \/ \E u \in Threads : InEvents(i, u)
        /\ i \in H => calls[i] = 0
    BY <1>7 DEF Place
  <2> QED
    BY <1>0, <2>1, <2>2, <2>3
<1>10. ASSUME NEW u \in Threads, NEW n \in DOMAIN th'[u].events, NEW i,
              i = th'[u].events[n].inv
       PROVE  /\ inv'[i].submitted /\ calls'[i] = 0 /\ i \notin H \ gone
              /\ \A w \in Threads : \A k \in DOMAIN th'[w].events :
                    th'[w].events[k].inv = i => w = u /\ k = n
  <2>1. CASE n \in DOMAIN th[u].events /\ th'[u].events[n] = th[u].events[n]
    <3>1. /\ v[i].submitted /\ calls[i] = 0 /\ i \notin H /\ i \in Invocations
          /\ \A w \in Threads : \A k \in DOMAIN th[w].events :
                th[w].events[k].inv = i => w = u /\ k = n
      BY <1>6, <1>7, <1>10, <2>1 DEF Place
    <3>2. ASSUME NEW w \in Threads, NEW k \in DOMAIN th'[w].events,
                 th'[w].events[k].inv = i
          PROVE  w = u /\ k = n
      <4>1. k \in DOMAIN th[w].events /\ th'[w].events[k] = th[w].events[k]
        BY Zenon, <1>1, <1>3, <1>8, <3>1, <3>2
      <4> QED
        BY <3>1, <3>2, <4>1
    <3> QED
      BY <1>0, <3>1, <3>2
  <2>2. CASE u = t /\ n - l \in DOMAIN evs /\ th'[u].events[n] = evs[n - l] /\ n \in Int
    <3>1. i \in gone
      BY <1>3, <1>10, <2>2
    <3>2. v[i].submitted /\ i \in H /\ i \in Invocations /\ calls[i] = 0
      BY <1>1, <1>2, <1>7, <3>1 DEF Place
    <3>3. ASSUME NEW w \in Threads, NEW k \in DOMAIN th'[w].events,
                 th'[w].events[k].inv = i
          PROVE  w = u /\ k = n
      <4>1. ~(k \in DOMAIN th[w].events /\ th'[w].events[k] = th[w].events[k])
        BY <1>7, <3>2, <3>3 DEF Place
      <4>2. w = t /\ k - l \in DOMAIN evs /\ th'[w].events[k] = evs[k - l] /\ k \in Int
        BY <1>8, <4>1
      <4>3. k - l = n - l
        BY Zenon, <1>5, <1>10, <2>2, <3>3, <4>2
      <4>4. l \in Nat
        BY <1>e DEF Appended
      <4> QED
        BY <2>2, <4>2, <4>3, <4>4
    <3> QED
      BY <1>0, <3>1, <3>2, <3>3
  <2> QED
    BY <1>8, <2>1, <2>2
<1>11. Place(H \ gone, inv)'
  BY <1>9, <1>10 DEF Place
<1> QED
  BY <1>1, <1>11 DEF PlaceInv

-----------------------------------------------------------------------------
(* The counters.                                                           *)

\* The events of one critical section name as many invocations as there are events.
LEMMA EventsCount ==
    ASSUME NEW evs \in Seq(EventType),
           \A l, n \in DOMAIN evs : l # n => evs[l].inv # evs[n].inv
    PROVE  /\ IsFiniteSet(EventInvs(evs))
           /\ Cardinality(EventInvs(evs)) = Len(evs)
<1> DEFINE n == Len(evs)
           G == EventInvs(evs)
           f == [k \in 1..n |-> evs[k].inv]
<1>1. n \in Nat /\ DOMAIN evs = 1..n
  OBVIOUS
<1>2. G = {evs[k].inv : k \in 1..n}
  BY <1>1 DEF EventInvs
<1> HIDE DEF n, G
<1>3. f \in [1..n -> G] /\ \A t \in G : \E s \in 1..n : f[s] = t
  BY <1>2
<1>4. \A a, b \in 1..n : f[a] = f[b] => a = b
  BY Zenon, <1>1
<1> HIDE DEF f
<1>5. f \in Bijection(1..n, G)
  BY <1>3, <1>4 DEF Bijection, Injection, Surjection, IsInjective
<1>6. ExistsBijection(1..n, G)
  BY <1>5 DEF ExistsBijection
<1>7. IsFiniteSet(G) /\ Cardinality(G) = n
  BY <1>1, <1>6, FS_NatBijection, FS_CountingElements
<1> QED
  BY <1>7 DEF n, G

\* Taking out G of H, and adding one, in the cardinalities.
LEMMA CardinalityDown ==
    ASSUME NEW H, NEW G, IsFiniteSet(H), G \subseteq H
    PROVE  /\ IsFiniteSet(H \ G) /\ Cardinality(H) \in Nat /\ Cardinality(G) \in Nat
           /\ Cardinality(H \ G) = Cardinality(H) - Cardinality(G)
<1>1. H \cap G = G
  OBVIOUS
<1>2. IsFiniteSet(G)
  BY FS_Subset
<1> QED
  BY Zenon, <1>1, <1>2, FS_Difference, FS_CardinalityType

\* decrement_pending in its effects.
LEMMA DecrementFacts ==
    ASSUME NEW s \in SchedType, NEW k \in Keys, NEW n \in Nat
    PROVE  LET d == DecrementPending(s, k, n) IN
           /\ d.pendingTasks = s.pendingTasks - n
           /\ MaxPendingPerPartition > 0 =>
                \A h \in Keys : d.partitionPending[h] =
                    IF h = k THEN s.partitionPending[h] - n ELSE s.partitionPending[h]
           /\ MaxPendingPerActor > 0 =>
                \A a \in Actors : d.actorPending[a] =
                    IF a = ActorOf[k] THEN s.actorPending[a] - n ELSE s.actorPending[a]
<1>1. s.actorPending \in [Actors -> Int] /\ s.partitionPending \in [Keys -> Int]
  BY DEF SchedType
<1> DEFINE d == DecrementPending(s, k, n)
           x == IF MaxPendingPerActor > 0 THEN s.actorPending[ActorOf[k]] - n
                                          ELSE s.actorPending[ActorOf[k]]
           y == IF MaxPendingPerPartition > 0 THEN s.partitionPending[k] - n
                                              ELSE s.partitionPending[k]
<1>2. /\ d.pendingTasks = s.pendingTasks - n
      /\ d.actorPending = [s.actorPending EXCEPT ![ActorOf[k]] = x]
      /\ d.partitionPending = [s.partitionPending EXCEPT ![k] = y]
  BY DEF DecrementPending, SchedType
<1> HIDE DEF d
<1>3. MaxPendingPerPartition > 0 =>
         \A h \in Keys : d.partitionPending[h] =
             IF h = k THEN s.partitionPending[h] - n ELSE s.partitionPending[h]
  BY <1>1, <1>2
<1>4. MaxPendingPerActor > 0 =>
         \A a \in Actors : d.actorPending[a] =
             IF a = ActorOf[k] THEN s.actorPending[a] - n ELSE s.actorPending[a]
  BY <1>1, <1>2
<1> QED
  BY <1>2, <1>3, <1>4 DEF d

\* increment_pending in its effects.
LEMMA IncrementFacts ==
    ASSUME NEW s \in SchedType, NEW i \in Invocations
    PROVE  LET d == IncrementPending(s, i) IN
           /\ d.pendingTasks = s.pendingTasks + 1
           /\ MaxPendingPerPartition > 0 =>
                \A h \in Keys : d.partitionPending[h] =
                    IF h = KeyOf[i] THEN s.partitionPending[h] + 1
                                    ELSE s.partitionPending[h]
           /\ MaxPendingPerActor > 0 =>
                \A a \in Actors : d.actorPending[a] =
                    IF a = ActorOf[KeyOf[i]] THEN s.actorPending[a] + 1
                                             ELSE s.actorPending[a]
<1>1. s.actorPending \in [Actors -> Int] /\ s.partitionPending \in [Keys -> Int]
  BY DEF SchedType
<1> DEFINE d == IncrementPending(s, i)
           k == KeyOf[i]
           x == IF MaxPendingPerActor > 0 THEN s.actorPending[ActorOf[k]] + 1
                                          ELSE s.actorPending[ActorOf[k]]
           y == IF MaxPendingPerPartition > 0 THEN s.partitionPending[k] + 1
                                              ELSE s.partitionPending[k]
<1>2. /\ d.pendingTasks = s.pendingTasks + 1
      /\ d.actorPending = [s.actorPending EXCEPT ![ActorOf[k]] = x]
      /\ d.partitionPending = [s.partitionPending EXCEPT ![k] = y]
  BY DEF IncrementPending, SchedType
<1> HIDE DEF d
<1>3. MaxPendingPerPartition > 0 =>
         \A h \in Keys : d.partitionPending[h] =
             IF h = k THEN s.partitionPending[h] + 1 ELSE s.partitionPending[h]
  BY <1>1, <1>2
<1>4. MaxPendingPerActor > 0 =>
         \A a \in Actors : d.actorPending[a] =
             IF a = ActorOf[k] THEN s.actorPending[a] + 1 ELSE s.actorPending[a]
  BY <1>1, <1>2
<1> QED
  BY <1>2, <1>3, <1>4 DEF d

\* The counters go down by what leaves a mailbox of key k.
LEMMA CountsDown ==
    ASSUME NEW H \in SUBSET Invocations, NEW G \in SUBSET H, NEW s \in SchedType,
           NEW k \in Keys, NEW n \in Nat, Counts(H, s), n = Cardinality(G),
           \A i \in G : KeyOf[i] = k
    PROVE  Counts(H \ G, DecrementPending(s, k, n))
<1> DEFINE d == DecrementPending(s, k, n)
           a0 == ActorOf[k]
<1>1. /\ d.pendingTasks = s.pendingTasks - n
      /\ MaxPendingPerPartition > 0 =>
           \A h \in Keys : d.partitionPending[h] =
               IF h = k THEN s.partitionPending[h] - n ELSE s.partitionPending[h]
      /\ MaxPendingPerActor > 0 =>
           \A a \in Actors : d.actorPending[a] =
               IF a = a0 THEN s.actorPending[a] - n ELSE s.actorPending[a]
  BY DecrementFacts
<1>2. IsFiniteSet(H) /\ s.pendingTasks = Cardinality(H)
  BY DEF Counts
<1>3. /\ IsFiniteSet(H \ G) /\ Cardinality(H) \in Nat
      /\ Cardinality(H \ G) = Cardinality(H) - n
  BY Zenon, <1>2, CardinalityDown
<1> HIDE DEF d
<1>4. MaxPendingPerPartition > 0 => \A h \in Keys :
         /\ d.partitionPending[h] = Cardinality(OfKey(H \ G, h))
         /\ d.partitionPending[h] <= MaxPendingPerPartition
  <2> SUFFICES ASSUME MaxPendingPerPartition > 0, NEW h \in Keys
               PROVE  /\ d.partitionPending[h] = Cardinality(OfKey(H \ G, h))
                      /\ d.partitionPending[h] <= MaxPendingPerPartition
    BY Zenon
  <2>1. /\ s.partitionPending[h] = Cardinality(OfKey(H, h))
        /\ s.partitionPending[h] <= MaxPendingPerPartition
    BY DEF Counts
  <2>2. IsFiniteSet(OfKey(H, h))
    BY <1>2, FS_Subset DEF OfKey
  <2>3. CASE h = k
    <3>1. OfKey(H \ G, h) = OfKey(H, h) \ G /\ G \subseteq OfKey(H, h)
      BY <2>3 DEF OfKey
    <3>2. /\ Cardinality(OfKey(H, h)) \in Nat
          /\ Cardinality(OfKey(H, h) \ G) = Cardinality(OfKey(H, h)) - n
      BY Zenon, <2>2, <3>1, CardinalityDown
    <3>3. d.partitionPending[h] = s.partitionPending[h] - n
      BY <1>1, <2>3
    <3>4. d.partitionPending[h] = Cardinality(OfKey(H \ G, h))
      BY Zenon, <2>1, <3>1, <3>2, <3>3
    <3>5. s.partitionPending[h] - n <= MaxPendingPerPartition
      BY <2>1, <3>2
    <3> QED
      BY <3>3, <3>4, <3>5
  <2>4. CASE h # k
    <3>1. OfKey(H \ G, h) = OfKey(H, h)
      BY <2>4 DEF OfKey
    <3>2. d.partitionPending[h] = s.partitionPending[h]
      BY <1>1, <2>4
    <3> QED
      BY <2>1, <3>1, <3>2
  <2> QED
    BY <2>3, <2>4
<1>5. MaxPendingPerActor > 0 => \A a \in Actors :
         /\ d.actorPending[a] = Cardinality(OfActor(H \ G, a))
         /\ d.actorPending[a] <= MaxPendingPerActor
  <2> SUFFICES ASSUME MaxPendingPerActor > 0, NEW a \in Actors
               PROVE  /\ d.actorPending[a] = Cardinality(OfActor(H \ G, a))
                      /\ d.actorPending[a] <= MaxPendingPerActor
    BY Zenon
  <2>1. /\ s.actorPending[a] = Cardinality(OfActor(H, a))
        /\ s.actorPending[a] <= MaxPendingPerActor
    BY DEF Counts
  <2>2. IsFiniteSet(OfActor(H, a))
    BY <1>2, FS_Subset DEF OfActor
  <2>3. CASE a = a0
    <3>1. OfActor(H \ G, a) = OfActor(H, a) \ G /\ G \subseteq OfActor(H, a)
      BY <2>3 DEF OfActor
    <3>2. /\ Cardinality(OfActor(H, a)) \in Nat
          /\ Cardinality(OfActor(H, a) \ G) = Cardinality(OfActor(H, a)) - n
      BY Zenon, <2>2, <3>1, CardinalityDown
    <3>3. d.actorPending[a] = s.actorPending[a] - n
      BY <1>1, <2>3
    <3>4. d.actorPending[a] = Cardinality(OfActor(H \ G, a))
      BY Zenon, <2>1, <3>1, <3>2, <3>3
    <3>5. s.actorPending[a] - n <= MaxPendingPerActor
      BY <2>1, <3>2
    <3> QED
      BY <3>3, <3>4, <3>5
  <2>4. CASE a # a0
    <3>1. OfActor(H \ G, a) = OfActor(H, a)
      BY <2>4 DEF OfActor
    <3>2. d.actorPending[a] = s.actorPending[a]
      BY <1>1, <2>4
    <3> QED
      BY <2>1, <3>1, <3>2
  <2> QED
    BY <2>3, <2>4
<1>6. /\ d.pendingTasks = Cardinality(H \ G)
      /\ MaxPendingTasks > 0 => d.pendingTasks <= MaxPendingTasks
  <2>1. MaxPendingTasks > 0 => s.pendingTasks <= MaxPendingTasks
    BY DEF Counts
  <2> QED
    BY <1>1, <1>2, <1>3, <2>1
<1>7. Counts(H \ G, d)
  BY Zenon, <1>3, <1>4, <1>5, <1>6 DEF Counts
<1> QED
  BY <1>7 DEF d

\* The counters go up by one for an admission, which pending_limit_exceeded
\* refuses at a limit.
LEMMA CountsUp ==
    ASSUME NEW H \in SUBSET Invocations, NEW i \in Invocations, i \notin H,
           NEW s \in SchedType, Counts(H, sched), ~PendingLimitExceeded(i),
           s.pendingTasks = sched.pendingTasks, s.actorPending = sched.actorPending,
           s.partitionPending = sched.partitionPending
    PROVE  Counts(H \cup {i}, IncrementPending(s, i))
<1> DEFINE d == IncrementPending(s, i)
           k == KeyOf[i]
           a0 == ActorOf[k]
           K == H \cup {i}
<1>1. /\ d.pendingTasks = s.pendingTasks + 1
      /\ MaxPendingPerPartition > 0 =>
           \A h \in Keys : d.partitionPending[h] =
               IF h = k THEN s.partitionPending[h] + 1 ELSE s.partitionPending[h]
      /\ MaxPendingPerActor > 0 =>
           \A a \in Actors : d.actorPending[a] =
               IF a = a0 THEN s.actorPending[a] + 1 ELSE s.actorPending[a]
  BY IncrementFacts
<1>2. IsFiniteSet(H) /\ s.pendingTasks = Cardinality(H)
  BY DEF Counts
<1>3. IsFiniteSet(K) /\ Cardinality(H) \in Nat /\ Cardinality(K) = Cardinality(H) + 1
  BY <1>2, FS_AddElement, FS_CardinalityType
<1>4. k \in Keys /\ a0 \in Actors
  OBVIOUS
<1>5. /\ MaxPendingTasks > 0 => ~(s.pendingTasks >= MaxPendingTasks)
      /\ MaxPendingPerActor > 0 => ~(s.actorPending[a0] >= MaxPendingPerActor)
      /\ MaxPendingPerPartition > 0 => ~(s.partitionPending[k] >= MaxPendingPerPartition)
  BY DEF PendingLimitExceeded
<1> HIDE DEF d
<1>6. MaxPendingPerPartition > 0 => \A h \in Keys :
         /\ d.partitionPending[h] = Cardinality(OfKey(K, h))
         /\ d.partitionPending[h] <= MaxPendingPerPartition
  <2> SUFFICES ASSUME MaxPendingPerPartition > 0, NEW h \in Keys
               PROVE  /\ d.partitionPending[h] = Cardinality(OfKey(K, h))
                      /\ d.partitionPending[h] <= MaxPendingPerPartition
    BY Zenon
  <2>1. /\ s.partitionPending[h] = Cardinality(OfKey(H, h))
        /\ s.partitionPending[h] <= MaxPendingPerPartition
    BY DEF Counts
  <2>2. IsFiniteSet(OfKey(H, h))
    BY <1>2, FS_Subset DEF OfKey
  <2>3. CASE h = k
    <3>1. OfKey(K, h) = OfKey(H, h) \cup {i} /\ i \notin OfKey(H, h)
      BY <2>3 DEF OfKey
    <3>2. /\ Cardinality(OfKey(H, h)) \in Nat
          /\ Cardinality(OfKey(H, h) \cup {i}) = Cardinality(OfKey(H, h)) + 1
      BY <2>2, <3>1, FS_AddElement, FS_CardinalityType
    <3>3. d.partitionPending[h] = s.partitionPending[h] + 1
      BY <1>1, <2>3
    <3>4. d.partitionPending[h] = Cardinality(OfKey(K, h))
      BY Zenon, <2>1, <3>1, <3>2, <3>3
    <3>5. ~(s.partitionPending[h] >= MaxPendingPerPartition)
      BY <1>5, <2>3
    <3>6. s.partitionPending[h] + 1 <= MaxPendingPerPartition
      BY <2>1, <3>2, <3>5
    <3> QED
      BY <3>3, <3>4, <3>6
  <2>4. CASE h # k
    <3>1. OfKey(K, h) = OfKey(H, h)
      BY <2>4 DEF OfKey
    <3>2. d.partitionPending[h] = s.partitionPending[h]
      BY <1>1, <2>4
    <3> QED
      BY <2>1, <3>1, <3>2
  <2> QED
    BY <2>3, <2>4
<1>7. MaxPendingPerActor > 0 => \A a \in Actors :
         /\ d.actorPending[a] = Cardinality(OfActor(K, a))
         /\ d.actorPending[a] <= MaxPendingPerActor
  <2> SUFFICES ASSUME MaxPendingPerActor > 0, NEW a \in Actors
               PROVE  /\ d.actorPending[a] = Cardinality(OfActor(K, a))
                      /\ d.actorPending[a] <= MaxPendingPerActor
    BY Zenon
  <2>1. /\ s.actorPending[a] = Cardinality(OfActor(H, a))
        /\ s.actorPending[a] <= MaxPendingPerActor
    BY DEF Counts
  <2>2. IsFiniteSet(OfActor(H, a))
    BY <1>2, FS_Subset DEF OfActor
  <2>3. CASE a = a0
    <3>1. OfActor(K, a) = OfActor(H, a) \cup {i} /\ i \notin OfActor(H, a)
      BY <2>3 DEF OfActor
    <3>2. /\ Cardinality(OfActor(H, a)) \in Nat
          /\ Cardinality(OfActor(H, a) \cup {i}) = Cardinality(OfActor(H, a)) + 1
      BY <2>2, <3>1, FS_AddElement, FS_CardinalityType
    <3>3. d.actorPending[a] = s.actorPending[a] + 1
      BY <1>1, <2>3
    <3>4. d.actorPending[a] = Cardinality(OfActor(K, a))
      BY Zenon, <2>1, <3>1, <3>2, <3>3
    <3>5. ~(s.actorPending[a] >= MaxPendingPerActor)
      BY <1>5, <2>3
    <3>6. s.actorPending[a] + 1 <= MaxPendingPerActor
      BY <2>1, <3>2, <3>5
    <3> QED
      BY <3>3, <3>4, <3>6
  <2>4. CASE a # a0
    <3>1. OfActor(K, a) = OfActor(H, a)
      BY <2>4 DEF OfActor
    <3>2. d.actorPending[a] = s.actorPending[a]
      BY <1>1, <2>4
    <3> QED
      BY <2>1, <3>1, <3>2
  <2> QED
    BY <2>3, <2>4
<1>8. /\ d.pendingTasks = Cardinality(K)
      /\ MaxPendingTasks > 0 => d.pendingTasks <= MaxPendingTasks
  BY <1>1, <1>2, <1>3, <1>5
<1>9. Counts(K, d)
  BY Zenon, <1>3, <1>6, <1>7, <1>8 DEF Counts
<1> QED
  BY <1>9 DEF d

\* The books of the scheduler: its counters, where every invocation is, and who
\* holds the successor of an undelivered result.
Ledger == CountInv /\ PlaceInv /\ SuccInv /\ TopInv

\* The mailboxes and invocations of a state.
LEMMA BaseHolds ==
    ASSUME IInv, Fifo
    PROVE  Base(box, inv)
BY QueuedIsFresh DEF Base, IInv, TypeOK, Structure

\* What a critical section writes into the history.
LEMMA InvAfterHistory ==
    ASSUME NEW v \in [Invocations -> InvocationType], NEW m \in MailboxType,
           NEW gone, TypeOK, NEW i \in Invocations
    PROVE  LET r == InvAfter(v, m, gone)[i] IN
           /\ r.home = v[i].home /\ r.ticket = v[i].ticket /\ r.submitted = v[i].submitted
           /\ r.gen = IF i = m.active /\ v[i].gen = 0 THEN m.generation ELSE v[i].gen
           /\ r.settledAt = IF i \in gone THEN sched.accepted ELSE v[i].settledAt
<1> DEFINE x == IF i \in gone THEN Destroyed(v[i]) ELSE v[i]
           r == InvAfter(v, m, gone)[i]
<1>1. /\ r.home = v[i].home /\ r.submitted = v[i].submitted
      /\ r.gen = IF i = m.active /\ v[i].gen = 0 THEN m.generation ELSE v[i].gen
  BY InvAfterFacts
<1>2. r.ticket = v[i].ticket
  BY InvAfterActivates DEF Activates
<1>3. v[i] \in InvocationType /\ sched.accepted \in Nat
  BY DEF TypeOK, SchedType
<1>4. Destroyed(v[i]) \in InvocationType /\ Destroyed(v[i]).settledAt = sched.accepted
  BY Zenon, <1>3, DestroyedFacts DEF Destroyed, InvocationType
<1>5. /\ x \in InvocationType
      /\ x.settledAt = IF i \in gone THEN sched.accepted ELSE v[i].settledAt
  BY <1>3, <1>4
<1>6. r = IF i = m.active /\ x.gen = 0 THEN [x EXCEPT !.gen = m.generation] ELSE x
  BY DEF InvAfter
<1> HIDE DEF x, r
<1>7. r.settledAt = x.settledAt
  BY <1>5, <1>6 DEF InvocationType
<1> QED
  BY <1>1, <1>2, <1>5, <1>7 DEF r

\* A takeout keeps the books.
LEMMA TakeoutKeeps ==
    ASSUME IInv, NEW bx, NEW v, Base(bx, v), NEW b \in Invocations, NEW m \in MailboxType,
           NEW evs \in Seq(EventType), NEW t \in Threads, NEW rec,
           Takeout(bx, v, b, m, evs, t, rec),
           NEW s \in SchedType, sched' = DecrementPending(s, KeyOf[b], Len(evs)),
           sched.accepted <= s.accepted,
           Counts(HeldSet(bx), s), Place(HeldSet(bx), v), Succ(v), Top(bx, v, s.accepted)
    PROVE  Ledger' /\ HeldSet(box)' \subseteq HeldSet(bx)
<1> DEFINE gone == EventInvs(evs)
           n == Len(evs)
<1>1. /\ th \in [Threads -> ThreadType] /\ sched.accepted \in Nat /\ s.accepted \in Nat
      /\ KeyOf[b] \in Keys /\ n \in Nat /\ b # None
  <2>1. th \in [Threads -> ThreadType] /\ sched \in SchedType
    BY DEF IInv, TypeOK
  <2>2. KeyOf[b] \in Keys /\ n \in Nat /\ b # None
    OBVIOUS
  <2>3. \A z \in SchedType : z.accepted \in Nat
    BY DEF SchedType
  <2> HIDE DEF n
  <2> QED
    BY <2>1, <2>2, <2>3
<1>2. box' = [bx EXCEPT ![b] = m] /\ Takes(bx[b], evs, m)
  BY DEF Takeout
<1>3. HeldAfter(bx, v, b, gone)
  BY Zenon, <1>2, TakeoutHeld
<1>4. IsFiniteSet(gone) /\ Cardinality(gone) = n
  BY <1>2, EventsCount DEF Takes
<1>5. \A i \in gone : KeyOf[i] = KeyOf[b]
  BY Zenon, <1>1, <1>3 DEF HeldAfter, Base, HomeInv
<1> HIDE DEF gone, n
<1>6. gone \subseteq HeldSet(bx) /\ HeldSet(box)' = HeldSet(bx) \ gone
  BY <1>3 DEF HeldAfter
<1>7. HeldSet(bx) \in SUBSET Invocations
  BY DEF HeldSet
<1>8. Counts(HeldSet(bx) \ gone, DecrementPending(s, KeyOf[b], n))
  BY Zenon, <1>1, <1>4, <1>5, <1>6, <1>7, CountsDown
<1>9. CountInv'
  <2>1. sched' = DecrementPending(s, KeyOf[b], n)
    BY DEF n
  <2>2. Counts(HeldSet(box)', sched')
    BY <1>6, <1>8, <2>1
  <2> QED
    BY <2>2 DEF CountInv, Counts, OfKey, OfActor
<1>10. sched'.accepted = s.accepted
  BY <1>1, DecrementAccepted DEF n
<1>11. TopInv'
  BY <1>1, <1>10, TakeoutTop
<1>12. SuccInv'
  BY <1>1, TakeoutSucc
<1>13. PlaceInv'
  BY <1>1, TakeoutPlace
<1> QED
  BY <1>6, <1>9, <1>11, <1>12, <1>13 DEF Ledger

\* decrement_pending and increment_pending leave the course of the shutdown alone.
LEMMA CountersKeepCourse ==
    ASSUME NEW s \in SchedType, NEW k \in Keys, NEW n, NEW i \in Invocations
    PROVE  /\ DecrementPending(s, k, n).stopped = s.stopped
           /\ DecrementPending(s, k, n).executorShutdown = s.executorShutdown
           /\ IncrementPending(s, i).stopped = s.stopped
           /\ IncrementPending(s, i).executorShutdown = s.executorShutdown
BY DEF DecrementPending, IncrementPending, SchedType

\* Every critical section that takes invocations out of a mailbox keeps the
\* books, and does not change the course of a shutdown.
LEMMA LeavesKeeps ==
    ASSUME IInv, IInv', Fifo, Live, Ledger, ShutInv, NEW t \in Threads, SomeLeave(t)
    PROVE  Live' /\ Ledger' /\ ShutInv'
<1>1. PICK b \in Invocations, m \in MailboxType, evs \in Seq(EventType),
           rec \in ThreadType : Leaves(b, m, evs, t, rec)
  BY DEF SomeLeave
<1>2. Live'
  BY LeavesLive
<1>3. /\ box' = [box EXCEPT ![b] = m] /\ th' = [th EXCEPT ![t] = rec]
      /\ inv' = InvAfter(inv, m, EventInvs(evs))
      /\ sched' = DecrementPending(sched, KeyOf[b], Len(evs))
      /\ UNCHANGED <<unswept, calls>> /\ Takes(box[b], evs, m)
      /\ Within(m.pending, box[b].pending) /\ Moves(b, m, t, rec)
      /\ rec.events = evs /\ th[t].events = <<>>
  BY <1>1 DEF Leaves, Settle
<1>4. /\ TypeOK /\ inv \in [Invocations -> InvocationType] /\ sched \in SchedType
      /\ KeyOf[b] \in Keys /\ sched.accepted \in Nat
      /\ th \in [Threads -> ThreadType]
  BY Zenon DEF IInv, TypeOK, SchedType
<1>5. /\ sched'.cancelling = sched.cancelling /\ sched'.stopping = sched.stopping
      /\ sched'.accepting = sched.accepting /\ sched'.stopped = sched.stopped
      /\ sched'.executorShutdown = sched.executorShutdown
  BY <1>3, <1>4, CountersKeepFlags, CountersKeepCourse
<1>6. \A i \in Invocations :
          /\ inv'[i].home = inv[i].home /\ inv'[i].ticket = inv[i].ticket
          /\ inv'[i].submitted = inv[i].submitted
          /\ inv'[i].gen = IF i = m.active /\ inv[i].gen = 0 THEN m.generation
                                                             ELSE inv[i].gen
          /\ inv'[i].settledAt = IF i \in EventInvs(evs) THEN sched.accepted
                                                         ELSE inv[i].settledAt
  <2> DEFINE gone == EventInvs(evs)
  <2>1. inv' = InvAfter(inv, m, gone)
    BY <1>3
  <2> HIDE DEF gone
  <2>2. \A i \in Invocations :
          /\ inv'[i].home = inv[i].home /\ inv'[i].ticket = inv[i].ticket
          /\ inv'[i].submitted = inv[i].submitted
          /\ inv'[i].gen = IF i = m.active /\ inv[i].gen = 0 THEN m.generation
                                                             ELSE inv[i].gen
          /\ inv'[i].settledAt = IF i \in gone THEN sched.accepted
                                               ELSE inv[i].settledAt
    BY <1>4, <2>1, InvAfterHistory
  <2> QED
    BY <2>2 DEF gone
<1>7. Takeout(box, inv, b, m, evs, t, rec)
  <2>1. rec.events = th[t].events \o evs
    BY <1>3
  <2> QED
    BY <1>3, <1>5, <1>6, <2>1 DEF Takeout, Moves
<1>8. Base(box, inv) /\ sched.accepted <= sched.accepted
  BY <1>4, BaseHolds
<1>9. Ledger' /\ HeldSet(box)' \subseteq HeldSet(box)
  BY Zenon, <1>3, <1>4, <1>7, <1>8, TakeoutKeeps DEF Ledger, CountInv, PlaceInv, SuccInv, TopInv
<1>10. SameCourse
  <2>1. \A u \in Threads : th'[u] = IF u = t THEN rec ELSE th[u]
    BY <1>3, <1>4
  <2>2. rec.pc \notin {"drain", "sweep"} /\ ~Closing(rec)
    BY <1>1 DEF Leaves, Closing
  <2>3. t \in Workers => th[t].pc # "idle"
    BY <1>1 DEF Leaves
  <2> QED
    BY <1>3, <1>5, <2>1, <2>2, <2>3 DEF SameCourse, SameFlags
<1>11. ShutInv'
  <2>1. HeldSet(box') \subseteq HeldSet(box)
    BY <1>9 DEF HeldSet
  <2> QED
    BY <1>10, <2>1, SameCourseShut
<1> QED
  BY <1>2, <1>9, <1>11

\* A calm step keeps the books.
LEMMA CalmKeeps ==
    ASSUME IInv, Ledger, Calm
    PROVE  Ledger' /\ HeldSet(box') = HeldSet(box)
<1>1. /\ \A b \in Invocations : /\ box'[b].active = box[b].active
                                /\ box'[b].pending = box[b].pending
                                /\ box'[b].generation = box[b].generation
      /\ calls' = calls
      /\ \A t \in Threads : /\ th'[t].events = th[t].events
                            /\ th[t].events # <<>> => th'[t].request = th[t].request
  BY DEF Calm, SameContents
<1>2. HeldSet(box') = HeldSet(box)
  BY <1>1 DEF HeldSet, Content
<1>3. HeldSet(box)' = HeldSet(box')
  BY DEF HeldSet
<1>4. CountInv'
  BY Zenon, <1>2, <1>3 DEF Ledger, CountInv, Counts, OfKey, OfActor, Calm, SameCounters
<1>5. \A i \in Invocations, t \in Threads : InEvents(i, t)' <=> InEvents(i, t)
  BY <1>1 DEF InEvents
<1>6. PlaceInv'
  <2>1. \A i \in Invocations : inv'[i].submitted = inv[i].submitted
    BY DEF Calm, SameHistory
  <2>2. \A t \in Threads : \A n \in DOMAIN th[t].events : th[t].events[n].inv \in Invocations
    <3>1. \A t \in Threads : th[t].events \in Seq(EventType)
      BY DEF IInv, TypeOK, ThreadType
    <3>2. \A e \in EventType : e.inv \in Invocations
      BY DEF EventType
    <3> QED
      BY <3>1, <3>2
  <2> DEFINE H == HeldSet(box)
  <2>3. Place(H, inv) /\ HeldSet(box)' = H
    BY <1>2, <1>3 DEF Ledger, PlaceInv
  <2> HIDE DEF H
  <2>4. /\ \A i \in Invocations :
             /\ calls'[i] \in {0, 1}
             /\ ~inv'[i].submitted => calls'[i] = 0
             /\ inv'[i].submitted => \/ calls'[i] = 1
                                     \/ i \in H
                                     \/ \E t \in Threads : InEvents(i, t)'
             /\ i \in H => calls'[i] = 0
    BY <1>1, <1>5, <2>1, <2>3 DEF Place
  <2>5. ASSUME NEW t \in Threads, NEW n \in DOMAIN th'[t].events, NEW i \in Invocations,
               i = th'[t].events[n].inv
        PROVE  /\ inv'[i].submitted /\ calls'[i] = 0 /\ i \notin H
               /\ \A u \in Threads : \A k \in DOMAIN th'[u].events :
                     th'[u].events[k].inv = i => u = t /\ k = n
    BY <1>1, <2>1, <2>3, <2>5 DEF Place
  <2>6. \A t \in Threads : \A n \in DOMAIN th'[t].events : th'[t].events[n].inv \in Invocations
    BY <1>1, <2>2
  <2> QED
    BY <2>3, <2>4, <2>5, <2>6 DEF PlaceInv, Place
<1>7. SuccInv'
  <2> SUFFICES ASSUME NEW i \in Invocations, NEW j \in Invocations,
                      inv'[i].gen > 0, inv'[i].home = inv'[j].home,
                      inv'[j].gen = inv'[i].gen + 1,
                      inv'[i].ticket < inv'[j].ticket, inv'[j].ticket <= inv'[i].settledAt
               PROVE  \E u \in Threads : th'[u].request = j /\ InEvents(i, u)'
    BY DEF SuccInv, Succ
  <2>1. PICK u \in Threads : th[u].request = j /\ InEvents(i, u)
    BY DEF Ledger, SuccInv, Succ, Calm, SameHistory
  <2>2. th[u].events # <<>>
    <3>1. th[u].events \in Seq(EventType)
      BY DEF IInv, TypeOK, ThreadType
    <3> QED
      BY <2>1, <3>1 DEF InEvents
  <2> QED
    BY <1>1, <1>5, <2>1, <2>2
<1>8. TopInv'
  <2>1. \A b \in Invocations : /\ box[b].active \in Invocations \cup {None}
                               /\ \A n \in DOMAIN box[b].pending :
                                     box[b].pending[n] \in Invocations
    BY DEF IInv, TypeOK, MailboxType
  <2>2. sched'.accepted = sched.accepted /\ (sched.cancelling => sched'.cancelling)
    BY DEF Calm, SameCounters
  <2>3. Top(box, inv, sched.accepted)
    BY DEF Ledger, TopInv
  <2>4. \A i \in Invocations : /\ inv'[i].home = inv[i].home /\ inv'[i].gen = inv[i].gen
                               /\ inv'[i].ticket = inv[i].ticket
                               /\ inv'[i].settledAt = inv[i].settledAt
    BY DEF Calm, SameHistory
  <2>5. ASSUME NEW b \in Invocations, box'[b].active # None
        PROVE  inv'[box'[b].active].gen = box'[b].generation
    BY <1>1, <2>1, <2>3, <2>4, <2>5 DEF Top
  <2>6. \A i \in Invocations : inv'[i].settledAt <= sched'.accepted
    BY <2>2, <2>3, <2>4 DEF Top
  <2>7. ASSUME NEW i \in Invocations, NEW b \in Invocations,
               inv'[i].home = b, inv'[i].gen > 0, inv'[i].gen = box'[b].generation,
               box'[b].active # i, inv'[i].settledAt > 0, ~sched'.cancelling,
               NEW n \in DOMAIN box'[b].pending
        PROVE  inv'[box'[b].pending[n]].ticket > inv'[i].settledAt
    <3>1. inv[box[b].pending[n]].ticket > inv[i].settledAt
      <4>1. /\ inv[i].home = b /\ inv[i].gen > 0 /\ inv[i].gen = box[b].generation
            /\ box[b].active # i /\ inv[i].settledAt > 0 /\ ~sched.cancelling
            /\ n \in DOMAIN box[b].pending
        BY Zenon, <1>1, <2>2, <2>4, <2>7
      <4> QED
        BY Zenon, <2>3, <4>1, QueuedLater
    <3> QED
      BY <1>1, <2>1, <2>4, <3>1
  <2> QED
    BY Zenon, <2>5, <2>6, <2>7 DEF TopInv, Top
<1> QED
  BY <1>2, <1>4, <1>6, <1>7, <1>8 DEF Ledger

\* What the sweep takes out of a mailbox: its queue, and its active invocation
\* unless that one is running.
LEMMA SweepTakes ==
    ASSUME NEW o \in MailboxType, Distinct(o), NEW m, m.pending = <<>>,
           NEW ends \in BOOLEAN, ends => o.active # None,
           m.active = IF o.active # None /\ ~ends THEN o.active ELSE None,
           NEW gone, gone = IF ends THEN Append(o.pending, o.active) ELSE o.pending,
           NEW evs \in Seq(EventType), DOMAIN evs = 1..Len(gone),
           \A n \in 1..Len(gone) : evs[n].inv = gone[n]
    PROVE  Takes(o, evs, m)
<1> DEFINE q == o.pending
           a == o.active
           Q == {q[n] : n \in DOMAIN q}
           G == {gone[n] : n \in 1..Len(gone)}
<1>1. /\ q \in Seq(Invocations) /\ a \in Invocations \cup {None}
      /\ DOMAIN q = 1..Len(q) /\ Len(q) \in Nat
  BY DEF MailboxType
<1>2. EventInvs(evs) = G
  <2>1. EventInvs(evs) = {evs[n].inv : n \in 1..Len(gone)}
    BY DEF EventInvs
  <2>2. \A x : x \in EventInvs(evs) <=> x \in G
    BY ONLY <2>1, \A n \in 1..Len(gone) : evs[n].inv = gone[n]
  <2> HIDE DEF G
  <2> QED
    BY Zenon, <2>2
<1>3. Content(o) = ({a} \ {None}) \cup Q /\ a \notin Q
  BY DEF Content, Distinct
<1>4. Content(m) = {m.active} \ {None}
  BY DEF Content
<1>5. \A l, n \in 1..Len(q) : l # n => q[l] # q[n]
  BY Zenon, <1>1 DEF Distinct
<1>6. \A n \in 1..Len(q) : q[n] # a
  BY Zenon, <1>1 DEF Distinct
<1>7. /\ EventInvs(evs) \subseteq Content(o)
      /\ Content(m) = Content(o) \ EventInvs(evs)
      /\ \A l, n \in 1..Len(gone) : l # n => gone[l] # gone[n]
  <2>1. CASE ends
    <3>1. /\ Len(gone) = Len(q) + 1 /\ gone[Len(q) + 1] = a
          /\ \A n \in 1..Len(q) : gone[n] = q[n]
      BY <1>1, <2>1
    <3>2. \A x \in 1..Len(gone) : x \in 1..Len(q) \/ x = Len(q) + 1
      BY <1>1, <3>1
    <3>3. G = Q \cup {a}
      BY <1>1, <3>1, <3>2
    <3>4. m.active = None /\ a # None
      BY <2>1
    <3>5. ASSUME NEW l \in 1..Len(gone), NEW n \in 1..Len(gone), l # n
          PROVE  gone[l] # gone[n]
      <4>1. CASE l \in 1..Len(q) /\ n \in 1..Len(q)
        BY <1>5, <3>1, <3>5, <4>1
      <4>2. CASE l \in 1..Len(q) /\ n = Len(q) + 1
        BY <1>6, <3>1, <4>2
      <4>3. CASE l = Len(q) + 1 /\ n \in 1..Len(q)
        BY <1>6, <3>1, <4>3
      <4> QED
        BY <3>2, <3>5, <4>1, <4>2, <4>3
    <3> HIDE DEF Q, G
    <3> QED
      BY Zenon, <1>2, <1>3, <1>4, <3>3, <3>4, <3>5
  <2>2. CASE ~ends
    <3>1. gone = q /\ m.active = a
      BY <2>2
    <3>2. G = Q
      <4>1. 1..Len(gone) = DOMAIN q
        BY ONLY <1>1, <3>1
      <4> QED
        BY Zenon, <3>1, <4>1
    <3>3. \A l, n \in 1..Len(gone) : l # n => gone[l] # gone[n]
      BY <1>5, <3>1
    <3> HIDE DEF Q, G
    <3> QED
      BY <1>2, <1>3, <1>4, <3>1, <3>2, <3>3
  <2> QED
    BY Zenon, <2>1, <2>2
<1>8. \A l, n \in DOMAIN evs : l # n => evs[l].inv # evs[n].inv
  <2> TAKE l, n \in DOMAIN evs
  <2> HAVE l # n
  <2>1. l \in 1..Len(gone) /\ n \in 1..Len(gone)
    OBVIOUS
  <2>2. evs[l].inv = gone[l] /\ evs[n].inv = gone[n] /\ gone[l] # gone[n]
    BY Zenon, <1>7, <2>1
  <2> QED
    BY Zenon, <2>2
<1> QED
  BY Zenon, <1>7, <1>8 DEF Takes

\* The sweep of one mailbox.
LEMMA SweepMailboxKeeps ==
    ASSUME IInv, IInv', Fifo, Live, Ledger, ShutInv, NEW c \in Callers, NEW k \in Keys,
           SweepMailbox(c, k)
    PROVE  Live' /\ Ledger' /\ ShutInv'
<1> DEFINE b    == mailboxes[k]
           q    == box[b].pending
           a    == box[b].active
           ends == SweepsActive(box[b])
           running == a # None /\ ~ends
           gone == IF ends THEN Append(q, a) ELSE q
           evs  == [n \in 1..Len(gone) |-> Event(gone[n], "cancelled")]
           st   == IF running THEN box[b].status ELSE "Stopping"
           cl   == IF a = None THEN FALSE ELSE box[b].claimed
           ac   == IF running THEN box[b].active ELSE None
           sn   == box[b].settled + Len(gone)
           m    == [box[b] EXCEPT !.pending = <<>>, !.settled = sn, !.status = st,
                                  !.claimed = cl, !.active = ac]
           F(i) == IF running /\ i = a THEN [inv[i] EXCEPT !.cancelAfterResume = TRUE]
                                       ELSE inv[i]
           v    == [i \in Invocations |-> F(i)]
           ev2  == th[c].events \o evs
           rec  == [th[c] EXCEPT !.events = ev2]
<1>1. /\ c \in Threads /\ c \notin Workers /\ th[c].pc = "sweep" /\ k \in unswept
      /\ unswept' = unswept \ {k} /\ th[c] \in ThreadType
      /\ UNCHANGED <<mailboxes, items, result, calls>>
  BY Zenon DEF SweepMailbox, Threads, IInv, TypeOK
<1>2. b \in Invocations /\ KeyOf[b] = k /\ mailboxes[KeyOf[b]] = b
  BY <1>1 DEF IInv, SweepInv, TypeOK, Structure, MapInv
<1>3. /\ TypeOK /\ box[b] \in MailboxType /\ box \in [Invocations -> MailboxType]
      /\ inv \in [Invocations -> InvocationType] /\ th \in [Threads -> ThreadType]
      /\ sched \in SchedType /\ sched.accepted \in Nat
  BY <1>2 DEF IInv, TypeOK, SchedType
<1>4. gone \in Seq(Invocations) /\ Len(gone) \in Nat
  BY <1>3 DEF MailboxType, SweepsActive
<1>5. /\ box' = [box EXCEPT ![b] = m]
      /\ inv' = InvAfter(v, m, EventInvs(evs))
      /\ sched' = DecrementPending(sched, k, Len(gone))
      /\ th' = [th EXCEPT ![c] = rec]
  BY Zenon, <1>1, <1>3 DEF SweepMailbox, MailboxType, ThreadType
<1>6. /\ ends \in BOOLEAN /\ (ends => a # None)
      /\ running => box[b].status = "Running" /\ a # None
      /\ ~running => a = None \/ box[b].status # "Running"
  BY DEF SweepsActive
<1>7. BoxLive(b)
  BY <1>2 DEF Live, BoxesLive
<1>8. /\ st \in Statuses /\ cl = FALSE /\ ac \in Invocations \cup {None} /\ sn \in Nat
      /\ running => st = "Running" /\ ac = a
      /\ ~running => st = "Stopping" /\ ac = None
  <2>1. /\ box[b].status \in Statuses /\ box[b].claimed \in BOOLEAN
        /\ box[b].active \in Invocations \cup {None} /\ box[b].settled \in Nat
    BY Zenon, <1>3 DEF MailboxType
  <2>2. sn \in Nat
    <3> HIDE DEF gone
    <3> QED
      BY <1>4, <2>1
  <2>3. cl = FALSE
    BY <1>7, <2>1 DEF BoxLive
  <2> HIDE DEF ends
  <2> QED
    BY <1>6, <2>1, <2>2, <2>3 DEF Statuses
<1> HIDE DEF sn, st, cl
<1>9. /\ m \in MailboxType /\ m.pending = <<>> /\ m.active = ac /\ m.status = st
      /\ m.generation = box[b].generation /\ m.claimed = cl
  <2> DEFINE y == box[b]
             e == <<>>
  <2>1. e \in Seq(Invocations) /\ y \in MailboxType
    BY <1>3
  <2>b. cl \in BOOLEAN
    BY <1>8, Zenon
  <2>2. m = [y EXCEPT !.pending = e, !.settled = sn, !.status = st,
                      !.claimed = cl, !.active = ac]
    OBVIOUS
  <2>a. ac \in Invocations \cup {None}
    BY <1>8
  <2> HIDE DEF y, e, m, ac
  <2>3. /\ m \in MailboxType /\ m.pending = e /\ m.active = ac /\ m.status = st
        /\ m.generation = y.generation /\ m.claimed = cl
    BY Zenon, <1>8, <2>1, <2>2, <2>a, <2>b DEF MailboxType
  <2> QED
    BY <2>3 DEF y, e
<1> HIDE DEF m
<1>10. Distinct(box[b])
  BY <1>2, BoxIsDistinct
<1>11. Takes(box[b], evs, m) /\ Len(evs) = Len(gone) /\ evs \in Seq(EventType)
  <2> DEFINE o == box[b]
  <2>1. m.active = IF o.active # None /\ ~ends THEN o.active ELSE None
    BY <1>9
  <2>2. gone = (IF ends THEN Append(o.pending, o.active) ELSE o.pending)
    OBVIOUS
  <2>3. /\ evs \in Seq(EventType) /\ DOMAIN evs = 1..Len(gone) /\ Len(evs) = Len(gone)
        /\ \A n \in 1..Len(gone) : evs[n].inv = gone[n]
    <3> HIDE DEF gone
    <3>1. \A n \in 1..Len(gone) : Event(gone[n], "cancelled") \in EventType
      BY <1>4 DEF Event, EventType, Results
    <3>2. evs \in Seq(EventType)
      BY <1>4, <3>1, IsASeq
    <3>3. DOMAIN evs = 1..Len(gone) /\ \A n \in 1..Len(gone) : evs[n].inv = gone[n]
      BY DEF Event
    <3> HIDE DEF evs
    <3>4. Len(evs) = Len(gone)
      BY <1>4, <3>2, <3>3
    <3> QED
      BY <3>2, <3>3, <3>4
  <2>4. o \in MailboxType /\ Distinct(o) /\ m.pending = <<>> /\ ends \in BOOLEAN
        /\ (ends => o.active # None)
    BY <1>3, <1>6, <1>9, <1>10
  <2> HIDE DEF ends, gone, evs, o
  <2>5. Takes(o, evs, m)
    BY Zenon, <2>1, <2>2, <2>3, <2>4, SweepTakes
  <2> QED
    BY <2>3, <2>5 DEF o
<1> HIDE DEF evs, gone
<1>12. /\ v \in [Invocations -> InvocationType]
       /\ \A i \in Invocations : /\ v[i].home = inv[i].home /\ v[i].gen = inv[i].gen
                                 /\ v[i].ticket = inv[i].ticket
                                 /\ v[i].settledAt = inv[i].settledAt
                                 /\ v[i].submitted = inv[i].submitted
                                 /\ TaskEq(v[i], inv[i])
  <2> HIDE DEF running, a
  <2>1. ASSUME NEW i \in Invocations
        PROVE  /\ F(i) \in InvocationType
               /\ F(i).home = inv[i].home /\ F(i).gen = inv[i].gen
               /\ F(i).ticket = inv[i].ticket /\ F(i).settledAt = inv[i].settledAt
               /\ F(i).submitted = inv[i].submitted /\ TaskEq(F(i), inv[i])
    <3>1. inv[i] \in InvocationType
      BY <1>3
    <3> QED
      BY Zenon, <3>1 DEF InvocationType, TaskEq
  <2> HIDE DEF F
  <2> QED
    BY <2>1
<1> HIDE DEF v
<1> DEFINE out == EventInvs(evs)
<1>13. inv' = InvAfter(v, m, out) /\ out \subseteq Content(box[b])
       /\ Content(m) = Content(box[b]) \ out
  BY <1>5, <1>11 DEF Takes
<1> HIDE DEF out
<1>14. \A i \in Invocations :
          /\ inv'[i].home = inv[i].home /\ inv'[i].ticket = inv[i].ticket
          /\ inv'[i].submitted = inv[i].submitted
          /\ inv'[i].gen = IF i = m.active /\ inv[i].gen = 0 THEN m.generation
                                                             ELSE inv[i].gen
          /\ inv'[i].settledAt = IF i \in out THEN sched.accepted ELSE inv[i].settledAt
  BY <1>3, <1>9, <1>12, <1>13, InvAfterHistory
<1>15. ASSUME NEW i \in Invocations
       PROVE  /\ i \notin out => SameFields(i)
              /\ i \in out => TaskCleared(inv'[i]) /\ inv[i].home = b
  <2>1. /\ i \notin out => TaskEq(InvAfter(v, m, out)[i], v[i])
        /\ i \in out => TaskCleared(InvAfter(v, m, out)[i])
    BY <1>3, <1>9, <1>12, InvAfterFields
  <2>2. i \in out => inv[i].home = b
    BY <1>2, <1>13, ContentIsHome
  <2> QED
    BY <1>12, <1>13, <2>1, <2>2 DEF SameFields, TaskEq
<1>16. th[c].request = None
  BY <1>1, NoRequest
<1>17. /\ rec \in ThreadType /\ rec.pc = "sweep" /\ rec.request = None
       /\ rec.events = ev2 /\ rec.next = th[c].next
  <2>1. ev2 \in Seq(EventType)
    BY <1>1, <1>11 DEF ThreadType
  <2> HIDE DEF ev2
  <2> QED
    BY Zenon, <1>1, <1>16, <2>1 DEF ThreadType
<1> HIDE DEF rec
<1>18. /\ sched'.cancelling = sched.cancelling /\ sched'.stopping = sched.stopping
       /\ sched'.accepting = sched.accepting /\ sched'.stopped = sched.stopped
       /\ sched'.executorShutdown = sched.executorShutdown
  <2> DEFINE n == Len(gone)
  <2>1. sched' = DecrementPending(sched, k, n) /\ n \in Nat
    BY <1>4, <1>5
  <2>2. b \in Invocations
    BY <1>2
  <2> HIDE DEF n, b
  <2> QED
    BY <1>3, <2>1, <2>2, CountersKeepFlags, CountersKeepCourse
<1>19. Moves(b, m, c, rec)
  <2>1. ~Executing(c) /\ \A i \in Invocations : ~Runs(c, i)
    BY <1>1 DEF Executing, Runs
  <2>2. CASE running
    BY <1>1, <1>6, <1>8, <1>9, <1>16, <1>17, <2>1, <2>2 DEF Moves
  <2>3. CASE ~running
    <3> HIDE DEF running
    <3> QED
      BY <1>1, <1>8, <1>9, <1>16, <1>17, <2>1, <2>3 DEF Moves
  <2> QED
    BY <2>2, <2>3
<1>20. Section(b, m, c, rec)
  <2>1. m.active # None /\ m.active = box[b].active => SameFields(m.active)
    <3>1. m.active # None => m.active \in Content(m) /\ m.active \in Invocations
      BY <1>9 DEF Content, MailboxType
    <3> QED
      BY <1>13, <1>15, <3>1
  <2>2. \A i \in Invocations : SameFields(i) \/ (inv'[i].home = b /\ TaskCleared(inv'[i]))
    BY <1>14, <1>15
  <2>3. mailboxes'[KeyOf[b]] = b /\ unswept' \in {unswept, unswept \ {KeyOf[b]}}
    BY <1>1, <1>2
  <2> HIDE DEF b
  <2> QED
    BY <1>1, <1>5, <1>18, <1>19, <2>1, <2>2, <2>3 DEF Section
<1>21. BoxLive(b)'
  <2>1. PICK d \in Invocations : d = b
    BY <1>2
  <2>2. box'[d] = m
    BY <1>3, <1>5, <2>1
  <2>3. sched'.stopping
    BY <1>1, <1>18 DEF Live, FlagInv, ShutInv
  <2>4. /\ m.active # None <=> m.status \in {"Runnable", "Running", "Suspended"}
        /\ m.claimed = FALSE /\ m.pending = <<>>
        /\ m.active # None => m.status = "Running"
    <3>1. CASE running
      BY <1>6, <1>8, <1>9, <3>1
    <3>2. CASE ~running
      <4> HIDE DEF running
      <4> QED
        BY <1>8, <1>9, <3>2
    <3> QED
      BY Zenon, <3>1, <3>2
  <2>5. BoxLive(d)'
    BY <2>2, <2>3, <2>4 DEF BoxLive
  <2>6. b' = b
    BY <1>1
  <2> HIDE DEF b
  <2> QED
    BY <2>1, <2>5, <2>6
<1>22. Live'
  <2>1. PICK d \in Invocations : d = b
    BY <1>2
  <2>2. BoxLive(d)'
    BY <1>1, <1>21, <2>1
  <2>3. Section(d, m, c, rec)
    BY <1>20, <2>1
  <2> QED
    BY <1>1, <1>9, <1>17, <2>2, <2>3, SectionLive
<1>23. Takeout(box, inv, b, m, evs, c, rec)
  <2>1. rec.events = th[c].events \o evs
    BY <1>17
  <2>2. Within(m.pending, box[b].pending)
    BY <1>9 DEF Within
  <2> HIDE DEF b
  <2> QED
    BY <1>1, <1>5, <1>11, <1>14, <1>16, <1>18, <1>19, <2>1, <2>2 DEF Takeout, Moves, out
<1>24. Ledger'
  <2>1. Base(box, inv) /\ sched.accepted <= sched.accepted
    BY <1>3, BaseHolds
  <2>2. sched' = DecrementPending(sched, KeyOf[b], Len(evs))
    BY <1>2, <1>5, <1>11
  <2> HIDE DEF b
  <2> QED
    BY <1>1, <1>2, <1>3, <1>9, <1>11, <1>23, <2>1, <2>2, TakeoutKeeps
       DEF Ledger, CountInv, PlaceInv, SuccInv, TopInv
<1>25. ShutInv'
  <2>1. \A u \in Threads : th'[u] = IF u = c THEN rec ELSE th[u]
    BY <1>3, <1>5
  <2>2. \A u \in Threads : th'[u].pc = th[u].pc /\ th'[u].next = th[u].next
    BY <1>1, <1>17, <2>1
  <2>3. unswept # {} /\ unswept' \subseteq unswept
    BY <1>1
  <2>4. /\ \A u \in Threads : ~Closing(th[u])
        /\ ~sched.executorShutdown /\ ~sched.stopped
    BY <2>3 DEF ShutInv
  <2>5. \A u \in Threads : ~Closing(th'[u])
    BY <2>2, <2>4 DEF Closing
  <2>6. sched.cancelling
    BY <2>3 DEF ShutInv
  <2> QED
    BY <1>18, <2>2, <2>3, <2>4, <2>5, <2>6 DEF ShutInv
<1> QED
  BY <1>22, <1>24, <1>25

\* Invocation i has joined the queue of mailbox b: the mailboxes are bx and the
\* invocation objects v.
JoinsQueue(b, i, bx, v) ==
    /\ bx \in [Invocations -> MailboxType] /\ v \in [Invocations -> InvocationType]
    /\ HomeInv(bx, v)
    /\ \A j \in Invocations : j # i => v[j] = inv[j]
    /\ v[i].home = b /\ v[i].gen = inv[i].gen /\ v[i].submitted
    /\ v[i].settledAt = inv[i].settledAt /\ v[i].ticket = sched.accepted + 1
    /\ \A c \in Invocations : c # b => bx[c] = box[c]
    /\ bx[b].pending = Append(box[b].pending, i) /\ bx[b].active = box[b].active
    /\ bx[b].generation = box[b].generation

\* What holds of the books before anything leaves the mailbox again.
AdmitOK(b, i, bx, v) ==
    /\ Base(bx, v)
    /\ i \notin HeldSet(box) /\ HeldSet(bx) = HeldSet(box) \cup {i}
    /\ Place(HeldSet(bx), v) /\ Succ(v) /\ Top(bx, v, sched.accepted + 1)
    /\ Distinct(bx[b])

\* An admitted invocation is held by its mailbox and counted.
LEMMA AdmitBooks ==
    ASSUME IInv, Fifo, Ledger, NEW i \in Invocations, ~inv[i].submitted,
           NEW b \in Invocations, NEW bx, NEW v, JoinsQueue(b, i, bx, v)
    PROVE  AdmitOK(b, i, bx, v)
<1> DEFINE q == box[b].pending
           H == HeldSet(box)
           n1 == Len(q) + 1
<1>1. /\ inv[i].home = None /\ inv[i].gen = 0 /\ HomeInv(box, inv)
      /\ sched.accepted \in Nat /\ b # None
      /\ inv \in [Invocations -> InvocationType] /\ box \in [Invocations -> MailboxType]
  BY DEF IInv, Structure, HomeInv, TypeOK, SchedType
<1>2. /\ q \in Seq(Invocations) /\ Len(q) \in Nat /\ DOMAIN q = 1..Len(q)
      /\ n1 \in Nat
  BY <1>1 DEF MailboxType
<1>3. /\ n1 \in DOMAIN bx[b].pending /\ bx[b].pending[n1] = i
      /\ \A n \in DOMAIN q : bx[b].pending[n] = q[n] /\ n \in DOMAIN bx[b].pending
      /\ \A n \in DOMAIN bx[b].pending : n \in DOMAIN q \/ n = n1
  <2>1. bx[b].pending = Append(q, i)
    BY DEF JoinsQueue
  <2> HIDE DEF q
  <2>2. /\ DOMAIN Append(q, i) = 1..n1 /\ Append(q, i)[n1] = i
        /\ \A n \in 1..Len(q) : Append(q, i)[n] = q[n]
    BY <1>2
  <2>3. \A n \in 1..n1 : n \in 1..Len(q) \/ n = n1
    BY <1>2
  <2>4. n1 \in 1..n1 /\ \A n \in 1..Len(q) : n \in 1..n1
    BY <1>2
  <2> QED
    BY <1>2, <2>1, <2>2, <2>3, <2>4
<1> HIDE DEF n1
<1>4. /\ \A j \in Invocations : j # i => v[j] = inv[j]
      /\ v[i].home = b /\ v[i].gen = 0 /\ v[i].submitted
      /\ v[i].settledAt = inv[i].settledAt /\ v[i].ticket = sched.accepted + 1
      /\ \A c \in Invocations : c # b => bx[c] = box[c]
      /\ bx[b].active = box[b].active /\ bx[b].generation = box[b].generation
  BY <1>1 DEF JoinsQueue
<1>5. \A c \in Invocations : /\ i \notin Content(box[c])
                             /\ box[c].active # i
                             /\ \A n \in DOMAIN box[c].pending : box[c].pending[n] # i
  BY <1>1 DEF Content, HomeInv
<1>6. Content(bx[b]) = Content(box[b]) \cup {i}
  <2>1. {bx[b].pending[n] : n \in DOMAIN bx[b].pending} = {q[n] : n \in DOMAIN q} \cup {i}
    <3> DEFINE p == bx[b].pending
    <3>1. /\ \A n \in DOMAIN p : n \in DOMAIN q \/ p[n] = i
          /\ \A n \in DOMAIN q : p[n] = q[n] /\ n \in DOMAIN p
          /\ \E n \in DOMAIN p : p[n] = i
      BY <1>2, <1>3
    <3> HIDE DEF p, q
    <3>2. {p[n] : n \in DOMAIN p} = {q[n] : n \in DOMAIN q} \cup {i}
      BY <3>1
    <3> QED
      BY Zenon, <3>2 DEF p
  <2> QED
    BY Zenon, <1>4, <2>1 DEF Content
<1>7. i \notin H /\ HeldSet(bx) = H \cup {i}
  <2>1. i \notin H
    BY <1>5 DEF HeldSet
  <2>2. \A c \in Invocations : c # b => Content(bx[c]) = Content(box[c])
    BY <1>4
  <2>3. ASSUME NEW j \in Invocations
        PROVE  (\E c \in Invocations : j \in Content(bx[c])) <=>
               (\E c \in Invocations : j \in Content(box[c])) \/ j = i
    <3>1. ASSUME NEW c \in Invocations, j \in Content(bx[c])
          PROVE  (\E a \in Invocations : j \in Content(box[a])) \/ j = i
      <4>1. CASE c = b
        BY <1>6, <3>1, <4>1
      <4>2. CASE c # b
        BY <2>2, <3>1, <4>2
      <4> QED
        BY <4>1, <4>2
    <3>2. ASSUME NEW c \in Invocations, j \in Content(box[c])
          PROVE  \E a \in Invocations : j \in Content(bx[a])
      <4>1. CASE c = b
        BY <1>6, <3>2, <4>1
      <4>2. CASE c # b
        BY <2>2, <3>2, <4>2
      <4> QED
        BY <4>1, <4>2
    <3>3. j = i => \E a \in Invocations : j \in Content(bx[a])
      BY <1>6
    <3> QED
      BY <3>1, <3>2, <3>3
  <2> QED
    BY <2>1, <2>3 DEF HeldSet
<1>8. Base(bx, v)
  <2>1. ASSUME NEW c \in Invocations, NEW n \in DOMAIN bx[c].pending
        PROVE  v[bx[c].pending[n]].gen = 0
    <3>1. CASE c # b
      BY <1>4, <1>5, <2>1, <3>1, QueuedIsFresh
    <3>2. CASE c = b /\ n \in DOMAIN q
      BY <1>3, <1>4, <1>5, <3>2, QueuedIsFresh
    <3>3. CASE c = b /\ n = n1
      BY <1>3, <1>4, <3>3
    <3> QED
      BY <1>3, <2>1, <3>1, <3>2, <3>3
  <2> QED
    BY <2>1 DEF Base, JoinsQueue
<1>9. Distinct(bx[b])
  <2>1. Distinct(box[b])
    BY BoxIsDistinct
  <2>2. \A n \in DOMAIN bx[b].pending : bx[b].pending[n] # bx[b].active
    BY <1>3, <1>4, <1>5, <2>1 DEF Distinct
  <2>3. ASSUME NEW l \in DOMAIN bx[b].pending, NEW n \in DOMAIN bx[b].pending, l # n
        PROVE  bx[b].pending[l] # bx[b].pending[n]
    <3>1. CASE l \in DOMAIN q /\ n \in DOMAIN q
      BY <1>3, <2>1, <2>3, <3>1 DEF Distinct
    <3>2. CASE l = n1 /\ n \in DOMAIN q
      BY <1>3, <1>5, <3>2
    <3>3. CASE n = n1 /\ l \in DOMAIN q
      BY <1>3, <1>5, <3>3
    <3> QED
      BY <1>3, <2>3, <3>1, <3>2, <3>3
  <2> QED
    BY <2>2, <2>3 DEF Distinct
<1>10. Place(H \cup {i}, v)
  <2>1. Place(H, inv)
    BY DEF Ledger, PlaceInv
  <2>2. ASSUME NEW t \in Threads, NEW n \in DOMAIN th[t].events
        PROVE  th[t].events[n].inv \in Invocations /\ th[t].events[n].inv # i
    <3>1. th[t].events \in Seq(EventType)
      BY DEF IInv, TypeOK, ThreadType
    <3>2. \A e \in EventType : e.inv \in Invocations
      BY DEF EventType
    <3>3. th[t].events[n] \in EventType
      BY <2>2, <3>1
    <3> QED
      BY <2>1, <2>2, <3>2, <3>3 DEF Place
  <2>3. calls[i] = 0
    BY <2>1 DEF Place
  <2>4. ASSUME NEW j \in Invocations
        PROVE  /\ calls[j] \in {0, 1}
               /\ ~v[j].submitted => calls[j] = 0
               /\ v[j].submitted => \/ calls[j] = 1
                                    \/ j \in H \cup {i}
                                    \/ \E t \in Threads : InEvents(j, t)
               /\ j \in H \cup {i} => calls[j] = 0
    BY <1>4, <2>1, <2>3 DEF Place
  <2>5. ASSUME NEW t \in Threads, NEW n \in DOMAIN th[t].events
        PROVE  LET j == th[t].events[n].inv IN
               /\ v[j].submitted /\ calls[j] = 0 /\ j \notin H \cup {i}
               /\ \A u \in Threads : \A k \in DOMAIN th[u].events :
                     th[u].events[k].inv = j => u = t /\ k = n
    BY <1>4, <2>1, <2>2, <2>5 DEF Place
  <2> QED
    BY <2>4, <2>5 DEF Place
<1>11. Succ(v)
  <2> SUFFICES ASSUME NEW j \in Invocations, NEW k \in Invocations,
                      v[j].gen > 0, v[j].home = v[k].home, v[k].gen = v[j].gen + 1,
                      v[j].ticket < v[k].ticket, v[k].ticket <= v[j].settledAt
               PROVE  \E t \in Threads : th[t].request = k /\ InEvents(j, t)
    BY DEF Succ
  <2>1. v[j].gen \in Nat
    BY <1>8 DEF Base, InvocationType
  <2>2. j # i /\ k # i
    BY <1>4, <2>1
  <2> QED
    BY <1>4, <2>2 DEF Ledger, SuccInv, Succ
<1>12. Top(bx, v, sched.accepted + 1)
  <2>1. Top(box, inv, sched.accepted)
    BY DEF Ledger, TopInv
  <2>2. ASSUME NEW c \in Invocations, bx[c].active # None
        PROVE  v[bx[c].active].gen = bx[c].generation
    <3>1. bx[c].active = box[c].active /\ bx[c].generation = box[c].generation
      BY <1>4
    <3>2. box[c].active \in Invocations
      BY <1>1, <2>2, <3>1 DEF MailboxType
    <3> QED
      BY <1>4, <1>5, <2>1, <2>2, <3>1, <3>2 DEF Top
  <2>3. \A j \in Invocations : /\ inv[j].settledAt \in Nat
                               /\ inv[j].settledAt <= sched.accepted
                               /\ v[j].settledAt = inv[j].settledAt
    BY <1>1, <1>4, <2>1 DEF Top, InvocationType
  <2>4. ASSUME NEW j \in Invocations
        PROVE  v[j].settledAt <= sched.accepted + 1
    BY <1>1, <2>3
  <2>5. ASSUME NEW j \in Invocations, NEW c \in Invocations,
               v[j].home = c, v[j].gen > 0, v[j].gen = bx[c].generation,
               bx[c].active # j, v[j].settledAt > 0, ~sched.cancelling,
               NEW n \in DOMAIN bx[c].pending
        PROVE  v[bx[c].pending[n]].ticket > v[j].settledAt
    <3>1. j # i
      BY <1>4, <2>5
    <3>2. /\ inv[j].home = c /\ inv[j].gen > 0 /\ inv[j].gen = box[c].generation
          /\ box[c].active # j /\ inv[j].settledAt > 0
      BY <1>4, <2>5, <3>1
    <3>3. \A l \in DOMAIN box[c].pending : inv[box[c].pending[l]].ticket > inv[j].settledAt
      BY Zenon, <2>1, <2>5, <3>2 DEF Top
    <3>4. \A l \in DOMAIN box[c].pending : /\ box[c].pending[l] \in Invocations
                                           /\ box[c].pending[l] # i
      <4>1. \A l \in DOMAIN box[c].pending : box[c].pending[l] \in Invocations
        <5>1. box[c].pending \in Seq(Invocations)
          BY Zenon, <1>1 DEF MailboxType
        <5> QED
          BY ONLY <5>1
      <4> QED
        BY Zenon, <1>5, <4>1
    <3>5. CASE c # b
      BY <1>4, <2>5, <3>1, <3>3, <3>4, <3>5
    <3>6. CASE c = b /\ n \in DOMAIN q
      BY <1>3, <1>4, <3>1, <3>3, <3>4, <3>6
    <3>7. CASE c = b /\ n = n1
      BY <1>1, <1>3, <1>4, <2>3, <3>7
    <3> QED
      BY <1>3, <2>5, <3>5, <3>6, <3>7
  <2> QED
    BY Zenon, <2>2, <2>4, <2>5 DEF Top
<1> QED
  BY <1>7, <1>8, <1>9, <1>10, <1>11, <1>12 DEF AdmitOK

\* enqueue of an admitted invocation.
LEMMA EnqueueAdmittedKeeps ==
    ASSUME IInv, IInv', Fifo, Live, Ledger, ShutInv,
           NEW c \in Callers, NEW i \in Invocations, th[c].pc = "idle", sched.accepting,
           ~inv[i].submitted, ~PendingLimitExceeded(i), EnqueueAdmitted(c, i)
    PROVE  Live' /\ Ledger' /\ ShutInv'
<1> DEFINE k    == KeyOf[i]
           b0   == IF mailboxes[k] = None THEN i ELSE mailboxes[k]
<1>0. /\ TypeOK /\ c \in Threads /\ c \notin Workers /\ k \in Keys
      /\ sched \in SchedType /\ mailboxes \in [Keys -> Invocations \cup {None}]
      /\ box \in [Invocations -> MailboxType] /\ inv \in [Invocations -> InvocationType]
      /\ th \in [Threads -> ThreadType] /\ inv[i] \in InvocationType
      /\ th[c] \in ThreadType
  BY DEF Threads, IInv, TypeOK
<1>b. PICK b \in Invocations : b = b0 /\ KeyOf[b] = k /\ mailboxes[k] \in {None, b}
  BY <1>0 DEF IInv, Structure, MapInv
<1> DEFINE acc  == sched.accepted + 1
           s0   == [sched EXCEPT !.accepted = acc]
           s    == IncrementPending(s0, i)
           reg  == ActorOf[k] \in sched.actors
           x    == [inv[i] EXCEPT !.submitted = TRUE, !.home = b, !.actor = reg,
                                  !.ticket = s.accepted]
           v    == [inv EXCEPT ![i] = x]
           q    == Append(box[b].pending, i)
           push == [box[b] EXCEPT !.pending = q]
           go   == push.status = "Idle" /\ ~push.claimed
           m    == IF go THEN PrepareNext(v, push) ELSE push
           evs  == IF go THEN UnregisteredEvents(v, push.pending) ELSE <<>>
           req  == IF go THEN m.active ELSE None
           rec  == [th[c] EXCEPT !.touched = b, !.request = req]
           d    == Deliver(rec, evs, "publish")
           mb   == [mailboxes EXCEPT ![k] = b]
           bx   == [box EXCEPT ![b] = push]
           gone == EventInvs(evs)
<1>1. /\ ~sched.stopping /\ ~sched.cancelling /\ unswept = {} /\ b # None
      /\ \A t \in Threads : ~Closing(th[t])
      /\ ~sched.executorShutdown /\ ~sched.stopped
  BY DEF Live, FlagInv, ShutInv
<1>4. /\ mailboxes' = mb
      /\ box' = [box EXCEPT ![b] = m]
      /\ inv' = InvAfter(v, m, gone)
      /\ sched' = DecrementPending(s, k, Len(evs))
      /\ th' = [th EXCEPT ![c] = d]
      /\ UNCHANGED <<items, unswept, result, calls>>
  <2> DEFINE Admitted(z) ==
             LET s1 == IncrementPending([sched EXCEPT !.accepted = @ + 1], i)
                 v1 == [inv EXCEPT ![i] = [@ EXCEPT !.submitted = TRUE, !.home = z,
                                                    !.actor = ActorOf[k] \in sched.actors,
                                                    !.ticket = s1.accepted]]
                 p1 == [box[z] EXCEPT !.pending = Append(@, i)]
                 g1 == p1.status = "Idle" /\ ~p1.claimed
                 m1 == IF g1 THEN PrepareNext(v1, p1) ELSE p1
                 e1 == IF g1 THEN UnregisteredEvents(v1, p1.pending) ELSE <<>>
                 r1 == [th[c] EXCEPT !.touched = z,
                                     !.request = IF g1 THEN m1.active ELSE None]
             IN  /\ mailboxes' = [mailboxes EXCEPT ![k] = z]
                 /\ box' = [box EXCEPT ![z] = m1]
                 /\ inv' = InvAfter(v1, m1, EventInvs(e1))
                 /\ sched' = DecrementPending(s1, k, Len(e1))
                 /\ th' = [th EXCEPT ![c] = Deliver(r1, e1, "publish")]
                 /\ UNCHANGED <<items, unswept, result, calls>>
  <2>1. Admitted(b0)
    BY Zenon DEF EnqueueAdmitted
  <2>2. Admitted(b)
    <3> HIDE DEF Admitted, b0
    <3> QED
      BY Zenon, <1>b, <2>1
  <2> QED
    BY Zenon, <2>2
<1>2. /\ s0 \in SchedType /\ acc \in Nat /\ s0.pendingTasks = sched.pendingTasks
      /\ s0.actorPending = sched.actorPending
      /\ s0.partitionPending = sched.partitionPending /\ s0.accepted = acc
      /\ s0.cancelling = sched.cancelling /\ s0.stopping = sched.stopping
      /\ s0.accepting = sched.accepting /\ s0.stopped = sched.stopped
      /\ s0.executorShutdown = sched.executorShutdown
  <2>1. acc \in Nat
    BY <1>0 DEF SchedType
  <2> HIDE DEF acc
  <2> QED
    BY Zenon, <1>0, <2>1 DEF SchedType
<1> HIDE DEF s0
<1>3. /\ s \in SchedType /\ s.accepted = acc
      /\ s.cancelling = sched.cancelling /\ s.stopping = sched.stopping
      /\ s.accepting = sched.accepting /\ s.stopped = sched.stopped
      /\ s.executorShutdown = sched.executorShutdown
  <2>1. s \in SchedType
    BY <1>2, IncrementType
  <2>2. s.accepted = s0.accepted
    BY <1>2 DEF IncrementPending, SchedType
  <2>3. /\ s.cancelling = s0.cancelling /\ s.stopping = s0.stopping
        /\ s.accepting = s0.accepting
    <3>1. s0 \in SchedType /\ k \in Keys /\ i \in Invocations
      BY Zenon, <1>0, <1>2
    <3> HIDE DEF k
    <3> QED
      BY ONLY Zenon, <3>1, CountersKeepFlags
  <2>4. s.stopped = s0.stopped /\ s.executorShutdown = s0.executorShutdown
    <3>1. s0 \in SchedType /\ k \in Keys /\ i \in Invocations
      BY Zenon, <1>0, <1>2
    <3> HIDE DEF k
    <3> QED
      BY ONLY Zenon, <3>1, CountersKeepCourse
  <2> HIDE DEF s
  <2> QED
    BY <1>2, <2>1, <2>2, <2>3, <2>4
<1>s. s = IncrementPending(s0, i)
  OBVIOUS
<1> HIDE DEF s
<1>5. /\ x \in InvocationType /\ x.home = b /\ x.gen = inv[i].gen /\ x.submitted = TRUE
      /\ x.ticket = acc /\ x.settledAt = inv[i].settledAt /\ TaskEq(x, inv[i])
  <2>1. reg \in BOOLEAN
    OBVIOUS
  <2> DEFINE y == inv[i]
             tk == s.accepted
  <2>2. x = [y EXCEPT !.submitted = TRUE, !.home = b, !.actor = reg, !.ticket = tk]
    OBVIOUS
  <2>3. y \in InvocationType /\ tk \in Nat
    BY <1>0, <1>2, <1>3
  <2> HIDE DEF reg, y, tk, x
  <2>4. /\ x \in InvocationType /\ x.home = b /\ x.gen = y.gen /\ x.submitted = TRUE
        /\ x.ticket = tk /\ x.settledAt = y.settledAt
    BY Zenon, <2>1, <2>2, <2>3 DEF InvocationType
  <2>5. TaskEq(x, y)
    BY <2>1, <2>2, <2>3 DEF InvocationType, TaskEq
  <2> QED
    BY <1>3, <2>4, <2>5 DEF y, tk
<1> HIDE DEF x
<1>6. /\ push \in MailboxType /\ push.active = box[b].active
      /\ push.status = box[b].status /\ push.claimed = box[b].claimed
      /\ push.pending = q /\ push.generation = box[b].generation
  <2> DEFINE y == box[b]
  <2>1. q \in Seq(Invocations) /\ y \in MailboxType
    BY <1>0 DEF MailboxType
  <2>2. push = [y EXCEPT !.pending = q]
    OBVIOUS
  <2> HIDE DEF q, y, push
  <2>3. /\ push \in MailboxType /\ push.active = y.active
        /\ push.status = y.status /\ push.claimed = y.claimed
        /\ push.pending = q /\ push.generation = y.generation
    BY Zenon, <2>1, <2>2 DEF MailboxType
  <2> QED
    BY <2>3 DEF y
<1>7. Structure(mb, bx, v)
  <2>1. ~inv[i].submitted /\ KeyOf[b] = KeyOf[i] /\ mailboxes[KeyOf[i]] \in {None, b}
    BY <1>b
  <2>2. LET p == [box[b] EXCEPT !.pending = Append(box[b].pending, i)] IN
           /\ p \in MailboxType /\ p.active = box[b].active
           /\ p.status = box[b].status /\ p.claimed = box[b].claimed
           /\ Structure([mailboxes EXCEPT ![KeyOf[i]] = b],
                        [box EXCEPT ![b] = p],
                        [inv EXCEPT ![i] = x])
    <3> HIDE DEF k
    <3> QED
      BY ONLY IInv, b \in Invocations, <1>5, <2>1, AdmitStructure, i \in Invocations, Zenon
  <2> QED
    BY <2>2, Zenon
<1> HIDE DEF push
<1>8. /\ v \in [Invocations -> InvocationType]
      /\ bx \in [Invocations -> MailboxType]
      /\ bx[b] = push
      /\ \A a \in Invocations : a # b => bx[a] = box[a]
      /\ \A j \in Invocations : j # i => v[j] = inv[j]
      /\ v[i] = x
      /\ box' = [bx EXCEPT ![b] = m]
  BY Zenon, <1>0, <1>4, <1>5, <1>6
<1>9. JoinsQueue(b, i, bx, v)
  <2>1. HomeInv(bx, v)
    BY <1>7 DEF Structure
  <2> HIDE DEF v, bx
  <2> QED
    BY <1>5, <1>6, <1>8, <2>1 DEF JoinsQueue
<1> HIDE DEF v, bx
<1>10. AdmitOK(b, i, bx, v)
  BY <1>9, AdmitBooks
<1>11. BoxLive(b) /\ inv[i].gen = 0
  BY DEF Live, BoxesLive, IInv, Structure, HomeInv

\* What becomes of the mailbox.
<1>12. /\ m \in MailboxType /\ evs \in Seq(EventType)
       /\ Takes(push, evs, m) /\ Within(m.pending, push.pending)
       /\ req = (IF m.active # box[b].active THEN m.active ELSE None)
       /\ \/ /\ m.active = None /\ box[b].active = None
             /\ m.generation = box[b].generation
          \/ /\ m.active # None /\ box[b].active = None /\ v[m.active].gen = 0
             /\ m.status = "Runnable" /\ m.generation = box[b].generation + 1
          \/ /\ m.active # None /\ m.active = box[b].active
             /\ m.status = box[b].status /\ m.generation = box[b].generation
       /\ m.active # None <=> m.status \in {"Runnable", "Running", "Suspended"}
       /\ m.status # "Stopping"
       /\ m.claimed => m.active = None /\ m.status = "Idle"
       /\ m.pending # <<>> /\ m.active = None => m.claimed
  <2>1. CASE go
    <3>1. m = PrepareNext(v, push) /\ evs = UnregisteredEvents(v, push.pending)
          /\ req = m.active
      BY <2>1
    <3>2. push.active = None /\ box[b].active = None /\ ~push.claimed
      BY <1>6, <1>11, <2>1 DEF BoxLive
    <3>3. Distinct(push)
      BY <1>8, <1>10 DEF AdmitOK
    <3>a. TypeOK /\ push \in MailboxType /\ push.pending \in Seq(Invocations)
      BY <1>0, <1>6 DEF MailboxType
    <3> DEFINE p == PrepareNext(v, push)
    <3>b. /\ p \in MailboxType /\ p.claimed = push.claimed
          /\ Within(p.pending, push.pending)
          /\ p.active = None => p.generation = push.generation
          /\ p.active # None => p.generation = push.generation + 1
      BY <3>2, <3>a, PrepareNextFacts
    <3>c. \/ /\ p.active = None
             /\ p.status = IF sched.stopping THEN "Stopping" ELSE "Idle"
             /\ p.pending = <<>> \/ sched.cancelling
          \/ /\ p.active # None /\ p.status = "Runnable" /\ ~sched.cancelling
             /\ \E n \in DOMAIN push.pending : p.active = push.pending[n]
      BY <3>2, <3>a, PrepareNextLive
    <3>d. m = p
      BY <3>1
    <3> HIDE DEF go, m, evs, req, p
    <3>4. /\ m \in MailboxType /\ m.claimed = push.claimed
          /\ Within(m.pending, push.pending)
          /\ m.active = None => m.generation = push.generation
          /\ m.active # None => m.generation = push.generation + 1
      BY <3>b, <3>d
    <3>5. \/ /\ m.active = None
             /\ m.status = IF sched.stopping THEN "Stopping" ELSE "Idle"
             /\ m.pending = <<>> \/ sched.cancelling
          \/ /\ m.active # None /\ m.status = "Runnable" /\ ~sched.cancelling
             /\ \E n \in DOMAIN push.pending : m.active = push.pending[n]
      BY <3>c, <3>d
    <3>6. Takes(push, evs, m)
      BY Zenon, <1>0, <1>6, <3>1, <3>2, <3>3, PrepareTakes
    <3>7. evs \in Seq(EventType)
      BY Zenon, <1>0, <1>6, <3>1, UnregisteredEventsType DEF MailboxType
    <3>8. m.active # None => v[m.active].gen = 0
      BY <1>8, <1>10, <3>5 DEF AdmitOK, Base
    <3> QED
      BY Zenon, <1>1, <1>6, <3>1, <3>2, <3>4, <3>5, <3>6, <3>7, <3>8
  <2>2. CASE ~go
    <3>1. m = push /\ evs = <<>> /\ req = None
      BY <2>2
    <3>2. m.status # "Stopping" /\ m.status \in Statuses
      BY <1>1, <1>6, <1>11, <3>1 DEF BoxLive, MailboxType
    <3>3. /\ m.active # None <=> m.status \in {"Runnable", "Running", "Suspended"}
          /\ m.claimed => m.active = None /\ m.status = "Idle"
      BY <1>6, <1>11, <3>1 DEF BoxLive
    <3>4. m.active = None => m.claimed
      BY <2>2, <3>1, <3>2, <3>3 DEF Statuses
    <3>5. Takes(push, evs, m)
      BY <3>1 DEF Takes, EventInvs
    <3>6. Within(m.pending, push.pending)
      BY <3>1 DEF Within
    <3> HIDE DEF m, evs, req, go
    <3> QED
      BY <1>6, <3>1, <3>2, <3>3, <3>4, <3>5, <3>6
  <2> QED
    BY <2>1, <2>2
<1> HIDE DEF m, evs, req, go
<1>13. /\ d \in ThreadType /\ d.request = req /\ d.events = evs
       /\ d.pc \in {"deliver", "publish"} /\ d.next # "stopExecutor"
       /\ AtTail(d) /\ (evs # <<>> => d.pc = "deliver")
  <2>1. req \in Invocations \cup {None}
    BY <1>12 DEF MailboxType
  <2>2. rec \in ThreadType /\ rec.request = req
    BY Zenon, <1>0, <2>1 DEF ThreadType
  <2> HIDE DEF rec
  <2>3. "publish" \in PcSet
    BY DEF PcSet, CallerPcs
  <2>4. d \in ThreadType /\ d.request = req
    BY <1>12, <2>2, <2>3, DeliverFacts
  <2>5. /\ d.events = evs
        /\ evs # <<>> => d.pc = "deliver" /\ d.next = "publish"
        /\ evs = <<>> => d.pc = "publish" /\ d.next = "idle"
    BY <2>2, DeliverTail
  <2> HIDE DEF d
  <2> QED
    BY <2>4, <2>5 DEF AtTail
<1> HIDE DEF d
<1>14. /\ th[c].request = None /\ th[c].events = <<>> /\ ~Executing(c)
       /\ \A j \in Invocations : ~Runs(c, j)
  BY <1>0 DEF Live, TailInv, AtTail, Executing, Runs
<1>15. /\ sched'.cancelling = sched.cancelling /\ sched'.stopping = sched.stopping
       /\ sched'.accepting = sched.accepting /\ sched'.stopped = sched.stopped
       /\ sched'.executorShutdown = sched.executorShutdown
  <2> DEFINE n == Len(evs)
  <2>1. sched' = DecrementPending(s, k, n)
    BY <1>4
  <2>2. k \in Keys
    BY <1>0
  <2>3. s \in SchedType /\ i \in Invocations
    BY <1>3
  <2> HIDE DEF n, k
  <2> DEFINE z == DecrementPending(s, k, n)
  <2>4. /\ z.cancelling = s.cancelling /\ z.stopping = s.stopping
        /\ z.accepting = s.accepting
    BY ONLY <2>2, <2>3, CountersKeepFlags
  <2>5. z.stopped = s.stopped /\ z.executorShutdown = s.executorShutdown
    BY ONLY <2>2, <2>3, CountersKeepCourse
  <2>6. sched' = z
    BY <2>1
  <2> HIDE DEF z
  <2> QED
    BY Zenon, <1>3, <2>4, <2>5, <2>6
<1>16. \A j \in Invocations :
          /\ inv'[j].home = v[j].home /\ inv'[j].ticket = v[j].ticket
          /\ inv'[j].submitted = v[j].submitted
          /\ inv'[j].gen = IF j = m.active /\ v[j].gen = 0 THEN m.generation ELSE v[j].gen
          /\ inv'[j].settledAt = IF j \in gone THEN sched.accepted ELSE v[j].settledAt
          /\ j \notin gone => TaskEq(inv'[j], v[j])
          /\ j \in gone => TaskCleared(inv'[j])
  <2> HIDE DEF gone
  <2>1. sched.accepted \in Nat
    BY <1>0 DEF SchedType
  <2> QED
    BY <1>0, <1>4, <1>8, <1>12, <2>1, InvAfterHistory, InvAfterFields
<1>17. \A j \in Invocations : TaskEq(v[j], inv[j])
  BY <1>5, <1>8 DEF TaskEq
<1>18. \A j \in gone : j \in Content(push) /\ j \in Invocations /\ v[j].home = b
                       /\ j # m.active
  <2>1. gone \subseteq Content(push) /\ Content(m) = Content(push) \ gone
    BY <1>12 DEF Takes
  <2>2. \A j \in Content(push) : j \in Invocations /\ v[j].home = b
    <3>1. push.active \in Invocations \cup {None} /\ push.pending \in Seq(Invocations)
      BY Zenon, <1>6 DEF MailboxType
    <3>2. HomeInv(bx, v)
      BY <1>10 DEF AdmitOK, Base
    <3> QED
      BY <1>8, <3>1, <3>2 DEF Content, HomeInv
  <2>3. \A j \in gone : j # None => j # m.active
    BY <2>1 DEF Content
  <2> HIDE DEF gone
  <2> QED
    BY <2>1, <2>2, <2>3
<1> HIDE DEF gone
<1>19. Moves(b, m, c, d)
  <2>1. m.active # None /\ v[m.active].gen = 0 => inv[m.active].gen = 0
    BY Zenon, <1>8, <1>11, <1>12 DEF MailboxType
  <2>2. d.pc \notin {"begin", "start", "resume", "post", "ready"}
        /\ th[c].pc \notin {"begin", "ready"}
        /\ (d.events # <<>> => d.pc \in {"deliver", "sweep"})
    BY <1>13
  <2>3. CASE m.active = None
    BY <1>12, <1>13, <1>14, <2>2, <2>3 DEF Moves
  <2>4. CASE m.active # None /\ box[b].active = None
    BY <1>1, <1>12, <1>13, <1>14, <2>1, <2>2, <2>4 DEF Moves
  <2>5. CASE m.active # None /\ box[b].active # None
    BY <1>12, <1>13, <1>14, <2>2, <2>5 DEF Moves
  <2> QED
    BY <2>3, <2>4, <2>5
<1>20. Section(b, m, c, d)
  <2>1. m.active # None => m.active \in Invocations
    BY <1>12 DEF MailboxType
  <2>2. m.active # None /\ m.active = box[b].active => SameFields(m.active)
    BY <1>16, <1>17, <1>18, <2>1 DEF SameFields, TaskEq
  <2>3. \A j \in Invocations : SameFields(j) \/ (inv'[j].home = b /\ TaskCleared(inv'[j]))
    BY <1>16, <1>17, <1>18 DEF SameFields, TaskEq
  <2>4. mailboxes'[KeyOf[b]] = b /\ unswept' \in {unswept, unswept \ {KeyOf[b]}}
    BY <1>0, <1>b, <1>4
  <2> QED
    BY <1>4, <1>15, <1>19, <2>2, <2>3, <2>4 DEF Section
<1>21. BoxLive(b)'
  <2>1. box'[b] = m
    BY <1>0, <1>4
  <2>2. ~sched'.stopping /\ ~sched'.cancelling
    BY <1>1, <1>15
  <2> QED
    BY <1>12, <2>1, <2>2 DEF BoxLive
<1>22. Live'
  BY <1>0, <1>12, <1>13, <1>20, <1>21, SectionLive
<1>23. Takeout(bx, v, b, m, evs, c, d)
  <2>1. d.events = th[c].events \o evs
    BY <1>12, <1>13, <1>14
  <2>2. d.request = m.active \/ m.active = box[b].active
    BY <1>12, <1>13
  <2>3. \/ /\ m.active = None
           /\ m.generation = bx[b].generation
           /\ bx[b].active # None => m.pending = <<>> \/ sched.cancelling
        \/ /\ m.active # None /\ v[m.active].gen = 0
           /\ m.generation = bx[b].generation + 1 /\ ~sched.cancelling
           /\ d.request = m.active
        \/ /\ m.active # None /\ m.active = bx[b].active
           /\ m.generation = bx[b].generation
    BY <1>1, <1>6, <1>8, <1>12, <2>2
  <2>4. Takes(bx[b], evs, m) /\ Within(m.pending, bx[b].pending)
    BY <1>8, <1>12
  <2>5. \A j \in Invocations :
          /\ inv'[j].home = v[j].home /\ inv'[j].ticket = v[j].ticket
          /\ inv'[j].submitted = v[j].submitted
          /\ inv'[j].gen = IF j = m.active /\ v[j].gen = 0 THEN m.generation ELSE v[j].gen
          /\ inv'[j].settledAt = IF j \in EventInvs(evs) THEN sched.accepted
                                                         ELSE v[j].settledAt
    BY <1>16 DEF gone
  <2> QED
    BY Zenon, <1>4, <1>8, <1>14, <1>15, <2>1, <2>3, <2>4, <2>5 DEF Takeout
<1>24. Ledger'
  <2>1. sched' = DecrementPending(s, KeyOf[b], Len(evs)) /\ sched.accepted <= s.accepted
    BY <1>0, <1>b, <1>3, <1>4 DEF SchedType
  <2>2. Counts(HeldSet(bx), s)
    <3>1. HeldSet(box) \in SUBSET Invocations /\ Counts(HeldSet(box), sched)
      BY DEF HeldSet, Ledger, CountInv
    <3>2. i \notin HeldSet(box) /\ HeldSet(bx) = HeldSet(box) \cup {i}
      BY <1>10 DEF AdmitOK
    <3>3. Counts(HeldSet(box) \cup {i}, IncrementPending(s0, i))
      BY <1>2, <3>1, <3>2, CountsUp
    <3> QED
      BY <1>s, <3>2, <3>3
  <2>3. /\ Base(bx, v) /\ Place(HeldSet(bx), v) /\ Succ(v) /\ Top(bx, v, s.accepted)
    BY <1>3, <1>10 DEF AdmitOK
  <2> QED
    BY <1>0, <1>3, <1>12, <1>23, <2>1, <2>2, <2>3, TakeoutKeeps
<1>25. ShutInv'
  <2>1. \A u \in Threads : th'[u] = IF u = c THEN d ELSE th[u]
    BY <1>0, <1>4
  <2>2. d.pc \notin {"drain", "sweep"} /\ ~Closing(d)
    BY <1>13 DEF Closing
  <2>3. \A u \in Threads : ~Closing(th'[u])
    BY <1>1, <2>1, <2>2
  <2>4. \A u \in Threads : th'[u].pc \notin {"drain", "sweep"}
    BY <1>1, <2>1, <2>2 DEF ShutInv
  <2>5. unswept' = {} /\ ~sched'.executorShutdown /\ ~sched'.stopped
    BY <1>1, <1>4, <1>15
  <2> QED
    BY <2>3, <2>4, <2>5 DEF ShutInv
<1> QED
  BY <1>22, <1>24, <1>25

\* A step that leaves the mailboxes and what the order speaks of alone.
LEMMA SameBooks ==
    ASSUME IInv, Ledger, box' = box, SameCounters,
           \A j \in Invocations : /\ inv'[j].home = inv[j].home /\ inv'[j].gen = inv[j].gen
                                  /\ inv'[j].ticket = inv[j].ticket
                                  /\ inv'[j].settledAt \in {0, inv[j].settledAt}
    PROVE  CountInv' /\ TopInv' /\ HeldSet(box)' = HeldSet(box)
<1>1. HeldSet(box)' = HeldSet(box)
  BY DEF HeldSet
<1>2. CountInv'
  <2>1. Counts(HeldSet(box), sched)
    BY DEF Ledger, CountInv
  <2>2. /\ sched'.pendingTasks = sched.pendingTasks
        /\ sched'.actorPending = sched.actorPending
        /\ sched'.partitionPending = sched.partitionPending
    BY DEF SameCounters
  <2> QED
    BY Zenon, <1>1, <2>1, <2>2 DEF CountInv, Counts, OfKey, OfActor
<1>3. TopInv'
  <2>1. Top(box, inv, sched.accepted)
    BY DEF Ledger, TopInv
  <2>2. sched'.accepted = sched.accepted /\ (sched.cancelling => sched'.cancelling)
        /\ sched.accepted \in Nat
    BY DEF SameCounters, IInv, TypeOK, SchedType
  <2>3. \A b \in Invocations : /\ box[b].active \in Invocations \cup {None}
                               /\ \A n \in DOMAIN box[b].pending :
                                     box[b].pending[n] \in Invocations
    BY DEF IInv, TypeOK, MailboxType
  <2>4. ASSUME NEW b \in Invocations, box'[b].active # None
        PROVE  inv'[box'[b].active].gen = box'[b].generation
    BY <2>1, <2>3, <2>4 DEF Top
  <2>5. \A j \in Invocations : inv'[j].settledAt <= sched'.accepted
    BY <2>1, <2>2 DEF Top
  <2>6. ASSUME NEW j \in Invocations, NEW b \in Invocations,
               inv'[j].home = b, inv'[j].gen > 0, inv'[j].gen = box'[b].generation,
               box'[b].active # j, inv'[j].settledAt > 0, ~sched'.cancelling,
               NEW n \in DOMAIN box'[b].pending
        PROVE  inv'[box'[b].pending[n]].ticket > inv'[j].settledAt
    <3>1. inv'[j].settledAt = inv[j].settledAt
      BY <2>6
    <3>2. inv[box[b].pending[n]].ticket > inv[j].settledAt
      BY Zenon, <2>1, <2>2, <2>6, <3>1 DEF Top
    <3> QED
      BY <2>3, <3>1, <3>2
  <2> QED
    BY Zenon, <2>4, <2>5, <2>6 DEF TopInv, Top
<1> QED
  BY <1>1, <1>2, <1>3

\* enqueue of a refused invocation.
LEMMA EnqueueRejectedKeeps ==
    ASSUME IInv, Live, Ledger, ShutInv, NEW c \in Callers, NEW i \in Invocations,
           NEW r \in Results, th[c].pc = "idle", ~inv[i].submitted, EnqueueRejected(c, i, r)
    PROVE  Live' /\ Ledger' /\ ShutInv'
<1> DEFINE evs == <<Event(i, r)>>
           H == HeldSet(box)
<1>1. /\ Live' /\ SameCounters /\ SameFlags /\ inv'[i].submitted
      /\ th[c].events = <<>> /\ th[c].request = None
      /\ \A j \in Invocations : /\ inv'[j] = inv[j] \/ j = i
                                /\ inv'[j].home = inv[j].home /\ inv'[j].gen = inv[j].gen
                                /\ inv'[j].ticket = inv[j].ticket
                                /\ inv'[j].settledAt = inv[j].settledAt
      /\ box' = box /\ calls' = calls
  BY EnqueueRejectedLive
<1>2. PICK rec \in ThreadType :
         /\ rec.pc = "deliver" /\ rec.next = "publish" /\ rec.request = None
         /\ rec.events = evs /\ th' = [th EXCEPT ![c] = rec]
  BY Zenon, EnqueueRejectedLive
<1>3. /\ c \in Threads /\ c \notin Workers /\ th \in [Threads -> ThreadType]
      /\ \A u \in Threads : th'[u] = IF u = c THEN rec ELSE th[u]
  BY <1>2 DEF Threads, IInv, TypeOK
<1>4. CountInv' /\ TopInv' /\ HeldSet(box)' = H
  BY <1>1, SameBooks
<1>5. i \notin H
  BY DEF HeldSet, Content, IInv, Structure, HomeInv
<1>6. DOMAIN evs = {1} /\ evs[1].inv = i
  BY DEF Event
<1> HIDE DEF evs, H
<1>7. Place(H, inv) /\ calls[i] = 0
  BY DEF H, Ledger, PlaceInv, Place
<1>8. ASSUME NEW u \in Threads, NEW n \in DOMAIN th'[u].events
      PROVE  \/ u # c /\ th'[u] = th[u] /\ n \in DOMAIN th[u].events
             \/ u = c /\ n = 1 /\ th'[u].events[n].inv = i
  BY <1>2, <1>3, <1>6, <1>8
<1>9. \A j \in Invocations, u \in Threads : InEvents(j, u) => u # c /\ th'[u] = th[u]
  BY <1>1, <1>3 DEF InEvents
<1>10. PlaceInv'
  <2>1. InEvents(i, c)'
    BY <1>2, <1>3, <1>6 DEF InEvents
  <2>2. \A j \in Invocations, u \in Threads : InEvents(j, u) => InEvents(j, u)'
    BY <1>9 DEF InEvents
  <2>3. ASSUME NEW j \in Invocations
        PROVE  /\ calls'[j] \in {0, 1}
               /\ ~inv'[j].submitted => calls'[j] = 0
               /\ inv'[j].submitted => \/ calls'[j] = 1
                                       \/ j \in H
                                       \/ \E u \in Threads : InEvents(j, u)'
               /\ j \in H => calls'[j] = 0
    <3>1. /\ calls[j] \in {0, 1}
          /\ ~inv[j].submitted => calls[j] = 0
          /\ inv[j].submitted => \/ calls[j] = 1
                                 \/ j \in H
                                 \/ \E u \in Threads : InEvents(j, u)
          /\ j \in H => calls[j] = 0
      BY <1>7 DEF Place
    <3> QED
      BY <1>1, <1>3, <2>1, <2>2, <3>1
  <2>4. ASSUME NEW u \in Threads, NEW n \in DOMAIN th[u].events
        PROVE  th[u].events[n].inv \in Invocations /\ th[u].events[n].inv # i
    <3>1. th[u].events \in Seq(EventType)
      BY DEF IInv, TypeOK, ThreadType
    <3>2. \A e \in EventType : e.inv \in Invocations
      BY DEF EventType
    <3>3. th[u].events[n] \in EventType
      BY <2>4, <3>1
    <3> QED
      BY <1>7, <2>4, <3>2, <3>3 DEF Place
  <2>5. ASSUME NEW u \in Threads, NEW n \in DOMAIN th'[u].events, NEW j,
               j = th'[u].events[n].inv
        PROVE  /\ inv'[j].submitted /\ calls'[j] = 0 /\ j \notin H
               /\ \A w \in Threads : \A k \in DOMAIN th'[w].events :
                     th'[w].events[k].inv = j => w = u /\ k = n
    <3>1. CASE u # c /\ th'[u] = th[u] /\ n \in DOMAIN th[u].events
      <4>1. /\ inv[j].submitted /\ calls[j] = 0 /\ j \notin H /\ j \in Invocations /\ j # i
            /\ \A w \in Threads : \A k \in DOMAIN th[w].events :
                  th[w].events[k].inv = j => w = u /\ k = n
        BY <1>7, <2>4, <2>5, <3>1 DEF Place
      <4>2. ASSUME NEW w \in Threads, NEW k \in DOMAIN th'[w].events,
                   th'[w].events[k].inv = j
            PROVE  w = u /\ k = n
        BY <1>8, <4>1, <4>2
      <4> QED
        BY <1>1, <4>1, <4>2
    <3>2. CASE u = c /\ n = 1 /\ th'[u].events[n].inv = i
      <4>1. ASSUME NEW w \in Threads, NEW k \in DOMAIN th'[w].events,
                   th'[w].events[k].inv = j
            PROVE  w = u /\ k = n
        BY <1>8, <2>4, <2>5, <3>2, <4>1
      <4> QED
        BY <1>1, <1>5, <1>7, <2>5, <3>2, <4>1
    <3> QED
      BY <1>8, <3>1, <3>2
  <2>6. Place(H, inv)'
    BY <1>4, <2>3, <2>5 DEF Place, H
  <2> QED
    BY <1>4, <2>6 DEF PlaceInv, H
<1>11. SuccInv'
  <2> SUFFICES ASSUME NEW j \in Invocations, NEW k \in Invocations,
                      inv'[j].gen > 0, inv'[j].home = inv'[k].home,
                      inv'[k].gen = inv'[j].gen + 1,
                      inv'[j].ticket < inv'[k].ticket, inv'[k].ticket <= inv'[j].settledAt
               PROVE  \E u \in Threads : th'[u].request = k /\ InEvents(j, u)'
    BY DEF SuccInv, Succ
  <2>1. PICK u \in Threads : th[u].request = k /\ InEvents(j, u)
    BY <1>1 DEF Ledger, SuccInv, Succ
  <2>2. th'[u] = th[u]
    BY <1>9, <2>1
  <2> QED
    BY <2>1, <2>2 DEF InEvents
<1>12. ShutInv'
  <2>1. ASSUME NEW u \in Threads
        PROVE  /\ th'[u].pc \in {"drain", "sweep"} => th'[u].pc = th[u].pc
               /\ Closing(th'[u]) => Closing(th[u])
               /\ u \in Workers /\ th'[u].pc # "idle" => th[u].pc # "idle" \/ ~sched.stopped
    BY <1>2, <1>3 DEF Closing
  <2>2. SameCourse
    BY <1>1, <2>1 DEF SameCourse
  <2> QED
    BY <1>1, <2>2, SameCourseShut
<1> QED
  BY <1>1, <1>4, <1>10, <1>11, <1>12 DEF Ledger

\* What is left of a list of events without its head.
LEMMA TailEvents ==
    ASSUME NEW e \in Seq(EventType), e # <<>>
    PROVE  /\ 1 \in DOMAIN e /\ e[1] = Head(e)
           /\ \A n \in DOMAIN Tail(e) : /\ n + 1 \in DOMAIN e /\ Tail(e)[n] = e[n + 1]
                                        /\ n \in Nat /\ n + 1 # 1
           /\ \A n \in DOMAIN e : /\ n \in Nat
                                  /\ n # 1 => n - 1 \in DOMAIN Tail(e)
                                              /\ Tail(e)[n - 1] = e[n]
<1>1. /\ Len(e) \in Nat /\ Len(e) # 0 /\ DOMAIN e = 1..Len(e) /\ Head(e) = e[1]
      /\ DOMAIN Tail(e) = 1..(Len(e) - 1)
      /\ \A n \in 1..(Len(e) - 1) : Tail(e)[n] = e[n + 1]
  <2>1. Tail(e) \in Seq(EventType) /\ Len(Tail(e)) = Len(e) - 1
    OBVIOUS
  <2>2. DOMAIN Tail(e) = 1..Len(Tail(e))
    BY <2>1
  <2> QED
    BY <2>1, <2>2
<1> DEFINE l == Len(e)
           f == Tail(e)
<1> HIDE DEF l, f
<1>2. /\ l \in Nat /\ l # 0 /\ DOMAIN e = 1..l /\ Head(e) = e[1]
      /\ DOMAIN f = 1..(l - 1) /\ \A n \in 1..(l - 1) : f[n] = e[n + 1]
  BY <1>1 DEF l, f
<1>3. \A n \in 1..(l - 1) : n + 1 \in 1..l /\ n \in Nat /\ n + 1 # 1
  BY <1>2
<1>4. 1 \in 1..l
  BY <1>2
<1>5. ASSUME NEW n \in 1..l, n # 1
      PROVE  n - 1 \in 1..(l - 1) /\ f[n - 1] = e[n]
  <2>1. n - 1 \in 1..(l - 1) /\ (n - 1) + 1 = n
    BY <1>2, <1>5
  <2> QED
    BY <1>2, <2>1
<1>6. \A n \in 1..l : n \in Nat
  BY <1>2
<1>7. \A n \in DOMAIN f : n + 1 \in DOMAIN e /\ f[n] = e[n + 1] /\ n \in Nat /\ n + 1 # 1
  BY Zenon, <1>2, <1>3
<1>8. \A n \in DOMAIN e : n \in Nat /\ (n # 1 => n - 1 \in DOMAIN f /\ f[n - 1] = e[n])
  BY Zenon, <1>2, <1>5, <1>6
<1> QED
  BY Zenon, <1>2, <1>4, <1>7, <1>8 DEF f

\* invoke_completion: the result leaves the thread's events and is delivered.
LEMMA InvokeCompletionKeeps ==
    ASSUME IInv, Live, Ledger, ShutInv, NEW t \in Threads, InvokeCompletion(t)
    PROVE  Live' /\ Ledger' /\ ShutInv'
<1> DEFINE H == HeldSet(box)
           old == th[t].events
<1>0. Live' /\ th[t].pc = "deliver" /\ old # <<>> /\ Head(old).inv \in Invocations
  BY InvokeCompletionLive
<1>z. PICK z \in Invocations : z = Head(old).inv
  BY <1>0
<1>1. /\ calls' = [calls EXCEPT ![z] = @ + 1]
      /\ inv'[z].settledAt = 0
      /\ \A j \in Invocations : /\ inv'[j] = inv[j] \/ j = z
                                /\ inv'[j].home = inv[j].home /\ inv'[j].gen = inv[j].gen
                                /\ inv'[j].ticket = inv[j].ticket
                                /\ inv'[j].submitted = inv[j].submitted
      /\ UNCHANGED <<sched, mailboxes, box, items, unswept>>
  BY <1>z, InvokeCompletionLive
<1>2. PICK rec \in ThreadType :
         /\ rec.events = Tail(old) /\ rec.request = th[t].request
         /\ \/ rec.pc = "deliver" /\ rec.next = th[t].next
            \/ rec.pc = th[t].next /\ rec.next = "idle"
         /\ th' = [th EXCEPT ![t] = rec]
  BY InvokeCompletionLive
<1>3. /\ th \in [Threads -> ThreadType] /\ calls \in [Invocations -> Nat]
      /\ \A u \in Threads : th'[u] = IF u = t THEN rec ELSE th[u]
      /\ \A u \in Threads : th[u].events \in Seq(EventType)
      /\ \A j \in Invocations : calls'[j] = IF j = z THEN calls[j] + 1 ELSE calls[j]
  <2>1. th \in [Threads -> ThreadType] /\ calls \in [Invocations -> Nat]
    BY DEF IInv, TypeOK
  <2> QED
    BY Zenon, <1>1, <1>2, <2>1 DEF ThreadType
<1>4. CountInv' /\ TopInv' /\ HeldSet(box)' = H
  <2>1. SameCounters
    BY <1>1 DEF SameCounters
  <2>2. \A j \in Invocations : inv'[j].settledAt \in {0, inv[j].settledAt}
    BY <1>1
  <2> QED
    BY <1>1, <2>1, <2>2, SameBooks
<1> HIDE DEF H
<1>5. Place(H, inv)
  BY DEF H, Ledger, PlaceInv
<1>6. /\ 1 \in DOMAIN old /\ old[1].inv = z
      /\ \A n \in DOMAIN Tail(old) : /\ n + 1 \in DOMAIN old /\ Tail(old)[n] = old[n + 1]
                                     /\ n \in Nat /\ n + 1 # 1
      /\ \A n \in DOMAIN old : n # 1 => /\ n - 1 \in DOMAIN Tail(old)
                                        /\ Tail(old)[n - 1] = old[n]
  <2>1. old \in Seq(EventType) /\ old # <<>> /\ Head(old).inv = z
    BY Zenon, <1>0, <1>z, <1>3
  <2> HIDE DEF old
  <2> QED
    BY Zenon, <2>1, TailEvents
<1>7. /\ inv[z].submitted /\ calls[z] = 0 /\ z \notin H
      /\ \A u \in Threads : \A k \in DOMAIN th[u].events :
            th[u].events[k].inv = z => u = t /\ k = 1
  BY <1>5, <1>6 DEF Place

\* An event of the new state is an old one that is not the delivered one.
<1>8. ASSUME NEW u \in Threads, NEW n \in DOMAIN th'[u].events
      PROVE  \/ u # t /\ n \in DOMAIN th[u].events /\ th'[u].events[n] = th[u].events[n]
             \/ /\ u = t /\ n + 1 \in DOMAIN old /\ th'[u].events[n] = old[n + 1]
                /\ n \in Nat /\ n + 1 # 1
  <2>1. CASE u # t
    BY <1>3, <1>8, <2>1
  <2>2. CASE u = t
    <3>1. th'[u].events = Tail(old)
      BY <1>2, <1>3, <2>2
    <3> HIDE DEF old
    <3> QED
      BY <1>6, <1>8, <2>2, <3>1
  <2> QED
    BY <2>1, <2>2
<1>9. ASSUME NEW j \in Invocations, j # z, NEW u \in Threads, InEvents(j, u)
      PROVE  InEvents(j, u)' /\ th'[u].request = th[u].request
  <2>1. CASE u # t
    BY Zenon, <1>3, <1>9, <2>1 DEF InEvents
  <2>2. CASE u = t
    <3>1. PICK n \in DOMAIN old : old[n].inv = j
      BY <1>9, <2>2 DEF InEvents
    <3>2. n # 1
      BY <1>6, <1>9, <3>1
    <3>3. n - 1 \in DOMAIN Tail(old) /\ Tail(old)[n - 1].inv = j
      BY Zenon, <1>6, <3>1, <3>2
    <3>4. th'[u].events = Tail(old) /\ th'[u].request = th[u].request
      BY <1>2, <1>3, <2>2
    <3> HIDE DEF old
    <3> QED
      BY <3>3, <3>4 DEF InEvents
  <2> QED
    BY <2>1, <2>2
<1>10. PlaceInv'
  <2>1. ASSUME NEW j \in Invocations
        PROVE  /\ calls'[j] \in {0, 1}
               /\ ~inv'[j].submitted => calls'[j] = 0
               /\ inv'[j].submitted => \/ calls'[j] = 1
                                       \/ j \in H
                                       \/ \E u \in Threads : InEvents(j, u)'
               /\ j \in H => calls'[j] = 0
    <3>1. /\ calls[j] \in {0, 1}
          /\ ~inv[j].submitted => calls[j] = 0
          /\ inv[j].submitted => \/ calls[j] = 1
                                 \/ j \in H
                                 \/ \E u \in Threads : InEvents(j, u)
          /\ j \in H => calls[j] = 0
      BY <1>5 DEF Place
    <3>2. CASE j = z
      <4>1. calls'[j] = 1
        BY <1>3, <1>7, <3>2
      <4> QED
        BY <1>1, <1>7, <3>2, <4>1
    <3>3. CASE j # z
      <4>1. calls'[j] = calls[j] /\ inv'[j].submitted = inv[j].submitted
        BY <1>1, <1>3, <3>3
      <4> QED
        BY <1>9, <3>1, <3>3, <4>1
    <3> QED
      BY <3>2, <3>3
  <2>2. \A u \in Threads : \A n \in DOMAIN th[u].events : th[u].events[n].inv \in Invocations
    <3>1. \A e \in EventType : e.inv \in Invocations
      BY DEF EventType
    <3>2. ASSUME NEW u \in Threads, NEW n \in DOMAIN th[u].events
          PROVE  th[u].events[n] \in EventType
      BY <1>3, <3>2
    <3> QED
      BY <3>1, <3>2
  <2>3. ASSUME NEW u \in Threads, NEW k \in DOMAIN th[u].events, NEW j,
               j = th[u].events[k].inv, u # t \/ k # 1
        PROVE  /\ inv'[j].submitted /\ calls'[j] = 0 /\ j \notin H
               /\ \A w \in Threads : \A n \in DOMAIN th[w].events :
                     th[w].events[n].inv = j => w = u /\ n = k
    <3>1. /\ inv[j].submitted /\ calls[j] = 0 /\ j \notin H /\ j \in Invocations
          /\ \A w \in Threads : \A n \in DOMAIN th[w].events :
                th[w].events[n].inv = j => w = u /\ n = k
      BY <1>5, <2>2, <2>3 DEF Place
    <3>2. j # z
      BY <1>7, <2>3
    <3> QED
      BY <1>1, <1>3, <3>1, <3>2
  <2>4. ASSUME NEW u \in Threads, NEW n \in DOMAIN th'[u].events, NEW j,
               j = th'[u].events[n].inv
        PROVE  /\ inv'[j].submitted /\ calls'[j] = 0 /\ j \notin H
               /\ \A w \in Threads : \A k \in DOMAIN th'[w].events :
                     th'[w].events[k].inv = j => w = u /\ k = n
    <3>1. CASE u # t /\ n \in DOMAIN th[u].events /\ th'[u].events[n] = th[u].events[n]
      <4>1. /\ inv'[j].submitted /\ calls'[j] = 0 /\ j \notin H
            /\ \A w \in Threads : \A k \in DOMAIN th[w].events :
                  th[w].events[k].inv = j => w = u /\ k = n
        BY <2>3, <2>4, <3>1
      <4>2. ASSUME NEW w \in Threads, NEW k \in DOMAIN th'[w].events,
                   th'[w].events[k].inv = j
            PROVE  w = u /\ k = n
        BY <1>8, <3>1, <4>1, <4>2
      <4> QED
        BY <4>1, <4>2
    <3>2. CASE /\ u = t /\ n + 1 \in DOMAIN old /\ th'[u].events[n] = old[n + 1]
               /\ n \in Nat /\ n + 1 # 1
      <4>1. /\ inv'[j].submitted /\ calls'[j] = 0 /\ j \notin H
            /\ \A w \in Threads : \A k \in DOMAIN th[w].events :
                  th[w].events[k].inv = j => w = t /\ k = n + 1
        BY <2>3, <2>4, <3>2
      <4>2. ASSUME NEW w \in Threads, NEW k \in DOMAIN th'[w].events,
                   th'[w].events[k].inv = j
            PROVE  w = u /\ k = n
        <5>1. w = t /\ k + 1 = n + 1 /\ k \in Nat
          BY <1>8, <4>1, <4>2
        <5> QED
          BY <3>2, <5>1
      <4> QED
        BY <4>1, <4>2
    <3> QED
      BY <1>8, <3>1, <3>2
  <2>5. Place(H, inv)'
    BY <1>4, <2>1, <2>4 DEF Place, H
  <2> QED
    BY <1>4, <2>5 DEF PlaceInv, H
<1>11. SuccInv'
  <2> SUFFICES ASSUME NEW j \in Invocations, NEW k \in Invocations,
                      inv'[j].gen > 0, inv'[j].home = inv'[k].home,
                      inv'[k].gen = inv'[j].gen + 1,
                      inv'[j].ticket < inv'[k].ticket, inv'[k].ticket <= inv'[j].settledAt
               PROVE  \E u \in Threads : th'[u].request = k /\ InEvents(j, u)'
    BY DEF SuccInv, Succ
  <2>1. j # z
    <3>1. inv[j].ticket \in Nat /\ inv[k].ticket \in Nat
      BY DEF IInv, TypeOK, InvocationType
    <3> QED
      BY <1>1, <3>1
  <2>2. PICK u \in Threads : th[u].request = k /\ InEvents(j, u)
    BY <1>1, <2>1 DEF Ledger, SuccInv, Succ
  <2> QED
    BY <1>9, <2>1, <2>2
<1>12. ShutInv'
  <2>1. th[t].next \in {"idle", "publish", "dispatch", "claim", "stopExecutor"}
    BY DEF IInv, HolderInv, RecOK
  <2>2. ASSUME NEW u \in Threads
        PROVE  /\ th'[u].pc \in {"drain", "sweep"} => th'[u].pc = th[u].pc
               /\ Closing(th'[u]) => Closing(th[u])
               /\ u \in Workers /\ th'[u].pc # "idle" => th[u].pc # "idle" \/ ~sched.stopped
    <3>1. CASE u = t
      BY Zenon, <1>0, <1>2, <1>3, <2>1, <3>1 DEF Closing
    <3>2. CASE u # t
      BY <1>3, <3>2
    <3> QED
      BY <3>1, <3>2
  <2>3. SameCourse
    BY <1>1, <2>2 DEF SameCourse, SameFlags
  <2> QED
    BY <1>1, <2>3, SameCourseShut
<1> QED
  BY <1>0, <1>4, <1>10, <1>11, <1>12 DEF Ledger

\* A step that moves nothing and does not change the course of a shutdown.
LEMMA CalmCourseKeeps ==
    ASSUME IInv, Ledger, ShutInv, Calm, SameCourse
    PROVE  Ledger' /\ ShutInv'
<1>1. Ledger' /\ HeldSet(box') = HeldSet(box)
  BY CalmKeeps
<1> QED
  BY <1>1, SameCourseShut

\* enqueue, cancel, shutdown and the rest of a shutdown call.
LEMMA CallerKeeps ==
    ASSUME IInv, IInv', Fifo, Live, Ledger, ShutInv, NEW c \in Callers,
           CallerNext(c) \/ ShutdownSteps(c)
    PROVE  Live' /\ Ledger' /\ ShutInv'
<1>c. c \in Threads
  BY DEF Threads
<1>1. ASSUME NEW i \in Invocations, Enqueue(c, i)
      PROVE  Live' /\ Ledger' /\ ShutInv'
  <2>1. th[c].pc = "idle" /\ ~inv[i].submitted
    BY <1>1 DEF Enqueue
  <2>2. ASSUME NEW r \in Results, EnqueueRejected(c, i, r)
        PROVE  Live' /\ Ledger' /\ ShutInv'
    BY <2>1, <2>2, EnqueueRejectedKeeps
  <2>3. CASE sched.accepting /\ ~PendingLimitExceeded(i) /\ EnqueueAdmitted(c, i)
    BY <2>1, <2>3, EnqueueAdmittedKeeps
  <2>4. {"stopped", "backpressure"} \subseteq Results
    BY DEF Results
  <2> QED
    BY <1>1, <2>2, <2>3, <2>4 DEF Enqueue
<1>2. ASSUME NEW k \in Keys, NEW msg \in Messages, Cancel(c, k, msg)
      PROVE  Live' /\ Ledger' /\ ShutInv'
  <2>1. CASE SomeLeave(c)
    BY <1>c, <2>1, LeavesKeeps
  <2>2. ASSUME NEW b \in Invocations, box[b].active # None, box[b].status = "Running",
               inv' = [inv EXCEPT ![box[b].active].cancelAfterResume = TRUE],
               th' = [th EXCEPT ![c] = Deliver([th[c] EXCEPT !.touched = b],
                                               <<>>, "publish")],
               UNCHANGED <<box, sched, mailboxes, items, unswept, result, calls>>
        PROVE  Live' /\ Ledger' /\ ShutInv'
    <3>1. th[c].pc = "idle"
      BY <1>2 DEF Cancel
    <3>2. Live' /\ Calm /\ SameCourse
      BY Zenon, <2>2, <3>1, CancelRunningLive
    <3> QED
      BY <3>2, CalmCourseKeeps
  <2> QED
    BY Zenon, <1>2, <2>1, <2>2, CancelLeaves
<1>3. ASSUME NEW mode \in ShutdownModes, Shutdown(c, mode)
      PROVE  Live' /\ Ledger' /\ ShutInv'
  BY <1>3, ShutdownLive, CalmKeeps
<1>4. CASE DrainDone(c) \/ SweepDone(c) \/ StopExecutor(c) \/ Joined(c)
  BY <1>4, ShutdownTailLive, CalmKeeps DEF Ledger
<1>5. ASSUME NEW k \in Keys, SweepMailbox(c, k)
      PROVE  Live' /\ Ledger' /\ ShutInv'
  BY <1>5, SweepMailboxKeeps
<1>6. CASE ShutdownReturns(c)
  BY <1>6, ShutdownReturnsLive, CalmCourseKeeps
<1> QED
  BY <1>1, <1>2, <1>3, <1>4, <1>5, <1>6 DEF CallerNext, ShutdownSteps

\* publish_requests, the delivery of results and the reclamation of a mailbox.
LEMMA TailKeeps ==
    ASSUME IInv, IInv', Fifo, Live, Ledger, ShutInv, NEW t \in Threads, TailSteps(t)
    PROVE  Live' /\ Ledger' /\ ShutInv'
<1>1. CASE InvokeCompletion(t)
  BY <1>1, InvokeCompletionKeeps
<1>2. CASE ReclaimIdleMailbox(t)
  BY <1>2, ReclaimIdleMailboxLive, CalmCourseKeeps
<1>3. CASE PublishRequest(t)
  <2>1. /\ th[t].request \in Invocations /\ AtPublish(t) /\ th[t].events = <<>>
    BY <1>3, PublishRequestLeaves
  <2>2. PICK i \in Invocations : i = th[t].request
    BY <2>1
  <2>3. CASE SomeLeave(t)
    BY <2>3, LeavesKeeps
  <2>4. ASSUME NEW rec \in ThreadType, rec.request = None, rec.pc \in {"idle", "publish"},
               rec.events = <<>>, th' = [th EXCEPT ![t] = rec],
               UNCHANGED <<mailboxes, box, inv, unswept, result, calls>>,
               \/ /\ items' = [items EXCEPT ![i] = @ + 1]
                  /\ \/ sched' = sched
                     \/ sched' = [sched EXCEPT !.late = @ \cup {i}]
               \/ /\ UNCHANGED <<sched, items>>
                  /\ \A b \in Invocations : box[b].active # i
        PROVE  Live' /\ Ledger' /\ ShutInv'
    <3>1. SameCounters /\ SameFlags
      <4>1. sched' = sched \/ \E x : sched' = [sched EXCEPT !.late = x]
        BY Zenon, <2>4
      <4> QED
        BY Zenon, <2>4, <4>1, SchedSame
    <3>2. th[t].pc \in {"publish", "dispatch"}
      BY <2>1 DEF AtPublish
    <3>3. \/ items' = [items EXCEPT ![i] = @ + 1]
          \/ items' = items /\ \A b \in Invocations : box[b].active # i
      BY <2>4
    <3>4. Live' /\ Calm /\ SameCourse
      BY Zenon, <2>1, <2>2, <2>4, <3>1, <3>2, <3>3, PushLive
    <3> QED
      BY <3>4, CalmCourseKeeps
  <2> QED
    BY <1>3, <2>2, <2>3, <2>4, PublishRequestLeaves
<1> QED
  BY <1>1, <1>2, <1>3 DEF TailSteps

\* run_mailbox and the rest of a worker's loop.
LEMMA WorkerKeeps ==
    ASSUME IInv, IInv', Fifo, Live, Ledger, ShutInv, NEW w \in Workers, WorkerSteps(w)
    PROVE  Live' /\ Ledger' /\ ShutInv'
<1>w. w \in Threads
  BY DEF Threads
<1>1. CASE TakeWork(w)
  BY <1>1, TakeWorkLive, CalmCourseKeeps
<1>2. CASE Begin(w)
  BY <1>2, BeginLive, CalmCourseKeeps
<1>3. CASE AttachTask(w)
  BY <1>3, AttachTaskLive, CalmCourseKeeps
<1>4. CASE StartError(w)
  BY <1>w, <1>4, StartErrorLeaves, LeavesKeeps
<1>5. ASSUME NEW s \in ResumeOutcomes, Resume(w, s)
      PROVE  Live' /\ Ledger' /\ ShutInv'
  BY <1>5, ResumeLive, CalmCourseKeeps
<1>6. CASE AfterResume(w)
  <2>1. CASE SomeLeave(w)
    BY <1>w, <2>1, LeavesKeeps
  <2>2. ASSUME NEW b \in Invocations, NEW i \in Invocations,
               Runs(w, i), box[b].active = i, box[b].status = "Running",
               th[w].pc = "post", inv[i].task \in {"yielded", "awaiting"},
               sched.cancelling => KeyOf[b] \in unswept,
               KeepActive(w, b, i),
               UNCHANGED <<mailboxes, items, unswept, result, calls>>
        PROVE  Live' /\ Ledger' /\ ShutInv'
    BY <2>2, KeepActiveLive, CalmCourseKeeps
  <2> QED
    BY <1>6, <2>1, <2>2, AfterResumeLeaves
<1>7. CASE IdleHandoff(w)
  <2>1. CASE SomeLeave(w)
    BY <1>w, <2>1, LeavesKeeps
  <2>2. ASSUME NEW rec \in ThreadType,
               th[w].pc = "claim", rec.pc \in {"claim", "dispatch"},
               rec.request = th[w].request, rec.events = th[w].events,
               th' = [th EXCEPT ![w] = rec],
               UNCHANGED <<sched, mailboxes, box, inv, items, unswept, result, calls>>
        PROVE  Live' /\ Ledger' /\ ShutInv'
    BY Zenon, <2>2, IdleHandoffLive, CalmCourseKeeps
  <2> QED
    BY <1>7, <2>1, <2>2, IdleHandoffLeaves
<1>8. CASE LocalHandoff(w)
  BY <1>8, LocalHandoffLive, CalmCourseKeeps
<1> QED
  BY <1>1, <1>2, <1>3, <1>4, <1>5, <1>6, <1>7, <1>8 DEF WorkerSteps

\* The completion handlers of Asio operations.
LEMMA IoKeeps ==
    ASSUME IInv, Live, Ledger, ShutInv, NEW o \in IoThreads, IoSteps(o)
    PROVE  Live' /\ Ledger' /\ ShutInv'
<1>1. ASSUME NEW i \in Invocations, OperationCompletes(o, i)
      PROVE  Live' /\ Ledger' /\ ShutInv'
  BY <1>1, OperationCompletesLive, CalmCourseKeeps
<1>2. CASE OnExternalReady(o)
  BY <1>2, OnExternalReadyLive, CalmCourseKeeps
<1> QED
  BY <1>1, <1>2 DEF IoSteps

\* A step that leaves everything but the registered actors alone.
LEMMA ActorsKeep ==
    ASSUME IInv, Live, Ledger, ShutInv,
           UNCHANGED <<mailboxes, box, inv, items, unswept, th, result, calls>>,
           \E x : sched' = [sched EXCEPT !.actors = x]
    PROVE  Live' /\ Ledger' /\ ShutInv'
<1>1. Live' /\ Calm /\ SameCourse
  BY Zenon, ActorsLive
<1> QED
  BY <1>1, CalmCourseKeeps

\* Every step of every thread keeps what is live and the books.
THEOREM NextKeepsBooks ==
    IInv /\ Fifo /\ Live /\ Ledger /\ ShutInv /\ [Next]_vars => Live' /\ Ledger' /\ ShutInv'
<1> SUFFICES ASSUME IInv, Fifo, Live, Ledger, ShutInv, [Next]_vars
             PROVE  Live' /\ Ledger' /\ ShutInv'
  OBVIOUS
<1>0. IInv'
  BY NextKeepsInvariant
<1>1. ASSUME NEW a \in Actors, RegisterActor(a)
      PROVE  Live' /\ Ledger' /\ ShutInv'
  <2>1. \E x : sched' = [sched EXCEPT !.actors = x]
    BY Zenon, <1>1 DEF RegisterActor
  <2> QED
    BY Zenon, <1>1, <2>1, ActorsKeep DEF RegisterActor
<1>2. CASE ReleaseActors
  <2>1. \E x : sched' = [sched EXCEPT !.actors = x]
    BY Zenon, <1>2 DEF ReleaseActors
  <2> QED
    BY Zenon, <1>2, <2>1, ActorsKeep DEF ReleaseActors
<1>3. CASE UNCHANGED vars
  <2>1. sched' = [sched EXCEPT !.actors = sched.actors]
    BY <1>3 DEF vars, IInv, TypeOK, SchedType
  <2> QED
    BY Zenon, <1>3, <2>1, ActorsKeep DEF vars
<1> QED
  BY <1>0, <1>1, <1>2, <1>3, CallerKeeps, TailKeeps, WorkerKeeps, IoKeeps DEF Next

\* What is live, and the books, in an initial state.
THEOREM InitEstablishesBooks == Init => Live /\ Ledger /\ ShutInv
<1> SUFFICES ASSUME Init
             PROVE  Live /\ Ledger /\ ShutInv
  OBVIOUS
<1>1. /\ \A b \in Invocations : /\ box[b].status = "Idle" /\ box[b].claimed = FALSE
                                /\ box[b].pending = <<>> /\ box[b].active = None
      /\ \A i \in Invocations :
            /\ inv[i].gen = 0 /\ inv[i].settledAt = 0 /\ inv[i].submitted = FALSE
            /\ inv[i].epoch = 0 /\ inv[i].readyEpoch = 0 /\ inv[i].completedEpoch = 0
            /\ calls[i] = 0
      /\ \A t \in Threads : th[t] = IdleThread
      /\ unswept = {}
  BY DEF Init, NewMailbox, NewInvocation
<1>2. /\ ~sched.stopping /\ ~sched.cancelling /\ ~sched.stopped /\ ~sched.executorShutdown
      /\ sched.pendingTasks = 0 /\ sched.accepted = 0
      /\ \A a \in Actors : sched.actorPending[a] = 0
      /\ \A k \in Keys : sched.partitionPending[k] = 0
  BY DEF Init, NewSched
<1>3. Live
  <2>1. FlagInv /\ EpochInv
    BY <1>1, <1>2 DEF FlagInv, EpochInv
  <2>2. BoxesLive
    BY <1>1, <1>2 DEF BoxesLive, BoxLive
  <2>3. TailInv
    BY <1>1, IdleFacts DEF TailInv
  <2>4. TasksLive
    BY <1>1 DEF TasksLive
  <2> QED
    BY <2>1, <2>2, <2>3, <2>4 DEF Live
<1>4. HeldSet(box) = {}
  BY <1>1 DEF HeldSet, Content
<1>5. CountInv
  <2>1. \A k : OfKey({}, k) = {}
    BY DEF OfKey
  <2>2. \A a : OfActor({}, a) = {}
    BY DEF OfActor
  <2>3. IsFiniteSet({}) /\ Cardinality({}) = 0
    BY FS_EmptySet
  <2> QED
    BY <1>2, <1>4, <2>1, <2>2, <2>3 DEF CountInv, Counts
<1>6. \A t \in Threads : th[t].events = <<>>
  BY <1>1, IdleFacts
<1>7. PlaceInv
  BY <1>1, <1>4, <1>6 DEF PlaceInv, Place
<1>8. SuccInv /\ TopInv
  BY <1>1, <1>2 DEF SuccInv, Succ, TopInv, Top
<1>9. ShutInv
  BY <1>1, <1>2, IdleFacts DEF ShutInv
<1> QED
  BY <1>3, <1>5, <1>7, <1>8, <1>9 DEF Ledger

\* Live, Ledger and ShutInv hold in every reachable state.
THEOREM BooksHold == Spec => [](IInv /\ Fifo /\ Live /\ Ledger /\ ShutInv)
<1>1. Init => Fifo
  BY DEF Init, Fifo, FifoInv, NewMailbox, NewInvocation, NewSched
<1> QED
  BY <1>1, InitEstablishesBooks, NextKeepsBooks, InvariantHolds, NextKeepsOrder, PTL DEF Spec

-----------------------------------------------------------------------------
(* The theorems about work, shutdown, counters and results.                *)

\* What Live says of the mailboxes and their continuations.
LEMMA LiveImpliesNoLostWork ==
    ASSUME IInv, Live
    PROVE  NoLostWork
<1>0. ASSUME NEW b \in Invocations
      PROVE  BoxLive(b) /\ box[b].status \in Statuses
             /\ box[b].active \in Invocations \cup {None}
  BY DEF Live, BoxesLive, IInv, TypeOK, MailboxType
<1>1. OneContinuation
  <2> SUFFICES ASSUME NEW b \in Invocations, box[b].active # None
               PROVE  items[box[b].active]
                      + Cardinality({t \in Threads : th[t].request = box[b].active})
                      + Cardinality({w \in Workers : th[w].pc = "begin"
                                                     /\ th[w].cur = box[b].active})
                      = IF box[b].status = "Runnable" THEN 1 ELSE 0
    BY DEF OneContinuation
  <2>1. PICK i \in Invocations : i = box[b].active
    BY <1>0
  <2> DEFINE R == {t \in Threads : th[t].request = i}
             B == {w \in Workers : th[w].pc = "begin" /\ th[w].cur = i}
  <2>2. TokenOK(i, box[b].status)
    BY <1>0, <2>1 DEF Live, TasksLive, TaskOK
  <2>3. /\ \A t \in R : t \in Threads /\ Carries(t, i)
        /\ \A w \in B : w \in Threads /\ Carries(w, i)
        /\ \A t \in Threads : Carries(t, i) => t \in R \/ t \in B
    BY DEF Carries, Threads
  <2>4. \A t \in Threads : t \in R => t \notin B
    BY DEF Live, TailInv, AtTail
  <2>5. /\ Cardinality({}) = 0
        /\ \A t : Cardinality({t}) = 1
    BY Zenon, FS_EmptySet, FS_Singleton
  <2> HIDE DEF R, B
  <2>6. CASE \A t \in Threads : ~Carries(t, i)
    <3>1. R = {} /\ B = {}
      BY <2>3, <2>6
    <3>2. items[i] = IF box[b].status = "Runnable" THEN 1 ELSE 0
      BY <2>2, <2>6 DEF TokenOK
    <3>3. items[i] + Cardinality(R) + Cardinality(B)
             = IF box[b].status = "Runnable" THEN 1 ELSE 0
      BY <2>5, <3>1, <3>2
    <3> QED
      BY <2>1, <3>3 DEF R, B
  <2>7. ASSUME NEW t \in Threads, Carries(t, i)
        PROVE  items[i] + Cardinality(R) + Cardinality(B)
                  = IF box[b].status = "Runnable" THEN 1 ELSE 0
    <3>1. box[b].status = "Runnable"
      BY <2>2, <2>7 DEF TokenOK
    <3>2. items[i] = 0 /\ \A u \in Threads : Carries(u, i) => u = t
      BY <2>2, <2>7, <3>1 DEF TokenOK
    <3>3. \/ R = {t} /\ B = {}
          \/ R = {} /\ B = {t}
      <4>1. CASE t \in R
        BY <2>3, <2>4, <3>2, <4>1
      <4>2. CASE t \in B
        BY <2>3, <2>4, <3>2, <4>2
      <4> QED
        BY <2>3, <2>7, <4>1, <4>2
    <3>4. \/ Cardinality(R) = 1 /\ Cardinality(B) = 0
          \/ Cardinality(R) = 0 /\ Cardinality(B) = 1
      BY Zenon, <2>5, <3>3
    <3> QED
      BY <3>1, <3>2, <3>4
  <2> QED
    BY Zenon, <2>1, <2>6, <2>7 DEF R, B
<1>2. NoLostWakeup
  <2> SUFFICES ASSUME NEW b \in Invocations, box[b].status = "Suspended"
               PROVE  LET i == box[b].active IN
                      /\ i # None
                      /\ inv[i].completedEpoch # inv[i].epoch
                      /\ \/ inv[i].ioPending
                         \/ \E o \in IoThreads : th[o].pc = "ready" /\ th[o].cur = i
                                                 /\ th[o].epoch = inv[i].epoch
                         \/ sched.cancelling
    BY DEF NoLostWakeup
  <2>1. PICK i \in Invocations : i = box[b].active
    BY <1>0 DEF BoxLive
  <2>2. ReportOK(i) /\ WakeOK(i, "Suspended")
    BY <1>0, <2>1 DEF Live, TasksLive, TaskOK
  <2>3. inv[i].completedEpoch # inv[i].epoch /\ (Waits(i) \/ sched.cancelling)
    BY <2>2 DEF WakeOK
  <2>4. ASSUME NEW o \in Threads, Reports(o, i)
        PROVE  o \in IoThreads /\ th[o].pc = "ready" /\ th[o].cur = i
               /\ th[o].epoch = inv[i].epoch
    BY <2>2, <2>4 DEF Reports, ReportOK
  <2>5. inv[i].ioPending \/ (\E o \in IoThreads : th[o].pc = "ready" /\ th[o].cur = i
                                                  /\ th[o].epoch = inv[i].epoch)
        \/ sched.cancelling
    BY <2>3, <2>4 DEF Waits
  <2> QED
    BY <2>1, <2>3, <2>5
<1>3. NoStrandedPending
  BY <1>0 DEF NoStrandedPending, BoxLive
<1> QED
  BY <1>1, <1>2, <1>3 DEF NoLostWork

\* Nothing that was accepted is forgotten and nothing is run twice, whatever the
\* number of threads, keys and invocations: a runnable mailbox has exactly one
\* continuation, a suspended one an operation that still reports (the completion
\* that on_external_ready raced against the suspension is not lost), and queued
\* work an owner, also while a shutdown sweeps.
THEOREM NothingIsLost == Spec => []NoLostWork
<1>1. IInv /\ Live => NoLostWork
  BY LiveImpliesNoLostWork
<1> QED
  BY <1>1, BooksHold, PTL

\* Held and HeldSet say the same.
LEMMA HeldIsHeldSet ==
    ASSUME IInv, NEW i \in Invocations
    PROVE  Held(i) <=> i \in HeldSet(box)
<1>1. i # None
  OBVIOUS
<1>2. ASSUME NEW b \in Invocations
      PROVE  (box[b].active = i \/ \E n \in DOMAIN box[b].pending : box[b].pending[n] = i)
             <=> i \in Content(box[b])
  BY <1>1 DEF Content
<1> QED
  BY <1>2 DEF Held, HeldSet

\* Once a shutdown call has returned, in either mode and whatever raced it, no
\* worker runs, the counters are at zero, no mailbox holds anything, and an
\* executor item that is left is stale.
THEOREM ShutdownLeavesNothing == Spec => []StoppedIsQuiescent
<1>1. IInv /\ Live /\ Ledger /\ ShutInv => StoppedIsQuiescent
  <2> SUFFICES ASSUME IInv, Live, Ledger, ShutInv, sched.stopped
               PROVE  /\ \A w \in Workers : th[w].pc = "idle"
                      /\ sched.pendingTasks = 0
                      /\ \A i \in Invocations : ~Held(i) /\ (items[i] > 0 => ~IsCurrent(i))
    BY DEF StoppedIsQuiescent
  <2>1. HeldSet(box) = {} /\ \A w \in Workers : th[w].pc = "idle"
    BY DEF ShutInv
  <2>2. sched.pendingTasks = 0
    BY <2>1, FS_EmptySet DEF Ledger, CountInv, Counts
  <2>3. ASSUME NEW i \in Invocations
        PROVE  ~Held(i) /\ (items[i] > 0 => ~IsCurrent(i))
    <3>1. \A b \in Invocations : box[b].active = None
      <4>1. \A b \in Invocations : box[b].active \in Invocations \cup {None}
        BY DEF IInv, TypeOK, MailboxType
      <4> QED
        BY <2>1, <4>1 DEF HeldSet, Content
    <3>2. ~Held(i)
      BY <2>1, HeldIsHeldSet
    <3>3. items[i] > 0 => inv[i].home \in Invocations
      <4>1. items[i] > 0 => inv[i].gen > 0
        BY DEF IInv, HolderInv
      <4>2. inv[i].home \in Invocations \cup {None} /\ (inv[i].home = None => inv[i].gen = 0)
        BY DEF IInv, TypeOK, InvocationType, Structure, HomeInv
      <4> QED
        BY <4>1, <4>2
    <3> QED
      BY <3>1, <3>2, <3>3 DEF IsCurrent
  <2> QED
    BY <2>1, <2>2, <2>3
<1> QED
  BY <1>1, BooksHold, PTL

\* g[s] is the sum of f over s, for every subset s of S, one element at a time.
SubSums(g, S, f) ==
    \A s \in SUBSET S : g[s] = IF s = {} THEN 0
                               ELSE f[CHOOSE x \in s : TRUE] + g[s \ {CHOOSE x \in s : TRUE}]

\* The function that MapThenSumSet(HeldOf, S) evaluates.
KeySums(g, S) ==
    g = [s \in SUBSET S |-> IF s = {} THEN 0
                            ELSE HeldOf(CHOOSE x \in s : TRUE) + g[s \ {CHOOSE x \in s : TRUE}]]

\* MapThenSumSet as a choice of KeySums.
LEMMA KeySumsUnfold ==
    ASSUME NEW S
    PROVE  MapThenSumSet(HeldOf, S) = (CHOOSE g : KeySums(g, S))[S]
BY DEF MapThenSumSet, MapThenFoldSet, KeySums

\* How often mailbox b has i.
InBoxOf(i, b) == Cardinality({n \in DOMAIN box[b].pending : box[b].pending[n] = i})
                 + (IF box[b].active = i THEN 1 ELSE 0)

\* How often the completion list of t has i.
InEventsOf(i, t) == Cardinality({n \in DOMAIN th[t].events : th[t].events[n].inv = i})

\* The function that the first sum of Occurrences evaluates.
BoxSums(g, i) ==
    g = [s \in SUBSET Invocations |->
            IF s = {} THEN 0
            ELSE InBoxOf(i, CHOOSE x \in s : TRUE) + g[s \ {CHOOSE x \in s : TRUE}]]

\* The function that the second sum of Occurrences evaluates.
EventSums(g, i) ==
    g = [s \in SUBSET Threads |->
            IF s = {} THEN 0
            ELSE InEventsOf(i, CHOOSE x \in s : TRUE) + g[s \ {CHOOSE x \in s : TRUE}]]

\* Occurrences as a choice of BoxSums and EventSums.
LEMMA OccurrencesUnfold ==
    ASSUME NEW i
    PROVE  Occurrences(i) = (CHOOSE g : BoxSums(g, i))[Invocations]
                            + (CHOOSE g : EventSums(g, i))[Threads] + calls[i]
BY Zenon DEF Occurrences, MapThenSumSet, MapThenFoldSet, BoxSums, EventSums, InBoxOf, InEventsOf

\* A non-empty set of natural numbers has a least element.
LEMMA LeastMember ==
    ASSUME NEW T, T \subseteq Nat, T # {}
    PROVE  \E x \in T : \A y \in T : x <= y
<1>1. PICK x \in T : \A y \in T : ~ (<<y, x>> \in OpToRel(<, Nat))
  BY Zenon, WFMin, NatLessThanWellFounded
<1>2. \A y \in T : x <= y
  <2> TAKE y \in T
  <2>1. x \in Nat /\ y \in Nat
    OBVIOUS
  <2>2. ~(y < x)
    BY Zenon, <1>1, <2>1 DEF OpToRel
  <2> QED
    BY <2>1, <2>2
<1> QED
  BY <1>2

\* The sums over the subsets of a finite set are determined by their recursion.
LEMMA SumsAreUnique ==
    ASSUME NEW S, IsFiniteSet(S), NEW f, NEW g, NEW h, SubSums(g, S, f), SubSums(h, S, f)
    PROVE  g[S] = h[S]
<1> DEFINE D == {s \in SUBSET S : g[s] # h[s]}
           N == {Cardinality(s) : s \in D}
<1> SUFFICES ASSUME g[S] # h[S]
             PROVE  FALSE
  OBVIOUS
<1>1. \A s \in D : IsFiniteSet(s) /\ Cardinality(s) \in Nat
  BY FS_Subset, FS_CardinalityType
<1>2. N \subseteq Nat /\ N # {}
  <2>1. S \in D
    OBVIOUS
  <2> QED
    BY <1>1, <2>1
<1>3. PICK n \in N : \A l \in N : n <= l
  BY Zenon, <1>2, LeastMember
<1>4. PICK s \in D : Cardinality(s) = n
  BY <1>3
<1>5. s # {} /\ s \in SUBSET S
  BY Zenon, <1>4 DEF SubSums
<1>6. PICK x \in s : x = CHOOSE y \in s : TRUE
  BY <1>5
<1>7. g[s] = f[x] + g[s \ {x}] /\ h[s] = f[x] + h[s \ {x}]
  BY Zenon, <1>5, <1>6 DEF SubSums
<1>8. Cardinality(s \ {x}) = Cardinality(s) - 1 /\ s \ {x} \in SUBSET S
  BY Zenon, <1>1, <1>4, <1>5, <1>6, FS_RemoveElement
<1>9. s \ {x} \notin D
  <2> SUFFICES ASSUME s \ {x} \in D
               PROVE  FALSE
    OBVIOUS
  <2>1. Cardinality(s \ {x}) \in N
    OBVIOUS
  <2>2. Cardinality(s) <= Cardinality(s \ {x}) /\ Cardinality(s) \in Nat
    BY <1>1, <1>3, <1>4, <2>1
  <2> QED
    BY <1>8, <2>2
<1>10. g[s \ {x}] = h[s \ {x}]
  BY <1>8, <1>9
<1> QED
  BY <1>4, <1>7, <1>10

\* The invocations of the keys in s.
OfKeys(H, s) == {i \in H : KeyOf[i] \in s}

\* Taking one key out of a set of keys.
LEMMA OfKeysSplit ==
    ASSUME NEW H, IsFiniteSet(H), NEW s, NEW x \in s
    PROVE  Cardinality(OfKeys(H, s)) = Cardinality(OfKey(H, x)) + Cardinality(OfKeys(H, s \ {x}))
<1> DEFINE A == OfKey(H, x)
           B == OfKeys(H, s \ {x})
<1>1. A \subseteq H /\ B \subseteq H /\ A \cap B = {} /\ OfKeys(H, s) = A \cup B
  BY DEF OfKey, OfKeys
<1> HIDE DEF A, B
<1>2. IsFiniteSet(A) /\ IsFiniteSet(B)
  BY <1>1, FS_Subset
<1>3. Cardinality(A \cup B) = Cardinality(A) + Cardinality(B) - Cardinality(A \cap B)
  BY <1>2, FS_Union
<1>4. Cardinality(A \cap B) = 0 /\ Cardinality(A) \in Nat /\ Cardinality(B) \in Nat
  BY Zenon, <1>1, <1>2, FS_EmptySet, FS_CardinalityType
<1>5. Cardinality(A \cup B) = Cardinality(A) + Cardinality(B)
  BY <1>3, <1>4
<1> QED
  BY <1>1, <1>5 DEF A, B

\* What KeySums says of each subset.
LEMMA KeySumsRecursion ==
    ASSUME NEW S, NEW g, KeySums(g, S)
    PROVE  SubSums(g, S, [k \in S |-> HeldOf(k)])
<1> DEFINE f == [k \in S |-> HeldOf(k)]
           P(s) == CHOOSE x \in s : TRUE
           E(s) == IF s = {} THEN 0 ELSE HeldOf(P(s)) + g[s \ {P(s)}]
<1>1. g = [s \in SUBSET S |-> E(s)]
  BY Zenon DEF KeySums
<1>2. ASSUME NEW s \in SUBSET S
      PROVE  g[s] = IF s = {} THEN 0 ELSE f[P(s)] + g[s \ {P(s)}]
  <2>1. g[s] = E(s)
    <3> HIDE DEF E
    <3> QED
      BY <1>1
  <2>2. s # {} => P(s) \in S
    OBVIOUS
  <2>3. s # {} => f[P(s)] = HeldOf(P(s))
    <3> HIDE DEF P
    <3> QED
      BY <2>2
  <2> HIDE DEF P, f
  <2> QED
    BY <2>1, <2>3
<1> QED
  BY <1>2 DEF SubSums

\* HeldOf counts what HeldSet holds of a key.
LEMMA HeldOfKey ==
    ASSUME IInv, NEW k
    PROVE  HeldOf(k) = Cardinality(OfKey(HeldSet(box), k))
<1> DEFINE H == HeldSet(box)
<1>1. {i \in Invocations : KeyOf[i] = k /\ Held(i)} = OfKey(H, k)
  <2>1. \A i \in Invocations : Held(i) <=> i \in H
    BY HeldIsHeldSet
  <2>2. H \subseteq Invocations
    BY DEF HeldSet
  <2> HIDE DEF H
  <2> QED
    BY <2>1, <2>2 DEF OfKey
<1> QED
  BY Zenon, <1>1 DEF HeldOf

\* The sum over the keys counts what the mailboxes of these keys hold.
LEMMA KeyTotal ==
    ASSUME IInv, IsFiniteSet(HeldSet(box)), NEW S \in SUBSET Keys, IsFiniteSet(S)
    PROVE  MapThenSumSet(HeldOf, S) = Cardinality(OfKeys(HeldSet(box), S))
<1> DEFINE H == HeldSet(box)
           P(s) == CHOOSE x \in s : TRUE
           g == [s \in SUBSET S |-> Cardinality(OfKeys(H, s))]
           h == CHOOSE d : KeySums(d, S)
           f == [k \in S |-> HeldOf(k)]
<1>1. ASSUME NEW k
      PROVE  HeldOf(k) = Cardinality(OfKey(H, k))
  BY HeldOfKey
<1> HIDE DEF H
<1>2. ASSUME NEW s \in SUBSET S
      PROVE  Cardinality(OfKeys(H, s)) = IF s = {} THEN 0 ELSE HeldOf(P(s)) + g[s \ {P(s)}]
  <2>1. CASE s = {}
    <3>1. OfKeys(H, s) = {}
      BY <2>1 DEF OfKeys
    <3> QED
      BY Zenon, <2>1, <3>1, FS_EmptySet
  <2>2. CASE s # {}
    <3>1. PICK x \in s : x = P(s)
      BY <2>2
    <3>2. g[s \ {x}] = Cardinality(OfKeys(H, s \ {x}))
      OBVIOUS
    <3>3. Cardinality(OfKeys(H, s)) = HeldOf(x) + g[s \ {x}]
      BY <1>1, <3>2, OfKeysSplit DEF H
    <3> HIDE DEF P, g
    <3> QED
      BY <2>2, <3>1, <3>3
  <2> QED
    BY <2>1, <2>2
<1>3. KeySums(g, S)
  <2> DEFINE E(s) == IF s = {} THEN 0 ELSE HeldOf(P(s)) + g[s \ {P(s)}]
             C(s) == Cardinality(OfKeys(H, s))
  <2>1. \A s \in SUBSET S : C(s) = E(s)
    BY Zenon, <1>2
  <2>2. g = [s \in SUBSET S |-> C(s)]
    OBVIOUS
  <2> HIDE DEF E, C, g
  <2>3. g = [s \in SUBSET S |-> E(s)]
    BY <2>1, <2>2
  <2> QED
    BY Zenon, <2>3 DEF E, KeySums
<1>4. KeySums(h, S)
  <2> HIDE DEF g
  <2> QED
    BY <1>3
<1>5. g[S] = Cardinality(OfKeys(H, S))
  OBVIOUS
<1>6. MapThenSumSet(HeldOf, S) = h[S]
  BY KeySumsUnfold
<1> HIDE DEF g, h, f
<1>7. SubSums(g, S, f) /\ SubSums(h, S, f)
  BY <1>3, <1>4, KeySumsRecursion DEF f
<1>8. g[S] = h[S]
  BY <1>7, SumsAreUnique
<1> QED
  BY <1>5, <1>6, <1>8 DEF H

\* The global, per-actor and per-partition counters count exactly what is queued,
\* running or suspended, and no limit is exceeded, whatever the interleaving of
\* enqueue, cancel, completion, the drop of unregistered work and the sweep.
THEOREM CountersAreExact == Spec => []BackpressureCounters
<1>1. IInv /\ Ledger => BackpressureCounters
  <2> SUFFICES ASSUME IInv, Ledger
               PROVE  BackpressureCounters
    OBVIOUS
  <2> DEFINE H == HeldSet(box)
             Of(a) == {k \in Keys : ActorOf[k] = a}
  <2>1. IsFiniteSet(H) /\ Counts(H, sched) /\ H \subseteq Invocations
    BY DEF Ledger, CountInv, Counts, HeldSet
  <2>2. ASSUME NEW S \in SUBSET Keys
        PROVE  MapThenSumSet(HeldOf, S) = Cardinality(OfKeys(H, S))
    <3>1. IsFiniteSet(S)
      BY FinitenessAssumption, FS_Subset
    <3> QED
      BY <2>1, <3>1, KeyTotal
  <2>3. ASSUME NEW k
        PROVE  HeldOf(k) = Cardinality(OfKey(H, k))
    BY HeldOfKey
  <2> HIDE DEF H
  <2>4. OfKeys(H, Keys) = H
    BY <2>1 DEF OfKeys
  <2>5. ASSUME NEW a
        PROVE  OfKeys(H, Of(a)) = OfActor(H, a) /\ Of(a) \in SUBSET Keys
    BY <2>1 DEF OfKeys, OfActor
  <2>6. sched.pendingTasks = MapThenSumSet(HeldOf, Keys)
    BY <2>1, <2>2, <2>4 DEF Counts
  <2>7. ASSUME MaxPendingPerPartition > 0, NEW k \in Keys
        PROVE  sched.partitionPending[k] = HeldOf(k) /\ HeldOf(k) <= MaxPendingPerPartition
    BY <2>1, <2>3, <2>7 DEF Counts
  <2>8. ASSUME MaxPendingPerActor > 0, NEW a \in Actors
        PROVE  /\ sched.actorPending[a] = MapThenSumSet(HeldOf, Of(a))
               /\ MapThenSumSet(HeldOf, Of(a)) <= MaxPendingPerActor
    <3>1. MapThenSumSet(HeldOf, Of(a)) = Cardinality(OfActor(H, a))
      BY <2>2, <2>5
    <3>2. /\ sched.actorPending[a] = Cardinality(OfActor(H, a))
          /\ sched.actorPending[a] <= MaxPendingPerActor
      BY <2>1, <2>8 DEF Counts
    <3> QED
      BY <3>1, <3>2
  <2>9. MaxPendingTasks > 0 => sched.pendingTasks <= MaxPendingTasks
    BY <2>1 DEF Counts
  <2> QED
    BY Zenon, <2>6, <2>7, <2>8, <2>9 DEF BackpressureCounters
<1> QED
  BY <1>1, BooksHold, PTL

\* The sums of a function that is zero everywhere but at z.
LEMMA PointSums ==
    ASSUME NEW S, NEW f, NEW z, NEW v \in Nat, \A x \in S : f[x] = IF x = z THEN v ELSE 0,
           NEW g, \A s \in SUBSET S : g[s] = IF z \in s THEN v ELSE 0
    PROVE  SubSums(g, S, f)
<1> DEFINE P(s) == CHOOSE x \in s : TRUE
<1>1. \A s \in SUBSET S : g[s] = IF z \in s THEN v ELSE 0
  OBVIOUS
<1>2. ASSUME NEW s \in SUBSET S
      PROVE  g[s] = IF s = {} THEN 0 ELSE f[P(s)] + g[s \ {P(s)}]
  <2>1. CASE s = {}
    BY <1>1, <2>1
  <2>2. CASE s # {}
    <3>1. PICK x \in s : x = P(s)
      BY <2>2
    <3>2. g[s \ {x}] = IF z \in s \ {x} THEN v ELSE 0
      BY <1>1
    <3>3. g[s] = f[x] + g[s \ {x}]
      BY <1>1, <3>2
    <3> HIDE DEF P
    <3> QED
      BY <2>2, <3>1, <3>3
  <2> QED
    BY <2>1, <2>2
<1> QED
  BY <1>2 DEF SubSums

\* In how many places a mailbox has an invocation.
LEMMA InBoxIs ==
    ASSUME IInv, Fifo, NEW i \in Invocations, NEW b \in Invocations
    PROVE  InBoxOf(i, b) = IF i \in Content(box[b]) THEN 1 ELSE 0
<1> DEFINE q == box[b].pending
           A == {n \in DOMAIN q : q[n] = i}
<1>1. Distinct(box[b]) /\ i # None
  BY BoxIsDistinct
<1>2. Cardinality({}) = 0 /\ \A n : Cardinality({n}) = 1
  BY Zenon, FS_EmptySet, FS_Singleton
<1>3. i \in Content(box[b]) <=> box[b].active = i \/ \E n \in DOMAIN q : q[n] = i
  BY <1>1 DEF Content
<1>4. CASE box[b].active = i
  <2>1. A = {}
    BY <1>1, <1>4 DEF Distinct
  <2> HIDE DEF A
  <2>2. Cardinality(A) + (IF box[b].active = i THEN 1 ELSE 0) = 1
    BY <1>2, <1>4, <2>1
  <2> QED
    BY <1>3, <1>4, <2>2 DEF InBoxOf, A
<1>5. ASSUME box[b].active # i, NEW n \in DOMAIN q, q[n] = i
      PROVE  InBoxOf(i, b) = IF i \in Content(box[b]) THEN 1 ELSE 0
  <2>1. A = {n}
    BY <1>1, <1>5 DEF Distinct
  <2> HIDE DEF A
  <2>a. Cardinality(A) = 1
    BY Zenon, <1>2, <2>1
  <2>2. Cardinality(A) + (IF box[b].active = i THEN 1 ELSE 0) = 1
    BY <1>5, <2>a
  <2> QED
    BY <1>3, <1>5, <2>2 DEF InBoxOf, A
<1>6. CASE box[b].active # i /\ \A n \in DOMAIN q : q[n] # i
  <2>1. A = {}
    BY <1>6
  <2> HIDE DEF A
  <2>2. Cardinality(A) + (IF box[b].active = i THEN 1 ELSE 0) = 0
    BY <1>2, <1>6, <2>1
  <2> QED
    BY <1>3, <1>6, <2>2 DEF InBoxOf, A
<1> QED
  BY <1>4, <1>5, <1>6

\* In how many places a thread has a result.
LEMMA InEventsIs ==
    ASSUME IInv, PlaceInv, NEW i \in Invocations, NEW t \in Threads
    PROVE  InEventsOf(i, t) = IF InEvents(i, t) THEN 1 ELSE 0
<1> DEFINE e == th[t].events
           A == {n \in DOMAIN e : e[n].inv = i}
<1>1. Cardinality({}) = 0 /\ \A n : Cardinality({n}) = 1
  BY Zenon, FS_EmptySet, FS_Singleton
<1>2. CASE InEvents(i, t)
  <2>1. PICK n \in DOMAIN e : e[n].inv = i
    BY <1>2 DEF InEvents
  <2>2. A = {n}
    BY <2>1 DEF PlaceInv, Place
  <2> HIDE DEF A
  <2>3. Cardinality(A) = 1
    BY Zenon, <1>1, <2>2
  <2> QED
    BY <1>2, <2>3 DEF InEventsOf, A
<1>3. CASE ~InEvents(i, t)
  <2>1. A = {}
    BY <1>3 DEF InEvents
  <2> HIDE DEF A
  <2>2. Cardinality(A) = 0
    BY <1>1, <2>1
  <2> QED
    BY <1>3, <2>2 DEF InEventsOf, A
<1> QED
  BY <1>2, <1>3

\* What BoxSums says of each subset.
LEMMA BoxSumsRecursion ==
    ASSUME NEW i, NEW g, BoxSums(g, i)
    PROVE  SubSums(g, Invocations, [b \in Invocations |-> InBoxOf(i, b)])
<1> DEFINE S == Invocations
           f == [b \in S |-> InBoxOf(i, b)]
           P(s) == CHOOSE x \in s : TRUE
           E(s) == IF s = {} THEN 0 ELSE InBoxOf(i, P(s)) + g[s \ {P(s)}]
<1>1. g = [s \in SUBSET S |-> E(s)]
  BY Zenon DEF BoxSums
<1>2. ASSUME NEW s \in SUBSET S
      PROVE  g[s] = IF s = {} THEN 0 ELSE f[P(s)] + g[s \ {P(s)}]
  <2>1. g[s] = E(s)
    <3> HIDE DEF E
    <3> QED
      BY <1>1
  <2>2. s # {} => P(s) \in S
    OBVIOUS
  <2>3. s # {} => f[P(s)] = InBoxOf(i, P(s))
    <3> HIDE DEF P
    <3> QED
      BY <2>2
  <2> HIDE DEF P, f
  <2> QED
    BY <2>1, <2>3
<1> QED
  BY Zenon, <1>2 DEF SubSums

\* What EventSums says of each subset.
LEMMA EventSumsRecursion ==
    ASSUME NEW i, NEW g, EventSums(g, i)
    PROVE  SubSums(g, Threads, [t \in Threads |-> InEventsOf(i, t)])
<1> DEFINE S == Threads
           f == [t \in S |-> InEventsOf(i, t)]
           P(s) == CHOOSE x \in s : TRUE
           E(s) == IF s = {} THEN 0 ELSE InEventsOf(i, P(s)) + g[s \ {P(s)}]
<1>1. g = [s \in SUBSET S |-> E(s)]
  BY Zenon DEF EventSums
<1>2. ASSUME NEW s \in SUBSET S
      PROVE  g[s] = IF s = {} THEN 0 ELSE f[P(s)] + g[s \ {P(s)}]
  <2>1. g[s] = E(s)
    <3> HIDE DEF E
    <3> QED
      BY <1>1
  <2>2. s # {} => P(s) \in S
    OBVIOUS
  <2>3. s # {} => f[P(s)] = InEventsOf(i, P(s))
    <3> HIDE DEF P
    <3> QED
      BY <2>2
  <2> HIDE DEF P, f
  <2> QED
    BY <2>1, <2>3
<1> QED
  BY <1>2 DEF SubSums

\* The total over the mailboxes, when only z has the invocation.
LEMMA BoxTotal ==
    ASSUME NEW i, NEW z, NEW v \in Nat,
           \A b \in Invocations : InBoxOf(i, b) = IF b = z THEN v ELSE 0
    PROVE  (CHOOSE g : BoxSums(g, i))[Invocations] = IF z \in Invocations THEN v ELSE 0
<1> DEFINE S == Invocations
           f == [b \in S |-> InBoxOf(i, b)]
           g == [s \in SUBSET S |-> IF z \in s THEN v ELSE 0]
           h == CHOOSE d : BoxSums(d, i)
           P(s) == CHOOSE x \in s : TRUE
           E(s) == IF s = {} THEN 0 ELSE InBoxOf(i, P(s)) + g[s \ {P(s)}]
<1>1. \A x \in S : f[x] = IF x = z THEN v ELSE 0
  OBVIOUS
<1>2. g[S] = IF z \in S THEN v ELSE 0
  OBVIOUS
<1>3. g = [s \in SUBSET S |-> g[s]]
  OBVIOUS
<1>4. SubSums(g, S, f)
  <2>1. \A s \in SUBSET S : g[s] = IF z \in s THEN v ELSE 0
    OBVIOUS
  <2> HIDE DEF f, g, S
  <2> QED
    BY Zenon, <1>1, <2>1, PointSums
<1> HIDE DEF g
<1>5. BoxSums(g, i)
  <2>1. ASSUME NEW s \in SUBSET S
        PROVE  g[s] = E(s)
    <3>1. s # {} => P(s) \in S
      OBVIOUS
    <3>2. s # {} => f[P(s)] = InBoxOf(i, P(s))
      <4> HIDE DEF P
      <4> QED
        BY <3>1
    <3>3. g[s] = IF s = {} THEN 0 ELSE f[P(s)] + g[s \ {P(s)}]
      BY Zenon, <1>4 DEF SubSums
    <3> HIDE DEF P, f
    <3> QED
      BY <3>2, <3>3
  <2> HIDE DEF E
  <2>2. g = [s \in SUBSET S |-> E(s)]
    BY Zenon, <1>3, <2>1
  <2> QED
    BY Zenon, <2>2 DEF E, BoxSums
<1>6. BoxSums(h, i)
  BY <1>5
<1> HIDE DEF h
<1>7. SubSums(h, S, f)
  BY <1>6, BoxSumsRecursion
<1>8. IsFiniteSet(S)
  BY FinitenessAssumption
<1> HIDE DEF f
<1>9. g[S] = h[S]
  BY <1>4, <1>7, <1>8, SumsAreUnique
<1> QED
  BY <1>2, <1>9 DEF h

\* The total over the threads, when only z has the result.
LEMMA EventTotal ==
    ASSUME NEW i, NEW z, NEW v \in Nat,
           \A t \in Threads : InEventsOf(i, t) = IF t = z THEN v ELSE 0
    PROVE  (CHOOSE g : EventSums(g, i))[Threads] = IF z \in Threads THEN v ELSE 0
<1> DEFINE S == Threads
           f == [b \in S |-> InEventsOf(i, b)]
           g == [s \in SUBSET S |-> IF z \in s THEN v ELSE 0]
           h == CHOOSE d : EventSums(d, i)
           P(s) == CHOOSE x \in s : TRUE
           E(s) == IF s = {} THEN 0 ELSE InEventsOf(i, P(s)) + g[s \ {P(s)}]
<1>1. \A x \in S : f[x] = IF x = z THEN v ELSE 0
  OBVIOUS
<1>2. g[S] = IF z \in S THEN v ELSE 0
  OBVIOUS
<1>3. g = [s \in SUBSET S |-> g[s]]
  OBVIOUS
<1>4. SubSums(g, S, f)
  <2>1. \A s \in SUBSET S : g[s] = IF z \in s THEN v ELSE 0
    OBVIOUS
  <2> HIDE DEF f, g, S
  <2> QED
    BY Zenon, <1>1, <2>1, PointSums
<1> HIDE DEF g
<1>5. EventSums(g, i)
  <2>1. ASSUME NEW s \in SUBSET S
        PROVE  g[s] = E(s)
    <3>1. s # {} => P(s) \in S
      OBVIOUS
    <3>2. s # {} => f[P(s)] = InEventsOf(i, P(s))
      <4> HIDE DEF P
      <4> QED
        BY <3>1
    <3>3. g[s] = IF s = {} THEN 0 ELSE f[P(s)] + g[s \ {P(s)}]
      BY Zenon, <1>4 DEF SubSums
    <3> HIDE DEF P, f
    <3> QED
      BY <3>2, <3>3
  <2> HIDE DEF E
  <2>2. g = [s \in SUBSET S |-> E(s)]
    BY Zenon, <1>3, <2>1
  <2> QED
    BY Zenon, <2>2 DEF E, EventSums
<1>6. EventSums(h, i)
  BY <1>5
<1> HIDE DEF h
<1>7. SubSums(h, S, f)
  BY <1>6, EventSumsRecursion
<1>8. IsFiniteSet(S)
  BY Zenon, FinitenessAssumption, FS_Union DEF Threads
<1> HIDE DEF f
<1>9. g[S] = h[S]
  BY <1>4, <1>7, <1>8, SumsAreUnique
<1> QED
  BY <1>2, <1>9 DEF h

\* An invocation is in one place once it is submitted and in none before.
LEMMA OnePlace ==
    ASSUME IInv, Fifo, PlaceInv, NEW i \in Invocations
    PROVE  Occurrences(i) = IF inv[i].submitted THEN 1 ELSE 0
<1> DEFINE H == HeldSet(box)
           b == inv[i].home
           v == IF i \in H THEN 1 ELSE 0
           Sent == \E t \in Threads : InEvents(i, t)
           e == IF Sent THEN 1 ELSE 0
           Boxes == (CHOOSE g : BoxSums(g, i))[Invocations]
           Lists == (CHOOSE g : EventSums(g, i))[Threads]
<1>1. i \in H => b \in Invocations
  BY ContentIsHome DEF HeldSet
<1>2. \A d \in Invocations : InBoxOf(i, d) = IF d = b THEN v ELSE 0
  <2>1. ASSUME NEW d \in Invocations
        PROVE  i \in Content(box[d]) <=> d = b /\ i \in H
    BY ContentIsHome DEF HeldSet
  <2>2. ASSUME NEW d \in Invocations
        PROVE  InBoxOf(i, d) = IF i \in Content(box[d]) THEN 1 ELSE 0
    BY InBoxIs
  <2> HIDE DEF H, b
  <2> QED
    BY <2>1, <2>2
<1>3. Boxes = v
  <2>1. v \in Nat
    OBVIOUS
  <2>2. Boxes = IF b \in Invocations THEN v ELSE 0
    <3> HIDE DEF v, b
    <3> QED
      BY <1>2, <2>1, BoxTotal
  <2> HIDE DEF Boxes, H, b
  <2> QED
    BY <1>1, <2>2
<1>4. Lists = e
  <2>1. ASSUME NEW t \in Threads
        PROVE  InEventsOf(i, t) = IF InEvents(i, t) THEN 1 ELSE 0
    BY InEventsIs
  <2>2. CASE Sent
    <3>1. PICK z \in Threads : InEvents(i, z)
      BY <2>2
    <3>2. ASSUME NEW t \in Threads, InEvents(i, t)
          PROVE  t = z
      BY <3>1, <3>2 DEF InEvents, PlaceInv, Place
    <3>3. \A t \in Threads : InEventsOf(i, t) = IF t = z THEN 1 ELSE 0
      BY <2>1, <3>1, <3>2
    <3>4. Lists = IF z \in Threads THEN 1 ELSE 0
      BY <3>3, EventTotal
    <3> HIDE DEF Lists
    <3> QED
      BY <2>2, <3>1, <3>4
  <2>3. CASE ~Sent
    <3>1. \A t \in Threads : InEventsOf(i, t) = IF t = i THEN 0 ELSE 0
      BY <2>1, <2>3
    <3>2. Lists = IF i \in Threads THEN 0 ELSE 0
      BY <3>1, EventTotal
    <3> HIDE DEF Lists, Sent
    <3> QED
      BY <2>3, <3>2
  <2> QED
    BY <2>2, <2>3
<1>5. Occurrences(i) = Boxes + Lists + calls[i]
  BY Zenon, OccurrencesUnfold
<1>6. /\ calls[i] \in {0, 1} /\ (~inv[i].submitted => calls[i] = 0)
      /\ inv[i].submitted => calls[i] = 1 \/ i \in H \/ Sent
      /\ i \in H => calls[i] = 0
  BY DEF PlaceInv, Place
<1>7. Sent => inv[i].submitted /\ calls[i] = 0 /\ i \notin H
  BY DEF InEvents, PlaceInv, Place
<1>8. i \in H => inv[i].submitted
  <2>1. i \in H => inv[i].home # None
    BY <1>1
  <2>2. ~inv[i].submitted => inv[i].home = None
    BY DEF IInv, Structure, HomeInv
  <2> QED
    BY <2>1, <2>2
<1> HIDE DEF H, Sent, Boxes, Lists
<1>9. v + e + calls[i] = IF inv[i].submitted THEN 1 ELSE 0
  BY <1>6, <1>7, <1>8
<1> QED
  BY <1>3, <1>4, <1>5, <1>9

\* A running task is nobody's request, so its predecessor's result is delivered.
LEMMA RunningIsNext ==
    ASSUME IInv, Live, SuccInv
    PROVE  ResultBeforeNextMessage
<1> SUFFICES ASSUME NEW w \in Workers, NEW i \in Invocations, Executing(w),
                    WaitedBehind(i, th[w].cur), inv[i].home = inv[th[w].cur].home,
                    inv[th[w].cur].gen = inv[i].gen + 1
             PROVE  FALSE
  BY Zenon DEF ResultBeforeNextMessage
<1>1. PICK j \in Invocations : j = th[w].cur
  <2>1. th[w].cur \in Invocations
    BY DEF IInv, TypeOK, ThreadType, HolderInv, RecOK, Executing, Threads
  <2> QED
    BY <2>1
<1>2. w \in Threads /\ Runs(w, j)
  BY <1>1 DEF Runs, Threads
<1>3. PICK b \in Invocations : box[b].active = j /\ box[b].status = "Running"
  BY <1>2, RunsIsActive
<1>4. \A t \in Threads : ~Carries(t, j)
  <2>1. TaskOK(j, "Running")
    BY <1>3 DEF Live, TasksLive, Statuses
  <2> QED
    BY <2>1 DEF TaskOK, TokenOK
<1>5. \E t \in Threads : th[t].request = j
  BY <1>1 DEF SuccInv, Succ, WaitedBehind
<1> QED
  BY <1>4, <1>5 DEF Carries

\* Whatever the interleaving, a submitted invocation is in exactly one place - a
\* mailbox, one thread's completion list, or completed - so that its callback is
\* called at most once and it is never dropped, and the callback has been called
\* before its immediate successor of the mailbox starts.
THEOREM OneResult == Spec => []OneResultInOrder
<1>1. IInv /\ Fifo /\ Live /\ Ledger => OneResultInOrder
  <2> SUFFICES ASSUME IInv, Fifo, Live, Ledger
               PROVE  OneResultInOrder
    OBVIOUS
  <2>1. \A i \in Invocations : Occurrences(i) = IF inv[i].submitted THEN 1 ELSE 0
    BY OnePlace DEF Ledger
  <2>2. ResultBeforeNextMessage
    BY RunningIsNext DEF Ledger
  <2> QED
    BY <2>1, <2>2 DEF OneResultInOrder
<1> QED
  BY <1>1, BooksHold, PTL

=============================================================================
