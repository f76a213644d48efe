---------------------- MODULE NativeActorSchedulerProofs ----------------------
(***************************************************************************)
(* Machine-checked proofs about NativeActorScheduler, for every set of     *)
(* invocations, keys, actors and threads and every value of the limits.    *)
(***************************************************************************)
EXTENDS NativeActorScheduler, FiniteSetTheorems, SequenceTheorems, WellFoundedInduction,
        TLAPS

-----------------------------------------------------------------------------
(* Facts about the library operators the model uses.                       *)

\* Min of a non-empty set of natural numbers is one of them.
LEMMA MinMember ==
    ASSUME NEW T, T \subseteq Nat, T # {}
    PROVE  Min(T) \in T
<1>1. \E x \in T : \A y \in T : ~ (<<y, x>> \in OpToRel(<, Nat))
  BY Zenon, WFMin, NatLessThanWellFounded
<1>2. PICK x \in T : \A y \in T : ~ (<<y, x>> \in OpToRel(<, Nat))
  BY Zenon, <1>1
<1>3. \A y \in T : x =< y
  <2> TAKE y \in T
  <2>1. x \in Nat /\ y \in Nat
    OBVIOUS
  <2>2. ~(y < x)
    BY Zenon, <1>2, <2>1 DEF OpToRel
  <2> QED
    BY <2>1, <2>2
<1> QED
  BY Zenon, <1>3 DEF Min

\* Every element of q is one of r's.
Within(q, r) == \A m \in DOMAIN q : \E l \in DOMAIN r : q[m] = r[l]

\* A segment of a sequence is a sequence of some of its elements.
LEMMA SegmentWithin ==
    ASSUME NEW S, NEW q \in Seq(S), NEW a \in 1..(Len(q) + 1), NEW b \in (a - 1)..Len(q)
    PROVE  /\ SubSeq(q, a, b) \in Seq(S)
           /\ Len(SubSeq(q, a, b)) = b - a + 1
           /\ Within(SubSeq(q, a, b), q)
<1> DEFINE r == SubSeq(q, a, b)
<1>1. /\ r \in Seq(S)
      /\ Len(r) = b - a + 1
      /\ \A i \in 1..(b - a + 1) : r[i] = q[a + i - 1]
  BY SubSeqProperties
<1> HIDE DEF r
<1>2. DOMAIN r = 1..(b - a + 1) /\ DOMAIN q = 1..Len(q)
  BY <1>1
<1>3. \A m \in DOMAIN r : r[m] = q[a + m - 1] /\ a + m - 1 \in DOMAIN q
  BY <1>1, <1>2
<1> QED
  BY <1>1, <1>3 DEF Within, r

\* RemoveAt takes one element out and brings none in.
LEMMA RemoveAtWithin ==
    ASSUME NEW S, NEW q \in Seq(S), NEW n \in 1..Len(q)
    PROVE  RemoveAt(q, n) \in Seq(S) /\ Within(RemoveAt(q, n), q)
<1> DEFINE a == SubSeq(q, 1, n - 1)
           b == SubSeq(q, n + 1, Len(q))
<1>1. a \in Seq(S) /\ Within(a, q)
  BY SegmentWithin
<1>2. b \in Seq(S) /\ Within(b, q)
  BY SegmentWithin
<1> HIDE DEF a, b
<1>3. /\ a \o b \in Seq(S)
      /\ \A m \in DOMAIN (a \o b) : \/ m \in DOMAIN a /\ (a \o b)[m] = a[m]
                                    \/ m - Len(a) \in DOMAIN b
                                       /\ (a \o b)[m] = b[m - Len(a)]
  BY <1>1, <1>2
<1>4. Within(a \o b, q)
  BY <1>1, <1>2, <1>3 DEF Within
<1> QED
  BY <1>3, <1>4 DEF RemoveAt, a, b

-----------------------------------------------------------------------------
(* Facts about the operators of the model.                                 *)

USE ConstantsAssumption

\* prepare_next_locked drops a prefix of the queue.
LEMMA UnregisteredPrefix ==
    ASSUME NEW v, NEW q \in Seq(Invocations), TypeOK
    PROVE  /\ Unregistered(v, q) \in Seq(Invocations)
           /\ Len(Unregistered(v, q)) \in 0..Len(q)
<1>1. CASE sched.cancelling
  BY <1>1 DEF Unregistered
<1>2. CASE ~sched.cancelling
  <2> DEFINE live == {n \in 1..Len(q) : v[q[n]].actor}
             l == IF live = {} THEN Len(q) ELSE Min(live) - 1
  <2>1. live \subseteq 1..Len(q) /\ live \subseteq Nat /\ Len(q) \in Nat
    OBVIOUS
  <2>2. live # {} => Min(live) \in live
    BY Zenon, <2>1, MinMember
  <2>3. l \in 0..Len(q)
    BY <2>1, <2>2
  <2>4. Unregistered(v, q) = SubSeq(q, 1, l)
    BY Zenon, <1>2 DEF Unregistered
  <2> HIDE DEF l, live
  <2>5. 1 \in 1..(Len(q) + 1) /\ l \in (1 - 1)..Len(q)
    BY <2>1, <2>3
  <2>6. SubSeq(q, 1, l) \in Seq(Invocations) /\ Len(SubSeq(q, 1, l)) = l
    BY <2>3, <2>5, SegmentWithin
  <2> QED
    BY <2>3, <2>4, <2>6
<1> QED
  BY <1>1, <1>2

\* The completion events of the dropped invocations are well typed.
LEMMA UnregisteredEventsType ==
    ASSUME NEW v, NEW q \in Seq(Invocations), TypeOK
    PROVE  UnregisteredEvents(v, q) \in Seq(EventType)
<1> DEFINE u == Unregistered(v, q)
<1>1. u \in Seq(Invocations)
  BY UnregisteredPrefix
<1> HIDE DEF u
<1>2. \A n \in 1..Len(u) : Event(u[n], "failed") \in EventType
  BY <1>1 DEF Event, EventType, Results
<1>3. UnregisteredEvents(v, q) = [n \in 1..Len(u) |-> Event(u[n], "failed")]
  BY DEF UnregisteredEvents, u
<1>4. Len(u) \in Nat
  BY <1>1
<1> QED
  BY <1>2, <1>3, <1>4, IsASeq

\* What prepare_next_locked may do to a mailbox: park it, or activate one of
\* its pending invocations under the next generation.
LEMMA PrepareNextFacts ==
    ASSUME NEW v, NEW m \in MailboxType, TypeOK
    PROVE  LET p == PrepareNext(v, m) IN
           /\ p \in MailboxType
           /\ p.claimed = m.claimed
           /\ Within(p.pending, m.pending)
           /\ \/ /\ p.active = m.active
                 /\ p.generation = m.generation
                 /\ p.status \in {"Idle", "Stopping"}
              \/ /\ p.active # None
                 /\ \E n \in DOMAIN m.pending : p.active = m.pending[n]
                 /\ p.generation = m.generation + 1
                 /\ p.status = "Runnable"
<1> DEFINE q == m.pending
           d == Len(Unregistered(v, q))
           rest == SubSeq(q, d + 1, Len(q))
           parked == [m EXCEPT !.pending = rest, !.settled = @ + d,
                               !.status = IF sched.stopping THEN "Stopping"
                                                            ELSE "Idle"]
           p == PrepareNext(v, m)
<1>1. q \in Seq(Invocations) /\ Len(q) \in Nat
  BY DEF MailboxType
<1>2. d \in 0..Len(q)
  BY <1>1, UnregisteredPrefix
<1> HIDE DEF d
<1>3. rest \in Seq(Invocations) /\ Within(rest, q)
  <2>1. d + 1 \in 1..(Len(q) + 1) /\ Len(q) \in (d + 1 - 1)..Len(q)
    BY <1>1, <1>2
  <2> QED
    BY <1>1, <2>1, SegmentWithin
<1> HIDE DEF rest
<1>4. /\ parked \in MailboxType
      /\ parked.claimed = m.claimed /\ parked.active = m.active
      /\ parked.generation = m.generation /\ parked.pending = rest
      /\ parked.status \in {"Idle", "Stopping"}
  <2> DEFINE st == IF sched.stopping THEN "Stopping" ELSE "Idle"
             n == m.settled + d
  <2>1. st \in {"Idle", "Stopping"} /\ n \in Nat
    BY <1>2 DEF MailboxType
  <2>2. parked = [m EXCEPT !.pending = rest, !.settled = n, !.status = st]
    BY DEF MailboxType
  <2> HIDE DEF st, n
  <2> QED
    BY Zenon, <1>3, <2>1, <2>2 DEF MailboxType, Statuses
<1>5. CASE rest = <<>> \/ sched.cancelling
  <2>1. p = parked
    BY Zenon, <1>5 DEF PrepareNext, rest, d
  <2> QED
    BY <1>3, <1>4, <2>1
<1>6. CASE ~(rest = <<>> \/ sched.cancelling)
  <2>1. p = [parked EXCEPT !.pending = Tail(rest), !.active = Head(rest),
                           !.generation = @ + 1, !.status = "Runnable"]
    BY <1>6 DEF PrepareNext, rest, d
  <2>2. rest # <<>> /\ Head(rest) \in Invocations /\ Tail(rest) \in Seq(Invocations)
        /\ 1 \in DOMAIN rest /\ Head(rest) = rest[1]
    BY <1>3, <1>6
  <2>3. Within(Tail(rest), rest)
    <3>1. \A n \in DOMAIN Tail(rest) : n + 1 \in DOMAIN rest /\ Tail(rest)[n] = rest[n + 1]
      BY <1>3, <2>2
    <3> QED
      BY <3>1 DEF Within
  <2>4. Within(Tail(rest), q) /\ \E n \in DOMAIN q : Head(rest) = q[n]
    BY <1>3, <2>2, <2>3, SMTT(30) DEF Within
  <2> HIDE DEF parked
  <2>5. /\ p.status = "Runnable" /\ p.claimed = m.claimed
        /\ p.pending = Tail(rest) /\ p.active = Head(rest)
        /\ p.generation = m.generation + 1
        /\ p \in MailboxType
    <3> DEFINE g == parked.generation + 1
    <3>1. g \in Nat /\ g = m.generation + 1
      BY <1>4 DEF MailboxType
    <3>2. p = [parked EXCEPT !.pending = Tail(rest), !.active = Head(rest),
                             !.generation = g, !.status = "Runnable"]
      BY <2>1, <1>4 DEF MailboxType
    <3>3. parked \in MailboxType /\ parked.claimed = m.claimed
      BY <1>4
    <3> HIDE DEF g
    <3> DEFINE hd == Head(rest)
               tl == Tail(rest)
    <3>4. hd \in Invocations /\ tl \in Seq(Invocations)
      BY <2>2
    <3>5. p = [parked EXCEPT !.pending = tl, !.active = hd,
                             !.generation = g, !.status = "Runnable"]
      BY <3>2
    <3> HIDE DEF hd, tl, rest, p
    <3>6. /\ p \in MailboxType /\ p.status = "Runnable"
          /\ p.claimed = parked.claimed /\ p.pending = tl
          /\ p.active = hd /\ p.generation = g
      BY Zenon, <3>1, <3>3, <3>4, <3>5 DEF MailboxType, Statuses
    <3> QED
      BY <3>1, <3>3, <3>6 DEF hd, tl
  <2> QED
    BY <2>2, <2>4, <2>5
<1> QED
  BY <1>5, <1>6

\* Deliver only changes where a thread stands and what it has to deliver.
LEMMA DeliverFacts ==
    ASSUME NEW rec \in ThreadType, NEW evs \in Seq(EventType), NEW then \in PcSet
    PROVE  LET d == Deliver(rec, evs, then) IN
           /\ d \in ThreadType
           /\ d.cur = rec.cur /\ d.request = rec.request /\ d.touched = rec.touched
           /\ \/ d.pc = "deliver" /\ evs # <<>> /\ d.next = then
              \/ d.pc = then /\ d.next = "idle"
           /\ d.events = evs
<1> DEFINE nx == IF evs = <<>> THEN "idle" ELSE then
           pc == IF evs = <<>> THEN then ELSE "deliver"
<1>1. nx \in PcSet /\ pc \in PcSet
      /\ \/ pc = "deliver" /\ evs # <<>> /\ nx = then
         \/ pc = then /\ nx = "idle"
  <2>1. {"idle", "deliver"} \subseteq PcSet
    BY DEF PcSet, CallerPcs
  <2>2. CASE evs = <<>>
    BY <2>1, <2>2
  <2>3. CASE evs # <<>>
    BY <2>1, <2>3
  <2> QED
    BY <2>2, <2>3
<1>2. Deliver(rec, evs, then) = [rec EXCEPT !.events = evs, !.next = nx, !.pc = pc]
  BY DEF Deliver
<1> HIDE DEF nx, pc
<1>3. LET d == [rec EXCEPT !.events = evs, !.next = nx, !.pc = pc] IN
      /\ d \in ThreadType
      /\ d.cur = rec.cur /\ d.request = rec.request /\ d.touched = rec.touched
      /\ d.pc = pc /\ d.next = nx /\ d.events = evs
  BY Zenon, <1>1 DEF ThreadType
<1> QED
  BY <1>1, <1>2, <1>3

\* The counters stay integers.
LEMMA DecrementType ==
    ASSUME NEW s \in SchedType, NEW k \in Keys, NEW n \in Nat
    PROVE  DecrementPending(s, k, n) \in SchedType
<1> DEFINE a == ActorOf[k]
           p == s.pendingTasks - n
           x == IF MaxPendingPerActor > 0 THEN s.actorPending[a] - n
                                          ELSE s.actorPending[a]
           y == IF MaxPendingPerPartition > 0 THEN s.partitionPending[k] - n
                                              ELSE s.partitionPending[k]
<1>1. a \in Actors
  OBVIOUS
<1>2. p \in Int /\ x \in Int /\ y \in Int
  BY <1>1 DEF SchedType
<1>3. DecrementPending(s, k, n) = [s EXCEPT !.pendingTasks = p,
          !.actorPending = [s.actorPending EXCEPT ![a] = x],
          !.partitionPending = [s.partitionPending EXCEPT ![k] = y]]
  BY <1>1 DEF DecrementPending, SchedType
<1> HIDE DEF p, x, y, a
<1>4. [s.actorPending EXCEPT ![a] = x] \in [Actors -> Int]
      /\ [s.partitionPending EXCEPT ![k] = y] \in [Keys -> Int]
  BY Zenon, <1>2 DEF SchedType
<1> QED
  BY Zenon, <1>2, <1>3, <1>4 DEF SchedType

LEMMA IncrementType ==
    ASSUME NEW s \in SchedType, NEW i \in Invocations
    PROVE  IncrementPending(s, i) \in SchedType
           /\ IncrementPending(s, i).accepted = s.accepted
<1> DEFINE k == KeyOf[i]
           a == ActorOf[k]
           p == s.pendingTasks + 1
           x == IF MaxPendingPerActor > 0 THEN s.actorPending[a] + 1
                                          ELSE s.actorPending[a]
           y == IF MaxPendingPerPartition > 0 THEN s.partitionPending[k] + 1
                                              ELSE s.partitionPending[k]
<1>1. k \in Keys /\ a \in Actors
  OBVIOUS
<1>2. p \in Int /\ x \in Int /\ y \in Int
  BY <1>1 DEF SchedType
<1>3. IncrementPending(s, i) = [s EXCEPT !.pendingTasks = p,
          !.actorPending = [s.actorPending EXCEPT ![a] = x],
          !.partitionPending = [s.partitionPending EXCEPT ![k] = y]]
  BY <1>1 DEF IncrementPending, SchedType
<1> HIDE DEF p, x, y, a, k
<1>4. [s.actorPending EXCEPT ![a] = x] \in [Actors -> Int]
      /\ [s.partitionPending EXCEPT ![k] = y] \in [Keys -> Int]
  BY Zenon, <1>2 DEF SchedType
<1> QED
  BY Zenon, <1>2, <1>3, <1>4 DEF SchedType

\* An invocation that leaves its mailbox keeps its home and generation and has
\* no operation under way.
LEMMA DestroyedFacts ==
    ASSUME NEW x \in InvocationType, sched.accepted \in Nat
    PROVE  /\ Destroyed(x) \in InvocationType
           /\ Destroyed(x).home = x.home /\ Destroyed(x).submitted = x.submitted
           /\ ~Destroyed(x).ioPending
           /\ Destroyed(x).gen = x.gen
<1>1. "invalid" \in TaskStates /\ 0 \in Nat /\ FALSE \in BOOLEAN
  BY DEF TaskStates
<1> DEFINE n == sched.accepted
<1>2. n \in Nat
  OBVIOUS
<1> HIDE DEF n
<1>3. ASSUME NEW y, y = [x EXCEPT !.task = "invalid", !.suspensions = 0, !.epoch = 0,
                        !.readyEpoch = 0, !.completedEpoch = 0,
                        !.ioPending = FALSE, !.settledAt = n]
      PROVE  /\ y \in InvocationType
             /\ y.home = x.home /\ y.submitted = x.submitted
             /\ ~y.ioPending /\ y.gen = x.gen
  BY Zenon, <1>1, <1>2, <1>3 DEF InvocationType
<1> QED
  BY <1>3 DEF Destroyed, n

\* A critical section leaves home and ticket of every invocation alone and
\* gives a generation only to the invocation it activates.
LEMMA InvAfterFacts ==
    ASSUME NEW v \in [Invocations -> InvocationType], NEW m \in MailboxType,
           NEW gone, TypeOK
    PROVE  LET r == InvAfter(v, m, gone) IN
           /\ r \in [Invocations -> InvocationType]
           /\ \A i \in Invocations :
                 /\ r[i].home = v[i].home
                 /\ r[i].submitted = v[i].submitted
                 /\ r[i].ioPending => v[i].ioPending
                 /\ r[i].gen = IF i = m.active /\ v[i].gen = 0
                               THEN m.generation ELSE v[i].gen
<1> DEFINE D(i) == IF i \in gone THEN Destroyed(v[i]) ELSE v[i]
           E(i) == IF i = m.active /\ D(i).gen = 0
                   THEN [D(i) EXCEPT !.gen = m.generation] ELSE D(i)
<1>1. sched.accepted \in Nat /\ m.generation \in Nat
  BY DEF TypeOK, SchedType, MailboxType
<1>2. ASSUME NEW i \in Invocations
      PROVE  /\ D(i) \in InvocationType
             /\ D(i).home = v[i].home /\ D(i).submitted = v[i].submitted
             /\ D(i).ioPending => v[i].ioPending
             /\ D(i).gen = v[i].gen
  <2>1. v[i] \in InvocationType
    OBVIOUS
  <2>3. CASE i \in gone
    BY <1>1, <2>1, <2>3, DestroyedFacts
  <2>4. CASE i \notin gone
    BY <2>1, <2>4
  <2> QED
    BY <2>3, <2>4
<1> HIDE DEF D
<1>3. ASSUME NEW i \in Invocations
      PROVE  /\ E(i) \in InvocationType
             /\ E(i).home = v[i].home /\ E(i).submitted = v[i].submitted
             /\ E(i).ioPending => v[i].ioPending
             /\ E(i).gen = IF i = m.active /\ v[i].gen = 0
                           THEN m.generation ELSE v[i].gen
  BY <1>1, <1>2 DEF InvocationType
<1>4. InvAfter(v, m, gone) = [i \in Invocations |-> E(i)]
  BY DEF InvAfter, D
<1> HIDE DEF E
<1> QED
  BY <1>3, <1>4

-----------------------------------------------------------------------------
(* The inductive invariant.                                                *)

\* Where an invocation is, it says it is: its home has its key, holds it, and
\* has given it a generation no greater than its own.
HomeInv(bx, v) ==
    /\ \A i \in Invocations :
          /\ v[i].home # None => /\ KeyOf[v[i].home] = KeyOf[i]
                                /\ v[i].gen <= bx[v[i].home].generation
          /\ v[i].home = None => v[i].gen = 0
          /\ ~v[i].submitted => v[i].home = None
    /\ \A b \in Invocations :
          /\ bx[b].active # None => /\ v[bx[b].active].home = b
                                   /\ v[bx[b].active].gen > 0
          /\ \A n \in DOMAIN bx[b].pending : v[bx[b].pending[n]].home = b

\* A generation names one invocation of its mailbox.
GenInv(v) ==
    \A i, j \in Invocations :
        i # j /\ v[i].home = v[j].home /\ v[i].gen = v[j].gen => v[i].gen = 0

\* The map holds mailboxes under their own keys, and all mailboxes that own work.
MapInv(mb, bx) ==
    /\ \A k \in Keys : mb[k] # None => KeyOf[mb[k]] = k
    /\ \A b \in Invocations : mb[KeyOf[b]] # b =>
          /\ bx[b].active = None /\ bx[b].pending = <<>>
          /\ bx[b].status = "Idle" /\ ~bx[b].claimed

\* The structure of the map mb, the mailboxes bx and the invocations v.
Structure(mb, bx, v) == HomeInv(bx, v) /\ GenInv(v) /\ MapInv(mb, bx)

\* A cancelling shutdown still has to visit only keys that have a mailbox, and
\* holds state->mutex until it has visited them all.
SweepInv ==
    /\ \A k \in unswept : mailboxes[k] # None
    /\ unswept # {} => ~StateMutexFree

\* Requests, items and pending operations name invocations that were activated.
RecOK(r, v) ==
    /\ r.request # None => v[r.request].gen > 0
    /\ r.pc \in {"begin", "start", "resume", "post", "ready"}
          => r.cur # None /\ v[r.cur].gen > 0
    /\ r.pc \in {"start", "resume", "post", "claim"} \/ r.next = "claim"
          => r.touched # None
    /\ r.pc = "deliver" => r.events # <<>>
    /\ r.next \in {"idle", "publish", "dispatch", "claim", "stopExecutor"}

HolderInv ==
    /\ \A t \in Threads : RecOK(th[t], inv)
    /\ \A i \in Invocations : items[i] > 0 \/ inv[i].ioPending => inv[i].gen > 0

\* Two workers never execute the same invocation.
DistinctCur ==
    \A w1, w2 \in Workers :
        w1 # w2 /\ Executing(w1) /\ Executing(w2) => th[w1].cur # th[w2].cur

IInv ==
    /\ TypeOK
    /\ Structure(mailboxes, box, inv)
    /\ SweepInv
    /\ HolderInv
    /\ WorkerOwnsMailbox
    /\ DistinctCur

\* The inductive invariant gives mutual exclusion per key.
THEOREM InvariantImpliesExclusion == IInv => ExclusiveExecution
<1> SUFFICES ASSUME IInv,
                    NEW w1 \in Workers, NEW w2 \in Workers,
                    w1 # w2, Executing(w1), Executing(w2),
                    KeyOf[th[w1].cur] = KeyOf[th[w2].cur]
             PROVE  FALSE
  BY DEF ExclusiveExecution
<1> DEFINE i == th[w1].cur
           j == th[w2].cur
<1>1. i \in Invocations /\ j \in Invocations /\ i # j
  BY DEF IInv, TypeOK, Threads, ThreadType, HolderInv, RecOK, Executing, DistinctCur
<1>2. /\ inv[i].home # None /\ box[inv[i].home].active = i
      /\ inv[j].home # None /\ box[inv[j].home].active = j
  BY DEF IInv, WorkerOwnsMailbox
<1>3. inv[i].home \in Invocations /\ inv[j].home \in Invocations
  BY <1>1, <1>2 DEF IInv, TypeOK, InvocationType
<1>4. mailboxes[KeyOf[i]] = inv[i].home /\ mailboxes[KeyOf[j]] = inv[j].home
  BY <1>1, <1>2, <1>3 DEF IInv, Structure, HomeInv, MapInv
<1> QED
  BY <1>1, <1>2, <1>4

\* What a critical section that leaves a mailbox as m may do to the invocation
\* objects: v becomes v2.
InvStep(v, v2, m) ==
    \A i \in Invocations :
        /\ v2[i].home = v[i].home
        /\ v2[i].submitted = v[i].submitted
        /\ v2[i].gen = IF i = m.active /\ v[i].gen = 0
                       THEN m.generation ELSE v[i].gen

\* What it may do to the mailbox, m becomes m2: keep or drop the active
\* invocation, or activate a pending one under the next generation.
BoxMove(m, m2) ==
    /\ Within(m2.pending, m.pending)
    /\ \/ /\ m2.active \in {None, m.active}
          /\ m2.generation = m.generation
       \/ /\ \E n \in DOMAIN m.pending : m2.active = m.pending[n]
          /\ m2.generation = m.generation + 1

\* Such a critical section on a mapped mailbox b keeps the structure.
LEMMA BoxStep ==
    ASSUME NEW mb, NEW bx \in [Invocations -> MailboxType],
           NEW v \in [Invocations -> InvocationType], NEW v2,
           Structure(mb, bx, v),
           NEW b \in Invocations, NEW m \in MailboxType,
           mb[KeyOf[b]] = b,
           BoxMove(bx[b], m),
           InvStep(v, v2, m)
    PROVE  /\ Structure(mb, [bx EXCEPT ![b] = m], v2)
           /\ \A i \in Invocations : v[i].gen > 0 => v2[i].gen > 0
<1> DEFINE bx2 == [bx EXCEPT ![b] = m]
<1>0. bx2 = [bx EXCEPT ![b] = m]
  OBVIOUS
<1> HIDE DEF bx2
<1> USE DEF InvStep, BoxMove, Structure
<1>1. /\ m.generation \in Nat /\ bx[b].generation \in Nat
      /\ m.active \in Invocations \cup {None}
      /\ bx[b].active \in Invocations \cup {None}
      /\ \A i \in Invocations : v[i].gen \in Nat /\ v[i].home \in Invocations \cup {None}
      /\ \A c \in Invocations : bx[c].generation \in Nat
      /\ bx \in [Invocations -> MailboxType]
  BY Zenon DEF MailboxType, InvocationType
<1>2. \A c \in Invocations : bx2[c] = IF c = b THEN m ELSE bx[c]
  BY <1>0, <1>1
<1>3. m.active # None => /\ v[m.active].home = b
                         /\ v[m.active].gen > 0 \/ m.generation = bx[b].generation + 1
  BY <1>1 DEF HomeInv
<1>4. HomeInv(bx2, v2)
  <2>1. ASSUME NEW i \in Invocations
        PROVE  /\ v2[i].home # None => /\ KeyOf[v2[i].home] = KeyOf[i]
                                         /\ v2[i].gen <= bx2[v2[i].home].generation
               /\ v2[i].home = None => v2[i].gen = 0
               /\ ~v2[i].submitted => v2[i].home = None
    <3>1. v2[i].home # None => KeyOf[v2[i].home] = KeyOf[i]
      BY DEF HomeInv
    <3>2. v2[i].home # None => v2[i].gen <= bx2[v2[i].home].generation
      BY <1>1, <1>2, <1>3 DEF HomeInv
    <3>3. v2[i].home = None => v2[i].gen = 0
      BY <1>1, <1>3 DEF HomeInv
    <3>4. ~v2[i].submitted => v2[i].home = None
      BY DEF HomeInv
    <3> QED
      BY <3>1, <3>2, <3>3, <3>4
  <2>2. ASSUME NEW c \in Invocations
        PROVE  /\ bx2[c].active # None => /\ v2[bx2[c].active].home = c
                                           /\ v2[bx2[c].active].gen > 0
               /\ \A n \in DOMAIN bx2[c].pending : v2[bx2[c].pending[n]].home = c
    <3>1. CASE c = b
      <4>1. bx2[c] = m
        BY <1>2, <3>1
      <4>2. m.active # None => v2[m.active].home = b /\ v2[m.active].gen > 0
        BY <1>1, <1>3
      <4>3. \A n \in DOMAIN m.pending : m.pending[n] \in Invocations /\ v[m.pending[n]].home = b
        <5>1. m.pending \in Seq(Invocations)
          BY DEF MailboxType
        <5> QED
          BY <5>1 DEF Within, HomeInv
      <4> QED
        BY <4>1, <4>2, <4>3, <3>1
    <3>2. CASE c # b
      <4>1. bx2[c] = bx[c] /\ bx[c].pending \in Seq(Invocations)
            /\ bx[c].active \in Invocations \cup {None}
        BY Zenon, <1>1, <1>2, <3>2 DEF MailboxType
      <4>2. bx[c].active # None => v2[bx[c].active].home = c /\ v2[bx[c].active].gen > 0
        BY <4>1, <1>1 DEF HomeInv
      <4>3. \A n \in DOMAIN bx[c].pending : v2[bx[c].pending[n]].home = c
        BY <4>1 DEF HomeInv
      <4> QED
        BY <4>1, <4>2, <4>3
    <3> QED
      BY <3>1, <3>2
  <2> QED
    BY <2>1, <2>2 DEF HomeInv
<1>5. GenInv(v2)
  <2> SUFFICES ASSUME NEW i \in Invocations, NEW j \in Invocations, i # j,
                      v2[i].home = v2[j].home, v2[i].gen = v2[j].gen
               PROVE  v2[i].gen = 0
    BY DEF GenInv
  <2>1. v[i].home = v[j].home
    OBVIOUS
  <2>2. ASSUME NEW x \in Invocations, NEW y \in Invocations, x # y,
               v[x].home = v[y].home, x = m.active, v[x].gen = 0,
               m.generation = v[y].gen
        PROVE  FALSE
    <3>1. x # None /\ v[x].home = b /\ m.generation = bx[b].generation + 1
      BY <1>1, <1>3, <2>2
    <3>2. v[y].gen <= bx[b].generation
      BY <3>1, <2>2, <1>1 DEF HomeInv
    <3> QED
      BY <3>1, <3>2, <2>2, <1>1
  <2>3. CASE i = m.active /\ v[i].gen = 0
    BY <2>1, <2>2, <2>3
  <2>4. CASE j = m.active /\ v[j].gen = 0
    BY <2>1, <2>2, <2>4
  <2>5. CASE ~(i = m.active /\ v[i].gen = 0) /\ ~(j = m.active /\ v[j].gen = 0)
    BY <2>1, <2>5 DEF GenInv
  <2> QED
    BY <2>3, <2>4, <2>5
<1>6. MapInv(mb, bx2)
  BY <1>2 DEF MapInv
<1> QED
  BY <1>0, <1>1, <1>4, <1>5, <1>6

\* Generations are never taken back.
GenKept == \A i \in Invocations : inv[i].gen > 0 => inv'[i].gen > 0

\* A step of thread t leaves the records of the other threads as they are.
LEMMA ThreadStep ==
    ASSUME TypeOK, HolderInv, GenKept,
           NEW t \in Threads, NEW rec \in ThreadType, th' = [th EXCEPT ![t] = rec],
           RecOK(rec, inv')
    PROVE  \A u \in Threads : RecOK(th'[u], inv')
<1> TAKE u \in Threads
<1>1. th'[u] = IF u = t THEN rec ELSE th[u]
  BY DEF TypeOK
<1>2. CASE u # t
  <2>1. RecOK(th[u], inv) /\ th'[u] = th[u]
    BY <1>1, <1>2 DEF HolderInv
  <2>2. /\ th[u].request \in Invocations \cup {None}
        /\ th[u].cur \in Invocations \cup {None}
    BY Zenon DEF TypeOK, ThreadType
  <2> QED
    BY <2>1, <2>2 DEF RecOK, GenKept
<1> QED
  BY <1>1, <1>2

\* A critical section of thread t on mailbox b does not disturb the other
\* executing workers, unless it takes a running mailbox from its owner.
LEMMA OwnStep ==
    ASSUME TypeOK, HolderInv, WorkerOwnsMailbox, DistinctCur,
           NEW b \in Invocations, NEW m \in MailboxType, box' = [box EXCEPT ![b] = m],
           NEW t \in Threads, NEW rec \in ThreadType, th' = [th EXCEPT ![t] = rec],
           \A i \in Invocations : inv[i].home # None => inv'[i].home = inv[i].home,
           rec.pc \notin {"start", "resume", "post"},
           \/ m.active = box[b].active /\ m.status = box[b].status
           \/ box[b].status # "Running" \/ box[b].active = None
           \/ t \in Workers /\ Executing(t) /\ inv[th[t].cur].home = b
    PROVE  WorkerOwnsMailbox' /\ DistinctCur'
<1>1. \A w \in Workers : Executing(w)' => w # t /\ Executing(w) /\ th'[w] = th[w]
  BY DEF TypeOK, Executing, Threads
<1>2. \A c \in Invocations : box'[c] = IF c = b THEN m ELSE box[c]
  BY DEF TypeOK
<1>3. WorkerOwnsMailbox'
  <2> SUFFICES ASSUME NEW w \in Workers, Executing(w)'
               PROVE  LET i == th'[w].cur IN
                      /\ inv'[i].home # None
                      /\ box'[inv'[i].home].active = i
                      /\ box'[inv'[i].home].status = "Running"
    BY DEF WorkerOwnsMailbox
  <2> DEFINE i == th[w].cur
             h == inv[i].home
  <2>1. w # t /\ Executing(w) /\ th'[w].cur = i
    BY <1>1
  <2>2. i \in Invocations
    BY <2>1 DEF TypeOK, ThreadType, HolderInv, RecOK, Executing, Threads
  <2>3. h # None /\ box[h].active = i /\ box[h].status = "Running" /\ inv'[i].home = h
    BY <2>1, <2>2 DEF WorkerOwnsMailbox
  <2>4. h \in Invocations
    BY <2>2, <2>3 DEF TypeOK, InvocationType
  <2>5. CASE h # b
    BY <1>2, <2>1, <2>3, <2>4, <2>5
  <2>6. CASE h = b
    <3>1. ~(t \in Workers /\ Executing(t) /\ inv[th[t].cur].home = b)
      <4> SUFFICES ASSUME t \in Workers, Executing(t), inv[th[t].cur].home = b
                   PROVE  FALSE
        OBVIOUS
      <4>1. box[b].active = th[t].cur
        BY DEF WorkerOwnsMailbox
      <4> QED
        BY <2>1, <2>3, <2>6, <4>1 DEF DistinctCur
    <3>2. m.active = box[b].active /\ m.status = box[b].status
      BY <2>2, <2>3, <2>6, <3>1
    <3> QED
      BY <1>2, <2>1, <2>3, <2>4, <2>6, <3>2
  <2> QED
    BY <2>5, <2>6
<1>4. DistinctCur'
  BY <1>1 DEF DistinctCur
<1> QED
  BY <1>3, <1>4

\* A step of a thread that is not the sweeping one leaves the sweep alone.
LEMMA SweepStep ==
    ASSUME TypeOK, SweepInv, unswept' = unswept, mailboxes' = mailboxes,
           NEW t \in Threads, NEW rec \in ThreadType, th' = [th EXCEPT ![t] = rec],
           th[t].pc # "sweep"
    PROVE  SweepInv'
<1>1. \A c \in Callers : th[c].pc = "sweep" => th'[c] = th[c]
  BY DEF TypeOK, Threads
<1>2. ~StateMutexFree => ~StateMutexFree'
  BY <1>1 DEF StateMutexFree
<1> QED
  BY <1>2 DEF SweepInv

\* Whose step it may be that changes mailbox b to m, by thread t: nobody takes
\* a running mailbox from its owner.
MayMove(t, b, m) ==
    \/ m.active = box[b].active /\ m.status = box[b].status
    \/ box[b].status # "Running" \/ box[b].active = None
    \/ t \in Workers /\ Executing(t) /\ inv[th[t].cur].home = b

\* The record of a thread that leaves such a critical section.
LeavesBox(rec, m) ==
    /\ rec.request \in {None, m.active} \/ inv[rec.request].gen > 0
    /\ rec.pc \notin {"begin", "start", "resume", "post", "ready"}
    /\ rec.pc = "claim" \/ rec.next = "claim" => rec.touched # None
    /\ rec.pc = "deliver" => rec.events # <<>>
    /\ rec.next \in {"idle", "publish", "dispatch", "claim", "stopExecutor"}

\* A critical section of thread t on the mapped mailbox b keeps the invariant.
LEMMA MailboxStep ==
    ASSUME IInv, TypeOK',
           NEW b \in Invocations, NEW m \in MailboxType,
           NEW t \in Threads, NEW rec \in ThreadType,
           box' = [box EXCEPT ![b] = m], th' = [th EXCEPT ![t] = rec],
           mailboxes' = mailboxes, items' = items, unswept' = unswept,
           InvStep(inv, inv', m),
           \A i \in Invocations : inv'[i].ioPending => inv[i].ioPending,
           mailboxes[KeyOf[b]] = b,
           BoxMove(box[b], m), MayMove(t, b, m),
           th[t].pc # "sweep", LeavesBox(rec, m)
    PROVE  IInv'
<1>1. Structure(mailboxes, box, inv)' /\ GenKept
  <2>1. box \in [Invocations -> MailboxType] /\ inv \in [Invocations -> InvocationType]
    BY DEF IInv, TypeOK
  <2> QED
    BY Zenon, <2>1, BoxStep DEF IInv, GenKept
<1>2. SweepInv'
  BY Zenon, SweepStep DEF IInv
<1>3. HolderInv'
  <2>1. rec.request # None => inv'[rec.request].gen > 0
    <3> SUFFICES ASSUME rec.request # None
                 PROVE  inv'[rec.request].gen > 0
      OBVIOUS
    <3>1. CASE rec.request = m.active
      <4>1. box'[b].active = rec.request
        BY <3>1 DEF IInv, TypeOK
      <4> QED
        BY <1>1, <4>1 DEF Structure, HomeInv
    <3>2. CASE inv[rec.request].gen > 0
      BY <1>1, <3>2 DEF GenKept, ThreadType
    <3> QED
      BY <3>1, <3>2 DEF LeavesBox
  <2>2. RecOK(rec, inv')
    BY <2>1 DEF RecOK, LeavesBox
  <2>3. \A u \in Threads : RecOK(th'[u], inv')
    BY Zenon, <1>1, <2>2, ThreadStep DEF IInv
  <2>4. \A i \in Invocations : items'[i] > 0 \/ inv'[i].ioPending => inv'[i].gen > 0
    BY <1>1 DEF IInv, HolderInv, GenKept
  <2> QED
    BY <2>3, <2>4 DEF HolderInv
<1>4. WorkerOwnsMailbox' /\ DistinctCur'
  <2>1. \A i \in Invocations : inv'[i].home = inv[i].home
    BY DEF InvStep
  <2> QED
    BY Zenon, <2>1, OwnStep DEF IInv, MayMove, LeavesBox
<1> QED
  BY <1>1, <1>2, <1>3, <1>4 DEF IInv

\* Every critical section that takes invocations out of a mailbox keeps the
\* invariant.
LEMMA SettleStep ==
    ASSUME IInv,
           NEW b \in Invocations, NEW m \in MailboxType, NEW evs \in Seq(EventType),
           NEW t \in Threads, NEW rec \in ThreadType,
           Settle(b, m, evs, t, rec),
           UNCHANGED <<mailboxes, items, unswept, result, calls>>,
           mailboxes[KeyOf[b]] = b,
           BoxMove(box[b], m), MayMove(t, b, m),
           th[t].pc # "sweep", LeavesBox(rec, m)
    PROVE  IInv'
<1>1. /\ box' = [box EXCEPT ![b] = m] /\ th' = [th EXCEPT ![t] = rec]
      /\ inv' = InvAfter(inv, m, EventInvs(evs))
      /\ sched' = DecrementPending(sched, KeyOf[b], Len(evs))
  BY DEF Settle
<1>2. TypeOK /\ inv \in [Invocations -> InvocationType] /\ sched \in SchedType
  BY Zenon DEF IInv, TypeOK
<1>3. /\ inv' \in [Invocations -> InvocationType]
      /\ InvStep(inv, inv', m)
      /\ \A i \in Invocations : inv'[i].ioPending => inv[i].ioPending
  <2> DEFINE gone == EventInvs(evs)
  <2> HIDE DEF gone
  <2>1. LET r == InvAfter(inv, m, gone) IN
           /\ r \in [Invocations -> InvocationType]
           /\ \A i \in Invocations :
                 /\ r[i].home = inv[i].home
                 /\ r[i].submitted = inv[i].submitted
                 /\ r[i].ioPending => inv[i].ioPending
                 /\ r[i].gen = IF i = m.active /\ inv[i].gen = 0
                               THEN m.generation ELSE inv[i].gen
    BY <1>2, InvAfterFacts
  <2>2. inv' = InvAfter(inv, m, gone)
    BY <1>1 DEF gone
  <2> QED
    BY <2>1, <2>2 DEF InvStep
<1>4. TypeOK'
  <2>1. sched' \in SchedType
    <3>1. KeyOf[b] \in Keys /\ Len(evs) \in Nat
      OBVIOUS
    <3> QED
      BY <1>1, <1>2, <3>1, DecrementType
  <2>2. box' \in [Invocations -> MailboxType] /\ th' \in [Threads -> ThreadType]
    BY <1>1, <1>2 DEF TypeOK
  <2> QED
    BY Zenon, <1>2, <1>3, <2>1, <2>2 DEF TypeOK
<1> QED
  BY Zenon, <1>1, <1>3, <1>4, MailboxStep

\* A step of thread t that changes no mailbox keeps the invariant.
LEMMA QuietStep ==
    ASSUME IInv, TypeOK', SweepInv',
           NEW t \in Threads, NEW rec \in ThreadType, th' = [th EXCEPT ![t] = rec],
           box' = box, mailboxes' = mailboxes \/ MapInv(mailboxes', box),
           \A i \in Invocations :
              /\ inv'[i].home = inv[i].home
              /\ inv'[i].gen = inv[i].gen
              /\ inv[i].submitted => inv'[i].submitted
              /\ items'[i] > 0 \/ inv'[i].ioPending => inv[i].gen > 0,
           RecOK(rec, inv),
           rec.pc \in {"start", "resume", "post"} /\ t \in Workers
              => Executing(t) /\ rec.cur = th[t].cur
    PROVE  IInv'
<1>1. Structure(mailboxes, box, inv)'
  <2>1. /\ \A b \in Invocations : box[b].active \in Invocations \cup {None}
                                  /\ box[b].pending \in Seq(Invocations)
        /\ \A i \in Invocations : inv'[i].submitted \in BOOLEAN /\ inv[i].submitted \in BOOLEAN
    BY Zenon DEF IInv, TypeOK, MailboxType, InvocationType
  <2>2. HomeInv(box, inv')
    BY <2>1 DEF IInv, Structure, HomeInv
  <2>3. GenInv(inv') /\ MapInv(mailboxes', box)
    BY DEF IInv, Structure, GenInv
  <2> QED
    BY <2>2, <2>3 DEF Structure
<1>2. HolderInv'
  <2>1. GenKept
    BY DEF GenKept
  <2>2. RecOK(rec, inv')
    BY <2>1 DEF RecOK, GenKept, ThreadType
  <2>3. \A u \in Threads : RecOK(th'[u], inv')
    BY Zenon, <2>1, <2>2, ThreadStep DEF IInv
  <2>4. \A i \in Invocations : items'[i] > 0 \/ inv'[i].ioPending => inv'[i].gen > 0
    OBVIOUS
  <2> QED
    BY <2>3, <2>4 DEF HolderInv
<1>3. \A w \in Workers : Executing(w)' => Executing(w) /\ th'[w].cur = th[w].cur
  <2> TAKE w \in Workers
  <2>1. th'[w] = IF w = t THEN rec ELSE th[w]
    BY DEF IInv, TypeOK, Threads
  <2> QED
    BY <2>1 DEF Executing
<1>4. DistinctCur'
  BY <1>3 DEF IInv, DistinctCur
<1>5. WorkerOwnsMailbox'
  <2> SUFFICES ASSUME NEW w \in Workers, Executing(w)'
               PROVE  LET i == th'[w].cur IN
                      /\ inv'[i].home # None
                      /\ box'[inv'[i].home].active = i
                      /\ box'[inv'[i].home].status = "Running"
    BY DEF WorkerOwnsMailbox
  <2>1. Executing(w) /\ th'[w].cur = th[w].cur
    BY <1>3
  <2>2. th[w].cur \in Invocations
    BY Zenon, <2>1 DEF IInv, TypeOK, ThreadType, HolderInv, RecOK, Executing, Threads
  <2> QED
    BY <2>1, <2>2 DEF IInv, WorkerOwnsMailbox
<1> QED
  BY <1>1, <1>2, <1>4, <1>5 DEF IInv

\* The staleness test is exact: the active invocation with i's generation is i.
LEMMA CurrentIsActive ==
    ASSUME IInv, NEW i \in Invocations, inv[i].gen > 0, IsCurrent(i)
    PROVE  /\ inv[i].home \in Invocations
           /\ box[inv[i].home].active = i
           /\ mailboxes[KeyOf[inv[i].home]] = inv[i].home
<1> DEFINE h == inv[i].home
           a == box[h].active
<1>1. inv[i].gen \in Nat /\ h \in Invocations \cup {None}
  BY DEF IInv, TypeOK, InvocationType
<1>2. h \in Invocations
  BY <1>1 DEF IInv, Structure, HomeInv
<1>3. a # None /\ inv[a].gen = inv[i].gen
  BY DEF IsCurrent
<1>4. a \in Invocations
  BY <1>2, <1>3 DEF IInv, TypeOK, MailboxType
<1>5. inv[a].home = h
  BY <1>2, <1>3 DEF IInv, Structure, HomeInv
<1>6. a = i
  BY <1>1, <1>3, <1>4, <1>5 DEF IInv, Structure, GenInv
<1>7. mailboxes[KeyOf[h]] = h
  BY <1>2, <1>3 DEF IInv, Structure, MapInv
<1> QED
  BY <1>2, <1>6, <1>7

\* complete_active_locked is a move of the mailbox.
LEMMA CompleteActiveFacts ==
    ASSUME TypeOK, NEW m \in MailboxType
    PROVE  LET c == CompleteActive(inv, m) IN
           /\ c \in MailboxType
           /\ BoxMove(m, c)
           /\ c.claimed = m.claimed
           /\ c.active = None \/ c.status = "Runnable"
<1> DEFINE n == m.settled + 1
           x == [m EXCEPT !.active = None, !.settled = n]
           c == PrepareNext(inv, x)
<1>1. CompleteActive(inv, m) = c
  BY DEF CompleteActive, MailboxType
<1>2. n \in Nat
  BY DEF MailboxType
<1> HIDE DEF n
<1>3. /\ x \in MailboxType /\ x.active = None /\ x.pending = m.pending
      /\ x.generation = m.generation /\ x.claimed = m.claimed
  BY Zenon, <1>2 DEF MailboxType
<1> HIDE DEF x
<1>4. /\ c \in MailboxType
      /\ c.claimed = x.claimed
      /\ Within(c.pending, x.pending)
      /\ \/ /\ c.active = x.active
            /\ c.generation = x.generation
            /\ c.status \in {"Idle", "Stopping"}
         \/ /\ c.active # None
            /\ \E k \in DOMAIN x.pending : c.active = x.pending[k]
            /\ c.generation = x.generation + 1
            /\ c.status = "Runnable"
  BY <1>3, PrepareNextFacts
<1> HIDE DEF c
<1> QED
  BY <1>1, <1>3, <1>4 DEF BoxMove

\* The completion events of complete_active_locked.
LEMMA CompletionEvents ==
    ASSUME TypeOK, NEW b \in Invocations, box[b].active # None, NEW r \in Results
    PROVE  LET evs == <<Event(box[b].active, r)>> \o UnregisteredEvents(inv, box[b].pending)
           IN  evs \in Seq(EventType) /\ evs # <<>>
<1>1. /\ box[b].active \in Invocations /\ box[b].pending \in Seq(Invocations)
  BY Zenon DEF TypeOK, MailboxType
<1>2. <<Event(box[b].active, r)>> \in Seq(EventType) /\ Len(<<Event(box[b].active, r)>>) = 1
  BY <1>1 DEF Event, EventType
<1>3. UnregisteredEvents(inv, box[b].pending) \in Seq(EventType)
  BY <1>1, UnregisteredEventsType
<1> QED
  BY <1>2, <1>3

\* A thread settles the active invocation of a mailbox and goes on with its tail.
LEMMA SettleActiveStep ==
    ASSUME IInv, NEW b \in Invocations, box[b].active # None, NEW r \in Results,
           NEW t \in Threads, th[t].pc # "sweep", NEW rec \in ThreadType,
           \/ box[b].status # "Running"
           \/ t \in Workers /\ Executing(t) /\ inv[th[t].cur].home = b,
           SettleActive(b, r, t, rec, "publish"),
           UNCHANGED <<mailboxes, items, unswept, result, calls>>
    PROVE  IInv'
<1> DEFINE m == CompleteActive(inv, box[b])
           evs == <<Event(box[b].active, r)>>
                  \o UnregisteredEvents(inv, box[b].pending)
           x == [rec EXCEPT !.request = m.active, !.cur = None]
           d == Deliver(x, evs, "publish")
<1>1. TypeOK /\ box[b] \in MailboxType
  BY DEF IInv, TypeOK
<1>2. m \in MailboxType /\ BoxMove(box[b], m)
  BY <1>1, CompleteActiveFacts
<1>3. evs \in Seq(EventType) /\ evs # <<>>
  BY <1>1, CompletionEvents
<1>4. Settle(b, m, evs, t, d)
  BY DEF SettleActive
<1>5. mailboxes[KeyOf[b]] = b
  BY DEF IInv, Structure, MapInv
<1> HIDE DEF m, evs
<1>6. x \in ThreadType /\ x.request = m.active
  BY Zenon, <1>2 DEF ThreadType, MailboxType
<1>7. "publish" \in PcSet
  BY DEF PcSet, CallerPcs
<1> HIDE DEF x
<1>8. d \in ThreadType /\ LeavesBox(d, m)
  BY <1>3, <1>6, <1>7, DeliverFacts DEF LeavesBox
<1> HIDE DEF d
<1>9. MayMove(t, b, m)
  BY DEF MayMove
<1> QED
  BY <1>2, <1>3, <1>4, <1>5, <1>8, <1>9, SettleStep

-----------------------------------------------------------------------------
(* Every action keeps the invariant.                                       *)

\* Steps that change only flags, counters and the actor set.
LEMMA SchedStep ==
    ASSUME IInv, sched' \in SchedType,
           UNCHANGED <<mailboxes, box, inv, items, unswept, th, result, calls>>
    PROVE  IInv'
<1>1. TypeOK'
  BY DEF IInv, TypeOK
<1>2. Structure(mailboxes, box, inv)'
  BY DEF IInv
<1>3. SweepInv' /\ HolderInv'
  BY DEF IInv, SweepInv, StateMutexFree, HolderInv
<1>4. WorkerOwnsMailbox' /\ DistinctCur'
  BY DEF IInv, WorkerOwnsMailbox, DistinctCur, Executing
<1> QED
  BY <1>1, <1>2, <1>3, <1>4 DEF IInv

LEMMA RegisterActorStep ==
    ASSUME IInv, NEW a \in Actors, RegisterActor(a)
    PROVE  IInv'
<1> DEFINE x == sched.actors \cup {a}
<1>1. sched \in SchedType /\ x \in SUBSET Actors
  BY DEF IInv, TypeOK, SchedType
<1>2. sched' = [sched EXCEPT !.actors = x]
  BY <1>1 DEF RegisterActor, SchedType
<1> HIDE DEF x
<1>3. sched' \in SchedType
  BY <1>1, <1>2 DEF SchedType
<1> QED
  BY <1>3, SchedStep DEF RegisterActor

LEMMA ReleaseActorsStep ==
    ASSUME IInv, ReleaseActors
    PROVE  IInv'
<1>1. sched' \in SchedType
  BY Zenon DEF IInv, TypeOK, SchedType, ReleaseActors
<1> QED
  BY <1>1, SchedStep DEF ReleaseActors

\* The records that threads return to and the facts the type invariant gives
\* about the record of a thread.
LEMMA ThreadFacts ==
    ASSUME IInv, NEW t \in Threads
    PROVE  /\ th[t] \in ThreadType /\ RecOK(th[t], inv)
           /\ th[t].cur \in Invocations \cup {None}
           /\ th[t].request \in Invocations \cup {None}
           /\ th[t].touched \in Invocations \cup {None}
           /\ IdleThread \in ThreadType
           /\ RecOK(IdleThread, inv)
<1>1. th[t] \in ThreadType /\ RecOK(th[t], inv)
  BY DEF IInv, TypeOK, HolderInv
<1>2. IdleThread \in ThreadType
  BY DEF IdleThread, ThreadType, PcSet, CallerPcs
<1>3. RecOK(IdleThread, inv)
  BY DEF IdleThread, RecOK
<1> QED
  BY Zenon, <1>1, <1>2, <1>3 DEF ThreadType

\* An update of one invocation object that leaves home and generation alone.
LEMMA InvUpdate ==
    ASSUME IInv, NEW i \in Invocations, NEW x \in InvocationType,
           x.home = inv[i].home, x.gen = inv[i].gen,
           inv[i].submitted => x.submitted,
           x.ioPending => inv[i].gen > 0,
           inv' = [inv EXCEPT ![i] = x]
    PROVE  /\ inv' \in [Invocations -> InvocationType]
           /\ \A j \in Invocations :
                /\ inv'[j].home = inv[j].home /\ inv'[j].gen = inv[j].gen
                /\ inv[j].submitted => inv'[j].submitted
                /\ inv'[j].ioPending => inv[j].gen > 0
<1>1. inv \in [Invocations -> InvocationType]
  BY DEF IInv, TypeOK
<1>2. \A j \in Invocations : inv'[j] = IF j = i THEN x ELSE inv[j]
  BY <1>1
<1>3. inv' \in [Invocations -> InvocationType]
  BY <1>1
<1>4. \A j \in Invocations : inv[j].ioPending => inv[j].gen > 0
  BY DEF IInv, HolderInv
<1> QED
  BY <1>2, <1>3, <1>4

LEMMA EnqueueRejectedStep ==
    ASSUME IInv, NEW c \in Callers, NEW i \in Invocations, NEW r \in Results,
           th[c].pc = "idle", EnqueueRejected(c, i, r)
    PROVE  IInv'
<1> DEFINE evs == <<Event(i, r)>>
           rec == Deliver(th[c], evs, "publish")
           n == sched.rejected + 1
<1>0. c \in Threads
  BY DEF Threads
<1>1. evs \in Seq(EventType) /\ evs # <<>>
  BY DEF Event, EventType
<1>2. /\ th' = [th EXCEPT ![c] = rec]
      /\ inv' = [inv EXCEPT ![i].submitted = TRUE]
      /\ sched' = [sched EXCEPT !.rejected = n]
  <2>1. th \in [Threads -> ThreadType] /\ sched \in SchedType
    BY DEF IInv, TypeOK
  <2> QED
    BY <2>1, <1>0 DEF EnqueueRejected, SchedType
<1> HIDE DEF evs
<1>3. /\ rec \in ThreadType /\ rec.cur = th[c].cur /\ rec.request = th[c].request
      /\ rec.touched = th[c].touched /\ rec.events = evs
      /\ rec.pc \in {"deliver", "publish"} /\ rec.next \in {"idle", "publish"}
  <2>1. "publish" \in PcSet
    BY DEF PcSet, CallerPcs
  <2>2. th[c] \in ThreadType
    BY <1>0, ThreadFacts
  <2> QED
    BY <1>1, <2>1, <2>2, DeliverFacts
<1> HIDE DEF rec
<1>4. RecOK(rec, inv)
  BY <1>0, <1>1, <1>3, ThreadFacts DEF RecOK
<1>5. /\ inv' \in [Invocations -> InvocationType]
      /\ \A j \in Invocations :
           /\ inv'[j].home = inv[j].home /\ inv'[j].gen = inv[j].gen
           /\ inv[j].submitted => inv'[j].submitted
           /\ inv'[j].ioPending => inv[j].gen > 0
  <2> DEFINE x == [inv[i] EXCEPT !.submitted = TRUE]
  <2>1. inv \in [Invocations -> InvocationType] /\ inv[i] \in InvocationType
    BY DEF IInv, TypeOK
  <2>2. /\ x \in InvocationType /\ x.home = inv[i].home /\ x.gen = inv[i].gen
        /\ x.submitted /\ x.ioPending = inv[i].ioPending
    BY Zenon, <2>1 DEF InvocationType
  <2>3. inv' = [inv EXCEPT ![i] = x]
    BY <1>2, <2>1
  <2>4. x.ioPending => inv[i].gen > 0
    BY <2>2 DEF IInv, HolderInv
  <2> HIDE DEF x
  <2> QED
    BY Zenon, <2>2, <2>3, <2>4, InvUpdate
<1>6. TypeOK'
  <2>1. n \in Nat
    BY DEF IInv, TypeOK, SchedType
  <2> HIDE DEF n
  <2>2. sched' \in SchedType
    BY Zenon, <1>2, <2>1 DEF IInv, TypeOK, SchedType
  <2>3. th' \in [Threads -> ThreadType]
    BY Zenon, <1>2, <1>3 DEF IInv, TypeOK
  <2> QED
    BY <1>5, <2>2, <2>3 DEF IInv, TypeOK, EnqueueRejected
<1>7. SweepInv'
  BY Zenon, <1>0, <1>2, <1>3, SweepStep DEF IInv, EnqueueRejected
<1> QED
  BY <1>0, <1>2, <1>3, <1>4, <1>5, <1>6, <1>7, QuietStep, ZenonT(40)
     DEF EnqueueRejected, IInv, HolderInv

LEMMA CancelPendingStep ==
    ASSUME IInv, NEW c \in Callers, NEW b \in Invocations, mailboxes[KeyOf[b]] = b,
           NEW n \in 1..Len(box[b].pending), th[c].pc = "idle", CancelPending(c, b, n),
           UNCHANGED <<mailboxes, items, unswept, result, calls>>
    PROVE  IInv'
<1> DEFINE q == box[b].pending
           i == q[n]
           rest == RemoveAt(q, n)
           k == box[b].settled + 1
           m == [box[b] EXCEPT !.pending = rest, !.settled = k]
           evs == <<Event(i, "cancelled")>>
           x == [th[c] EXCEPT !.touched = b]
           rec == Deliver(x, evs, "publish")
<1>0. c \in Threads /\ box[b] \in MailboxType
  BY DEF Threads, IInv, TypeOK
<1>1. q \in Seq(Invocations) /\ i \in Invocations /\ k \in Nat
  BY <1>0 DEF MailboxType
<1>2. rest \in Seq(Invocations) /\ Within(rest, q)
  BY Zenon, <1>1, RemoveAtWithin
<1>3. Settle(b, m, evs, c, rec)
  BY <1>0 DEF CancelPending, MailboxType
<1> HIDE DEF rest, k
<1>4. /\ m \in MailboxType /\ m.pending = rest /\ m.active = box[b].active
      /\ m.generation = box[b].generation /\ m.status = box[b].status
  BY Zenon, <1>0, <1>1, <1>2 DEF MailboxType
<1>5. evs \in Seq(EventType) /\ evs # <<>>
  BY <1>1 DEF Event, EventType, Results
<1>6. x \in ThreadType /\ x.request = th[c].request /\ x.touched = b /\ b # None
  BY Zenon, <1>0, ThreadFacts DEF ThreadType
<1>7. "publish" \in PcSet
  BY DEF PcSet, CallerPcs
<1> HIDE DEF x, evs, m
<1>8. rec \in ThreadType /\ LeavesBox(rec, m)
  BY <1>0, <1>5, <1>6, <1>7, DeliverFacts, ThreadFacts DEF LeavesBox, RecOK
<1>9. BoxMove(box[b], m) /\ MayMove(c, b, m)
  BY <1>2, <1>4 DEF BoxMove, MayMove
<1> HIDE DEF rec
<1> QED
  BY <1>0, <1>3, <1>4, <1>5, <1>8, <1>9, SettleStep

LEMMA CancelActiveStep ==
    ASSUME IInv, NEW c \in Callers, NEW b \in Invocations, box[b].active # None,
           th[c].pc = "idle", CancelActive(c, b),
           UNCHANGED <<mailboxes, items, unswept, result, calls>>
    PROVE  IInv'
<1> DEFINE x == [th[c] EXCEPT !.touched = b]
<1>0. c \in Threads
  BY DEF Threads
<1>1. x \in ThreadType /\ x.request = th[c].request /\ x.touched = b /\ x.cur = th[c].cur
  BY Zenon, <1>0, ThreadFacts DEF ThreadType
<1>2. CASE box[b].status = "Running"
  <2> DEFINE i == box[b].active
             rec == Deliver(x, <<>>, "publish")
  <2>1. /\ inv' = [inv EXCEPT ![i].cancelAfterResume = TRUE]
        /\ th' = [th EXCEPT ![c] = rec]
        /\ box' = box /\ sched' = sched
    BY <1>2 DEF CancelActive
  <2>2. i \in Invocations
    BY DEF IInv, TypeOK, MailboxType
  <2>3. /\ inv' \in [Invocations -> InvocationType]
        /\ \A j \in Invocations :
             /\ inv'[j].home = inv[j].home /\ inv'[j].gen = inv[j].gen
             /\ inv[j].submitted => inv'[j].submitted
             /\ inv'[j].ioPending => inv[j].gen > 0
    <3> DEFINE y == [inv[i] EXCEPT !.cancelAfterResume = TRUE]
    <3>1. inv \in [Invocations -> InvocationType] /\ inv[i] \in InvocationType
      BY <2>2 DEF IInv, TypeOK
    <3>2. /\ y \in InvocationType /\ y.home = inv[i].home /\ y.gen = inv[i].gen
          /\ y.submitted = inv[i].submitted /\ y.ioPending = inv[i].ioPending
      BY Zenon, <3>1 DEF InvocationType
    <3>3. inv' = [inv EXCEPT ![i] = y]
      BY <2>1, <2>2, <3>1
    <3>4. y.ioPending => inv[i].gen > 0
      BY <2>2, <3>2 DEF IInv, HolderInv
    <3> HIDE DEF y, i
    <3> QED
      BY Zenon, <2>2, <3>2, <3>3, <3>4, InvUpdate
  <2> HIDE DEF x
  <2>4. /\ rec \in ThreadType /\ rec.pc = "publish" /\ rec.next = "idle"
        /\ rec.request = x.request
    <3>1. {"idle", "publish"} \subseteq PcSet /\ <<>> \in Seq(EventType)
      BY DEF PcSet, CallerPcs
    <3>2. rec = [x EXCEPT !.events = <<>>, !.next = "idle", !.pc = "publish"]
      BY DEF Deliver
    <3> HIDE DEF rec
    <3> QED
      BY Zenon, <1>1, <3>1, <3>2 DEF ThreadType
  <2> HIDE DEF rec
  <2>5. RecOK(rec, inv)
    BY <1>0, <1>1, <2>4, ThreadFacts DEF RecOK
  <2>6. TypeOK'
    BY Zenon, <2>1, <2>3, <2>4 DEF IInv, TypeOK
  <2>7. SweepInv'
    BY Zenon, <1>0, <2>1, <2>4, SweepStep DEF IInv
  <2> QED
    BY Zenon, <1>0, <2>1, <2>3, <2>4, <2>5, <2>6, <2>7, QuietStep DEF IInv, HolderInv
<1>3. CASE box[b].status # "Running"
  <2>1. SettleActive(b, "cancelled", c, x, "publish")
    BY <1>3 DEF CancelActive
  <2> HIDE DEF x
  <2>2. "cancelled" \in Results
    BY DEF Results
  <2> QED
    BY <1>0, <1>1, <1>3, <2>1, <2>2, SettleActiveStep
<1> QED
  BY <1>2, <1>3

LEMMA CancelStep ==
    ASSUME IInv, NEW c \in Callers, NEW k \in Keys, NEW msg \in Messages, Cancel(c, k, msg)
    PROVE  IInv'
<1> DEFINE b == mailboxes[k]
           q == box[b].pending
           matches == {n \in 1..Len(q) : MessageOf[q[n]] = msg}
<1>1. b \in Invocations /\ KeyOf[b] = k
  BY DEF Cancel, IInv, TypeOK, Structure, MapInv
<1>2. CASE matches # {} /\ CancelPending(c, b, Min(matches))
  <2>1. q \in Seq(Invocations)
    BY <1>1 DEF IInv, TypeOK, MailboxType
  <2>2. matches \subseteq Nat /\ matches \subseteq 1..Len(q)
    BY <2>1
  <2>3. Min(matches) \in matches
    BY Zenon, <1>2, <2>2, MinMember
  <2>4. Min(matches) \in 1..Len(q)
    BY <2>2, <2>3
  <2> HIDE DEF matches
  <2> QED
    BY <1>1, <1>2, <2>4, CancelPendingStep DEF Cancel
<1>3. CASE box[b].active # None /\ CancelActive(c, b)
  BY <1>1, <1>3, CancelActiveStep DEF Cancel
<1> QED
  BY <1>2, <1>3 DEF Cancel

\* A worker that keeps executing keeps its invocation.
KeepsCur(t, rec) ==
    rec.pc \in {"start", "resume", "post"} /\ t \in Workers
    => Executing(t) /\ rec.cur = th[t].cur

\* A step of thread t, outside a sweep, that leaves mailboxes and invocations alone.
LEMMA ThreadOnlyStep ==
    ASSUME IInv, sched' \in SchedType, items' \in [Invocations -> Nat],
           NEW t \in Threads, NEW rec \in ThreadType, th' = [th EXCEPT ![t] = rec],
           UNCHANGED <<mailboxes, box, inv, unswept, result, calls>>,
           \A i \in Invocations : items'[i] > 0 => items[i] > 0 \/ inv[i].gen > 0,
           th[t].pc # "sweep", RecOK(rec, inv), KeepsCur(t, rec)
    PROVE  IInv'
<1>1. TypeOK'
  BY DEF IInv, TypeOK
<1>2. SweepInv'
  BY Zenon, SweepStep DEF IInv
<1>3. \A i \in Invocations : items'[i] > 0 \/ inv'[i].ioPending => inv[i].gen > 0
  BY DEF IInv, HolderInv
<1> QED
  BY Zenon, <1>1, <1>2, <1>3, QuietStep DEF KeepsCur

\* A step of thread t that also updates one invocation object.
LEMMA ThreadInvStep ==
    ASSUME IInv, NEW t \in Threads, NEW rec \in ThreadType, th' = [th EXCEPT ![t] = rec],
           NEW i \in Invocations, NEW x \in InvocationType,
           x.home = inv[i].home, x.gen = inv[i].gen, x.submitted = inv[i].submitted,
           x.ioPending => inv[i].gen > 0,
           inv' = [inv EXCEPT ![i] = x],
           UNCHANGED <<sched, mailboxes, box, items, unswept>>,
           result' \in [Invocations -> Results \cup {None}],
           calls' \in [Invocations -> Nat],
           th[t].pc # "sweep", RecOK(rec, inv), KeepsCur(t, rec)
    PROVE  IInv'
<1>1. /\ inv' \in [Invocations -> InvocationType]
      /\ \A j \in Invocations :
           /\ inv'[j].home = inv[j].home /\ inv'[j].gen = inv[j].gen
           /\ inv[j].submitted => inv'[j].submitted
           /\ inv'[j].ioPending => inv[j].gen > 0
  BY Zenon, InvUpdate
<1>2. TypeOK'
  BY <1>1 DEF IInv, TypeOK
<1>3. SweepInv'
  BY Zenon, SweepStep DEF IInv
<1>4. \A j \in Invocations : items'[j] > 0 \/ inv'[j].ioPending => inv[j].gen > 0
  BY <1>1 DEF IInv, HolderInv
<1> QED
  BY Zenon, <1>1, <1>2, <1>3, <1>4, QuietStep DEF KeepsCur

LEMMA InvokeCompletionStep ==
    ASSUME IInv, NEW t \in Threads, InvokeCompletion(t)
    PROVE  IInv'
<1> DEFINE r == th[t]
           e == Head(r.events)
           i == e.inv
           rec == Deliver(r, Tail(r.events), r.next)
           x == [inv[i] EXCEPT !.settledAt = 0]
<1>1. r \in ThreadType /\ RecOK(r, inv) /\ r.pc = "deliver"
  BY ThreadFacts DEF InvokeCompletion
<1>2. r.events \in Seq(EventType) /\ r.events # <<>> /\ r.next \in PcSet
  BY <1>1 DEF ThreadType, RecOK
<1>3. Tail(r.events) \in Seq(EventType) /\ i \in Invocations /\ e.result \in Results
  <2>1. e \in EventType
    BY <1>2
  <2> QED
    BY <1>2, <2>1 DEF EventType
<1>4. /\ th' = [th EXCEPT ![t] = rec]
      /\ inv' = [inv EXCEPT ![i] = x]
      /\ result' = [result EXCEPT ![i] = e.result]
      /\ calls' = [calls EXCEPT ![i] = @ + 1]
      /\ UNCHANGED <<sched, mailboxes, box, items, unswept>>
  <2>1. th \in [Threads -> ThreadType] /\ inv \in [Invocations -> InvocationType]
    BY DEF IInv, TypeOK
  <2> QED
    BY <1>3, <2>1 DEF InvokeCompletion
<1>5. /\ result' \in [Invocations -> Results \cup {None}]
      /\ calls' \in [Invocations -> Nat]
  BY <1>3, <1>4, SMTT(30) DEF IInv, TypeOK
<1>6. /\ x \in InvocationType /\ x.home = inv[i].home /\ x.gen = inv[i].gen
      /\ x.submitted = inv[i].submitted /\ x.ioPending = inv[i].ioPending
  <2>1. inv[i] \in InvocationType
    BY <1>3 DEF IInv, TypeOK
  <2> QED
    BY <2>1 DEF InvocationType
<1>7. x.ioPending => inv[i].gen > 0
  BY Zenon, <1>3, <1>6 DEF IInv, HolderInv
<1> HIDE DEF i, x, e
<1>8. /\ rec \in ThreadType
      /\ rec.cur = r.cur /\ rec.request = r.request /\ rec.touched = r.touched
      /\ \/ rec.pc = "deliver" /\ Tail(r.events) # <<>> /\ rec.next = r.next
         \/ rec.pc = r.next /\ rec.next = "idle"
      /\ rec.events = Tail(r.events)
  <2> DEFINE tl == Tail(r.events)
             nx == r.next
             d == Deliver(r, tl, nx)
  <2>1. r \in ThreadType /\ tl \in Seq(EventType) /\ nx \in PcSet
    BY <1>1, <1>2, <1>3
  <2> HIDE DEF r, tl, nx
  <2>2. /\ d \in ThreadType
        /\ d.cur = r.cur /\ d.request = r.request /\ d.touched = r.touched
        /\ \/ d.pc = "deliver" /\ tl # <<>> /\ d.next = nx
           \/ d.pc = nx /\ d.next = "idle"
        /\ d.events = tl
    BY <2>1, DeliverFacts
  <2> QED
    BY <2>2 DEF tl, nx
<1> HIDE DEF rec
<1>9. RecOK(rec, inv) /\ KeepsCur(t, rec)
  BY <1>1, <1>8 DEF RecOK, KeepsCur
<1> QED
  BY Zenon, <1>1, <1>3, <1>4, <1>5, <1>6, <1>7, <1>8, <1>9, ThreadInvStep

LEMMA LocalHandoffStep ==
    ASSUME IInv, NEW w \in Workers, LocalHandoff(w)
    PROVE  IInv'
<1> DEFINE h == th[w].handoffs + 1
           i == th[w].request
           rec == [IdleThread EXCEPT !.pc = "begin", !.cur = i, !.handoffs = h]
<1>1. w \in Threads
  BY DEF Threads
<1>2. /\ w \in Threads /\ i \in Invocations /\ inv[i].gen > 0 /\ h \in Nat
      /\ th[w].pc # "sweep" /\ th' = [th EXCEPT ![w] = rec]
  BY <1>1, ThreadFacts, SMTT(30) DEF LocalHandoff, CanHandOff, ThreadType, RecOK
<1> HIDE DEF h, i
<1>3. rec \in ThreadType /\ RecOK(rec, inv) /\ KeepsCur(w, rec)
  <2>1. "begin" \in PcSet /\ IdleThread \in ThreadType
    BY <1>2, ThreadFacts DEF PcSet, WorkerPcs
  <2>2. /\ IdleThread.request = None /\ IdleThread.next = "idle"
    BY DEF IdleThread
  <2>3. /\ rec \in ThreadType /\ rec.pc = "begin" /\ rec.cur = i
        /\ rec.request = None /\ rec.next = "idle"
    BY Zenon, <1>2, <2>1, <2>2 DEF ThreadType
  <2> HIDE DEF rec
  <2> QED
    BY <1>2, <2>3 DEF RecOK, KeepsCur
<1> HIDE DEF rec
<1>4. sched' \in SchedType /\ items' \in [Invocations -> Nat]
  BY DEF IInv, TypeOK, LocalHandoff
<1> QED
  BY Zenon, <1>1, <1>2, <1>3, <1>4, ThreadOnlyStep DEF LocalHandoff

LEMMA TakeWorkStep ==
    ASSUME IInv, NEW w \in Workers, TakeWork(w)
    PROVE  IInv'
<1>1. PICK i \in Invocations :
        /\ items[i] > 0
        /\ items' = [items EXCEPT ![i] = @ - 1]
        /\ th' = [th EXCEPT ![w] = [IdleThread EXCEPT !.pc = "begin", !.cur = i]]
  BY Zenon DEF TakeWork
<1> DEFINE rec == [IdleThread EXCEPT !.pc = "begin", !.cur = i]
<1>2. inv[i].gen > 0 /\ w \in Threads
  BY <1>1 DEF IInv, HolderInv, Threads
<1>3. rec \in ThreadType /\ RecOK(rec, inv) /\ KeepsCur(w, rec)
  <2>1. "begin" \in PcSet /\ IdleThread \in ThreadType
    BY <1>2, ThreadFacts DEF PcSet, WorkerPcs
  <2>2. /\ IdleThread.request = None /\ IdleThread.next = "idle"
    BY DEF IdleThread
  <2>3. /\ rec \in ThreadType /\ rec.pc = "begin" /\ rec.cur = i
        /\ rec.request = None /\ rec.next = "idle"
    BY Zenon, <1>2, <2>1, <2>2 DEF ThreadType
  <2> HIDE DEF rec
  <2> QED
    BY <1>2, <2>3 DEF RecOK, KeepsCur
<1>4. th' = [th EXCEPT ![w] = rec] /\ th[w].pc # "sweep"
  BY Zenon, <1>1 DEF TakeWork
<1> HIDE DEF rec
<1>5. /\ sched' \in SchedType /\ items' \in [Invocations -> Nat]
      /\ \A j \in Invocations : items'[j] > 0 => items[j] > 0
  BY <1>1 DEF IInv, TypeOK, TakeWork
<1> QED
  BY Zenon, <1>2, <1>3, <1>4, <1>5, ThreadOnlyStep DEF TakeWork

LEMMA AttachTaskStep ==
    ASSUME IInv, NEW w \in Workers, AttachTask(w)
    PROVE  IInv'
<1> DEFINE i == th[w].cur
           r == th[w]
<1>1. /\ w \in Threads /\ r \in ThreadType /\ RecOK(r, inv) /\ RecOK(IdleThread, inv)
      /\ IdleThread \in ThreadType
      /\ r.pc = "start" /\ i \in Invocations /\ inv[i].gen > 0
  <2>1. w \in Threads
    BY DEF Threads
  <2> QED
    BY <2>1, ThreadFacts DEF AttachTask, RecOK
<1>2. CASE IsCurrent(i)
  <2> DEFINE rec == [r EXCEPT !.pc = "resume"]
             x == [inv[i] EXCEPT !.task = "created"]
  <2>1. /\ inv' = [inv EXCEPT ![i] = x] /\ th' = [th EXCEPT ![w] = rec]
    BY <1>1, <1>2 DEF IInv, TypeOK, AttachTask
  <2>2. rec \in ThreadType /\ RecOK(rec, inv) /\ KeepsCur(w, rec)
    <3>1. Executing(w)
      BY <1>1 DEF Executing
    <3>2. rec \in ThreadType /\ rec.pc = "resume" /\ rec.cur = r.cur /\ rec.request = r.request
          /\ rec.touched = r.touched /\ rec.next = r.next
      BY Zenon, <1>1 DEF ThreadType, PcSet, WorkerPcs
    <3> HIDE DEF rec
    <3> QED
      BY <1>1, <3>1, <3>2 DEF RecOK, KeepsCur
  <2>3. /\ x \in InvocationType /\ x.home = inv[i].home /\ x.gen = inv[i].gen
        /\ x.submitted = inv[i].submitted
    BY <1>1 DEF IInv, TypeOK, InvocationType, TaskStates
  <2>4. /\ result' \in [Invocations -> Results \cup {None}]
        /\ calls' \in [Invocations -> Nat]
    BY DEF IInv, TypeOK, AttachTask
  <2> HIDE DEF rec, x, i
  <2> QED
    BY Zenon, <1>1, <2>1, <2>2, <2>3, <2>4, ThreadInvStep DEF AttachTask
<1>3. CASE ~IsCurrent(i)
  <2>1. th' = [th EXCEPT ![w] = IdleThread] /\ inv' = inv
    BY <1>3 DEF AttachTask
  <2>2. KeepsCur(w, IdleThread)
    BY DEF KeepsCur, IdleThread
  <2>3. sched' \in SchedType /\ items' \in [Invocations -> Nat]
    BY DEF IInv, TypeOK, AttachTask
  <2> QED
    BY Zenon, <1>1, <2>1, <2>2, <2>3, ThreadOnlyStep DEF AttachTask
<1> QED
  BY <1>2, <1>3

LEMMA ResumeStep ==
    ASSUME IInv, NEW w \in Workers, NEW s \in ResumeOutcomes, Resume(w, s)
    PROVE  IInv'
<1> DEFINE i == th[w].cur
           r == th[w]
           rec == [r EXCEPT !.pc = "post"]
           n == IF s \in {"yielded", "awaiting"} THEN inv[i].suspensions + 1
                                                 ELSE inv[i].suspensions
           e == IF s = "awaiting" THEN inv[i].epoch + 1 ELSE inv[i].epoch
           io == s = "awaiting"
           x == Resumed(inv[i], s)
<1>1. /\ w \in Threads /\ r \in ThreadType /\ RecOK(r, inv)
      /\ r.pc = "resume" /\ i \in Invocations /\ inv[i].gen > 0
  <2>1. w \in Threads
    BY DEF Threads
  <2> QED
    BY <2>1, ThreadFacts DEF Resume, RecOK
<1>2. inv[i] \in InvocationType /\ inv \in [Invocations -> InvocationType]
      /\ th \in [Threads -> ThreadType]
  BY <1>1 DEF IInv, TypeOK
<1>3. n \in Nat /\ e \in Nat /\ io \in BOOLEAN /\ s \in TaskStates
  BY <1>2 DEF InvocationType, ResumeOutcomes, TaskStates
<1>4. /\ inv' = [inv EXCEPT ![i] = x] /\ th' = [th EXCEPT ![w] = rec]
      /\ UNCHANGED <<sched, mailboxes, box, items, unswept, result, calls>>
  <2>1. th' = [th EXCEPT ![w] = rec]
    BY <1>1, <1>2 DEF Resume
  <2>2. inv' = [inv EXCEPT ![i] = x]
    BY <1>1, <1>2 DEF Resume
  <2> QED
    BY <2>1, <2>2 DEF Resume
<1>5. rec \in ThreadType /\ RecOK(rec, inv) /\ KeepsCur(w, rec)
  <2>1. Executing(w)
    BY <1>1 DEF Executing
  <2>2. rec \in ThreadType /\ rec.pc = "post" /\ rec.cur = r.cur /\ rec.request = r.request
        /\ rec.touched = r.touched /\ rec.next = r.next
    BY Zenon, <1>1 DEF ThreadType, PcSet, WorkerPcs
  <2> HIDE DEF rec
  <2> QED
    BY <1>1, <2>1, <2>2 DEF RecOK, KeepsCur
<1>6. /\ x \in InvocationType /\ x.home = inv[i].home /\ x.gen = inv[i].gen
      /\ x.submitted = inv[i].submitted
  <2> DEFINE y == inv[i]
  <2>1. x = [y EXCEPT !.task = s, !.suspensions = n, !.epoch = e, !.ioPending = io]
    BY Zenon DEF Resumed
  <2>2. y \in InvocationType
    BY <1>2
  <2> HIDE DEF n, e, io, x, y
  <2>3. /\ x \in InvocationType /\ x.home = y.home /\ x.gen = y.gen
        /\ x.submitted = y.submitted
    BY Zenon, <1>3, <2>1, <2>2 DEF InvocationType
  <2> QED
    BY <2>3 DEF y
<1>7. /\ result' \in [Invocations -> Results \cup {None}]
      /\ calls' \in [Invocations -> Nat]
  BY <1>4 DEF IInv, TypeOK
<1>8. th[w].pc # "sweep"
  BY <1>1
<1> HIDE DEF rec, x, i, r
<1> QED
  BY Zenon, <1>1, <1>4, <1>5, <1>6, <1>7, <1>8, ThreadInvStep

\* A thread that goes idle.
LEMMA GoesIdleStep ==
    ASSUME IInv, NEW t \in Threads, th[t].pc # "sweep",
           th' = [th EXCEPT ![t] = IdleThread],
           UNCHANGED <<sched, mailboxes, box, inv, items, unswept, result, calls>>
    PROVE  IInv'
<1>1. IdleThread \in ThreadType /\ RecOK(IdleThread, inv)
  BY ThreadFacts
<1>2. KeepsCur(t, IdleThread)
  BY DEF KeepsCur, IdleThread
<1>3. sched' \in SchedType /\ items' \in [Invocations -> Nat]
  BY DEF IInv, TypeOK
<1> QED
  BY Zenon, <1>1, <1>2, <1>3, ThreadOnlyStep

LEMMA PublishRequestStep ==
    ASSUME IInv, NEW t \in Threads, PublishRequest(t)
    PROVE  IInv'
<1> DEFINE r == th[t].request
           b == inv[r].home
<1>1. /\ r \in Invocations /\ inv[r].gen > 0 /\ th[t].pc # "sweep"
      /\ th[t] \in ThreadType /\ RecOK(th[t], inv)
      /\ IdleThread \in ThreadType /\ RecOK(IdleThread, inv)
      /\ UNCHANGED <<mailboxes, unswept, result, calls>>
  BY ThreadFacts DEF PublishRequest, AtPublish, RecOK
<1> DEFINE rec0 == [th[t] EXCEPT !.request = None, !.pc = "publish"]
<1>2. /\ rec0 \in ThreadType /\ rec0.request = None /\ rec0.pc = "publish"
      /\ rec0.next = th[t].next /\ rec0.touched = th[t].touched
  BY Zenon, <1>1 DEF ThreadType, PcSet, CallerPcs
<1>3. RecOK(rec0, inv) /\ KeepsCur(t, rec0) /\ KeepsCur(t, IdleThread)
  BY <1>1, <1>2 DEF RecOK, KeepsCur, IdleThread
<1> DEFINE pushed == [items EXCEPT ![r] = @ + 1]
           late == sched.late \cup {r}
           rec1 == IF th[t].touched = None THEN IdleThread ELSE rec0
<1>4. CASE /\ items' = pushed /\ th' = [th EXCEPT ![t] = rec1]
           /\ sched' = (IF ExecutorAccepts(t) THEN sched ELSE [sched EXCEPT !.late = late])
           /\ UNCHANGED <<box, inv>>
  <2> DEFINE rec == rec1
  <2>1. /\ items' = pushed /\ th' = [th EXCEPT ![t] = rec] /\ UNCHANGED <<box, inv>>
    BY <1>4
  <2>2. /\ items' \in [Invocations -> Nat]
        /\ \A i \in Invocations : items'[i] > 0 => items[i] > 0 \/ inv[i].gen > 0
    BY <1>1, <2>1 DEF IInv, TypeOK
  <2>4. sched' \in SchedType
    <3>1. sched \in SchedType /\ late \in SUBSET Invocations
      BY <1>1 DEF IInv, TypeOK, SchedType
    <3> HIDE DEF late
    <3> QED
      BY <1>4, <3>1 DEF SchedType
  <2> HIDE DEF rec0
  <2>3. rec \in ThreadType /\ RecOK(rec, inv) /\ KeepsCur(t, rec)
    BY <1>1, <1>2, <1>3
  <2> HIDE DEF rec
  <2> QED
    BY Zenon, <1>1, <2>1, <2>2, <2>3, <2>4, ThreadOnlyStep
<1> DEFINE fails == /\ ~ExecutorAccepts(t) /\ UNCHANGED items
                    /\ LET rec == [th[t] EXCEPT !.request = None, !.touched = b,
                                                !.pc = "publish"]
                       IN  IF IsCurrent(r) /\ box[b].status = "Runnable"
                           THEN LET m   == CompleteActive(inv, box[b])
                                    evs == <<Event(box[b].active, "stopped")>>
                                           \o UnregisteredEvents(inv, box[b].pending)
                                IN  Settle(b, m, evs, t, Deliver(rec, evs, "publish"))
                           ELSE /\ th' = [th EXCEPT ![t] = rec]
                                /\ UNCHANGED <<sched, box, inv>>
<1>5. CASE fails
  <2> DEFINE rec == [th[t] EXCEPT !.request = None, !.touched = b, !.pc = "publish"]
  <2>1. b \in Invocations \cup {None}
    BY <1>1 DEF IInv, TypeOK, InvocationType
  <2>2. /\ rec \in ThreadType /\ rec.request = None /\ rec.pc = "publish"
        /\ rec.next = th[t].next /\ rec.touched = b
    BY Zenon, <1>1, <2>1 DEF ThreadType, PcSet, CallerPcs
  <2>3. b # None
    BY <1>1 DEF IInv, Structure, HomeInv, TypeOK, InvocationType
  <2>4. CASE IsCurrent(r) /\ box[b].status = "Runnable"
    <3> DEFINE m   == CompleteActive(inv, box[b])
               evs == <<Event(box[b].active, "stopped")>>
                      \o UnregisteredEvents(inv, box[b].pending)
               d   == Deliver(rec, evs, "publish")
    <3>1. b \in Invocations /\ box[b].active = r /\ mailboxes[KeyOf[b]] = b
      BY <1>1, <2>4, CurrentIsActive
    <3>2. Settle(b, m, evs, t, d) /\ UNCHANGED items
      BY Zenon, <1>5, <2>4
    <3>3. TypeOK /\ box[b] \in MailboxType /\ "stopped" \in Results /\ box[b].active # None
      BY <1>1, <3>1 DEF IInv, TypeOK, Results
    <3>4. m \in MailboxType /\ BoxMove(box[b], m)
      BY <3>3, CompleteActiveFacts
    <3>5. evs \in Seq(EventType) /\ evs # <<>>
      BY <3>1, <3>3, CompletionEvents
    <3> HIDE DEF m, evs, rec
    <3>6. "publish" \in PcSet
      BY DEF PcSet, CallerPcs
    <3>7. d \in ThreadType /\ LeavesBox(d, m)
      BY <2>2, <2>3, <3>5, <3>6, DeliverFacts DEF LeavesBox
    <3>8. MayMove(t, b, m)
      BY <2>4 DEF MayMove
    <3> HIDE DEF d, b
    <3> QED
      BY <1>1, <3>1, <3>2, <3>4, <3>5, <3>7, <3>8, SettleStep
  <2>5. CASE ~(IsCurrent(r) /\ box[b].status = "Runnable")
    <3>1. th' = [th EXCEPT ![t] = rec] /\ UNCHANGED <<sched, box, inv, items>>
      BY <1>5, <2>5
    <3> HIDE DEF rec
    <3>2. RecOK(rec, inv) /\ KeepsCur(t, rec)
      BY <1>1, <2>2, <2>3 DEF RecOK, KeepsCur
    <3>3. sched' \in SchedType /\ items' \in [Invocations -> Nat]
      BY <3>1 DEF IInv, TypeOK
    <3> QED
      BY Zenon, <1>1, <2>2, <3>1, <3>2, <3>3, ThreadOnlyStep
  <2> QED
    BY <2>4, <2>5
<1>6. \/ /\ items' = pushed /\ th' = [th EXCEPT ![t] = rec1]
         /\ sched' = (IF ExecutorAccepts(t) THEN sched ELSE [sched EXCEPT !.late = late])
         /\ UNCHANGED <<box, inv>>
      \/ fails
  BY DEF PublishRequest, IInv, TypeOK, SchedType
<1> QED
  BY <1>4, <1>5, <1>6

LEMMA BeginStep ==
    ASSUME IInv, NEW w \in Workers, Begin(w)
    PROVE  IInv'
<1> DEFINE i == th[w].cur
           b == inv[i].home
           r == th[w]
<1>1. /\ w \in Threads /\ i \in Invocations /\ inv[i].gen > 0 /\ r.pc = "begin"
      /\ r \in ThreadType /\ RecOK(r, inv)
      /\ UNCHANGED <<sched, mailboxes, inv, items, unswept, result, calls>>
  <2>1. w \in Threads
    BY DEF Threads
  <2> QED
    BY <2>1, ThreadFacts DEF Begin, RecOK
<1>2. CASE ~(IsCurrent(i) /\ box[b].status = "Runnable")
  <2>1. th' = [th EXCEPT ![w] = IdleThread] /\ box' = box
    BY <1>2 DEF Begin
  <2> QED
    BY Zenon, <1>1, <2>1, GoesIdleStep
<1>3. CASE IsCurrent(i) /\ box[b].status = "Runnable"
  <2> DEFINE m == [box[b] EXCEPT !.status = "Running"]
             pc == IF inv[i].task = "invalid" THEN "start" ELSE "resume"
             rec == [r EXCEPT !.touched = b, !.pc = pc]
  <2>1. b \in Invocations /\ box[b].active = i /\ mailboxes[KeyOf[b]] = b
    BY <1>1, <1>3, CurrentIsActive
  <2>2. box' = [box EXCEPT ![b] = m] /\ th' = [th EXCEPT ![w] = rec]
    <3>1. box \in [Invocations -> MailboxType] /\ th \in [Threads -> ThreadType]
      BY DEF IInv, TypeOK
    <3>2. box' = [box EXCEPT ![b] = m]
      BY <1>3, <2>1, <3>1 DEF Begin
    <3>3. th' = [th EXCEPT ![w] = rec]
      BY <1>1, <1>3, <3>1 DEF Begin
    <3> QED
      BY <3>2, <3>3
  <2>3. /\ m \in MailboxType /\ m.active = i /\ m.status = "Running"
        /\ m.pending = box[b].pending /\ m.generation = box[b].generation
    <3>1. box[b] \in MailboxType /\ "Running" \in Statuses
      BY <2>1 DEF IInv, TypeOK, Statuses
    <3> QED
      BY Zenon, <2>1, <3>1 DEF MailboxType
  <2>4. pc \in {"start", "resume"} /\ pc \in PcSet /\ b # None
    BY <2>1 DEF PcSet, WorkerPcs
  <2> HIDE DEF pc, m
  <2>5. /\ rec \in ThreadType /\ rec.pc = pc /\ rec.cur = i /\ rec.touched = b
        /\ rec.request = r.request /\ rec.next = r.next
    BY Zenon, <1>1, <2>1, <2>4 DEF ThreadType
  <2> HIDE DEF rec
  <2>6. TypeOK'
    <3>1. box' \in [Invocations -> MailboxType] /\ th' \in [Threads -> ThreadType]
      BY Zenon, <2>2, <2>3, <2>5 DEF IInv, TypeOK
    <3> QED
      BY <1>1, <3>1 DEF IInv, TypeOK
  <2>7. Structure(mailboxes, box, inv)'
    <3>1. box \in [Invocations -> MailboxType] /\ inv \in [Invocations -> InvocationType]
      BY DEF IInv, TypeOK
    <3>2. InvStep(inv, inv, m)
      BY <1>1, <2>3, <3>1 DEF InvStep, InvocationType
    <3>3. BoxMove(box[b], m)
      BY Zenon, <2>1, <2>3 DEF BoxMove, Within
    <3>4. Structure(mailboxes, [box EXCEPT ![b] = m], inv)
      BY Zenon, <2>1, <2>3, <3>1, <3>2, <3>3, BoxStep DEF IInv
    <3> QED
      BY <1>1, <2>2, <3>4
  <2>8. SweepInv'
    BY Zenon, <1>1, <2>2, <2>5, SweepStep DEF IInv
  <2>9. HolderInv'
    <3>1. RecOK(rec, inv)
      BY <1>1, <2>4, <2>5 DEF RecOK
    <3>2. \A u \in Threads : RecOK(th'[u], inv')
      BY Zenon, <1>1, <2>2, <2>5, <3>1, ThreadStep DEF IInv, GenKept
    <3> QED
      BY <1>1, <3>2 DEF IInv, HolderInv
  <2>10. ASSUME NEW u \in Workers, u # w, Executing(u)'
         PROVE  /\ Executing(u) /\ th'[u] = th[u] /\ th[u].cur \in Invocations
                /\ inv[th[u].cur].home \in Invocations
                /\ inv[th[u].cur].home # b
                /\ box[inv[th[u].cur].home].active = th[u].cur
                /\ box[inv[th[u].cur].home].status = "Running"
    <3>1. th'[u] = th[u] /\ Executing(u)
      BY <2>2, <2>10 DEF IInv, TypeOK, Threads, Executing
    <3>2. th[u].cur \in Invocations
      BY Zenon, <3>1 DEF IInv, TypeOK, ThreadType, HolderInv, RecOK, Executing, Threads
    <3>3. /\ inv[th[u].cur].home # None
          /\ box[inv[th[u].cur].home].active = th[u].cur
          /\ box[inv[th[u].cur].home].status = "Running"
      BY <3>1 DEF IInv, WorkerOwnsMailbox
    <3>4. inv[th[u].cur].home \in Invocations
      BY <3>2, <3>3 DEF IInv, TypeOK, InvocationType
    <3> QED
      BY <1>3, <3>1, <3>2, <3>3, <3>4
  <2>11. th'[w].cur = i /\ box'[b] = m /\ \A c \in Invocations : c # b => box'[c] = box[c]
    BY <1>1, <2>1, <2>2, <2>5 DEF IInv, TypeOK
  <2>12. WorkerOwnsMailbox'
    <3> SUFFICES ASSUME NEW u \in Workers, Executing(u)'
                 PROVE  LET j == th'[u].cur IN
                        /\ inv'[j].home # None
                        /\ box'[inv'[j].home].active = j
                        /\ box'[inv'[j].home].status = "Running"
      BY DEF WorkerOwnsMailbox
    <3>1. CASE u = w
      BY <1>1, <2>1, <2>3, <2>11, <3>1
    <3>2. CASE u # w
      BY <1>1, <2>10, <2>11, <3>2
    <3> QED
      BY <3>1, <3>2
  <2>13. DistinctCur'
    <3>1. \A u \in Workers : u # w /\ Executing(u)' => th'[u].cur # i
      BY <2>10
    <3> QED
      BY <2>10, <2>11, <3>1 DEF IInv, DistinctCur
  <2> QED
    BY <2>6, <2>7, <2>8, <2>9, <2>12, <2>13 DEF IInv
<1> QED
  BY <1>2, <1>3

LEMMA StartErrorStep ==
    ASSUME IInv, NEW w \in Workers, StartError(w)
    PROVE  IInv'
<1> DEFINE i == th[w].cur
           b == inv[i].home
           r == th[w]
<1>1. /\ w \in Threads /\ i \in Invocations /\ inv[i].gen > 0 /\ r.pc = "start"
      /\ r \in ThreadType /\ RecOK(r, inv) /\ Executing(w)
      /\ UNCHANGED <<mailboxes, items, unswept, result, calls>>
  <2>1. w \in Threads
    BY DEF Threads
  <2> QED
    BY <2>1, ThreadFacts DEF StartError, RecOK, Executing
<1>2. CASE IsCurrent(i)
  <2>1. b \in Invocations /\ box[b].active # None
    BY <1>1, <1>2, CurrentIsActive
  <2>2. SettleActive(b, "failed", w, r, "publish") /\ "failed" \in Results
    BY <1>2 DEF StartError, Results
  <2>3. th[w].pc # "sweep" /\ inv[th[w].cur].home = b
    BY <1>1
  <2> HIDE DEF b, r
  <2> QED
    BY <1>1, <2>1, <2>2, <2>3, SettleActiveStep
<1>3. CASE ~IsCurrent(i)
  <2> DEFINE rec == [r EXCEPT !.pc = "publish", !.cur = None]
  <2>1. th' = [th EXCEPT ![w] = rec] /\ UNCHANGED <<sched, box, inv>>
    BY <1>1, <1>3 DEF StartError, IInv, TypeOK
  <2>2. /\ rec \in ThreadType /\ rec.pc = "publish" /\ rec.request = r.request
        /\ rec.next = r.next /\ rec.touched = r.touched
    BY Zenon, <1>1 DEF ThreadType, PcSet, CallerPcs
  <2> HIDE DEF rec
  <2>3. RecOK(rec, inv) /\ KeepsCur(w, rec)
    BY <1>1, <2>2 DEF RecOK, KeepsCur
  <2>4. sched' \in SchedType /\ items' \in [Invocations -> Nat]
    BY <1>1, <2>1 DEF IInv, TypeOK
  <2> QED
    BY Zenon, <1>1, <2>1, <2>2, <2>3, <2>4, ThreadOnlyStep
<1> QED
  BY <1>2, <1>3

\* The worker settles the invocation it ran, and may claim the idle mailbox.
LEMMA FinishActiveStep ==
    ASSUME IInv, NEW w \in Workers, th[w].pc = "post",
           NEW b \in Invocations, b = inv[th[w].cur].home, box[b].active # None,
           NEW r \in Results, FinishActive(w, b, r),
           UNCHANGED <<mailboxes, items, unswept, result, calls>>
    PROVE  IInv'
<1> DEFINE m    == CompleteActive(inv, box[b])
           owns == ClaimsIdleMailbox(m)
           cl   == IF owns THEN TRUE ELSE m.claimed
           m2   == [m EXCEPT !.claimed = cl]
           evs  == <<Event(box[b].active, r)>>
                   \o UnregisteredEvents(inv, box[b].pending)
           rec  == [th[w] EXCEPT !.request = m.active, !.cur = None]
           then == IF owns THEN "claim" ELSE "dispatch"
           d    == Deliver(rec, evs, then)
<1>1. TypeOK /\ box[b] \in MailboxType /\ w \in Threads
  BY DEF IInv, TypeOK, Threads
<1>2. m \in MailboxType /\ BoxMove(box[b], m)
  BY <1>1, CompleteActiveFacts
<1>3. evs \in Seq(EventType) /\ evs # <<>>
  BY <1>1, CompletionEvents
<1>4. Settle(b, m2, evs, w, d)
  BY Zenon, <1>2 DEF FinishActive
<1>5. mailboxes[KeyOf[b]] = b
  BY DEF IInv, Structure, MapInv
<1>6. /\ th[w] \in ThreadType /\ th[w].touched # None
  BY <1>1, ThreadFacts DEF RecOK
<1> HIDE DEF m, evs
<1>7. then \in PcSet /\ then \in {"claim", "dispatch"} /\ cl \in BOOLEAN
  BY Zenon, <1>2 DEF PcSet, WorkerPcs, MailboxType
<1> HIDE DEF then, cl, owns
<1>8. m2 \in MailboxType /\ m2.active = m.active /\ BoxMove(box[b], m2)
  BY Zenon, <1>2, <1>7 DEF MailboxType, BoxMove
<1>9. rec \in ThreadType /\ rec.request = m.active /\ rec.touched = th[w].touched
  BY Zenon, <1>2, <1>6 DEF ThreadType, MailboxType
<1> HIDE DEF rec
<1>10. d \in ThreadType /\ LeavesBox(d, m2)
  BY <1>3, <1>6, <1>7, <1>8, <1>9, DeliverFacts DEF LeavesBox
<1> HIDE DEF d, m2
<1>11. MayMove(w, b, m2) /\ th[w].pc # "sweep"
  BY DEF MayMove, Executing
<1> QED
  BY Zenon, <1>1, <1>3, <1>4, <1>5, <1>8, <1>10, <1>11, SettleStep

\* The worker leaves its suspended invocation in the mailbox.
LEMMA KeepActiveStep ==
    ASSUME IInv, NEW w \in Workers, th[w].pc = "post",
           NEW i \in Invocations, i = th[w].cur,
           NEW b \in Invocations, b = inv[i].home, box[b].active = i,
           KeepActive(w, b, i),
           UNCHANGED <<mailboxes, items, unswept, result, calls>>
    PROVE  IInv'
<1> DEFINE again == inv[i].task = "yielded" \/ ReadyNow(i)
           st  == IF again THEN "Runnable" ELSE "Suspended"
           m   == [box[b] EXCEPT !.status = st]
           req == IF again THEN i ELSE None
           rec == [th[w] EXCEPT !.request = req, !.cur = None, !.pc = "dispatch"]
           x   == [inv[i] EXCEPT !.readyEpoch = 0, !.completedEpoch = inv[i].epoch]
<1>1. /\ w \in Threads /\ th[w] \in ThreadType /\ th[w].touched # None
      /\ RecOK(th[w], inv)
  <2>1. w \in Threads
    BY DEF Threads
  <2> QED
    BY <2>1, ThreadFacts DEF RecOK
<1>2. /\ box \in [Invocations -> MailboxType] /\ inv \in [Invocations -> InvocationType]
      /\ th \in [Threads -> ThreadType] /\ box[b] \in MailboxType /\ inv[i] \in InvocationType
  BY DEF IInv, TypeOK
<1>3. box' = [box EXCEPT ![b] = m] /\ th' = [th EXCEPT ![w] = rec] /\ sched' = sched
  BY <1>1, <1>2 DEF KeepActive
<1>4. inv' = [inv EXCEPT ![i] = x] \/ inv' = inv
  BY <1>2 DEF KeepActive
<1>5. st \in Statuses /\ req \in {None, i} /\ st \in {"Runnable", "Suspended"}
  BY DEF Statuses
<1> HIDE DEF st, req, again
<1>6. /\ m \in MailboxType /\ m.active = i /\ m.pending = box[b].pending
      /\ m.generation = box[b].generation
  BY Zenon, <1>2, <1>5 DEF MailboxType
<1>7. /\ rec \in ThreadType /\ rec.request = req /\ rec.pc = "dispatch"
      /\ rec.touched = th[w].touched /\ rec.next = th[w].next
  BY Zenon, <1>1, <1>5 DEF ThreadType, PcSet, WorkerPcs
<1>8. /\ x \in InvocationType /\ x.home = inv[i].home /\ x.gen = inv[i].gen
      /\ x.submitted = inv[i].submitted /\ x.ioPending = inv[i].ioPending
  BY Zenon, <1>2 DEF InvocationType
<1> HIDE DEF m, rec, x
<1>9. /\ inv' \in [Invocations -> InvocationType]
      /\ \A j \in Invocations :
           /\ inv'[j].home = inv[j].home /\ inv'[j].gen = inv[j].gen
           /\ inv'[j].submitted = inv[j].submitted
           /\ inv'[j].ioPending = inv[j].ioPending
  BY <1>2, <1>4, <1>8
<1>10. inv[i].gen > 0
  BY DEF IInv, Structure, HomeInv
<1>11. InvStep(inv, inv', m)
  <2>1. inv[i].gen \in Nat
    BY <1>2 DEF InvocationType
  <2> QED
    BY <1>6, <1>9, <1>10, <2>1 DEF InvStep
<1>12. BoxMove(box[b], m)
  BY Zenon, <1>6 DEF BoxMove, Within
<1>13. MayMove(w, b, m) /\ LeavesBox(rec, m) /\ th[w].pc # "sweep"
  BY <1>1, <1>5, <1>6, <1>7 DEF MayMove, LeavesBox, Executing, RecOK
<1>14. mailboxes[KeyOf[b]] = b
  BY DEF IInv, Structure, MapInv
<1>15. TypeOK'
  <2>1. box' \in [Invocations -> MailboxType] /\ th' \in [Threads -> ThreadType]
    BY Zenon, <1>2, <1>3, <1>6, <1>7
  <2> QED
    BY <1>3, <1>9, <2>1 DEF IInv, TypeOK
<1> QED
  BY Zenon, <1>1, <1>3, <1>6, <1>7, <1>9, <1>11, <1>12, <1>13, <1>14, <1>15, MailboxStep

LEMMA AfterResumeStep ==
    ASSUME IInv, NEW w \in Workers, AfterResume(w)
    PROVE  IInv'
<1> DEFINE i == th[w].cur
           b == inv[i].home
           out == IF inv[i].task = "ok" THEN "ok" ELSE "failed"
<1>1. /\ w \in Threads /\ i \in Invocations /\ inv[i].gen > 0 /\ th[w].pc = "post"
      /\ UNCHANGED <<mailboxes, items, unswept, result, calls>>
  <2>1. w \in Threads
    BY DEF Threads
  <2> QED
    BY <2>1, ThreadFacts DEF AfterResume, RecOK
<1>2. CASE ~IsCurrent(i)
  <2>1. th' = [th EXCEPT ![w] = IdleThread] /\ UNCHANGED <<sched, box, inv>>
    BY <1>2 DEF AfterResume
  <2> QED
    BY Zenon, <1>1, <2>1, GoesIdleStep
<1>3. CASE IsCurrent(i)
  <2>1. b \in Invocations /\ box[b].active = i /\ box[b].active # None
    BY <1>1, <1>3, CurrentIsActive
  <2>2. {"cancelled", "ok", "failed"} \subseteq Results /\ out \in {"ok", "failed"}
    BY DEF Results
  <2>3. \/ FinishActive(w, b, "cancelled")
        \/ KeepActive(w, b, i)
        \/ FinishActive(w, b, out)
    BY <1>3 DEF AfterResume
  <2>4. CASE FinishActive(w, b, "cancelled")
    BY <1>1, <2>1, <2>2, <2>4, FinishActiveStep
  <2>5. CASE FinishActive(w, b, out)
    <3> HIDE DEF out
    <3> QED
      BY <1>1, <2>1, <2>2, <2>5, FinishActiveStep
  <2>6. CASE KeepActive(w, b, i)
    BY <1>1, <2>1, <2>6, KeepActiveStep
  <2> QED
    BY <2>3, <2>4, <2>5, <2>6
<1> QED
  BY <1>2, <1>3

LEMMA IdleHandoffStep ==
    ASSUME IInv, NEW w \in Workers, IdleHandoff(w)
    PROVE  IInv'
<1> DEFINE b == th[w].touched
           r == th[w]
           released == ReleaseClaim(box[b])
           m   == PrepareNext(inv, released)
           evs == UnregisteredEvents(inv, released.pending)
<1>1. /\ w \in Threads /\ b \in Invocations /\ r.pc = "claim"
      /\ r \in ThreadType /\ RecOK(r, inv)
      /\ UNCHANGED <<mailboxes, items, unswept, result, calls>>
  <2>1. w \in Threads
    BY DEF Threads
  <2> QED
    BY <2>1, ThreadFacts DEF IdleHandoff, RecOK
<1>2. TypeOK /\ box[b] \in MailboxType /\ sched \in SchedType
      /\ items \in [Invocations -> Nat] /\ th \in [Threads -> ThreadType]
  BY <1>1 DEF IInv, TypeOK
<1>3. ASSUME NEW rec \in ThreadType, th' = [th EXCEPT ![w] = rec],
             UNCHANGED <<sched, box, inv>>,
             rec.pc \in {"claim", "dispatch"}, rec.request = r.request,
             rec.next = r.next, rec.touched = r.touched
      PROVE  IInv'
  <2>1. RecOK(rec, inv) /\ KeepsCur(w, rec)
    BY <1>1, <1>3 DEF RecOK, KeepsCur
  <2>2. sched' \in SchedType /\ items' \in [Invocations -> Nat]
    BY <1>1, <1>2, <1>3
  <2> QED
    BY Zenon, <1>1, <1>3, <2>1, <2>2, ThreadOnlyStep
<1>4. CASE th' = [th EXCEPT ![w] = [@ EXCEPT !.pc = "dispatch", !.attempts = 0]]
           /\ UNCHANGED <<sched, box, inv>>
  <2> DEFINE rec == [r EXCEPT !.pc = "dispatch", !.attempts = 0]
  <2>1. /\ rec \in ThreadType /\ rec.pc = "dispatch" /\ rec.request = r.request
        /\ rec.next = r.next /\ rec.touched = r.touched
    BY Zenon, <1>1 DEF ThreadType, PcSet, WorkerPcs
  <2>2. th' = [th EXCEPT ![w] = rec]
    BY <1>1, <1>2, <1>4
  <2> HIDE DEF rec
  <2> QED
    BY Zenon, <1>3, <1>4, <2>1, <2>2
<1>5. CASE th' = [th EXCEPT ![w].attempts = @ + 1] /\ UNCHANGED <<sched, box, inv>>
  <2> DEFINE n == r.attempts + 1
             rec == [r EXCEPT !.attempts = n]
  <2>1. n \in Nat
    BY <1>1 DEF ThreadType
  <2>2. th' = [th EXCEPT ![w] = rec]
    BY <1>1, <1>2, <1>5 DEF ThreadType
  <2> HIDE DEF n
  <2>3. /\ rec \in ThreadType /\ rec.pc = "claim" /\ rec.request = r.request
        /\ rec.next = r.next /\ rec.touched = r.touched
    BY Zenon, <1>1, <2>1 DEF ThreadType
  <2> HIDE DEF rec
  <2> QED
    BY Zenon, <1>3, <1>5, <2>2, <2>3
<1>6. CASE /\ box[b].active = None /\ box[b].claimed
           /\ Settle(b, m, evs, w,
                     Deliver([r EXCEPT !.request = m.active, !.attempts = 0],
                             evs, "dispatch"))
  <2> DEFINE x == [r EXCEPT !.request = m.active, !.attempts = 0]
             d == Deliver(x, evs, "dispatch")
  <2>1. /\ released \in MailboxType /\ released.pending = box[b].pending
        /\ released.active = None /\ released.generation = box[b].generation
    BY Zenon, <1>2, <1>6 DEF ReleaseClaim, MailboxType
  <2>2. released.pending \in Seq(Invocations)
    BY <2>1 DEF MailboxType
  <2> HIDE DEF released
  <2>3. /\ m \in MailboxType
        /\ Within(m.pending, released.pending)
        /\ \/ m.active = released.active /\ m.generation = released.generation
           \/ /\ \E n \in DOMAIN released.pending : m.active = released.pending[n]
              /\ m.generation = released.generation + 1
    BY <1>2, <2>1, PrepareNextFacts
  <2>4. evs \in Seq(EventType)
    BY <1>2, <2>2, UnregisteredEventsType
  <2> HIDE DEF m, evs
  <2>5. BoxMove(box[b], m)
    BY <2>1, <2>3 DEF BoxMove
  <2>6. x \in ThreadType /\ x.request = m.active /\ x.touched = b
    BY Zenon, <1>1, <2>3 DEF ThreadType, MailboxType
  <2>7. "dispatch" \in PcSet /\ b # None
    BY <1>1 DEF PcSet, WorkerPcs
  <2>8. Settle(b, m, evs, w, d)
    BY <1>6 DEF m, evs
  <2> HIDE DEF x, b
  <2>9. d \in ThreadType /\ LeavesBox(d, m)
    BY <2>4, <2>6, <2>7, DeliverFacts DEF LeavesBox
  <2> HIDE DEF d
  <2>10. mailboxes[KeyOf[b]] = b
    BY <1>1, <1>6 DEF IInv, Structure, MapInv
  <2>11. MayMove(w, b, m) /\ th[w].pc # "sweep"
    BY <1>1, <1>6 DEF MayMove
  <2> QED
    BY <1>1, <2>3, <2>4, <2>5, <2>8, <2>9, <2>10, <2>11, SettleStep
<1> QED
  BY <1>4, <1>5, <1>6 DEF IdleHandoff

LEMMA OperationCompletesStep ==
    ASSUME IInv, NEW o \in IoThreads, NEW i \in Invocations, OperationCompletes(o, i)
    PROVE  IInv'
<1> DEFINE e == inv[i].epoch
           x == [inv[i] EXCEPT !.ioPending = FALSE]
           rec == [IdleThread EXCEPT !.pc = "ready", !.cur = i, !.epoch = e]
<1>1. /\ o \in Threads /\ th[o].pc # "sweep" /\ inv[i] \in InvocationType /\ inv[i].gen > 0
      /\ e \in Nat
  BY DEF Threads, OperationCompletes, IInv, TypeOK, InvocationType, HolderInv
<1>2. th' = [th EXCEPT ![o] = rec] /\ inv' = [inv EXCEPT ![i] = x]
  BY DEF OperationCompletes, IInv, TypeOK
<1>3. /\ x \in InvocationType /\ x.home = inv[i].home /\ x.gen = inv[i].gen
      /\ x.submitted = inv[i].submitted
  BY Zenon, <1>1 DEF InvocationType
<1> HIDE DEF e, x
<1>4. rec \in ThreadType /\ RecOK(rec, inv) /\ KeepsCur(o, rec)
  <2>1. "ready" \in PcSet /\ IdleThread \in ThreadType
    BY <1>1, ThreadFacts DEF PcSet, IoPcs
  <2>2. IdleThread.request = None /\ IdleThread.next = "idle"
    BY DEF IdleThread
  <2>3. /\ rec \in ThreadType /\ rec.pc = "ready" /\ rec.cur = i
        /\ rec.request = None /\ rec.next = "idle"
    BY Zenon, <1>1, <2>1, <2>2 DEF ThreadType
  <2> HIDE DEF rec
  <2> QED
    BY <1>1, <2>3 DEF RecOK, KeepsCur
<1> HIDE DEF rec
<1>5. /\ result' \in [Invocations -> Results \cup {None}]
      /\ calls' \in [Invocations -> Nat]
      /\ UNCHANGED <<sched, mailboxes, box, items, unswept>>
  BY DEF IInv, TypeOK, OperationCompletes
<1> QED
  BY Zenon, <1>1, <1>2, <1>3, <1>4, <1>5, ThreadInvStep

LEMMA OnExternalReadyStep ==
    ASSUME IInv, NEW o \in IoThreads, OnExternalReady(o)
    PROVE  IInv'
<1> DEFINE i == th[o].cur
           b == inv[i].home
           e == th[o].epoch
<1>1. /\ o \in Threads /\ th[o].pc = "ready" /\ i \in Invocations /\ inv[i].gen > 0
      /\ th[o] \in ThreadType /\ e \in Nat
      /\ IdleThread \in ThreadType /\ RecOK(IdleThread, inv)
      /\ UNCHANGED <<sched, mailboxes, items, unswept, result, calls>>
  <2>1. o \in Threads
    BY DEF Threads
  <2>2. th[o].pc = "ready"
    BY Zenon DEF OnExternalReady
  <2> QED
    BY Zenon, <2>1, <2>2, ThreadFacts DEF OnExternalReady, RecOK, ThreadType
<1>2. /\ box \in [Invocations -> MailboxType] /\ inv \in [Invocations -> InvocationType]
      /\ inv[i] \in InvocationType
      /\ result' \in [Invocations -> Results \cup {None}]
      /\ calls' \in [Invocations -> Nat]
  BY <1>1 DEF IInv, TypeOK
<1>3. CASE inv' = [inv EXCEPT ![i].readyEpoch = e] /\ box' = box
           /\ th' = [th EXCEPT ![o] = IdleThread]
  <2> DEFINE x == [inv[i] EXCEPT !.readyEpoch = e]
  <2>1. inv' = [inv EXCEPT ![i] = x]
    BY <1>1, <1>2, <1>3
  <2>2. /\ x \in InvocationType /\ x.home = inv[i].home /\ x.gen = inv[i].gen
        /\ x.submitted = inv[i].submitted
    BY Zenon, <1>1, <1>2 DEF InvocationType
  <2>3. KeepsCur(o, IdleThread)
    BY DEF KeepsCur, IdleThread
  <2> HIDE DEF x, i
  <2> QED
    BY <1>1, <1>2, <1>3, <2>1, <2>2, <2>3, ThreadInvStep, ZenonT(40)
<1>4. CASE /\ IsCurrent(i)
           /\ box' = [box EXCEPT ![b].status = "Runnable"]
           /\ inv' = [inv EXCEPT ![i].completedEpoch = e]
           /\ th' = [th EXCEPT ![o] = [IdleThread EXCEPT !.pc = "publish", !.request = i]]
           /\ box[b].status = "Suspended"
  <2> DEFINE x == [inv[i] EXCEPT !.completedEpoch = e]
             m == [box[b] EXCEPT !.status = "Runnable"]
             rec == [IdleThread EXCEPT !.pc = "publish", !.request = i]
  <2>1. b \in Invocations /\ box[b].active = i /\ mailboxes[KeyOf[b]] = b
    BY <1>1, <1>4, CurrentIsActive
  <2>2. /\ inv' = [inv EXCEPT ![i] = x] /\ box' = [box EXCEPT ![b] = m]
        /\ th' = [th EXCEPT ![o] = rec]
    BY <1>1, <1>2, <1>4, <2>1
  <2>3. /\ x \in InvocationType /\ x.home = inv[i].home /\ x.gen = inv[i].gen
        /\ x.submitted = inv[i].submitted /\ x.ioPending = inv[i].ioPending
    BY Zenon, <1>1, <1>2 DEF InvocationType
  <2>4. /\ m \in MailboxType /\ m.active = i /\ m.pending = box[b].pending
        /\ m.generation = box[b].generation
    <3>1. box[b] \in MailboxType /\ "Runnable" \in Statuses
      BY <1>2, <2>1 DEF Statuses
    <3> QED
      BY Zenon, <2>1, <3>1 DEF MailboxType
  <2>5. rec \in ThreadType /\ LeavesBox(rec, m)
    <3>1. "publish" \in PcSet
      BY DEF PcSet, IoPcs
    <3>2. IdleThread.next = "idle"
      BY DEF IdleThread
    <3>3. rec \in ThreadType /\ rec.pc = "publish" /\ rec.request = i /\ rec.next = "idle"
      BY Zenon, <1>1, <3>1, <3>2 DEF ThreadType
    <3> HIDE DEF rec, m
    <3> QED
      BY <2>4, <3>3 DEF LeavesBox
  <2> HIDE DEF x, m, rec
  <2>6. /\ inv' \in [Invocations -> InvocationType]
        /\ \A j \in Invocations :
             /\ inv'[j].home = inv[j].home /\ inv'[j].gen = inv[j].gen
             /\ inv'[j].submitted = inv[j].submitted
             /\ inv'[j].ioPending = inv[j].ioPending
    BY <1>1, <1>2, <2>2, <2>3
  <2>7. InvStep(inv, inv', m)
    <3>1. inv[i].gen \in Nat
      BY <1>2 DEF InvocationType
    <3> QED
      BY <1>1, <2>4, <2>6, <3>1 DEF InvStep
  <2>8. BoxMove(box[b], m)
    BY Zenon, <2>1, <2>4 DEF BoxMove, Within
  <2>9. MayMove(o, b, m) /\ th[o].pc # "sweep"
    BY <1>1, <1>4 DEF MayMove
  <2>10. TypeOK'
    <3>1. box' \in [Invocations -> MailboxType] /\ th' \in [Threads -> ThreadType]
      BY Zenon, <1>2, <2>2, <2>4, <2>5 DEF IInv, TypeOK
    <3> QED
      BY <1>1, <2>6, <3>1 DEF IInv, TypeOK
  <2> HIDE DEF b
  <2> QED
    BY Zenon, <1>1, <2>1, <2>2, <2>4, <2>5, <2>6, <2>7, <2>8, <2>9, <2>10, MailboxStep
<1>5. CASE th' = [th EXCEPT ![o] = IdleThread] /\ UNCHANGED <<box, inv>>
  BY Zenon, <1>1, <1>5, GoesIdleStep
<1> QED
  BY Zenon, <1>3, <1>4, <1>5 DEF OnExternalReady

LEMMA ReclaimIdleMailboxStep ==
    ASSUME IInv, NEW t \in Threads, ReclaimIdleMailbox(t)
    PROVE  IInv'
<1> DEFINE b == th[t].touched
<1>1. /\ b \in Invocations \cup {None} /\ th[t].pc # "sweep"
      /\ IdleThread \in ThreadType /\ RecOK(IdleThread, inv)
      /\ th' = [th EXCEPT ![t] = IdleThread]
      /\ UNCHANGED <<box, inv, items, unswept, result, calls>>
  BY ThreadFacts DEF ReclaimIdleMailbox, AtPublish
<1>2. CASE ~(b # None /\ mailboxes[KeyOf[b]] = b /\ Reclaimable(box[b]))
  <2>1. UNCHANGED <<mailboxes, sched>>
    BY <1>2 DEF ReclaimIdleMailbox
  <2> QED
    BY Zenon, <1>1, <2>1, GoesIdleStep
<1>3. CASE b # None /\ mailboxes[KeyOf[b]] = b /\ Reclaimable(box[b])
  <2> DEFINE n == sched.retired + box[b].settled
  <2>1. /\ mailboxes' = [mailboxes EXCEPT ![KeyOf[b]] = None]
        /\ sched' = [sched EXCEPT !.retired = n]
        /\ StateMutexFree
    BY <1>3 DEF ReclaimIdleMailbox, IInv, TypeOK, SchedType
  <2>2. b \in Invocations /\ KeyOf[b] \in Keys
    BY <1>1, <1>3
  <2>3. n \in Nat
    <3>1. sched \in SchedType /\ box[b] \in MailboxType
      BY <2>2 DEF IInv, TypeOK
    <3>2. sched.retired \in Nat
      BY <3>1 DEF SchedType
    <3>3. box[b].settled \in Nat
      BY <3>1 DEF MailboxType
    <3> QED
      BY <3>2, <3>3
  <2> HIDE DEF n
  <2>4. sched' \in SchedType /\ mailboxes' \in [Keys -> Invocations \cup {None}]
    BY Zenon, <2>1, <2>3 DEF IInv, TypeOK, SchedType
  <2>5. TypeOK'
    <3>1. th' \in [Threads -> ThreadType]
      BY <1>1 DEF IInv, TypeOK
    <3> QED
      BY <1>1, <2>4, <3>1 DEF IInv, TypeOK
  <2>6. MapInv(mailboxes', box)
    <3>1. \A k \in Keys : mailboxes'[k] = IF k = KeyOf[b] THEN None ELSE mailboxes[k]
      BY <2>1 DEF IInv, TypeOK
    <3>2. \A k \in Keys : mailboxes'[k] # None => KeyOf[mailboxes'[k]] = k
      BY <3>1 DEF IInv, Structure, MapInv
    <3>3. ASSUME NEW c \in Invocations, mailboxes'[KeyOf[c]] # c
          PROVE  /\ box[c].active = None /\ box[c].pending = <<>>
                 /\ box[c].status = "Idle" /\ ~box[c].claimed
      <4>1. CASE c = b
        BY <1>3, <4>1 DEF Reclaimable
      <4>2. CASE c # b
        <5>1. mailboxes[KeyOf[c]] # c
          BY <1>3, <2>2, <3>1, <3>3, <4>2
        <5> QED
          BY <5>1 DEF IInv, Structure, MapInv
      <4> QED
        BY <4>1, <4>2
    <3> QED
      BY <3>2, <3>3 DEF MapInv
  <2>7. SweepInv'
    BY <1>1, <2>1 DEF IInv, SweepInv
  <2>8. \A i \in Invocations : items'[i] > 0 \/ inv'[i].ioPending => inv[i].gen > 0
    BY <1>1 DEF IInv, HolderInv
  <2>9. IdleThread.pc = "idle"
    BY DEF IdleThread
  <2> QED
    BY Zenon, <1>1, <2>5, <2>6, <2>7, <2>8, <2>9, QuietStep
<1> QED
  BY <1>2, <1>3

\* shutdown: a step of caller c that only moves its pc, and the flags.
LEMMA CallerPcStep ==
    ASSUME IInv, NEW c \in Callers, NEW rec \in ThreadType, th' = [th EXCEPT ![c] = rec],
           sched' \in SchedType, unswept' \subseteq Keys, SweepInv',
           UNCHANGED <<mailboxes, box, inv, items, result, calls>>,
           RecOK(rec, inv)
    PROVE  IInv'
<1>1. c \in Threads /\ c \notin Workers
  BY DEF Threads
<1>2. TypeOK'
  BY Zenon DEF IInv, TypeOK
<1>3. \A i \in Invocations : items'[i] > 0 \/ inv'[i].ioPending => inv[i].gen > 0
  BY DEF IInv, HolderInv
<1> QED
  BY Zenon, <1>1, <1>2, <1>3, QuietStep

\* A record that only changes its pc, to one that asks for nothing.
LEMMA PcOnly ==
    ASSUME IInv, NEW t \in Threads,
           NEW pc \in {"drain", "sweep", "stopExecutor", "join", "waitStopped"}
    PROVE  LET rec == [th[t] EXCEPT !.pc = pc]
               new == [IdleThread EXCEPT !.pc = pc]
           IN  /\ rec \in ThreadType /\ RecOK(rec, inv) /\ rec.pc = pc
               /\ new \in ThreadType /\ RecOK(new, inv) /\ new.pc = pc
<1> DEFINE rec == [th[t] EXCEPT !.pc = pc]
           new == [IdleThread EXCEPT !.pc = pc]
<1>1. /\ th[t] \in ThreadType /\ RecOK(th[t], inv) /\ IdleThread \in ThreadType
      /\ RecOK(IdleThread, inv) /\ pc \in PcSet
  BY ThreadFacts DEF PcSet, CallerPcs
<1>2. /\ rec \in ThreadType /\ rec.pc = pc /\ rec.request = th[t].request
      /\ rec.next = th[t].next /\ rec.touched = th[t].touched
  BY Zenon, <1>1 DEF ThreadType
<1>3. /\ new \in ThreadType /\ new.pc = pc /\ new.request = IdleThread.request
      /\ new.next = IdleThread.next /\ new.touched = IdleThread.touched
  BY Zenon, <1>1 DEF ThreadType
<1> HIDE DEF rec, new
<1>4. RecOK(rec, inv) /\ RecOK(new, inv)
  BY <1>1, <1>2, <1>3 DEF RecOK
<1> QED
  BY <1>2, <1>3, <1>4 DEF rec, new

LEMMA ShutdownStep ==
    ASSUME IInv, NEW c \in Callers, NEW mode \in ShutdownModes, Shutdown(c, mode)
    PROVE  IInv'
<1> DEFINE drain == mode = "Drain"
<1>1. /\ c \in Threads /\ th[c].pc = "idle" /\ StateMutexFree
      /\ UNCHANGED <<mailboxes, box, inv, items, result, calls>>
      /\ sched \in SchedType /\ th \in [Threads -> ThreadType]
  BY DEF Shutdown, Threads, IInv, TypeOK
<1>2. CASE sched.stopping
  <2> DEFINE rec == [th[c] EXCEPT !.pc = "waitStopped"]
  <2>1. th' = [th EXCEPT ![c] = rec] /\ UNCHANGED <<sched, unswept>>
    BY <1>1, <1>2 DEF Shutdown
  <2>2. rec \in ThreadType /\ RecOK(rec, inv)
    BY Zenon, <1>1, PcOnly
  <2> HIDE DEF rec
  <2>3. SweepInv'
    BY Zenon, <1>1, <2>1, <2>2, SweepStep DEF IInv
  <2> QED
    BY Zenon, <1>1, <2>1, <2>2, <2>3, CallerPcStep DEF IInv, TypeOK
<1>3. CASE ~sched.stopping
  <2> DEFINE pc == IF drain THEN "drain" ELSE "sweep"
             rec == [IdleThread EXCEPT !.pc = pc]
             cn == ~drain
  <2>1. /\ th' = [th EXCEPT ![c] = rec]
        /\ unswept' = IF drain THEN {} ELSE {k \in Keys : mailboxes[k] # None}
    BY <1>3 DEF Shutdown
  <2>2. sched' \in SchedType
    <3>1. sched' = [sched EXCEPT !.stopping = TRUE, !.accepting = FALSE, !.cancelling = cn]
      BY <1>3 DEF Shutdown
    <3>2. cn \in BOOLEAN
      OBVIOUS
    <3> HIDE DEF cn
    <3> QED
      BY Zenon, <1>1, <3>1, <3>2 DEF SchedType
  <2>3. pc \in {"drain", "sweep", "stopExecutor", "join", "waitStopped"}
        /\ (~drain => pc = "sweep")
    OBVIOUS
  <2> HIDE DEF pc
  <2>4. rec \in ThreadType /\ RecOK(rec, inv) /\ rec.pc = pc
    BY Zenon, <1>1, <2>3, PcOnly
  <2> HIDE DEF rec
  <2>5. SweepInv'
    <3>1. th'[c] = rec
      BY <1>1, <2>1
    <3> QED
      BY <1>1, <2>1, <2>3, <2>4, <3>1 DEF SweepInv, StateMutexFree
  <2>6. unswept' \subseteq Keys
    BY <2>1
  <2> QED
    BY Zenon, <1>1, <2>1, <2>2, <2>4, <2>5, <2>6, CallerPcStep
<1> QED
  BY <1>2, <1>3

LEMMA ShutdownTailStep ==
    ASSUME IInv, NEW c \in Callers,
           DrainDone(c) \/ StopExecutor(c) \/ Joined(c) \/ ShutdownReturns(c)
    PROVE  IInv'
<1>1. c \in Threads /\ sched \in SchedType /\ th \in [Threads -> ThreadType]
      /\ unswept \subseteq Keys
  BY DEF Threads, IInv, TypeOK
<1>2. ASSUME NEW rec \in ThreadType, RecOK(rec, inv), th' = [th EXCEPT ![c] = rec],
             sched' \in SchedType, th[c].pc # "sweep",
             UNCHANGED <<mailboxes, box, inv, items, unswept, result, calls>>
      PROVE  IInv'
  <2>1. SweepInv'
    BY Zenon, <1>1, <1>2, SweepStep DEF IInv
  <2> QED
    BY Zenon, <1>1, <1>2, <2>1, CallerPcStep
<1>3. IdleThread \in ThreadType /\ RecOK(IdleThread, inv)
  BY <1>1, ThreadFacts
<1>4. CASE DrainDone(c)
  <2> DEFINE rec == [th[c] EXCEPT !.pc = "stopExecutor"]
  <2>1. th' = [th EXCEPT ![c] = rec]
    BY <1>1, <1>4 DEF DrainDone
  <2>2. rec \in ThreadType /\ RecOK(rec, inv)
    BY Zenon, <1>1, PcOnly
  <2> HIDE DEF rec
  <2> QED
    BY Zenon, <1>1, <1>2, <1>4, <2>1, <2>2 DEF DrainDone
<1>5. CASE StopExecutor(c)
  <2> DEFINE rec == [th[c] EXCEPT !.pc = "join"]
  <2>1. th' = [th EXCEPT ![c] = rec]
    BY <1>1, <1>5 DEF StopExecutor
  <2>2. rec \in ThreadType /\ RecOK(rec, inv)
    BY Zenon, <1>1, PcOnly
  <2> HIDE DEF rec
  <2>3. sched' \in SchedType
    BY Zenon, <1>1, <1>5 DEF StopExecutor, SchedType
  <2> QED
    BY Zenon, <1>1, <1>2, <1>5, <2>1, <2>2, <2>3 DEF StopExecutor
<1>6. CASE Joined(c)
  <2>1. sched' \in SchedType
    BY Zenon, <1>1, <1>6 DEF Joined, SchedType
  <2> QED
    BY Zenon, <1>1, <1>2, <1>3, <1>6, <2>1 DEF Joined
<1>7. CASE ShutdownReturns(c)
  BY Zenon, <1>1, <1>2, <1>3, <1>7 DEF ShutdownReturns
<1> QED
  BY <1>4, <1>5, <1>6, <1>7

LEMMA SweepDoneStep ==
    ASSUME IInv, NEW c \in Callers, SweepDone(c)
    PROVE  IInv'
<1> DEFINE r == th[c]
           evs == r.events
           rec == Deliver(r, evs, "stopExecutor")
<1>1. /\ c \in Threads /\ r \in ThreadType /\ RecOK(r, inv) /\ r.pc = "sweep"
      /\ th' = [th EXCEPT ![c] = rec] /\ unswept = {}
      /\ UNCHANGED <<sched, mailboxes, box, inv, items, unswept, result, calls>>
  <2>1. c \in Threads /\ th \in [Threads -> ThreadType]
    BY DEF Threads, IInv, TypeOK
  <2> QED
    BY <2>1, ThreadFacts DEF SweepDone
<1>2. evs \in Seq(EventType) /\ "stopExecutor" \in PcSet
  BY <1>1 DEF ThreadType, PcSet, CallerPcs
<1> HIDE DEF evs
<1>3. rec \in ThreadType /\ RecOK(rec, inv)
  <2>1. /\ rec \in ThreadType
        /\ rec.request = r.request /\ rec.touched = r.touched
        /\ \/ rec.pc = "deliver" /\ evs # <<>> /\ rec.next = "stopExecutor"
           \/ rec.pc = "stopExecutor" /\ rec.next = "idle"
        /\ rec.events = evs
    <3> HIDE DEF r
    <3> QED
      BY <1>1, <1>2, DeliverFacts
  <2> HIDE DEF rec
  <2> QED
    BY <1>1, <2>1 DEF RecOK
<1> HIDE DEF rec
<1>4. SweepInv'
  BY <1>1 DEF SweepInv
<1>5. sched' \in SchedType /\ unswept' \subseteq Keys
  BY <1>1 DEF IInv, TypeOK
<1> QED
  BY Zenon, <1>1, <1>3, <1>4, <1>5, CallerPcStep

LEMMA SweepMailboxStep ==
    ASSUME IInv, NEW c \in Callers, NEW k \in Keys, SweepMailbox(c, k)
    PROVE  IInv'
<1> DEFINE b    == mailboxes[k]
           q    == box[b].pending
           a    == box[b].active
           ends == SweepsActive(box[b])
           running == a # None /\ ~ends
           gone == IF ends THEN Append(q, a) ELSE q
           evs  == [n \in 1..Len(gone) |-> Event(gone[n], "cancelled")]
           st   == IF running THEN box[b].status ELSE "Stopping"
           cl   == IF a = None THEN FALSE ELSE box[b].claimed
           ac   == IF running THEN box[b].active ELSE None
           sn   == box[b].settled + Len(gone)
           m    == [box[b] EXCEPT !.pending = <<>>, !.settled = sn, !.status = st,
                                  !.claimed = cl, !.active = ac]
           F(i) == IF running /\ i = a THEN [inv[i] EXCEPT !.cancelAfterResume = TRUE]
                                       ELSE inv[i]
           v    == [i \in Invocations |-> F(i)]
           r    == th[c]
           ev2  == r.events \o evs
           rec  == [r EXCEPT !.events = ev2]
<1>1. /\ c \in Threads /\ r \in ThreadType /\ RecOK(r, inv) /\ r.pc = "sweep"
      /\ k \in unswept /\ unswept' = unswept \ {k}
      /\ UNCHANGED <<mailboxes, items, result, calls>>
  <2>1. c \in Threads
    BY DEF Threads
  <2> QED
    BY Zenon, <2>1, ThreadFacts DEF SweepMailbox
<1>2. b \in Invocations /\ KeyOf[b] = k /\ mailboxes[KeyOf[b]] = b
  BY <1>1 DEF IInv, SweepInv, TypeOK, Structure, MapInv
<1>3. /\ TypeOK /\ box[b] \in MailboxType /\ box \in [Invocations -> MailboxType]
      /\ inv \in [Invocations -> InvocationType] /\ th \in [Threads -> ThreadType]
      /\ sched \in SchedType
  BY <1>2 DEF IInv, TypeOK
<1>4. gone \in Seq(Invocations) /\ Len(gone) \in Nat
  BY <1>3 DEF MailboxType, SweepsActive
<1>5. /\ box' = [box EXCEPT ![b] = m]
      /\ inv' = InvAfter(v, m, EventInvs(evs))
      /\ sched' = DecrementPending(sched, k, Len(gone))
      /\ th' = [th EXCEPT ![c] = rec]
  BY Zenon, <1>1, <1>3 DEF SweepMailbox, MailboxType, ThreadType
<1>6. /\ st \in Statuses /\ cl \in BOOLEAN /\ ac \in Invocations \cup {None}
      /\ sn \in Nat
      /\ ac \in {None, box[b].active}
      /\ (ac = box[b].active /\ st = box[b].status) \/ box[b].status # "Running"
         \/ box[b].active = None
  <2> HIDE DEF gone, b
  <2>1. /\ box[b].status \in Statuses /\ box[b].claimed \in BOOLEAN
        /\ box[b].active \in Invocations \cup {None} /\ box[b].settled \in Nat
        /\ "Stopping" \in Statuses
    BY <1>3 DEF MailboxType, Statuses
  <2>2. sn \in Nat /\ cl \in BOOLEAN
    <3>1. sn \in Nat
      BY <1>4, <2>1
    <3>2. CASE a = None
      BY <3>1, <3>2
    <3>3. CASE a # None
      BY <2>1, <3>1, <3>3, Zenon
    <3> QED
      BY Zenon, <3>2, <3>3
  <2>3. CASE running
    BY <2>1, <2>2, <2>3
  <2>4. CASE ~running
    <3>1. box[b].active = None \/ box[b].status # "Running"
      BY <2>4 DEF SweepsActive
    <3> HIDE DEF running
    <3> QED
      BY Zenon, <2>1, <2>2, <2>4, <3>1
  <2> QED
    BY Zenon, <2>3, <2>4
<1>7. evs \in Seq(EventType)
  <2> HIDE DEF gone
  <2>1. \A n \in 1..Len(gone) : Event(gone[n], "cancelled") \in EventType
    BY <1>4 DEF Event, EventType, Results
  <2> QED
    BY <1>4, <2>1, IsASeq
<1>8. v \in [Invocations -> InvocationType]
      /\ \A i \in Invocations :
           /\ v[i].home = inv[i].home /\ v[i].gen = inv[i].gen
           /\ v[i].submitted = inv[i].submitted /\ v[i].ioPending = inv[i].ioPending
  <2> HIDE DEF running, a
  <2>1. ASSUME NEW i \in Invocations
        PROVE  /\ F(i) \in InvocationType
               /\ F(i).home = inv[i].home /\ F(i).gen = inv[i].gen
               /\ F(i).submitted = inv[i].submitted /\ F(i).ioPending = inv[i].ioPending
    <3>1. inv[i] \in InvocationType
      BY <1>3
    <3> QED
      BY Zenon, <3>1 DEF InvocationType
  <2> HIDE DEF F
  <2> QED
    BY <2>1
<1> HIDE DEF st, cl, ac, sn, v, gone
<1>9. /\ m \in MailboxType /\ m.pending = <<>> /\ m.active = ac /\ m.status = st
      /\ m.generation = box[b].generation
  <2> DEFINE y == box[b]
             e == <<>>
  <2>1. e \in Seq(Invocations) /\ y \in MailboxType
    BY <1>3
  <2>2. m = [y EXCEPT !.pending = e, !.settled = sn, !.status = st,
                      !.claimed = cl, !.active = ac]
    OBVIOUS
  <2> HIDE DEF y, e, m
  <2>3. /\ m \in MailboxType /\ m.pending = e /\ m.active = ac /\ m.status = st
        /\ m.generation = y.generation
    BY Zenon, <1>6, <2>1, <2>2 DEF MailboxType
  <2> QED
    BY <2>3 DEF y, e
<1> HIDE DEF m, evs
<1>10. /\ inv' \in [Invocations -> InvocationType]
       /\ InvStep(inv, inv', m)
       /\ \A i \in Invocations : inv'[i].ioPending => inv[i].ioPending
  <2> DEFINE g == EventInvs(evs)
  <2> HIDE DEF g
  <2>1. LET z == InvAfter(v, m, g) IN
           /\ z \in [Invocations -> InvocationType]
           /\ \A i \in Invocations :
                 /\ z[i].home = v[i].home
                 /\ z[i].submitted = v[i].submitted
                 /\ z[i].ioPending => v[i].ioPending
                 /\ z[i].gen = IF i = m.active /\ v[i].gen = 0
                               THEN m.generation ELSE v[i].gen
    BY <1>3, <1>8, <1>9, InvAfterFacts
  <2>2. inv' = InvAfter(v, m, g)
    BY <1>5 DEF g
  <2> QED
    BY <1>8, <2>1, <2>2 DEF InvStep
<1>11. /\ rec \in ThreadType /\ RecOK(rec, inv) /\ rec.pc = "sweep"
  <2>1. ev2 \in Seq(EventType)
    BY <1>1, <1>7 DEF ThreadType
  <2> HIDE DEF ev2
  <2>2. /\ rec \in ThreadType /\ rec.pc = r.pc /\ rec.request = r.request
        /\ rec.next = r.next /\ rec.touched = r.touched
    BY Zenon, <1>1, <2>1 DEF ThreadType
  <2> HIDE DEF rec
  <2> QED
    BY <1>1, <2>2 DEF RecOK
<1> HIDE DEF rec
<1>12. TypeOK'
  <2>1. sched' \in SchedType
    BY <1>3, <1>4, <1>5, DecrementType
  <2>2. box' \in [Invocations -> MailboxType] /\ th' \in [Threads -> ThreadType]
    BY Zenon, <1>3, <1>5, <1>9, <1>11
  <2> QED
    BY <1>1, <1>3, <1>10, <2>1, <2>2 DEF TypeOK
<1>13. Structure(mailboxes, box, inv)' /\ GenKept
  <2>1. BoxMove(box[b], m)
    BY <1>6, <1>9 DEF BoxMove, Within
  <2> HIDE DEF b
  <2> QED
    BY Zenon, <1>1, <1>2, <1>3, <1>5, <1>9, <1>10, <2>1, BoxStep DEF IInv, GenKept
<1>14. SweepInv'
  <2>1. th'[c].pc = "sweep"
    BY <1>1, <1>3, <1>5, <1>11
  <2> QED
    BY <1>1, <2>1 DEF IInv, SweepInv, StateMutexFree
<1>15. HolderInv'
  <2>1. RecOK(rec, inv')
    BY <1>11, <1>13 DEF RecOK, GenKept, ThreadType
  <2>2. \A u \in Threads : RecOK(th'[u], inv')
    BY Zenon, <1>1, <1>5, <1>11, <1>13, <2>1, ThreadStep DEF IInv
  <2>3. \A i \in Invocations : items'[i] > 0 \/ inv'[i].ioPending => inv'[i].gen > 0
    BY <1>1, <1>10, <1>13 DEF IInv, HolderInv, GenKept
  <2> QED
    BY <2>2, <2>3 DEF HolderInv
<1>16. WorkerOwnsMailbox' /\ DistinctCur'
  <2>1. \A i \in Invocations : inv'[i].home = inv[i].home
    BY <1>10 DEF InvStep
  <2>2. \/ m.active = box[b].active /\ m.status = box[b].status
        \/ box[b].status # "Running" \/ box[b].active = None
    BY <1>6, <1>9
  <2> HIDE DEF b
  <2> QED
    BY Zenon, <1>1, <1>2, <1>5, <1>9, <1>11, <2>1, <2>2, OwnStep DEF IInv
<1> QED
  BY <1>12, <1>13, <1>14, <1>15, <1>16 DEF IInv

\* The first half of an admission: the invocation is in its mailbox, which is in
\* the map, and nothing is activated yet.
LEMMA AdmitStructure ==
    ASSUME IInv, NEW i \in Invocations, ~inv[i].submitted,
           NEW b \in Invocations, KeyOf[b] = KeyOf[i],
           mailboxes[KeyOf[i]] \in {None, b},
           NEW x \in InvocationType, x.home = b, x.gen = inv[i].gen, x.submitted = TRUE
    PROVE  LET push == [box[b] EXCEPT !.pending = Append(box[b].pending, i)] IN
           /\ push \in MailboxType /\ push.active = box[b].active
           /\ push.status = box[b].status /\ push.claimed = box[b].claimed
           /\ Structure([mailboxes EXCEPT ![KeyOf[i]] = b],
                        [box EXCEPT ![b] = push],
                        [inv EXCEPT ![i] = x])
<1> DEFINE q == Append(box[b].pending, i)
           push == [box[b] EXCEPT !.pending = q]
           mb == [mailboxes EXCEPT ![KeyOf[i]] = b]
           bx == [box EXCEPT ![b] = push]
           v == [inv EXCEPT ![i] = x]
<1>1. /\ box \in [Invocations -> MailboxType] /\ inv \in [Invocations -> InvocationType]
      /\ mailboxes \in [Keys -> Invocations \cup {None}]
      /\ box[b] \in MailboxType /\ box[b].pending \in Seq(Invocations)
  BY Zenon DEF IInv, TypeOK, MailboxType
<1>2. /\ q \in Seq(Invocations) /\ DOMAIN q = DOMAIN box[b].pending \cup {Len(q)}
      /\ q[Len(q)] = i /\ \A n \in DOMAIN box[b].pending : q[n] = box[b].pending[n]
  BY <1>1
<1> HIDE DEF q
<1>3. /\ push \in MailboxType /\ push.active = box[b].active /\ push.pending = q
      /\ push.status = box[b].status /\ push.claimed = box[b].claimed
      /\ push.generation = box[b].generation
  BY Zenon, <1>1, <1>2 DEF MailboxType
<1> HIDE DEF push
<1>4. /\ \A c \in Invocations : bx[c] = IF c = b THEN push ELSE box[c]
      /\ \A j \in Invocations : v[j] = IF j = i THEN x ELSE inv[j]
      /\ \A h \in Keys : mb[h] = IF h = KeyOf[i] THEN b ELSE mailboxes[h]
  BY <1>1
<1> HIDE DEF bx, v, mb
<1>5. inv[i].home = None /\ inv[i].gen = 0
  BY DEF IInv, Structure, HomeInv
<1>6. HomeInv(bx, v)
  <2>1. ASSUME NEW j \in Invocations
        PROVE  /\ v[j].home # None => /\ KeyOf[v[j].home] = KeyOf[j]
                                      /\ v[j].gen <= bx[v[j].home].generation
               /\ v[j].home = None => v[j].gen = 0
               /\ ~v[j].submitted => v[j].home = None
    <3>1. CASE j = i
      <4>1. v[j] = x /\ bx[b].generation \in Nat
        BY <1>3, <1>4, <3>1 DEF MailboxType
      <4>2. x.gen = 0 /\ x.home = b /\ x.submitted
        BY <1>5
      <4>3. 0 <= bx[b].generation
        BY <4>1
      <4> QED
        BY <3>1, <4>1, <4>2, <4>3
    <3>2. CASE j # i
      <4>1. v[j] = inv[j] /\ inv[j].home \in Invocations \cup {None}
        BY Zenon, <1>1, <1>4, <3>2 DEF InvocationType
      <4>2. inv[j].home # None => bx[inv[j].home].generation = box[inv[j].home].generation
        BY <1>3, <1>4, <4>1
      <4> QED
        BY <4>1, <4>2 DEF IInv, Structure, HomeInv
    <3> QED
      BY <3>1, <3>2
  <2>2. ASSUME NEW c \in Invocations
        PROVE  /\ bx[c].active # None => /\ v[bx[c].active].home = c
                                         /\ v[bx[c].active].gen > 0
               /\ \A n \in DOMAIN bx[c].pending : v[bx[c].pending[n]].home = c
    <3>1. bx[c].active = box[c].active /\ box[c].active \in Invocations \cup {None}
      BY Zenon, <1>1, <1>3, <1>4 DEF MailboxType
    <3>2. box[c].active # None => box[c].active # i
      BY <1>5 DEF IInv, Structure, HomeInv
    <3>3. bx[c].active # None => v[bx[c].active].home = c /\ v[bx[c].active].gen > 0
      BY <1>4, <3>1, <3>2 DEF IInv, Structure, HomeInv
    <3>4. \A n \in DOMAIN box[c].pending :
            /\ box[c].pending[n] \in Invocations
            /\ v[box[c].pending[n]].home = c
      <4>1. box[c].pending \in Seq(Invocations)
        BY <1>1 DEF MailboxType
      <4>2. \A n \in DOMAIN box[c].pending : box[c].pending[n] \in Invocations
                                             /\ inv[box[c].pending[n]].home = c
        BY <4>1 DEF IInv, Structure, HomeInv
      <4> QED
        BY <1>4, <1>5, <4>2
    <3>5. CASE c # b
      BY <1>4, <3>3, <3>4, <3>5
    <3>6. CASE c = b
      <4>1. bx[c].pending = q /\ v[i].home = b
        BY <1>3, <1>4, <3>6
      <4>2. ASSUME NEW n \in DOMAIN q
            PROVE  v[q[n]].home = b
        <5>1. CASE n \in DOMAIN box[b].pending
          BY Zenon, <1>2, <3>4, <3>6, <5>1
        <5>2. CASE n = Len(q)
          BY Zenon, <1>2, <4>1, <5>2
        <5> QED
          BY Zenon, <1>2, <5>1, <5>2
      <4> QED
        BY <3>3, <3>6, <4>1, <4>2
    <3> QED
      BY <3>5, <3>6
  <2> QED
    BY <2>1, <2>2 DEF HomeInv
<1>7. GenInv(v)
  BY <1>4, <1>5 DEF IInv, Structure, GenInv
<1>8. MapInv(mb, bx)
  <2>1. \A h \in Keys : mb[h] # None => KeyOf[mb[h]] = h
    BY <1>4 DEF IInv, Structure, MapInv
  <2>2. ASSUME NEW c \in Invocations, mb[KeyOf[c]] # c
        PROVE  /\ bx[c].active = None /\ bx[c].pending = <<>>
               /\ bx[c].status = "Idle" /\ ~bx[c].claimed
    <3>1. KeyOf[c] \in Keys
      OBVIOUS
    <3>2. c # b /\ mailboxes[KeyOf[c]] # c
      BY <1>4, <2>2, <3>1
    <3> QED
      BY <1>4, <3>2 DEF IInv, Structure, MapInv
  <2> QED
    BY <2>1, <2>2 DEF MapInv
<1> QED
  BY <1>3, <1>6, <1>7, <1>8 DEF Structure, push, q, mb, bx, v

LEMMA EnqueueAdmittedStep ==
    ASSUME IInv, NEW c \in Callers, NEW i \in Invocations, th[c].pc = "idle",
           StateMutexFree, ~inv[i].submitted, EnqueueAdmitted(c, i)
    PROVE  IInv'
<1> DEFINE k    == KeyOf[i]
           b    == IF mailboxes[k] = None THEN i ELSE mailboxes[k]
           s0   == [sched EXCEPT !.accepted = @ + 1]
           s    == IncrementPending(s0, i)
           reg  == ActorOf[k] \in sched.actors
           x    == [inv[i] EXCEPT !.submitted = TRUE, !.home = b, !.actor = reg,
                                  !.ticket = s.accepted]
           v    == [inv EXCEPT ![i] = x]
           push == [box[b] EXCEPT !.pending = Append(box[b].pending, i)]
           go   == push.status = "Idle" /\ ~push.claimed
           m    == IF go THEN PrepareNext(v, push) ELSE push
           evs  == IF go THEN UnregisteredEvents(v, push.pending) ELSE <<>>
           req  == IF go THEN m.active ELSE None
           rec  == [th[c] EXCEPT !.touched = b, !.request = req]
           d    == Deliver(rec, evs, "publish")
           mb   == [mailboxes EXCEPT ![k] = b]
           bx   == [box EXCEPT ![b] = push]
           gone == EventInvs(evs)
<1>1. /\ TypeOK /\ c \in Threads /\ k \in Keys
      /\ sched \in SchedType /\ mailboxes \in [Keys -> Invocations \cup {None}]
      /\ box \in [Invocations -> MailboxType] /\ inv \in [Invocations -> InvocationType]
      /\ th \in [Threads -> ThreadType] /\ inv[i] \in InvocationType
      /\ th[c] \in ThreadType /\ RecOK(th[c], inv)
  BY DEF Threads, IInv, TypeOK, HolderInv
<1>2. b \in Invocations /\ KeyOf[b] = k /\ mailboxes[k] \in {None, b}
  BY <1>1 DEF IInv, Structure, MapInv
<1> HIDE DEF b
<1>3. s0 \in SchedType /\ s \in SchedType /\ s.accepted \in Nat
  <2> DEFINE n == sched.accepted + 1
  <2>1. n \in Nat /\ s0 = [sched EXCEPT !.accepted = n]
    BY <1>1 DEF SchedType
  <2> HIDE DEF n, s0
  <2>2. s0 \in SchedType
    BY <1>1, <2>1 DEF SchedType
  <2>3. s \in SchedType
    BY <2>2, IncrementType
  <2> HIDE DEF s
  <2> QED
    BY <2>2, <2>3 DEF SchedType
<1>4. /\ mailboxes' = mb
      /\ box' = [box EXCEPT ![b] = m]
      /\ inv' = InvAfter(v, m, gone)
      /\ sched' = DecrementPending(s, k, Len(evs))
      /\ th' = [th EXCEPT ![c] = d]
      /\ UNCHANGED <<items, unswept, result, calls>>
  BY Zenon, <1>1, <1>2 DEF EnqueueAdmitted, MailboxType, ThreadType, InvocationType, b
<1> HIDE DEF s0, s
<1>5. /\ x \in InvocationType /\ x.home = b /\ x.gen = inv[i].gen /\ x.submitted = TRUE
      /\ x.ioPending = inv[i].ioPending
  <2>1. reg \in BOOLEAN
    OBVIOUS
  <2> DEFINE y == inv[i]
             tk == s.accepted
  <2>2. x = [y EXCEPT !.submitted = TRUE, !.home = b, !.actor = reg, !.ticket = tk]
    OBVIOUS
  <2>3. y \in InvocationType /\ tk \in Nat
    BY <1>1, <1>3
  <2> HIDE DEF reg, y, tk, x
  <2>4. /\ x \in InvocationType /\ x.home = b /\ x.gen = y.gen /\ x.submitted = TRUE
        /\ x.ioPending = y.ioPending
    BY Zenon, <1>2, <2>1, <2>2, <2>3 DEF InvocationType
  <2> QED
    BY <2>4 DEF y
<1> HIDE DEF x
<1>6. /\ push \in MailboxType /\ push.active = box[b].active
      /\ push.status = box[b].status /\ push.claimed = box[b].claimed
      /\ Structure(mb, bx, v)
  <2>1. ~inv[i].submitted /\ KeyOf[b] = KeyOf[i] /\ mailboxes[KeyOf[i]] \in {None, b}
    BY <1>2
  <2>2. LET p == [box[b] EXCEPT !.pending = Append(box[b].pending, i)] IN
           /\ p \in MailboxType /\ p.active = box[b].active
           /\ p.status = box[b].status /\ p.claimed = box[b].claimed
           /\ Structure([mailboxes EXCEPT ![KeyOf[i]] = b],
                        [box EXCEPT ![b] = p],
                        [inv EXCEPT ![i] = x])
    <3> HIDE DEF k
    <3> QED
      BY ONLY IInv, <1>2, <1>5, <2>1, AdmitStructure, i \in Invocations, Zenon
  <2> QED
    BY <2>2, Zenon
<1>7. /\ v \in [Invocations -> InvocationType]
      /\ bx \in [Invocations -> MailboxType]
      /\ bx[b] = push /\ mb[KeyOf[b]] = b
      /\ mb \in [Keys -> Invocations \cup {None}]
      /\ \A j \in Invocations : v[j] = IF j = i THEN x ELSE inv[j]
  BY <1>1, <1>2, <1>5, <1>6
<1>8. box' = [bx EXCEPT ![b] = m]
  BY Zenon, <1>1, <1>2, <1>4
<1> HIDE DEF v, bx, mb
<1>9. push.pending \in Seq(Invocations)
  BY Zenon, <1>6 DEF MailboxType
<1> HIDE DEF push
<1>10. /\ m \in MailboxType /\ BoxMove(push, m)
       /\ ~go => m = push
  <2>1. CASE go
    <3>1. m = PrepareNext(v, push)
      BY <2>1
    <3> HIDE DEF m
    <3> QED
      BY <1>1, <1>6, <2>1, <3>1, PrepareNextFacts DEF BoxMove
  <2>2. CASE ~go
    BY <1>6, <2>2 DEF BoxMove, Within
  <2> QED
    BY <2>1, <2>2
<1>11. evs \in Seq(EventType)
  <2>1. UnregisteredEvents(v, push.pending) \in Seq(EventType)
    BY <1>1, <1>9, UnregisteredEventsType
  <2> QED
    BY <2>1
<1> HIDE DEF m, evs, gone
<1>12. /\ inv' \in [Invocations -> InvocationType]
       /\ InvStep(v, inv', m)
       /\ \A j \in Invocations : inv'[j].ioPending => inv[j].ioPending
  <2>1. LET z == InvAfter(v, m, gone) IN
           /\ z \in [Invocations -> InvocationType]
           /\ \A j \in Invocations :
                 /\ z[j].home = v[j].home
                 /\ z[j].submitted = v[j].submitted
                 /\ z[j].ioPending => v[j].ioPending
                 /\ z[j].gen = IF j = m.active /\ v[j].gen = 0
                               THEN m.generation ELSE v[j].gen
    BY <1>1, <1>7, <1>10, InvAfterFacts
  <2> QED
    BY Zenon, <1>4, <1>5, <1>7, <2>1 DEF InvStep
<1>13. Structure(mailboxes, box, inv)' /\ GenKept
  <2>1. /\ Structure(mb, [bx EXCEPT ![b] = m], inv')
        /\ \A j \in Invocations : v[j].gen > 0 => inv'[j].gen > 0
    BY Zenon, <1>2, <1>6, <1>7, <1>10, <1>12, BoxStep
  <2>2. GenKept
    BY <1>5, <1>7, <2>1 DEF GenKept
  <2> QED
    BY Zenon, <1>4, <1>8, <2>1, <2>2
<1>14. /\ d \in ThreadType /\ d.request = req
       /\ d.pc \in {"deliver", "publish"} /\ d.next \in {"idle", "publish"}
       /\ d.pc = "deliver" => d.events # <<>>
  <2>1. req \in Invocations \cup {None}
    BY <1>10 DEF MailboxType
  <2> HIDE DEF req
  <2>2. rec \in ThreadType /\ rec.request = req
    BY Zenon, <1>1, <1>2, <2>1 DEF ThreadType
  <2>3. "publish" \in PcSet
    BY DEF PcSet, CallerPcs
  <2> HIDE DEF rec
  <2> QED
    BY <1>11, <2>2, <2>3, DeliverFacts
<1> HIDE DEF d
<1>15. TypeOK'
  <2>1. sched' \in SchedType
    <3>1. Len(evs) \in Nat
      BY <1>11
    <3> QED
      BY <1>1, <1>3, <1>4, <3>1, DecrementType
  <2>2. box' \in [Invocations -> MailboxType] /\ th' \in [Threads -> ThreadType]
    BY Zenon, <1>1, <1>4, <1>10, <1>14
  <2> QED
    BY Zenon, <1>1, <1>4, <1>7, <1>12, <2>1, <2>2 DEF TypeOK
<1>16. SweepInv'
  BY <1>4 DEF IInv, SweepInv
<1>17. HolderInv'
  <2>1. req # None => inv'[req].gen > 0
    <3>1. box'[b].active = m.active
      BY <1>1, <1>2, <1>4
    <3> QED
      BY <1>2, <1>13, <3>1 DEF Structure, HomeInv
  <2>2. RecOK(d, inv')
    BY <1>14, <2>1 DEF RecOK
  <2>3. \A u \in Threads : RecOK(th'[u], inv')
    BY Zenon, <1>1, <1>4, <1>13, <1>14, <2>2, ThreadStep DEF IInv
  <2>4. \A j \in Invocations : items'[j] > 0 \/ inv'[j].ioPending => inv'[j].gen > 0
    BY <1>4, <1>12, <1>13 DEF IInv, HolderInv, GenKept
  <2> QED
    BY <2>3, <2>4 DEF HolderInv
<1>18. WorkerOwnsMailbox' /\ DistinctCur'
  <2>1. inv[i].home = None
    BY DEF IInv, Structure, HomeInv
  <2>2. \A j \in Invocations : inv[j].home # None => inv'[j].home = inv[j].home
    BY <1>7, <1>12, <2>1 DEF InvStep
  <2>3. \/ m.active = box[b].active /\ m.status = box[b].status
        \/ box[b].status # "Running"
    BY <1>6, <1>10
  <2> QED
    BY Zenon, <1>1, <1>2, <1>4, <1>10, <1>14, <2>2, <2>3, OwnStep DEF IInv
<1> QED
  BY <1>13, <1>15, <1>16, <1>17, <1>18 DEF IInv

LEMMA EnqueueStep ==
    ASSUME IInv, NEW c \in Callers, NEW i \in Invocations, Enqueue(c, i)
    PROVE  IInv'
<1>1. {"stopped", "backpressure"} \subseteq Results
  BY DEF Results
<1> QED
  BY <1>1, EnqueueRejectedStep, EnqueueAdmittedStep DEF Enqueue

-----------------------------------------------------------------------------
(* The theorems.                                                           *)

\* The scheduler starts in the invariant: no mailbox, no work, idle threads.
THEOREM InitEstablishesInvariant == Init => IInv
<1> SUFFICES ASSUME Init
             PROVE  IInv
  OBVIOUS
<1>1. TypeOK
  <2>1. NewSched \in SchedType
    BY DEF NewSched, SchedType
  <2>2. NewMailbox \in MailboxType
    BY DEF NewMailbox, MailboxType, Statuses
  <2>3. NewInvocation \in InvocationType
    BY DEF NewInvocation, InvocationType, TaskStates
  <2>4. IdleThread \in ThreadType
    BY DEF IdleThread, ThreadType, PcSet, CallerPcs
  <2> QED
    BY <2>1, <2>2, <2>3, <2>4 DEF Init, TypeOK
<1>2. Structure(mailboxes, box, inv)
  <2>1. HomeInv(box, inv)
    BY DEF Init, NewMailbox, NewInvocation, HomeInv
  <2>2. GenInv(inv)
    BY DEF Init, NewInvocation, GenInv
  <2>3. MapInv(mailboxes, box)
    BY DEF Init, NewMailbox, MapInv
  <2> QED
    BY <2>1, <2>2, <2>3 DEF Structure
<1>3. SweepInv
  BY DEF Init, SweepInv
<1>4. HolderInv
  BY DEF Init, HolderInv, RecOK, IdleThread, NewInvocation
<1>5. WorkerOwnsMailbox /\ DistinctCur
  BY DEF Init, IdleThread, WorkerOwnsMailbox, DistinctCur, Executing, Threads
<1> QED
  BY <1>1, <1>2, <1>3, <1>4, <1>5 DEF IInv

\* Every step of every thread keeps the invariant.
THEOREM NextKeepsInvariant == IInv /\ [Next]_vars => IInv'
<1> SUFFICES ASSUME IInv, [Next]_vars
             PROVE  IInv'
  OBVIOUS
<1>1. CASE UNCHANGED vars
  <2>1. sched' \in SchedType
    BY <1>1 DEF vars, IInv, TypeOK
  <2> QED
    BY <1>1, <2>1, SchedStep DEF vars
<1>2. ASSUME NEW c \in Callers, CallerNext(c)
      PROVE  IInv'
  BY <1>2, EnqueueStep, CancelStep, ShutdownStep DEF CallerNext
<1>3. ASSUME NEW c \in Callers, ShutdownSteps(c)
      PROVE  IInv'
  BY <1>3, ShutdownTailStep, SweepMailboxStep, SweepDoneStep DEF ShutdownSteps
<1>4. ASSUME NEW t \in Threads, TailSteps(t)
      PROVE  IInv'
  BY <1>4, InvokeCompletionStep, PublishRequestStep, ReclaimIdleMailboxStep DEF TailSteps
<1>5. ASSUME NEW w \in Workers, WorkerSteps(w)
      PROVE  IInv'
  BY <1>5, TakeWorkStep, BeginStep, AttachTaskStep, StartErrorStep, ResumeStep,
     AfterResumeStep, IdleHandoffStep, LocalHandoffStep DEF WorkerSteps
<1>6. ASSUME NEW o \in IoThreads, IoSteps(o)
      PROVE  IInv'
  BY <1>6, OperationCompletesStep, OnExternalReadyStep DEF IoSteps
<1> QED
  BY <1>1, <1>2, <1>3, <1>4, <1>5, <1>6, RegisterActorStep, ReleaseActorsStep DEF Next

\* The inductive invariant holds in every reachable state.
THEOREM InvariantHolds == Spec => []IInv
  BY InitEstablishesInvariant, NextKeepsInvariant, PTL DEF Spec

\* The scheduler's objects keep their types, whatever the number of threads,
\* keys and invocations.
THEOREM TypeCorrect == Spec => []TypeOK
<1>1. IInv => TypeOK
  BY DEF IInv
<1> QED
  BY <1>1, InvariantHolds, PTL

\* At most one ActorTask executes per actor:partition key, whatever the number
\* of threads, keys, invocations, cancellations and shutdowns.
THEOREM Exclusion == Spec => []ExclusiveExecution
  BY InvariantImpliesExclusion, InvariantHolds, PTL

\* The task pointer run_mailbox uses outside the mailbox lock stays that of the
\* mailbox's active invocation, and the mailbox stays Running.
THEOREM Ownership == Spec => []WorkerOwnsMailbox
<1>1. IInv => WorkerOwnsMailbox
  BY DEF IInv
<1> QED
  BY <1>1, InvariantHolds, PTL

\* reclaim_idle_mailbox never detaches a mailbox that owns work.
THEOREM ReclaimedIsDead == Spec => []UnmappedMailboxIsDead
<1>1. IInv => UnmappedMailboxIsDead
  BY DEF IInv, Structure, MapInv, UnmappedMailboxIsDead
<1> QED
  BY <1>1, InvariantHolds, PTL

-----------------------------------------------------------------------------
(* FIFO per key.                                                           *)

\* The elements of r stand in the order they have in q.
Ordered(r, q) ==
    \A l, n \in DOMAIN r : l < n =>
        \E x, y \in DOMAIN q : x < y /\ r[l] = q[x] /\ r[n] = q[y]

\* The queues are in admission order, what is queued was admitted after
\* everything of its key that was ever activated, and an active invocation is
\* the youngest activated one of its key.
FifoInv(bx, v, last) ==
    /\ \A i \in Invocations : v[i].ticket <= last
    /\ \A b \in Invocations :
          LET q == bx[b].pending IN
          /\ \A n \in DOMAIN q : v[q[n]].ticket > 0
          /\ \A l, n \in DOMAIN q : l < n => v[q[l]].ticket < v[q[n]].ticket
          /\ \A j \in Invocations : KeyOf[j] = KeyOf[b] /\ v[j].gen > 0 =>
                /\ \A n \in DOMAIN q : v[j].ticket < v[q[n]].ticket
                /\ bx[b].active # None => v[j].ticket <= v[bx[b].active].ticket

\* What a critical section may do to a mailbox so that the order is kept: drop
\* queued invocations, drop the active one, or activate a queued one before
\* which nothing is left in the queue.
Thins(m, m2) ==
    /\ Within(m2.pending, m.pending)
    /\ Ordered(m2.pending, m.pending)
    /\ \/ m2.active \in {None, m.active}
       \/ \E k \in DOMAIN m.pending :
             /\ m2.active = m.pending[k]
             /\ \A n \in DOMAIN m2.pending :
                   \E x \in DOMAIN m.pending : x > k /\ m2.pending[n] = m.pending[x]

\* What it may do to the invocations: tickets stay, and only the invocation
\* that becomes active gets a generation.
Activates(v, v2, m) ==
    \A i \in Invocations : /\ v2[i].ticket = v[i].ticket
                           /\ v2[i].gen > 0 => v[i].gen > 0 \/ i = m.active

\* A queued or active invocation came after, or is, every activated one.
LEMMA FifoInvImpliesFifo ==
    ASSUME IInv, FifoInv(box, inv, sched.accepted)
    PROVE  FifoPerKey
<1> SUFFICES ASSUME NEW i \in Invocations, NEW j \in Invocations,
                    KeyOf[i] = KeyOf[j],
                    inv[i].ticket < inv[j].ticket, inv[j].gen > 0,
                    NEW b \in Invocations,
                    box[b].active = i
                    \/ \E n \in DOMAIN box[b].pending : box[b].pending[n] = i
             PROVE  FALSE
  BY DEF FifoPerKey, Held
<1>1. inv[i].ticket \in Nat /\ inv[j].ticket \in Nat
  BY DEF IInv, TypeOK, InvocationType
<1>2. i # None
  OBVIOUS
<1>3. inv[i].home = b
  BY <1>2 DEF IInv, Structure, HomeInv
<1>4. b # None
  OBVIOUS
<1>5. KeyOf[b] = KeyOf[j]
  BY <1>3, <1>4 DEF IInv, Structure, HomeInv
<1>6. inv[j].ticket <= inv[i].ticket
  <2>1. CASE box[b].active = i
    BY <1>2, <1>5, <2>1 DEF FifoInv
  <2>2. CASE \E n \in DOMAIN box[b].pending : box[b].pending[n] = i
    BY <1>1, <1>5, <2>2 DEF FifoInv
  <2> QED
    BY <2>1, <2>2
<1> QED
  BY <1>1, <1>6

\* A critical section that thins the mapped mailbox b keeps the order.
LEMMA ThinStep ==
    ASSUME NEW mb, NEW bx \in [Invocations -> MailboxType],
           NEW v \in [Invocations -> InvocationType],
           NEW v2, NEW last \in Nat,
           Structure(mb, bx, v), FifoInv(bx, v, last),
           NEW b \in Invocations, NEW m \in MailboxType,
           mb[KeyOf[b]] = b,
           Thins(bx[b], m),
           Activates(v, v2, m)
    PROVE  FifoInv([bx EXCEPT ![b] = m], v2, last)
<1> DEFINE bx2 == [bx EXCEPT ![b] = m]
           q == bx[b].pending
           r == m.pending
<1>1. \A c \in Invocations : bx2[c] = IF c = b THEN m ELSE bx[c]
  OBVIOUS
<1> HIDE DEF bx2
<1>2. /\ q \in Seq(Invocations) /\ r \in Seq(Invocations)
      /\ DOMAIN q \subseteq Nat /\ DOMAIN r \subseteq Nat
      /\ \A n \in DOMAIN q : q[n] \in Invocations
      /\ \A n \in DOMAIN r : r[n] \in Invocations
      /\ m.active \in Invocations \cup {None}
      /\ bx[b].active \in Invocations \cup {None}
  BY DEF MailboxType
<1>3. \A j \in Invocations : v[j].ticket \in Nat /\ v[j].gen \in Nat /\ v2[j].ticket = v[j].ticket
                             /\ (v2[j].gen > 0 => v[j].gen > 0 \/ j = m.active)
  BY DEF InvocationType, Activates
<1>4. /\ \A n \in DOMAIN q : v[q[n]].ticket > 0
      /\ \A l, n \in DOMAIN q : l < n => v[q[l]].ticket < v[q[n]].ticket
      /\ \A j \in Invocations : KeyOf[j] = KeyOf[b] /\ v[j].gen > 0 =>
            /\ \A n \in DOMAIN q : v[j].ticket < v[q[n]].ticket
            /\ bx[b].active # None => v[j].ticket <= v[bx[b].active].ticket
  BY DEF FifoInv
<1>5. Within(r, q) /\ Ordered(r, q)
  BY DEF Thins
<1> HIDE DEF q, r
<1>6. \A n \in DOMAIN r : v2[r[n]].ticket > 0
  BY <1>2, <1>3, <1>4, <1>5 DEF Within
<1>7. \A l, n \in DOMAIN r : l < n => v2[r[l]].ticket < v2[r[n]].ticket
  <2> SUFFICES ASSUME NEW l \in DOMAIN r, NEW n \in DOMAIN r, l < n
               PROVE  v2[r[l]].ticket < v2[r[n]].ticket
    OBVIOUS
  <2>1. PICK x \in DOMAIN q, y \in DOMAIN q : x < y /\ r[l] = q[x] /\ r[n] = q[y]
    BY <1>5 DEF Ordered
  <2>2. v[q[x]].ticket < v[q[y]].ticket
    BY <1>4, <2>1
  <2>3. r[l] \in Invocations /\ r[n] \in Invocations
    BY <1>2
  <2> QED
    BY <1>3, <2>1, <2>2, <2>3
<1>8. ASSUME NEW j \in Invocations, KeyOf[j] = KeyOf[b], v2[j].gen > 0
      PROVE  /\ \A n \in DOMAIN r : v2[j].ticket < v2[r[n]].ticket
             /\ m.active # None => v2[j].ticket <= v2[m.active].ticket
  <2>1. CASE m.active \in {None, bx[b].active}
    <3>1. v[j].gen > 0
      BY <1>2, <1>3, <1>8, <2>1 DEF Structure, HomeInv
    <3>2. \A n \in DOMAIN r : v2[j].ticket < v2[r[n]].ticket
      <4> TAKE n \in DOMAIN r
      <4>1. PICK x \in DOMAIN q : r[n] = q[x]
        BY <1>5 DEF Within
      <4>2. v[j].ticket < v[q[x]].ticket
        BY <1>4, <1>8, <3>1
      <4> QED
        BY <1>2, <1>3, <4>1, <4>2
    <3>3. m.active # None => v2[j].ticket <= v2[m.active].ticket
      BY Zenon, <1>2, <1>3, <1>4, <1>8, <2>1, <3>1
    <3> QED
      BY <3>2, <3>3
  <2>2. ASSUME NEW k \in DOMAIN q, m.active = q[k],
               \A n \in DOMAIN r : \E x \in DOMAIN q : x > k /\ r[n] = q[x]
        PROVE  /\ \A n \in DOMAIN r : v2[j].ticket < v2[r[n]].ticket
               /\ m.active # None => v2[j].ticket <= v2[m.active].ticket
    <3>1. v[j].ticket <= v[q[k]].ticket
      <4>1. CASE v[j].gen > 0
        <5>1. v[j].ticket < v[q[k]].ticket
          BY <1>4, <1>8, <2>2, <4>1
        <5>2. q[k] \in Invocations
          BY <1>2, <2>2
        <5> QED
          BY <1>3, <5>1, <5>2
      <4>2. CASE ~(v[j].gen > 0)
        BY <1>3, <1>8, <2>2, <4>2
      <4> QED
        BY <4>1, <4>2
    <3>2. \A n \in DOMAIN r : v[q[k]].ticket < v[r[n]].ticket
      BY Zenon, <1>2, <1>4, <2>2
    <3>3. q[k] \in Invocations /\ \A n \in DOMAIN r : r[n] \in Invocations
      BY <1>2, <2>2
    <3>4. \A n \in DOMAIN r : v2[j].ticket < v2[r[n]].ticket
      <4> TAKE n \in DOMAIN r
      <4>1. v[q[k]].ticket < v[r[n]].ticket /\ r[n] \in Invocations
        BY <3>2, <3>3
      <4> QED
        BY <1>3, <3>1, <3>3, <4>1
    <3>5. v2[j].ticket <= v2[m.active].ticket
      BY <1>3, <2>2, <3>1, <3>3
    <3> QED
      BY <3>4, <3>5
  <2> QED
    BY <2>1, <2>2 DEF Thins, q, r
<1>9. ASSUME NEW c \in Invocations
      PROVE  LET p == bx2[c].pending IN
             /\ \A n \in DOMAIN p : v2[p[n]].ticket > 0
             /\ \A l, n \in DOMAIN p : l < n => v2[p[l]].ticket < v2[p[n]].ticket
             /\ \A j \in Invocations : KeyOf[j] = KeyOf[c] /\ v2[j].gen > 0 =>
                   /\ \A n \in DOMAIN p : v2[j].ticket < v2[p[n]].ticket
                   /\ bx2[c].active # None => v2[j].ticket <= v2[bx2[c].active].ticket
  <2>1. CASE c = b
    BY <1>1, <1>6, <1>7, <1>8, <2>1 DEF r
  <2>2. CASE c # b
    <3> DEFINE p == bx[c].pending
    <3>1. bx2[c] = bx[c]
      BY <1>1, <2>2
    <3>2. p \in Seq(Invocations) /\ bx[c].active \in Invocations \cup {None}
      BY Zenon DEF MailboxType
    <3>3. \A n \in DOMAIN p : p[n] \in Invocations
      BY <3>2
    <3>4. /\ \A n \in DOMAIN p : v[p[n]].ticket > 0
          /\ \A l, n \in DOMAIN p : l < n => v[p[l]].ticket < v[p[n]].ticket
      BY DEF FifoInv
    <3>5. ASSUME NEW j \in Invocations, KeyOf[j] = KeyOf[c], v2[j].gen > 0
          PROVE  /\ \A n \in DOMAIN p : v[j].ticket < v[p[n]].ticket
                 /\ bx[c].active # None => v[j].ticket <= v[bx[c].active].ticket
      <4>1. CASE KeyOf[c] = KeyOf[b]
        <5>1. p = <<>> /\ bx[c].active = None
          BY <2>2, <4>1 DEF Structure, MapInv
        <5> QED
          BY <5>1
      <4>2. CASE KeyOf[c] # KeyOf[b]
        <5>1. m.active # None => KeyOf[m.active] = KeyOf[b]
          <6>1. m.active # None => v[m.active].home = b
            BY <1>2 DEF Structure, HomeInv, Thins, q
          <6>2. b # None
            OBVIOUS
          <6> QED
            BY <1>2, <6>1, <6>2 DEF Structure, HomeInv
        <5>2. j # m.active
          BY <3>5, <4>2, <5>1
        <5>3. v[j].gen > 0
          BY <1>3, <3>5, <5>2
        <5> QED
          BY <3>5, <5>3 DEF FifoInv
      <4> QED
        BY <4>1, <4>2
    <3> HIDE DEF p
    <3>6. /\ \A n \in DOMAIN p : v2[p[n]].ticket > 0
          /\ \A l, n \in DOMAIN p : l < n => v2[p[l]].ticket < v2[p[n]].ticket
      BY <1>3, <3>3, <3>4
    <3>7. \A j \in Invocations : KeyOf[j] = KeyOf[c] /\ v2[j].gen > 0 =>
                   /\ \A n \in DOMAIN p : v2[j].ticket < v2[p[n]].ticket
                   /\ bx[c].active # None => v2[j].ticket <= v2[bx[c].active].ticket
      BY <1>3, <3>2, <3>3, <3>5
    <3> QED
      BY <3>1, <3>6, <3>7 DEF p
  <2> QED
    BY <2>1, <2>2
<1>10. \A i \in Invocations : v2[i].ticket <= last
  BY <1>3 DEF FifoInv
<1> QED
  BY <1>9, <1>10 DEF FifoInv, bx2

\* A step that leaves queues, active invocations, tickets and generations alone
\* keeps the order.
LEMMA OrderUntouched ==
    ASSUME IInv, FifoInv(box, inv, sched.accepted),
           sched'.accepted = sched.accepted,
           \A i \in Invocations : inv'[i].ticket = inv[i].ticket /\ inv'[i].gen = inv[i].gen,
           \A b \in Invocations : box'[b].pending = box[b].pending
                                  /\ box'[b].active = box[b].active
    PROVE  FifoInv(box, inv, sched.accepted)'
<1>1. \A b \in Invocations : box[b].pending \in Seq(Invocations)
                             /\ box[b].active \in Invocations \cup {None}
  BY DEF IInv, TypeOK, MailboxType
<1>2. \A b \in Invocations : \A n \in DOMAIN box[b].pending : box[b].pending[n] \in Invocations
  BY <1>1
<1>3. \A i \in Invocations : inv'[i].ticket <= sched'.accepted
  BY DEF FifoInv
<1>4. ASSUME NEW b \in Invocations
      PROVE  LET p == box'[b].pending IN
             /\ \A n \in DOMAIN p : inv'[p[n]].ticket > 0
             /\ \A l, n \in DOMAIN p : l < n => inv'[p[l]].ticket < inv'[p[n]].ticket
             /\ \A j \in Invocations : KeyOf[j] = KeyOf[b] /\ inv'[j].gen > 0 =>
                   /\ \A n \in DOMAIN p : inv'[j].ticket < inv'[p[n]].ticket
                   /\ box'[b].active # None => inv'[j].ticket <= inv'[box'[b].active].ticket
  <2> DEFINE p == box[b].pending
             a == box[b].active
  <2>1. /\ \A n \in DOMAIN p : inv[p[n]].ticket > 0
        /\ \A l, n \in DOMAIN p : l < n => inv[p[l]].ticket < inv[p[n]].ticket
        /\ \A j \in Invocations : KeyOf[j] = KeyOf[b] /\ inv[j].gen > 0 =>
              /\ \A n \in DOMAIN p : inv[j].ticket < inv[p[n]].ticket
              /\ a # None => inv[j].ticket <= inv[a].ticket
    BY DEF FifoInv
  <2>2. /\ a \in Invocations \cup {None} /\ \A n \in DOMAIN p : p[n] \in Invocations
        /\ box'[b].pending = p /\ box'[b].active = a
    BY <1>1, <1>2
  <2> HIDE DEF p, a
  <2>3. /\ \A n \in DOMAIN p : inv'[p[n]].ticket > 0
        /\ \A l, n \in DOMAIN p : l < n => inv'[p[l]].ticket < inv'[p[n]].ticket
    BY <2>1, <2>2
  <2>4. \A j \in Invocations : KeyOf[j] = KeyOf[b] /\ inv'[j].gen > 0 =>
              /\ \A n \in DOMAIN p : inv'[j].ticket < inv'[p[n]].ticket
              /\ a # None => inv'[j].ticket <= inv'[a].ticket
    BY <2>1, <2>2
  <2> QED
    BY <2>2, <2>3, <2>4
<1> QED
  BY <1>3, <1>4 DEF FifoInv

\* The order of the queues in the current state.
Fifo == FifoInv(box, inv, sched.accepted)

\* Dropping what stands before position d of a queue keeps the order.
LEMMA SuffixOrder ==
    ASSUME NEW q \in Seq(Invocations), NEW d \in 0..Len(q)
    PROVE  LET r == SubSeq(q, d + 1, Len(q)) IN
           /\ r \in Seq(Invocations) /\ Len(r) = Len(q) - d
           /\ \A n \in DOMAIN r : n + d \in DOMAIN q /\ r[n] = q[n + d]
<1> DEFINE r == SubSeq(q, d + 1, Len(q))
<1>1. d + 1 \in 1..(Len(q) + 1) /\ Len(q) \in (d + 1 - 1)..Len(q)
  OBVIOUS
<1>2. /\ r \in Seq(Invocations) /\ Len(r) = Len(q) - (d + 1) + 1
      /\ \A n \in 1..(Len(q) - (d + 1) + 1) : r[n] = q[d + 1 + n - 1]
  BY <1>1, SubSeqProperties
<1> HIDE DEF r
<1>3. Len(r) = Len(q) - d /\ DOMAIN r = 1..(Len(q) - d) /\ DOMAIN q = 1..Len(q)
  BY <1>2
<1>4. \A n \in DOMAIN r : n + d \in DOMAIN q /\ r[n] = q[n + d]
  <2> TAKE n \in DOMAIN r
  <2>1. n \in 1..(Len(q) - (d + 1) + 1) /\ d + 1 + n - 1 = n + d
    BY <1>3
  <2>2. r[n] = q[n + d]
    BY Zenon, <1>2, <2>1
  <2>3. n + d \in DOMAIN q
    BY <1>3
  <2> QED
    BY <2>2, <2>3
<1> QED
  BY Zenon, <1>2, <1>3, <1>4 DEF r

\* So does erasing one position.
LEMMA RemoveAtOrder ==
    ASSUME NEW q \in Seq(Invocations), NEW n \in 1..Len(q)
    PROVE  Ordered(RemoveAt(q, n), q)
<1> DEFINE a == SubSeq(q, 1, n - 1)
           b == SubSeq(q, n + 1, Len(q))
           r == a \o b
<1>1. /\ a \in Seq(Invocations) /\ Len(a) = n - 1
      /\ \A k \in 1..(n - 1) : a[k] = q[k]
  <2>1. 1 \in 1..(Len(q) + 1) /\ n - 1 \in (1 - 1)..Len(q)
    OBVIOUS
  <2>2. /\ a \in Seq(Invocations) /\ Len(a) = (n - 1) - 1 + 1
        /\ \A k \in 1..((n - 1) - 1 + 1) : a[k] = q[1 + k - 1]
    BY <2>1, SubSeqProperties
  <2> HIDE DEF a
  <2> QED
    BY <2>2
<1>2. /\ b \in Seq(Invocations) /\ Len(b) = Len(q) - n
      /\ \A k \in DOMAIN b : k + n \in DOMAIN q /\ b[k] = q[k + n]
  BY SuffixOrder
<1> HIDE DEF a, b
<1>3. /\ DOMAIN r = 1..(Len(q) - 1)
      /\ \A k \in 1..(Len(q) - 1) : r[k] = IF k < n THEN q[k] ELSE q[k + 1]
  <2>1. DOMAIN r = 1..(Len(q) - 1)
    BY <1>1, <1>2
  <2>2. ASSUME NEW k \in 1..(Len(q) - 1)
        PROVE  r[k] = IF k < n THEN q[k] ELSE q[k + 1]
    <3>1. CASE k < n
      BY <1>1, <1>2, <3>1
    <3>2. CASE ~(k < n)
      <4>1. r[k] = b[k - (n - 1)] /\ k - (n - 1) \in DOMAIN b
        <5>1. k - (n - 1) \in 1..Len(b) /\ k > Len(a) /\ k \in 1..(Len(a) + Len(b))
          BY <1>1, <1>2, <3>2
        <5>2. r[k] = b[k - Len(a)]
          <6>1. r[k] = IF k <= Len(a) THEN a[k] ELSE b[k - Len(a)]
            <7>1. \A j \in 1..Len(a) + Len(b) :
                    (a \o b)[j] = IF j <= Len(a) THEN a[j] ELSE b[j - Len(a)]
              <8>1. a \in Seq(Invocations) /\ b \in Seq(Invocations)
                BY <1>1, <1>2
              <8> QED
                BY ONLY <8>1, ConcatProperties
            <7> QED
              BY <5>1, <7>1
          <6>2. ~(k <= Len(a))
            BY <1>1, <5>1
          <6> QED
            BY <6>1, <6>2
        <5> QED
          BY <1>1, <1>2, <5>1, <5>2
      <4>2. k - (n - 1) + n = k + 1
        OBVIOUS
      <4> QED
        BY Zenon, <1>2, <3>2, <4>1, <4>2
    <3> QED
      BY Zenon, <3>1, <3>2
  <2> QED
    BY Zenon, <2>1, <2>2
<1>4. RemoveAt(q, n) = r
  BY DEF RemoveAt, a, b
<1> HIDE DEF r
<1>5. ASSUME NEW l \in DOMAIN r, NEW k \in DOMAIN r, l < k
      PROVE  \E x, y \in DOMAIN q : x < y /\ r[l] = q[x] /\ r[k] = q[y]
  <2> DEFINE x == IF l < n THEN l ELSE l + 1
             y == IF k < n THEN k ELSE k + 1
  <2>1. x \in DOMAIN q /\ y \in DOMAIN q /\ x < y
    BY <1>3, <1>5
  <2>2. r[l] = q[x] /\ r[k] = q[y]
    BY Zenon, <1>3
  <2> QED
    BY <2>1, <2>2
<1> QED
  BY <1>4, <1>5 DEF Ordered

\* prepare_next_locked drops the oldest and activates the oldest of the rest.
LEMMA PrepareNextThins ==
    ASSUME NEW v, NEW m \in MailboxType, TypeOK
    PROVE  Thins(m, PrepareNext(v, m))
<1> DEFINE q == m.pending
           d == Len(Unregistered(v, q))
           rest == SubSeq(q, d + 1, Len(q))
           parked == [m EXCEPT !.pending = rest, !.settled = @ + d,
                               !.status = IF sched.stopping THEN "Stopping"
                                                            ELSE "Idle"]
           p == PrepareNext(v, m)
<1>1. q \in Seq(Invocations) /\ Len(q) \in Nat
  BY DEF MailboxType
<1>2. d \in 0..Len(q)
  BY <1>1, UnregisteredPrefix
<1> HIDE DEF d
<1>3. /\ rest \in Seq(Invocations)
      /\ \A n \in DOMAIN rest : n + d \in DOMAIN q /\ rest[n] = q[n + d]
  BY Zenon, <1>1, <1>2, SuffixOrder
<1> HIDE DEF rest
<1>4. parked.pending = rest /\ parked.active = m.active
  BY DEF MailboxType
<1>5. CASE rest = <<>> \/ sched.cancelling
  <2>1. p.pending = rest /\ p.active = m.active
    BY Zenon, <1>4, <1>5 DEF PrepareNext, rest, d
  <2> HIDE DEF p, q
  <2>2. Within(rest, q)
    BY <1>3 DEF Within
  <2>3. \A l, n \in DOMAIN rest : l < n => l + d < n + d
    BY <1>2, <1>3
  <2>4. Ordered(rest, q)
    BY <1>3, <2>3 DEF Ordered
  <2> QED
    BY <2>1, <2>2, <2>4 DEF Thins, p, q
<1>6. CASE ~(rest = <<>> \/ sched.cancelling)
  <2> DEFINE tl == Tail(rest)
  <2>1. p = [parked EXCEPT !.pending = tl, !.active = Head(rest),
                           !.generation = @ + 1, !.status = "Runnable"]
    BY <1>6 DEF PrepareNext, rest, d
  <2>2. p.pending = tl /\ p.active = Head(rest)
    BY <2>1 DEF MailboxType
  <2>3. 1 \in DOMAIN rest /\ Head(rest) = rest[1]
    BY <1>3, <1>6
  <2>4. \A n \in DOMAIN tl : n \in Nat /\ n > 0 /\ n + 1 \in DOMAIN rest /\ tl[n] = rest[n + 1]
    BY <1>3, <1>6
  <2> HIDE DEF tl, p
  <2>5. 1 + d \in DOMAIN q /\ p.active = q[1 + d]
    BY <1>3, <2>2, <2>3
  <2>6. \A n \in DOMAIN tl : n + 1 + d \in DOMAIN q /\ tl[n] = q[n + 1 + d]
                             /\ n + 1 + d > 1 + d
    BY <1>2, <1>3, <2>4
  <2>7. \A l, n \in DOMAIN tl : l < n => l + 1 + d < n + 1 + d
    BY <1>2, <2>4
  <2> HIDE DEF q
  <2>8. Within(tl, q) /\ Ordered(tl, q)
    BY <2>6, <2>7 DEF Within, Ordered
  <2>9. \E k \in DOMAIN q :
            /\ p.active = q[k]
            /\ \A n \in DOMAIN tl : \E x \in DOMAIN q : x > k /\ tl[n] = q[x]
    BY <2>5, <2>6
  <2> QED
    BY <2>2, <2>8, <2>9 DEF Thins, p, q
<1> QED
  BY <1>5, <1>6

LEMMA CompleteActiveThins ==
    ASSUME TypeOK, NEW m \in MailboxType
    PROVE  Thins(m, CompleteActive(inv, m))
<1> DEFINE n == m.settled + 1
           x == [m EXCEPT !.active = None, !.settled = n]
<1>1. CompleteActive(inv, m) = PrepareNext(inv, x)
  BY DEF CompleteActive, MailboxType
<1>2. n \in Nat
  BY DEF MailboxType
<1> HIDE DEF n
<1>3. x \in MailboxType /\ x.active = None /\ x.pending = m.pending
  BY Zenon, <1>2 DEF MailboxType
<1> HIDE DEF x
<1>4. Thins(x, PrepareNext(inv, x))
  BY <1>3, PrepareNextThins
<1> QED
  BY <1>1, <1>3, <1>4 DEF Thins

\* Leaving a mailbox keeps the ticket.
LEMMA InvAfterActivates ==
    ASSUME NEW v \in [Invocations -> InvocationType], NEW m \in MailboxType,
           NEW gone, TypeOK
    PROVE  Activates(v, InvAfter(v, m, gone), m)
<1> DEFINE r == InvAfter(v, m, gone)
<1>1. \A i \in Invocations : r[i].gen = IF i = m.active /\ v[i].gen = 0
                                        THEN m.generation ELSE v[i].gen
  BY InvAfterFacts
<1>2. ASSUME NEW i \in Invocations
      PROVE  r[i].ticket = v[i].ticket
  <2>1. v[i] \in InvocationType
    OBVIOUS
  <2> DEFINE x == IF i \in gone THEN Destroyed(v[i]) ELSE v[i]
  <2>2. Destroyed(v[i]) \in InvocationType /\ Destroyed(v[i]).ticket = v[i].ticket
    <3>1. sched.accepted \in Nat
      BY DEF TypeOK, SchedType
    <3> QED
      BY Zenon, <2>1, <3>1, DestroyedFacts DEF Destroyed, InvocationType
  <2>3. x \in InvocationType /\ x.ticket = v[i].ticket
    BY <2>1, <2>2
  <2>4. r[i] = IF i = m.active /\ x.gen = 0 THEN [x EXCEPT !.gen = m.generation] ELSE x
    BY DEF InvAfter
  <2> HIDE DEF x, r
  <2>5. [x EXCEPT !.gen = m.generation].ticket = x.ticket
    BY <2>3 DEF InvocationType
  <2> QED
    BY <2>3, <2>4, <2>5
<1> HIDE DEF r
<1>3. Activates(v, r, m)
  BY <1>1, <1>2 DEF Activates
<1> QED
  BY <1>3 DEF r

\* Only an admission counts as accepted.
LEMMA DecrementAccepted ==
    ASSUME NEW s \in SchedType, NEW k \in Keys, NEW n \in Nat
    PROVE  DecrementPending(s, k, n).accepted = s.accepted
BY DEF DecrementPending, SchedType

\* Every critical section that takes invocations out of a mailbox keeps the order.
LEMMA SettleOrder ==
    ASSUME IInv, Fifo,
           NEW b \in Invocations, NEW m \in MailboxType, NEW evs \in Seq(EventType),
           NEW t, NEW rec,
           Settle(b, m, evs, t, rec),
           mailboxes[KeyOf[b]] = b, Thins(box[b], m)
    PROVE  Fifo'
<1>1. /\ box' = [box EXCEPT ![b] = m]
      /\ inv' = InvAfter(inv, m, EventInvs(evs))
      /\ sched' = DecrementPending(sched, KeyOf[b], Len(evs))
  BY DEF Settle
<1>2. /\ TypeOK /\ inv \in [Invocations -> InvocationType] /\ sched \in SchedType
      /\ box \in [Invocations -> MailboxType] /\ sched.accepted \in Nat
      /\ Structure(mailboxes, box, inv)
  BY Zenon DEF IInv, TypeOK, SchedType
<1>3. Activates(inv, inv', m)
  BY <1>1, <1>2, InvAfterActivates
<1>4. sched'.accepted = sched.accepted
  <2>1. KeyOf[b] \in Keys /\ Len(evs) \in Nat
    OBVIOUS
  <2> QED
    BY <1>1, <1>2, <2>1, DecrementAccepted
<1>5. FifoInv([box EXCEPT ![b] = m], inv', sched.accepted)
  BY Zenon, <1>2, <1>3, ThinStep DEF Fifo
<1> QED
  BY <1>1, <1>4, <1>5 DEF Fifo

\* The first half of an admission: the youngest ticket goes to the end of a queue.
LEMMA AdmitOrder ==
    ASSUME IInv, Fifo, NEW i \in Invocations, ~inv[i].submitted, NEW b \in Invocations,
           NEW x \in InvocationType, x.gen = inv[i].gen,
           x.ticket = sched.accepted + 1
    PROVE  LET push == [box[b] EXCEPT !.pending = Append(box[b].pending, i)] IN
           FifoInv([box EXCEPT ![b] = push], [inv EXCEPT ![i] = x], sched.accepted + 1)
<1> DEFINE q == Append(box[b].pending, i)
           push == [box[b] EXCEPT !.pending = q]
           bx == [box EXCEPT ![b] = push]
           v == [inv EXCEPT ![i] = x]
           last == sched.accepted
<1>1. /\ box \in [Invocations -> MailboxType] /\ inv \in [Invocations -> InvocationType]
      /\ box[b] \in MailboxType /\ box[b].pending \in Seq(Invocations)
      /\ last \in Nat
  BY Zenon DEF IInv, TypeOK, MailboxType, SchedType
<1>2. /\ DOMAIN q = DOMAIN box[b].pending \cup {Len(q)}
      /\ q[Len(q)] = i /\ \A n \in DOMAIN box[b].pending : q[n] = box[b].pending[n]
      /\ Len(q) \in Nat /\ \A n \in DOMAIN box[b].pending : n \in Nat /\ n < Len(q)
  <2> DEFINE p == box[b].pending
  <2>1. p \in Seq(Invocations) /\ q = Append(p, i)
    BY <1>1
  <2> HIDE DEF p, q
  <2>2. Len(p) \in Nat /\ DOMAIN p = 1..Len(p) /\ Len(q) = Len(p) + 1 /\ DOMAIN q = 1..Len(q)
    BY <2>1
  <2>3. q[Len(q)] = i /\ \A n \in DOMAIN p : q[n] = p[n]
    BY <2>1
  <2>4. DOMAIN q = DOMAIN p \cup {Len(q)} /\ Len(q) \in Nat
        /\ \A n \in DOMAIN p : n \in Nat /\ n < Len(q)
    BY <2>2
  <2> QED
    BY Zenon, <2>3, <2>4 DEF p
<1> HIDE DEF q
<1>3. push.active = box[b].active /\ push.pending = q
  BY <1>1 DEF MailboxType
<1> HIDE DEF push
<1>4. /\ \A c \in Invocations : bx[c] = IF c = b THEN push ELSE box[c]
      /\ \A j \in Invocations : v[j] = IF j = i THEN x ELSE inv[j]
  BY <1>1
<1> HIDE DEF bx, v, last
<1>5. inv[i].home = None /\ inv[i].gen = 0
  BY DEF IInv, Structure, HomeInv
<1>6. /\ v[i].gen = 0 /\ v[i].ticket = last + 1
      /\ \A j \in Invocations \ {i} : v[j] = inv[j] /\ inv[j].ticket \in Nat /\ inv[j].ticket <= last
  BY Zenon, <1>1, <1>4, <1>5 DEF InvocationType, Fifo, FifoInv, last
<1>7. \A j \in Invocations : v[j].ticket <= last + 1
  BY <1>1, <1>6
<1>8. ASSUME NEW c \in Invocations
      PROVE  LET p == bx[c].pending IN
             /\ \A n \in DOMAIN p : v[p[n]].ticket > 0
             /\ \A l, n \in DOMAIN p : l < n => v[p[l]].ticket < v[p[n]].ticket
             /\ \A j \in Invocations : KeyOf[j] = KeyOf[c] /\ v[j].gen > 0 =>
                   /\ \A n \in DOMAIN p : v[j].ticket < v[p[n]].ticket
                   /\ bx[c].active # None => v[j].ticket <= v[bx[c].active].ticket
  <2> DEFINE p == box[c].pending
             a == box[c].active
  <2>1. /\ bx[c].active = a /\ a \in Invocations \cup {None} /\ p \in Seq(Invocations)
        /\ \A n \in DOMAIN p : n \in Nat
    <3>1. box[c] \in MailboxType /\ bx[c].active = a
      BY <1>1, <1>3, <1>4
    <3>2. a \in Invocations \cup {None} /\ p \in Seq(Invocations)
      BY <3>1 DEF MailboxType
    <3> HIDE DEF p, a
    <3> QED
      BY <3>1, <3>2
  <2>2. /\ \A n \in DOMAIN p : p[n] \in Invocations \ {i}
        /\ a # None => a \in Invocations \ {i}
    <3>1. \A n \in DOMAIN p : p[n] \in Invocations
      BY <2>1
    <3>2. /\ \A n \in DOMAIN p : inv[p[n]].home = c
          /\ a # None => inv[a].home = c
      BY DEF IInv, Structure, HomeInv
    <3>3. c # None
      OBVIOUS
    <3> QED
      BY Zenon, <1>5, <2>1, <3>1, <3>2, <3>3
  <2>3. /\ \A n \in DOMAIN p : inv[p[n]].ticket > 0
        /\ \A l, n \in DOMAIN p : l < n => inv[p[l]].ticket < inv[p[n]].ticket
        /\ \A j \in Invocations : KeyOf[j] = KeyOf[c] /\ inv[j].gen > 0 =>
              /\ \A n \in DOMAIN p : inv[j].ticket < inv[p[n]].ticket
              /\ a # None => inv[j].ticket <= inv[a].ticket
    BY DEF Fifo, FifoInv
  <2> HIDE DEF p, a
  <2>4. /\ \A n \in DOMAIN p : v[p[n]].ticket > 0
        /\ \A l, n \in DOMAIN p : l < n => v[p[l]].ticket < v[p[n]].ticket
    BY <1>6, <2>2, <2>3
  <2>5. ASSUME NEW j \in Invocations, KeyOf[j] = KeyOf[c], v[j].gen > 0
        PROVE  /\ j # i
               /\ \A n \in DOMAIN p : v[j].ticket < v[p[n]].ticket
               /\ a # None => v[j].ticket <= v[a].ticket
    <3>1. j # i
      BY <1>6, <2>5
    <3> QED
      BY <1>6, <2>2, <2>3, <2>5, <3>1
  <2>6. CASE c # b
    <3>1. bx[c].pending = p
      BY <1>4, <2>6 DEF p
    <3> QED
      BY <2>1, <2>4, <2>5, <3>1
  <2>7. CASE c = b
    <3>1. /\ bx[c].pending = q /\ DOMAIN q = DOMAIN p \cup {Len(q)} /\ q[Len(q)] = i
          /\ \A n \in DOMAIN p : q[n] = p[n] /\ n \in Nat /\ n < Len(q)
      BY Zenon, <1>2, <1>3, <1>4, <2>7 DEF p
    <3>2. \A n \in DOMAIN q : v[q[n]].ticket > 0
      <4>1. v[i].ticket > 0
        BY <1>1, <1>6
      <4> QED
        BY Zenon, <2>4, <3>1, <4>1
    <3>3. ASSUME NEW l \in DOMAIN q, NEW n \in DOMAIN q, l < n
          PROVE  v[q[l]].ticket < v[q[n]].ticket
      <4>1. l \in DOMAIN p
        <5>1. l = Len(q) => FALSE
          <6>1. n = Len(q) \/ (n \in Nat /\ n < Len(q))
            BY Zenon, <3>1
          <6> DEFINE z == Len(q)
          <6>2. z \in Nat /\ (n = z \/ (n \in Nat /\ n < z))
            BY Zenon, <1>2, <6>1
          <6> HIDE DEF z
          <6>3. l = z => FALSE
            BY <3>3, <6>2
          <6> QED
            BY <6>3 DEF z
        <5> QED
          BY Zenon, <3>1, <5>1
      <4>2. CASE n \in DOMAIN p
        BY Zenon, <2>4, <3>1, <3>3, <4>1, <4>2
      <4>3. CASE n = Len(q)
        <5>1. v[q[n]].ticket = last + 1
          BY Zenon, <1>6, <3>1, <4>3
        <5>2. q[l] \in Invocations \ {i}
          BY Zenon, <2>2, <3>1, <4>1
        <5> QED
          BY <1>1, <1>6, <5>1, <5>2
      <4> QED
        BY Zenon, <3>1, <4>2, <4>3
    <3>4. ASSUME NEW j \in Invocations, KeyOf[j] = KeyOf[c], v[j].gen > 0
          PROVE  \A n \in DOMAIN q : v[j].ticket < v[q[n]].ticket
      <4>1. j # i /\ \A n \in DOMAIN p : v[j].ticket < v[q[n]].ticket
        BY <2>5, <3>1, <3>4
      <4>2. v[j].ticket < v[i].ticket
        BY <1>1, <1>6, <4>1
      <4> QED
        BY Zenon, <3>1, <4>1, <4>2
    <3> QED
      BY Zenon, <2>1, <2>5, <3>1, <3>2, <3>3, <3>4
  <2> QED
    BY <2>6, <2>7
<1> QED
  BY Zenon, <1>7, <1>8 DEF FifoInv, push, q, bx, v, last

LEMMA EnqueueAdmittedOrder ==
    ASSUME IInv, Fifo, NEW c \in Callers, NEW i \in Invocations,
           ~inv[i].submitted, EnqueueAdmitted(c, i)
    PROVE  Fifo'
<1> DEFINE k    == KeyOf[i]
           b    == IF mailboxes[k] = None THEN i ELSE mailboxes[k]
           s0   == [sched EXCEPT !.accepted = @ + 1]
           s    == IncrementPending(s0, i)
           reg  == ActorOf[k] \in sched.actors
           x    == [inv[i] EXCEPT !.submitted = TRUE, !.home = b, !.actor = reg,
                                  !.ticket = s.accepted]
           v    == [inv EXCEPT ![i] = x]
           push == [box[b] EXCEPT !.pending = Append(box[b].pending, i)]
           go   == push.status = "Idle" /\ ~push.claimed
           m    == IF go THEN PrepareNext(v, push) ELSE push
           evs  == IF go THEN UnregisteredEvents(v, push.pending) ELSE <<>>
           mb   == [mailboxes EXCEPT ![k] = b]
           bx   == [box EXCEPT ![b] = push]
           gone == EventInvs(evs)
<1>1. /\ TypeOK /\ k \in Keys
      /\ sched \in SchedType /\ mailboxes \in [Keys -> Invocations \cup {None}]
      /\ box \in [Invocations -> MailboxType] /\ inv \in [Invocations -> InvocationType]
      /\ inv[i] \in InvocationType
  BY DEF IInv, TypeOK
<1>2. b \in Invocations /\ KeyOf[b] = k /\ mailboxes[k] \in {None, b}
  BY <1>1 DEF IInv, Structure, MapInv
<1> HIDE DEF b
<1>3. s \in SchedType /\ s.accepted = sched.accepted + 1 /\ s.accepted \in Nat
  <2> DEFINE n == sched.accepted + 1
  <2>1. n \in Nat /\ s0 = [sched EXCEPT !.accepted = n]
    BY <1>1 DEF SchedType
  <2> HIDE DEF n, s0
  <2>2. s0 \in SchedType /\ s0.accepted = n
    BY <1>1, <2>1 DEF SchedType
  <2>3. s \in SchedType /\ s.accepted = s0.accepted
    <3>1. s \in SchedType
      BY <2>2, IncrementType
    <3>2. s.accepted = s0.accepted
      BY <2>2 DEF IncrementPending, SchedType
    <3> QED
      BY <3>1, <3>2
  <2> HIDE DEF s
  <2> QED
    BY <2>1, <2>2, <2>3 DEF n
<1>4. /\ box' = [box EXCEPT ![b] = m]
      /\ inv' = InvAfter(v, m, gone)
      /\ sched' = DecrementPending(s, k, Len(evs))
  BY Zenon, <1>1, <1>2 DEF EnqueueAdmitted, MailboxType, ThreadType, InvocationType, b
<1> HIDE DEF s0, s
<1>5. /\ x \in InvocationType /\ x.home = b /\ x.gen = inv[i].gen /\ x.submitted = TRUE
      /\ x.ticket = sched.accepted + 1
  <2>1. reg \in BOOLEAN
    OBVIOUS
  <2> DEFINE y == inv[i]
             tk == s.accepted
  <2>2. x = [y EXCEPT !.submitted = TRUE, !.home = b, !.actor = reg, !.ticket = tk]
    OBVIOUS
  <2>3. y \in InvocationType /\ tk \in Nat
    BY <1>1, <1>3
  <2> HIDE DEF reg, y, tk, x
  <2>4. /\ x \in InvocationType /\ x.home = b /\ x.gen = y.gen /\ x.submitted = TRUE
        /\ x.ticket = tk
    BY Zenon, <1>2, <2>1, <2>2, <2>3 DEF InvocationType
  <2> QED
    BY <1>3, <2>4 DEF y, tk
<1> HIDE DEF x
<1>6. push \in MailboxType /\ Structure(mb, bx, v)
  <2>1. ~inv[i].submitted /\ KeyOf[b] = KeyOf[i] /\ mailboxes[KeyOf[i]] \in {None, b}
    BY <1>2
  <2>2. LET p == [box[b] EXCEPT !.pending = Append(box[b].pending, i)] IN
           /\ p \in MailboxType /\ p.active = box[b].active
           /\ p.status = box[b].status /\ p.claimed = box[b].claimed
           /\ Structure([mailboxes EXCEPT ![KeyOf[i]] = b],
                        [box EXCEPT ![b] = p],
                        [inv EXCEPT ![i] = x])
    <3> HIDE DEF k
    <3> QED
      BY ONLY IInv, <1>2, <1>5, <2>1, AdmitStructure, i \in Invocations, Zenon
  <2> QED
    BY <2>2, Zenon
<1>7. FifoInv(bx, v, sched.accepted + 1)
  <2> HIDE DEF k
  <2> QED
    BY Zenon, <1>2, <1>5, AdmitOrder
<1>8. /\ v \in [Invocations -> InvocationType]
      /\ bx \in [Invocations -> MailboxType]
      /\ bx[b] = push /\ mb[KeyOf[b]] = b
  BY <1>1, <1>2, <1>5, <1>6
<1>9. box' = [bx EXCEPT ![b] = m]
  BY Zenon, <1>1, <1>2, <1>4
<1> HIDE DEF v, bx, mb
<1>10. push.pending \in Seq(Invocations)
  BY Zenon, <1>6 DEF MailboxType
<1> HIDE DEF push
<1>11. m \in MailboxType /\ Thins(push, m)
  <2>1. CASE go
    <3>1. m = PrepareNext(v, push)
      BY <2>1
    <3> HIDE DEF m
    <3> QED
      BY <1>1, <1>6, <3>1, PrepareNextFacts, PrepareNextThins
  <2>2. CASE ~go
    BY <1>6, <2>2 DEF Thins, Within, Ordered
  <2> QED
    BY <2>1, <2>2
<1>12. evs \in Seq(EventType)
  <2>1. UnregisteredEvents(v, push.pending) \in Seq(EventType)
    BY <1>1, <1>10, UnregisteredEventsType
  <2> QED
    BY <2>1
<1> HIDE DEF m, evs, gone
<1>13. Activates(v, inv', m)
  BY <1>1, <1>4, <1>8, <1>11, InvAfterActivates
<1>14. FifoInv([bx EXCEPT ![b] = m], inv', sched.accepted + 1)
  <2>1. sched.accepted + 1 \in Nat
    BY <1>3
  <2> QED
    BY Zenon, <1>2, <1>6, <1>7, <1>8, <1>11, <1>13, <2>1, ThinStep
<1>15. sched'.accepted = sched.accepted + 1
  <2>1. Len(evs) \in Nat
    BY <1>12
  <2> QED
    BY <1>1, <1>3, <1>4, <2>1, DecrementAccepted
<1> QED
  BY <1>9, <1>14, <1>15 DEF Fifo

\* complete_active_locked, whoever calls it, keeps the order.
LEMMA CompletionOrder ==
    ASSUME IInv, Fifo, NEW b \in Invocations, box[b].active # None,
           NEW m2 \in MailboxType,
           m2.pending = CompleteActive(inv, box[b]).pending,
           m2.active = CompleteActive(inv, box[b]).active,
           NEW r \in Results, NEW t, NEW rec,
           Settle(b, m2, <<Event(box[b].active, r)>>
                         \o UnregisteredEvents(inv, box[b].pending), t, rec)
    PROVE  Fifo'
<1> DEFINE m == CompleteActive(inv, box[b])
           evs == <<Event(box[b].active, r)>> \o UnregisteredEvents(inv, box[b].pending)
<1>1. TypeOK /\ box[b] \in MailboxType
  BY DEF IInv, TypeOK
<1>2. Thins(box[b], m)
  BY <1>1, CompleteActiveThins
<1>3. evs \in Seq(EventType)
  BY <1>1, CompletionEvents
<1>4. mailboxes[KeyOf[b]] = b
  BY DEF IInv, Structure, MapInv
<1>5. Settle(b, m2, evs, t, rec)
  OBVIOUS
<1>6. m2.pending = m.pending /\ m2.active = m.active
  OBVIOUS
<1> HIDE DEF m, evs
<1>7. Thins(box[b], m2)
  BY <1>2, <1>6 DEF Thins
<1> QED
  BY <1>3, <1>4, <1>5, <1>7, SettleOrder

LEMMA SettleActiveOrder ==
    ASSUME IInv, Fifo, NEW b \in Invocations, box[b].active # None,
           NEW r \in Results, NEW t, NEW rec, NEW then, SettleActive(b, r, t, rec, then)
    PROVE  Fifo'
<1> DEFINE m == CompleteActive(inv, box[b])
           evs == <<Event(box[b].active, r)>> \o UnregisteredEvents(inv, box[b].pending)
           d == Deliver([rec EXCEPT !.request = m.active, !.cur = None], evs, then)
<1>1. TypeOK /\ box[b] \in MailboxType
  BY DEF IInv, TypeOK
<1>2. m \in MailboxType
  BY <1>1, CompleteActiveFacts
<1>3. Settle(b, m, evs, t, d)
  BY DEF SettleActive
<1> HIDE DEF d
<1> QED
  BY Zenon, <1>2, <1>3, CompletionOrder

\* cancel erases one queued invocation, or completes the active one.
LEMMA CancelOrder ==
    ASSUME IInv, Fifo, NEW c \in Callers, NEW k \in Keys, NEW msg \in Messages,
           Cancel(c, k, msg)
    PROVE  Fifo'
<1> DEFINE b == mailboxes[k]
           q == box[b].pending
           matches == {n \in 1..Len(q) : MessageOf[q[n]] = msg}
<1>1. b \in Invocations /\ KeyOf[b] = k
  BY DEF Cancel, IInv, TypeOK, Structure, MapInv
<1>2. q \in Seq(Invocations) /\ box[b] \in MailboxType
  BY <1>1 DEF IInv, TypeOK, MailboxType
<1>3. CASE matches # {} /\ CancelPending(c, b, Min(matches))
  <2> DEFINE n == Min(matches)
             rest == RemoveAt(q, n)
             s == box[b].settled + 1
             m == [box[b] EXCEPT !.pending = rest, !.settled = s]
             evs == <<Event(q[n], "cancelled")>>
  <2>1. matches \subseteq Nat /\ matches \subseteq 1..Len(q)
    BY <1>2
  <2>2. n \in matches
    BY Zenon, <1>3, <2>1, MinMember
  <2>3. n \in 1..Len(q)
    BY <2>1, <2>2
  <2>4. \E d : Settle(b, m, evs, c, d)
    BY Zenon, <1>2, <1>3 DEF CancelPending, MailboxType
  <2> HIDE DEF n, matches
  <2>5. rest \in Seq(Invocations) /\ Within(rest, q) /\ Ordered(rest, q)
    BY Zenon, <1>2, <2>3, RemoveAtWithin, RemoveAtOrder
  <2>6. s \in Nat /\ evs \in Seq(EventType)
    BY <1>2, <2>3 DEF MailboxType, Event, EventType, Results
  <2> HIDE DEF rest, s
  <2>7. m \in MailboxType /\ m.pending = rest /\ m.active = box[b].active
    BY Zenon, <1>2, <2>5, <2>6 DEF MailboxType
  <2> HIDE DEF m, evs
  <2>8. Thins(box[b], m)
    BY <2>5, <2>7 DEF Thins
  <2> QED
    BY <1>1, <2>4, <2>6, <2>7, <2>8, SettleOrder
<1>4. CASE box[b].active # None /\ CancelActive(c, b)
  <2>1. CASE box[b].status = "Running"
    <3>1. /\ inv' = [inv EXCEPT ![box[b].active].cancelAfterResume = TRUE]
          /\ box' = box /\ sched' = sched
      BY <1>4, <2>1 DEF CancelActive
    <3>2. \A i \in Invocations : inv'[i].ticket = inv[i].ticket /\ inv'[i].gen = inv[i].gen
      BY <3>1 DEF IInv, TypeOK, InvocationType
    <3> QED
      BY <3>1, <3>2, OrderUntouched DEF Fifo
  <2>2. CASE box[b].status # "Running"
    <3>1. SettleActive(b, "cancelled", c, [th[c] EXCEPT !.touched = b], "publish")
      BY <1>4, <2>2 DEF CancelActive
    <3>2. "cancelled" \in Results
      BY DEF Results
    <3> QED
      BY <1>1, <1>4, <3>1, <3>2, SettleActiveOrder
  <2> QED
    BY <2>1, <2>2
<1> QED
  BY <1>3, <1>4 DEF Cancel

LEMMA EnqueueOrder ==
    ASSUME IInv, Fifo, NEW c \in Callers, NEW i \in Invocations, Enqueue(c, i)
    PROVE  Fifo'
<1>1. ASSUME NEW r, EnqueueRejected(c, i, r)
      PROVE  Fifo'
  <2>1. sched'.accepted = sched.accepted
    BY <1>1 DEF EnqueueRejected, IInv, TypeOK, SchedType
  <2>2. \A j \in Invocations : inv'[j].ticket = inv[j].ticket /\ inv'[j].gen = inv[j].gen
    BY <1>1 DEF EnqueueRejected, IInv, TypeOK, InvocationType
  <2>3. box' = box
    BY <1>1 DEF EnqueueRejected
  <2> QED
    BY <2>1, <2>2, <2>3, OrderUntouched DEF Fifo
<1> QED
  BY <1>1, EnqueueAdmittedOrder DEF Enqueue

LEMMA SweepMailboxOrder ==
    ASSUME IInv, Fifo, NEW c \in Callers, NEW k \in Keys, SweepMailbox(c, k)
    PROVE  Fifo'
<1> DEFINE b    == mailboxes[k]
           q    == box[b].pending
           a    == box[b].active
           ends == SweepsActive(box[b])
           running == a # None /\ ~ends
           gone == IF ends THEN Append(q, a) ELSE q
           evs  == [n \in 1..Len(gone) |-> Event(gone[n], "cancelled")]
           st   == IF running THEN box[b].status ELSE "Stopping"
           cl   == IF a = None THEN FALSE ELSE box[b].claimed
           ac   == IF running THEN box[b].active ELSE None
           sn   == box[b].settled + Len(gone)
           m    == [box[b] EXCEPT !.pending = <<>>, !.settled = sn, !.status = st,
                                  !.claimed = cl, !.active = ac]
           F(i) == IF running /\ i = a THEN [inv[i] EXCEPT !.cancelAfterResume = TRUE]
                                       ELSE inv[i]
           v    == [i \in Invocations |-> F(i)]
<1>1. k \in unswept
  BY Zenon DEF SweepMailbox
<1>2. b \in Invocations /\ KeyOf[b] = k /\ mailboxes[KeyOf[b]] = b
  BY <1>1 DEF IInv, SweepInv, TypeOK, Structure, MapInv
<1>3. /\ TypeOK /\ box[b] \in MailboxType /\ box \in [Invocations -> MailboxType]
      /\ inv \in [Invocations -> InvocationType]
      /\ sched \in SchedType /\ sched.accepted \in Nat
      /\ Structure(mailboxes, box, inv)
  BY <1>2 DEF IInv, TypeOK, SchedType
<1>4. gone \in Seq(Invocations) /\ Len(gone) \in Nat
  BY <1>3 DEF MailboxType, SweepsActive
<1>5. /\ box' = [box EXCEPT ![b] = m]
      /\ inv' = InvAfter(v, m, EventInvs(evs))
      /\ sched' = DecrementPending(sched, k, Len(gone))
  BY Zenon, <1>3 DEF SweepMailbox, MailboxType
<1>6. /\ st \in Statuses /\ cl \in BOOLEAN /\ ac \in Invocations \cup {None}
      /\ sn \in Nat /\ ac \in {None, box[b].active}
  <2> HIDE DEF gone, b
  <2>1. /\ box[b].status \in Statuses /\ box[b].claimed \in BOOLEAN
        /\ box[b].active \in Invocations \cup {None} /\ box[b].settled \in Nat
        /\ "Stopping" \in Statuses
    BY <1>3 DEF MailboxType, Statuses
  <2>2. sn \in Nat
    BY <1>4, <2>1
  <2>3. cl \in BOOLEAN
    BY <2>1, Zenon
  <2> HIDE DEF running
  <2> QED
    BY Zenon, <2>1, <2>2, <2>3
<1>7. v \in [Invocations -> InvocationType]
      /\ \A i \in Invocations : v[i].ticket = inv[i].ticket /\ v[i].gen = inv[i].gen
  <2> HIDE DEF running, a
  <2>1. ASSUME NEW i \in Invocations
        PROVE  /\ F(i) \in InvocationType
               /\ F(i).ticket = inv[i].ticket /\ F(i).gen = inv[i].gen
    <3>1. inv[i] \in InvocationType
      BY <1>3
    <3> QED
      BY Zenon, <3>1 DEF InvocationType
  <2> HIDE DEF F
  <2> QED
    BY <2>1
<1> HIDE DEF st, cl, ac, sn, v, gone
<1>8. m \in MailboxType /\ m.pending = <<>> /\ m.active = ac
  <2> DEFINE y == box[b]
             e == <<>>
  <2>1. e \in Seq(Invocations) /\ y \in MailboxType
    BY <1>3
  <2>2. m = [y EXCEPT !.pending = e, !.settled = sn, !.status = st,
                      !.claimed = cl, !.active = ac]
    OBVIOUS
  <2> HIDE DEF y, e, m
  <2>3. m \in MailboxType /\ m.pending = e /\ m.active = ac
    BY Zenon, <1>6, <2>1, <2>2 DEF MailboxType
  <2> QED
    BY <2>3 DEF e
<1> HIDE DEF m, evs
<1>9. Thins(box[b], m)
  BY <1>6, <1>8 DEF Thins, Within, Ordered
<1>10. Activates(inv, inv', m)
  <2>1. Activates(v, InvAfter(v, m, EventInvs(evs)), m)
    BY <1>3, <1>7, <1>8, InvAfterActivates
  <2> QED
    BY <1>5, <1>7, <2>1 DEF Activates
<1>11. sched'.accepted = sched.accepted
  BY <1>3, <1>4, <1>5, DecrementAccepted
<1> HIDE DEF b
<1>12. FifoInv([box EXCEPT ![b] = m], inv', sched.accepted)
  BY Zenon, <1>2, <1>3, <1>8, <1>9, <1>10, ThinStep DEF Fifo
<1> QED
  BY <1>5, <1>11, <1>12 DEF Fifo

LEMMA PublishRequestOrder ==
    ASSUME IInv, Fifo, NEW t \in Threads, PublishRequest(t)
    PROVE  Fifo'
<1> DEFINE r == th[t].request
           b == inv[r].home
           rec == [th[t] EXCEPT !.request = None, !.touched = b, !.pc = "publish"]
           m   == CompleteActive(inv, box[b])
           evs == <<Event(box[b].active, "stopped")>>
                  \o UnregisteredEvents(inv, box[b].pending)
<1>1. r \in Invocations /\ inv[r].gen > 0
  BY ThreadFacts DEF PublishRequest, RecOK
<1>2. CASE IsCurrent(r) /\ Settle(b, m, evs, t, Deliver(rec, evs, "publish"))
  <2>1. b \in Invocations /\ box[b].active = r
    BY Zenon, <1>1, <1>2, CurrentIsActive
  <2>2. TypeOK /\ box[b] \in MailboxType /\ "stopped" \in Results /\ box[b].active # None
    BY <1>1, <2>1 DEF IInv, TypeOK, Results
  <2>3. m \in MailboxType
    BY <2>2, CompleteActiveFacts
  <2> DEFINE d == Deliver(rec, evs, "publish")
  <2>4. Settle(b, m, evs, t, d)
    BY Zenon, <1>2
  <2> HIDE DEF d
  <2> QED
    BY Zenon, <2>1, <2>2, <2>3, <2>4, CompletionOrder
<1>3. CASE sched'.accepted = sched.accepted /\ box' = box /\ inv' = inv
  BY <1>3, OrderUntouched DEF Fifo
<1>4. ASSUME NEW l, sched' = [sched EXCEPT !.late = l]
      PROVE  sched'.accepted = sched.accepted
  BY <1>4 DEF IInv, TypeOK, SchedType
<1> QED
  BY <1>2, <1>3, <1>4 DEF PublishRequest

LEMMA StartErrorOrder ==
    ASSUME IInv, Fifo, NEW w \in Workers, StartError(w)
    PROVE  Fifo'
<1> DEFINE i == th[w].cur
           b == inv[i].home
<1>1. i \in Invocations /\ inv[i].gen > 0
  <2>1. w \in Threads
    BY DEF Threads
  <2> QED
    BY <2>1, ThreadFacts DEF StartError, RecOK
<1>2. CASE IsCurrent(i)
  <2>1. b \in Invocations /\ box[b].active # None
    BY <1>1, <1>2, CurrentIsActive
  <2>2. SettleActive(b, "failed", w, th[w], "publish") /\ "failed" \in Results
    BY <1>2 DEF StartError, Results
  <2> QED
    BY <2>1, <2>2, SettleActiveOrder
<1>3. CASE ~IsCurrent(i)
  BY <1>3, OrderUntouched DEF StartError, Fifo
<1> QED
  BY <1>2, <1>3

LEMMA AfterResumeOrder ==
    ASSUME IInv, Fifo, NEW w \in Workers, AfterResume(w)
    PROVE  Fifo'
<1> DEFINE i == th[w].cur
           b == inv[i].home
<1>1. i \in Invocations /\ inv[i].gen > 0
  <2>1. w \in Threads
    BY DEF Threads
  <2> QED
    BY <2>1, ThreadFacts DEF AfterResume, RecOK
<1>2. CASE UNCHANGED <<sched, box, inv>>
  BY <1>2, OrderUntouched DEF Fifo
<1>3. ASSUME IsCurrent(i)
      PROVE  /\ b \in Invocations /\ box[b].active = i /\ box[b].active # None
             /\ TypeOK /\ box[b] \in MailboxType
  BY <1>1, <1>3, CurrentIsActive DEF IInv, TypeOK
<1>4. ASSUME IsCurrent(i), NEW r \in Results, FinishActive(w, b, r)
      PROVE  Fifo'
  <2> DEFINE m    == CompleteActive(inv, box[b])
             owns == ClaimsIdleMailbox(m)
             cl   == IF owns THEN TRUE ELSE m.claimed
             m2   == [m EXCEPT !.claimed = cl]
             evs  == <<Event(box[b].active, r)>>
                     \o UnregisteredEvents(inv, box[b].pending)
  <2>1. m \in MailboxType
    BY <1>3, <1>4, CompleteActiveFacts
  <2>2. \E d : Settle(b, m2, evs, w, d)
    BY Zenon, <1>4, <2>1 DEF FinishActive
  <2>3. cl \in BOOLEAN
    BY Zenon, <2>1 DEF MailboxType
  <2> HIDE DEF m, cl
  <2>4. m2 \in MailboxType /\ m2.pending = m.pending /\ m2.active = m.active
    BY Zenon, <2>1, <2>3 DEF MailboxType
  <2> HIDE DEF m2
  <2> QED
    BY Zenon, <1>3, <1>4, <2>2, <2>4, CompletionOrder DEF m
<1>5. ASSUME IsCurrent(i), KeepActive(w, b, i)
      PROVE  Fifo'
  <2>1. sched' = sched
    BY <1>5 DEF KeepActive
  <2>2. \A c \in Invocations : box'[c].pending = box[c].pending /\ box'[c].active = box[c].active
    <3> DEFINE st == IF inv[i].task = "yielded" \/ ReadyNow(i) THEN "Runnable" ELSE "Suspended"
    <3>1. box' = [box EXCEPT ![b].status = st]
      BY <1>5 DEF KeepActive
    <3>2. box \in [Invocations -> MailboxType]
      BY DEF IInv, TypeOK
    <3> HIDE DEF st, b
    <3> QED
      BY <3>1, <3>2 DEF MailboxType
  <2>3. \A j \in Invocations : inv'[j].ticket = inv[j].ticket /\ inv'[j].gen = inv[j].gen
    <3>1. \/ inv' = inv
          \/ inv' = [inv EXCEPT ![i] = [@ EXCEPT !.readyEpoch = 0,
                                                 !.completedEpoch = inv[i].epoch]]
      BY <1>5 DEF KeepActive
    <3>2. inv \in [Invocations -> InvocationType]
      BY DEF IInv, TypeOK
    <3> DEFINE e == inv[i].epoch
    <3>3. \/ inv' = inv
          \/ inv' = [inv EXCEPT ![i] = [@ EXCEPT !.readyEpoch = 0, !.completedEpoch = e]]
      BY <3>1
    <3> DEFINE U(x) == [x EXCEPT !.readyEpoch = 0, !.completedEpoch = e]
    <3>4. \A x \in InvocationType : U(x).ticket = x.ticket /\ U(x).gen = x.gen
      BY DEF InvocationType
    <3>5. inv' = inv \/ inv' = [inv EXCEPT ![i] = U(inv[i])]
      BY <3>3
    <3> HIDE DEF U, e, i
    <3>6. \A j \in Invocations : inv'[j] = inv[j] \/ inv'[j] = U(inv[j])
      BY <3>2, <3>5
    <3> QED
      BY <3>2, <3>4, <3>6
  <2> QED
    BY <2>1, <2>2, <2>3, OrderUntouched DEF Fifo
<1>6. {"cancelled", "ok", "failed"} \subseteq Results
  BY DEF Results
<1> QED
  BY <1>2, <1>4, <1>5, <1>6 DEF AfterResume

LEMMA IdleHandoffOrder ==
    ASSUME IInv, Fifo, NEW w \in Workers, IdleHandoff(w)
    PROVE  Fifo'
<1> DEFINE b == th[w].touched
           released == ReleaseClaim(box[b])
           m   == PrepareNext(inv, released)
           evs == UnregisteredEvents(inv, released.pending)
<1>1. b \in Invocations
  <2>1. w \in Threads
    BY DEF Threads
  <2> QED
    BY <2>1, ThreadFacts DEF IdleHandoff, RecOK
<1>2. TypeOK /\ box[b] \in MailboxType
  BY <1>1 DEF IInv, TypeOK
<1>3. CASE UNCHANGED <<sched, box, inv>>
  BY <1>3, OrderUntouched DEF Fifo
<1>4. ASSUME box[b].claimed, NEW d, Settle(b, m, evs, w, d)
      PROVE  Fifo'
  <2>1. /\ released \in MailboxType /\ released.pending = box[b].pending
        /\ released.active = box[b].active /\ released.pending \in Seq(Invocations)
    BY Zenon, <1>2 DEF ReleaseClaim, MailboxType
  <2> HIDE DEF released
  <2>2. m \in MailboxType /\ Thins(released, m)
    BY <1>2, <2>1, PrepareNextFacts, PrepareNextThins
  <2>3. evs \in Seq(EventType)
    BY <1>2, <2>1, UnregisteredEventsType
  <2>4. Settle(b, m, evs, w, d)
    BY <1>4
  <2> HIDE DEF m, evs
  <2>5. Thins(box[b], m)
    <3> DEFINE old == box[b]
    <3>1. old.pending = released.pending /\ old.active = released.active
      BY <2>1
    <3> HIDE DEF old
    <3>2. Thins(old, m)
      BY <2>2, <3>1 DEF Thins
    <3> QED
      BY <3>2 DEF old
  <2>6. mailboxes[KeyOf[b]] = b
    BY <1>1, <1>4 DEF IInv, Structure, MapInv
  <2> QED
    BY <1>1, <2>2, <2>3, <2>4, <2>5, <2>6, SettleOrder
<1> QED
  BY <1>3, <1>4 DEF IdleHandoff

\* The steps that move no invocation.
LEMMA StillOrder ==
    ASSUME IInv, Fifo,
           \/ \E a \in Actors : RegisterActor(a)
           \/ ReleaseActors
           \/ \E c \in Callers, mode \in ShutdownModes : Shutdown(c, mode)
           \/ \E c \in Callers : DrainDone(c) \/ SweepDone(c) \/ StopExecutor(c)
                                 \/ Joined(c) \/ ShutdownReturns(c)
           \/ \E t \in Threads : ReclaimIdleMailbox(t)
           \/ \E w \in Workers : TakeWork(w) \/ LocalHandoff(w)
           \/ UNCHANGED vars
    PROVE  Fifo'
<1>1. sched \in SchedType
  BY DEF IInv, TypeOK
<1>2. sched'.accepted = sched.accepted /\ box' = box /\ inv' = inv
  <2>1. CASE \E a \in Actors : RegisterActor(a)
    BY <1>1, <2>1 DEF RegisterActor, SchedType
  <2>2. CASE ReleaseActors
    BY <1>1, <2>2 DEF ReleaseActors, SchedType
  <2>3. CASE \E c \in Callers, mode \in ShutdownModes : Shutdown(c, mode)
    BY Zenon, <1>1, <2>3 DEF Shutdown, SchedType
  <2>4. CASE \E c \in Callers : DrainDone(c) \/ SweepDone(c) \/ StopExecutor(c)
                                \/ Joined(c) \/ ShutdownReturns(c)
    BY <1>1, <2>4 DEF DrainDone, SweepDone, StopExecutor, Joined, ShutdownReturns, SchedType
  <2>5. CASE \E t \in Threads : ReclaimIdleMailbox(t)
    BY <1>1, <2>5 DEF ReclaimIdleMailbox, SchedType
  <2>6. CASE \E w \in Workers : TakeWork(w) \/ LocalHandoff(w)
    BY Zenon, <2>6 DEF TakeWork, LocalHandoff
  <2>7. CASE UNCHANGED vars
    BY <2>7 DEF vars
  <2> QED
    BY <2>1, <2>2, <2>3, <2>4, <2>5, <2>6, <2>7
<1> QED
  BY <1>2, OrderUntouched DEF Fifo

\* The steps that change a status or a task, and neither queue nor generation.
LEMMA TaskOrder ==
    ASSUME IInv, Fifo,
           \/ \E t \in Threads : InvokeCompletion(t)
           \/ \E w \in Workers : Begin(w) \/ AttachTask(w)
                                 \/ \E s \in ResumeOutcomes : Resume(w, s)
           \/ \E o \in IoThreads : IoSteps(o)
    PROVE  Fifo'
<1> DEFINE SameInv == \A j \in Invocations : inv'[j].ticket = inv[j].ticket
                                             /\ inv'[j].gen = inv[j].gen
           SameBox == \A c \in Invocations : box'[c].pending = box[c].pending
                                             /\ box'[c].active = box[c].active
<1>1. /\ inv \in [Invocations -> InvocationType] /\ box \in [Invocations -> MailboxType]
  BY DEF IInv, TypeOK
<1>2. ASSUME NEW b, NEW st, box' = [box EXCEPT ![b].status = st]
      PROVE  SameBox
  BY <1>1, <1>2 DEF MailboxType
<1>3. SameInv /\ SameBox /\ sched' = sched
  <2>1. ASSUME NEW t \in Threads, InvokeCompletion(t)
        PROVE  SameInv /\ SameBox /\ sched' = sched
    <3> DEFINE i == Head(th[t].events).inv
    <3>1. /\ inv' = [inv EXCEPT ![i].settledAt = 0]
          /\ UNCHANGED <<box, sched>>
      BY Zenon, <2>1 DEF InvokeCompletion
    <3> HIDE DEF i
    <3> QED
      BY <1>1, <3>1 DEF InvocationType
  <2>2. ASSUME NEW w \in Workers, Begin(w)
        PROVE  SameInv /\ SameBox /\ sched' = sched
    BY Zenon, <1>2, <2>2 DEF Begin
  <2>3. ASSUME NEW w \in Workers, AttachTask(w)
        PROVE  SameInv /\ SameBox /\ sched' = sched
    BY <1>1, <2>3 DEF AttachTask, InvocationType
  <2>4. ASSUME NEW w \in Workers, NEW s \in ResumeOutcomes, Resume(w, s)
        PROVE  SameInv /\ SameBox /\ sched' = sched
    <3>1. \A x \in InvocationType : Resumed(x, s).ticket = x.ticket /\ Resumed(x, s).gen = x.gen
      BY DEF Resumed, InvocationType
    <3>2. /\ inv' = [inv EXCEPT ![th[w].cur] = Resumed(@, s)]
          /\ UNCHANGED <<box, sched>>
      BY <2>4 DEF Resume
    <3> QED
      BY <1>1, <3>1, <3>2
  <2>5. ASSUME NEW o \in IoThreads, NEW i \in Invocations, OperationCompletes(o, i)
        PROVE  SameInv /\ SameBox /\ sched' = sched
    BY <1>1, <2>5 DEF OperationCompletes, InvocationType
  <2>6. ASSUME NEW o \in IoThreads, OnExternalReady(o)
        PROVE  SameInv /\ SameBox /\ sched' = sched
    <3>1. sched' = sched
      BY <2>6 DEF OnExternalReady
    <3>2. SameInv
      <4> DEFINE i == th[o].cur
                 e == th[o].epoch
      <4>1. \/ inv' = inv
            \/ inv' = [inv EXCEPT ![i].readyEpoch = e]
            \/ inv' = [inv EXCEPT ![i].completedEpoch = e]
        BY <2>6 DEF OnExternalReady
      <4> HIDE DEF i, e
      <4>2. CASE inv' = [inv EXCEPT ![i].readyEpoch = e]
        BY <1>1, <4>2 DEF InvocationType
      <4>3. CASE inv' = [inv EXCEPT ![i].completedEpoch = e]
        BY <1>1, <4>3 DEF InvocationType
      <4> QED
        BY <4>1, <4>2, <4>3
    <3>3. SameBox
      BY Zenon, <1>2, <2>6 DEF OnExternalReady
    <3> QED
      BY <3>1, <3>2, <3>3
  <2> HIDE DEF SameInv, SameBox
  <2> QED
    BY <2>1, <2>2, <2>3, <2>4, <2>5, <2>6 DEF IoSteps
<1> QED
  BY <1>3, OrderUntouched DEF Fifo

\* Every step of every thread keeps the order.
THEOREM NextKeepsOrder == IInv /\ Fifo /\ [Next]_vars => Fifo'
<1> SUFFICES ASSUME IInv, Fifo, [Next]_vars
             PROVE  Fifo'
  OBVIOUS
<1>1. ASSUME NEW c \in Callers, CallerNext(c) \/ ShutdownSteps(c)
      PROVE  Fifo'
  BY <1>1, EnqueueOrder, CancelOrder, SweepMailboxOrder, StillOrder
     DEF CallerNext, ShutdownSteps
<1>2. ASSUME NEW t \in Threads, TailSteps(t)
      PROVE  Fifo'
  BY <1>2, TaskOrder, PublishRequestOrder, StillOrder DEF TailSteps
<1>3. ASSUME NEW w \in Workers, WorkerSteps(w)
      PROVE  Fifo'
  BY <1>3, StillOrder, TaskOrder, StartErrorOrder, AfterResumeOrder, IdleHandoffOrder
     DEF WorkerSteps
<1>4. ASSUME NEW o \in IoThreads, IoSteps(o)
      PROVE  Fifo'
  BY <1>4, TaskOrder
<1> QED
  BY <1>1, <1>2, <1>3, <1>4, StillOrder DEF Next

\* FIFO per key, whatever the number of threads, keys and invocations: an
\* invocation is activated only after every earlier admitted invocation of its
\* key has left the mailbox, also across cancel, both shutdown modes, the claim
\* of an idle mailbox and the reclamation of the mailbox object.
THEOREM FirstInFirstOut == Spec => []FifoPerKey
<1>1. Init => Fifo
  BY DEF Init, Fifo, FifoInv, NewMailbox, NewInvocation, NewSched
<1>2. IInv /\ Fifo => FifoPerKey
  BY FifoInvImpliesFifo DEF Fifo
<1> QED
  BY <1>1, <1>2, InvariantHolds, NextKeepsOrder, PTL DEF Spec

=============================================================================
