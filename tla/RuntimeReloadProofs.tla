------------------------ MODULE RuntimeReloadProofs ------------------------
(***************************************************************************)
(* Machine-checked proofs about RuntimeReload, for every set of root       *)
(* messages, reload attempts and closing threads.                          *)
(***************************************************************************)
EXTENDS RuntimeReload, TLAPS

USE ReloadAssumption

-----------------------------------------------------------------------------
(* Where an attempt is in its transaction.                                 *)

\* It holds the single-flight slot.
Txn(a) == th[a].pc \notin {"idle", "request", "done"}
\* It has closed the gate and waits for the routes of the old generation.
Draining(a) == th[a].pc \in {"drain", "arm", "drainWait", "recheck", "timeout", "swap"}
\* It has published its candidate and shuts the old generation down.
Handover(a) == th[a].pc \in RetirePcs /\ th[a].next = "activate"
Activating(a) == th[a].pc \in {"activate", "spawn"}
\* It has fixed the generation to replace.
Replacing(a) == Handover(a) \/ Draining(a) \/ th[a].pc \in {"build", "close"}
\* Its candidate has never been the active generation.
Unpublished(a) ==
    \/ th[a].pc \in {"idle", "request", "prepare", "build", "cutover", "close", "discard"}
    \/ Draining(a)
    \/ th[a].pc = "wake" /\ th[a].next = "discard"
    \/ th[a].pc \in RetirePcs /\ th[a].next = "release"
\* The threads that are inside RuntimeGeneration::shutdown of their target.
Stopping(t) == th[t].pc \in {"refuse", "stop", "join"}
\* The catalog coroutine of a generation runs.
Running(g) == gen[g].reconcile \in {"check", "publish"}

-----------------------------------------------------------------------------
(* The inductive invariant.                                                *)

\* One reload at a time.
SlotInv ==
    /\ \A a \in Attempts : Txn(a) => slot
    /\ \A a, b \in Attempts : Txn(a) /\ Txn(b) => a = b

\* The locals of an attempt: what it replaces and what it shuts down.
LocalsAt(a) ==
    /\ th[a].pc # "exchange"
    /\ ~Txn(a) => th[a].prev = None
    /\ th[a].pc \notin RetirePcs => th[a].target = None
    /\ th[a].pc \in RetirePcs => th[a].next \in {"release", "activate"}
    /\ th[a].pc \in RetirePcs /\ th[a].next = "release" => th[a].target = a
    /\ th[a].pc = "wake" => th[a].next \in {"discard", "release"}
    /\ Handover(a) => th[a].target = th[a].prev
    /\ Replacing(a) => th[a].prev \in Generations

\* It keeps the gate closed from the drain to the end of the cutover, and replaces
\* the active generation, which only a process shutdown can take away from it.
GateAt(a) ==
    /\ Draining(a) \/ Handover(a) \/ Activating(a) \/ th[a].pc = "reopen" => ~gate.open
    /\ Draining(a) \/ th[a].pc \in {"build", "close"} => active \in {th[a].prev, None}
    /\ Handover(a) \/ Activating(a) \/ th[a].pc = "reopen" => active \in {a, None}
    /\ th[a].pc = "swap" => gen[th[a].prev].inFlight = {}

\* Its candidate is nobody else's until it is published, and what it hands over from
\* is shut down by nobody else.
CandidateAt(a) ==
    /\ Unpublished(a) =>
        /\ a # active /\ a # platform
        /\ gen[a].inFlight = {} /\ gen[a].reconcile = "none"
        /\ \A t \in Threads : th[t].prev # a /\ (t # a => th[t].target # a)
        /\ ~Stopping(a) => ~gen[a].shutdown
    /\ th[a].pc \in {"idle", "request", "prepare", "build"} => ~gen[a].built
    /\ Handover(a) =>
        /\ th[a].pc = "retire" => ~gen[th[a].prev].shutdown
        /\ \A t \in Threads : t # a => th[t].target # th[a].prev

\* The candidate is younger than the generation it replaces, and starts its catalog
\* coroutine when that of the old generation has ended.
AgeAt(a) ==
    /\ th[a].pc = "cutover" /\ active # None => gen[a].id > gen[active].id
    /\ Draining(a) \/ Handover(a) \/ th[a].pc = "close" => gen[a].id > gen[th[a].prev].id
    /\ Handover(a) =>
        /\ \A g \in Generations : Running(g) => g = th[a].prev
        /\ platform # None => gen[platform].id <= gen[th[a].prev].id
    /\ Activating(a) =>
        /\ \A g \in Generations : ~Running(g)
        /\ platform # None => gen[platform].id < gen[a].id

AttemptAt(a) == LocalsAt(a) /\ GateAt(a) /\ CandidateAt(a) /\ AgeAt(a)
AttemptInv == \A a \in Attempts : AttemptAt(a)

\* A closing thread comes after begin_shutdown.
CloserAt(s) ==
    /\ th[s].pc \in {"idle", "wake", "exchange"} \cup RetirePcs
    /\ th[s].prev = None
    /\ th[s].pc \notin RetirePcs => th[s].target = None
    /\ th[s].pc \in RetirePcs => th[s].next = "idle"
    /\ th[s].pc = "wake" => th[s].next \in {"idle", "exchange"}
    /\ th[s].pc # "idle" => gate.shuttingDown
    /\ active # None => th[s].target = None
CloserInv == \A s \in Closers : CloserAt(s)

\* What a thread shuts down is not the active generation, and was marked by it first.
TargetInv ==
    /\ \A t \in Threads : th[t].target # None => th[t].target # active
    /\ \A t \in Threads : Stopping(t) => th[t].target \in Generations /\ gen[th[t].target].shutdown

\* While there is no process shutdown there is an active generation, and routes run in
\* no other.
ActiveInv ==
    /\ gate.shuttingDown => ~gate.open
    /\ active = None => gate.shuttingDown
    /\ active # None => ~gen[active].shutdown
    /\ ~gate.shuttingDown => \A g \in Generations : gen[g].inFlight # {} => g = active
    /\ OneGenerationServes

\* Every generation has somebody that will shut it down.
LeakInv ==
    \A g \in Generations : gen[g].built /\ ~gen[g].shutdown =>
        \/ g = active
        \/ g \in Attempts /\ Unpublished(g)
        \/ \E t \in Threads : th[t].target = g /\ th[t].pc = "retire"

\* At most one catalog coroutine runs, and none that is older than what is shown.
CatalogInv ==
    /\ \A g, h \in Generations : Running(g) /\ Running(h) => g = h
    /\ \A g \in Generations : Running(g) /\ platform # None => platform = g \/ gen[platform].id < gen[g].id
    /\ active # None =>
        /\ platform # None => gen[platform].id <= gen[active].id
        /\ \A g \in Generations : Running(g) =>
            g = active \/ \E a \in Attempts : Handover(a) /\ g = th[a].prev

IInv ==
    /\ TypeOK /\ SlotInv /\ AttemptInv /\ CloserInv /\ TargetInv /\ ActiveInv /\ LeakInv /\ CatalogInv

-----------------------------------------------------------------------------
(* The effect of a step on the parts of the state the invariant speaks of. *)

ThreadPcs == ReloadPcs \cup RetirePcs \cup {"idle", "wake", "exchange", "done"}

\* Only thread t moves.
Moves(t, pc, prev, target, next) ==
    /\ th' \in [Threads -> ThreadType]
    /\ \A u \in Threads : u # t => th'[u] = th[u]
    /\ th'[t].pc = pc /\ th'[t].prev = prev /\ th'[t].target = target /\ th'[t].next = next

\* The gate keeps its state.
GateKept == gate' \in GateType /\ gate'.open = gate.open /\ gate'.shuttingDown = gate.shuttingDown

\* A generation keeps what the invariant speaks of.
GenKept(g) ==
    /\ gen'[g].built = gen[g].built /\ gen'[g].id = gen[g].id /\ gen'[g].shutdown = gen[g].shutdown
    /\ gen'[g].inFlight = gen[g].inFlight /\ gen'[g].reconcile = gen[g].reconcile
GensKept == gen' \in [Generations -> GenerationType] /\ \A g \in Generations : GenKept(g)

LEMMA ThreadUpdate ==
    ASSUME TypeOK, NEW t \in Threads, NEW r \in ThreadType, th' = [th EXCEPT ![t] = r]
    PROVE  Moves(t, r.pc, r.prev, r.target, r.next) /\ th'[t] = r
BY DEF TypeOK, Moves

LEMMA ThreadGoes ==
    ASSUME TypeOK, NEW t \in Threads, NEW r \in ThreadType, th' = [th EXCEPT ![t] = r],
           NEW pc, NEW prev, NEW target, NEW next,
           r.pc = pc, r.prev = prev, r.target = target, r.next = next
    PROVE  Moves(t, pc, prev, target, next)
BY ThreadUpdate DEF Moves

LEMMA GotoFacts ==
    ASSUME TypeOK, NEW t \in Threads, NEW pc \in ThreadPcs, Goto(t, pc)
    PROVE  Moves(t, pc, th[t].prev, th[t].target, th[t].next)
<1> DEFINE r == [th[t] EXCEPT !.pc = pc]
<1>1. th[t] \in ThreadType
  BY DEF TypeOK
<1>2. th' = [th EXCEPT ![t] = r]
  BY <1>1 DEF Goto, TypeOK, ThreadType
<1>3. r \in ThreadType /\ r.pc = pc /\ r.prev = th[t].prev /\ r.target = th[t].target /\ r.next = th[t].next
  BY <1>1 DEF ThreadType, ThreadPcs
<1> HIDE DEF r
<1>4. Moves(t, r.pc, r.prev, r.target, r.next)
  BY <1>2, <1>3, ThreadUpdate
<1> QED
  BY <1>3, <1>4

LEMMA ReportFacts ==
    ASSUME TypeOK, NEW t \in Threads, NEW o \in Outcomes, Report(t, o)
    PROVE  Moves(t, "release", th[t].prev, th[t].target, th[t].next)
<1> DEFINE r == [th[t] EXCEPT !.pc = "release", !.outcome = o]
<1>1. th[t] \in ThreadType
  BY DEF TypeOK
<1>2. th' = [th EXCEPT ![t] = r]
  BY <1>1 DEF Report, TypeOK, ThreadType
<1>3. r \in ThreadType /\ r.pc = "release" /\ r.prev = th[t].prev /\ r.target = th[t].target /\ r.next = th[t].next
  BY <1>1 DEF ThreadType, ReloadPcs
<1> HIDE DEF r
<1>4. Moves(t, r.pc, r.prev, r.target, r.next)
  BY <1>2, <1>3, ThreadUpdate
<1> QED
  BY <1>3, <1>4

LEMMA CallRetireFacts ==
    ASSUME TypeOK, NEW t \in Threads, NEW g \in Generations \cup {None},
           NEW next \in {"release", "activate", "idle"}, NEW o \in Outcomes, CallRetire(t, g, next, o)
    PROVE  Moves(t, "retire", th[t].prev, g, next)
<1> DEFINE r == [th[t] EXCEPT !.pc = "retire", !.target = g, !.next = next, !.outcome = o]
<1>1. th[t] \in ThreadType
  BY DEF TypeOK
<1>2. th' = [th EXCEPT ![t] = r]
  BY <1>1 DEF CallRetire, TypeOK, ThreadType
<1>3. r \in ThreadType /\ r.pc = "retire" /\ r.prev = th[t].prev /\ r.target = g /\ r.next = next
  <2>1. "retire" \in ThreadPcs /\ next \in ReloadPcs \cup {"idle", "exchange"}
    BY DEF ThreadPcs, ReloadPcs, RetirePcs
  <2> QED
    BY <1>1, <2>1 DEF ThreadType, ThreadPcs
<1> HIDE DEF r
<1>4. Moves(t, r.pc, r.prev, r.target, r.next)
  BY <1>2, <1>3, ThreadUpdate
<1> QED
  BY <1>3, <1>4

-----------------------------------------------------------------------------
(* Steps that change nothing the invariant speaks of.                      *)

\* Every thread stays where it is; routes and catalog coroutines may end, and routes
\* start in the active generation while the gate is open.
Quiet ==
    /\ TypeOK'
    /\ \A t \in Threads : /\ th'[t].pc = th[t].pc /\ th'[t].prev = th[t].prev
                          /\ th'[t].target = th[t].target /\ th'[t].next = th[t].next
    /\ gate'.open = gate.open /\ gate'.shuttingDown = gate.shuttingDown
    /\ \A g \in Generations :
          /\ gen'[g].built = gen[g].built /\ gen'[g].id = gen[g].id /\ gen'[g].shutdown = gen[g].shutdown
          /\ gen[g].inFlight = {} => gen'[g].inFlight = {} \/ (g = active /\ gate.open)
          /\ gen[g].reconcile = "none" => gen'[g].reconcile = "none"
          /\ Running(g)' => Running(g)
    /\ active' = active /\ slot' = slot /\ platform' = platform

LEMMA QuietStep ==
    ASSUME IInv, Quiet
    PROVE  IInv'
<1> USE DEF Threads
<1> DEFINE Same(t) == /\ th'[t].pc = th[t].pc /\ th'[t].prev = th[t].prev
                      /\ th'[t].target = th[t].target /\ th'[t].next = th[t].next
           Kept(g) == /\ gen'[g].built = gen[g].built /\ gen'[g].id = gen[g].id /\ gen'[g].shutdown = gen[g].shutdown
                      /\ gen[g].inFlight = {} => gen'[g].inFlight = {} \/ (g = active /\ gate.open)
                      /\ gen[g].reconcile = "none" => gen'[g].reconcile = "none"
<1>1. /\ \A t \in Threads : Same(t)
      /\ \A g \in Generations : Kept(g) /\ (Running(g)' => Running(g))
  BY DEF Quiet
<1>2. gate'.open = gate.open /\ gate'.shuttingDown = gate.shuttingDown /\ active' = active /\ slot' = slot /\ platform' = platform
  BY DEF Quiet
<1>3. \A a \in Attempts : /\ Txn(a)' <=> Txn(a)
                          /\ Draining(a)' <=> Draining(a)
                          /\ Handover(a)' <=> Handover(a)
                          /\ Activating(a)' <=> Activating(a)
                          /\ Replacing(a)' <=> Replacing(a)
                          /\ Unpublished(a)' <=> Unpublished(a)
  BY <1>1 DEF Txn, Draining, Handover, Activating, Replacing, Unpublished
<1>4. \A t \in Threads : Stopping(t)' <=> Stopping(t)
  BY <1>1 DEF Stopping
<1>5. active \in Generations \cup {None} /\ platform \in Generations \cup {None}
  BY DEF IInv, TypeOK
<1>6. \A t \in Threads : th[t].prev \in Generations \cup {None} /\ th[t].target \in Generations \cup {None}
  BY DEF IInv, TypeOK, ThreadType
<1>7. SlotInv'
  BY <1>2, <1>3 DEF IInv, SlotInv
<1>8. AttemptInv'
  <2> SUFFICES ASSUME NEW a \in Attempts PROVE AttemptAt(a)'
    BY DEF AttemptInv
  <2>1. AttemptAt(a)
    BY DEF IInv, AttemptInv
  <2>2. a \in Generations /\ None \notin Generations
    BY DEF Generations
  <2>3. LocalsAt(a)'
    BY <1>1, <1>3, <2>1 DEF AttemptAt, LocalsAt
  <2>4. GateAt(a)'
    BY <1>1, <1>2, <1>3, <2>1, <2>2 DEF AttemptAt, LocalsAt, GateAt, Replacing, Draining
  <2>5. CandidateAt(a)'
    BY <1>1, <1>2, <1>3, <1>4, <2>1, <2>2 DEF AttemptAt, LocalsAt, CandidateAt, Replacing
  <2>6. AgeAt(a)'
    BY <1>1, <1>2, <1>3, <1>5, <2>1, <2>2 DEF AttemptAt, LocalsAt, AgeAt, Replacing
  <2> QED
    BY <2>3, <2>4, <2>5, <2>6 DEF AttemptAt
<1>9. CloserInv'
  BY <1>1, <1>2 DEF IInv, CloserInv, CloserAt
<1>10. TargetInv'
  BY <1>1, <1>2, <1>4, <1>6 DEF IInv, TargetInv
<1>11. ActiveInv'
  BY <1>1, <1>2, <1>5 DEF IInv, ActiveInv, OneGenerationServes
<1>12. LeakInv'
  BY <1>1, <1>2, <1>3 DEF IInv, LeakInv
<1>13. CatalogInv'
  BY <1>1, <1>2, <1>3, <1>5 DEF IInv, CatalogInv
<1> QED
  BY <1>7, <1>8, <1>9, <1>10, <1>11, <1>12, <1>13 DEF IInv, Quiet

-----------------------------------------------------------------------------
(* A step of one attempt that leaves the active generation in place.       *)

\* Attempt a moves, and touches no generation but its unpublished candidate.
AttemptMoves(a) ==
    /\ TypeOK' /\ SlotInv' /\ AttemptAt(a)'
    /\ \A u \in Threads : u # a => th'[u] = th[u]
    /\ th'[a].prev \in {th[a].prev, active, None}
    /\ th'[a].target \in {th[a].target, None} \/ (th'[a].target = a /\ Unpublished(a))
    /\ Stopping(a)' => Stopping(a) /\ th'[a].target = th[a].target
    /\ th[a].pc = "retire" /\ th[a].target # None => gen[th[a].target].shutdown
    /\ Unpublished(a) /\ gen'[a].built /\ ~gen[a].shutdown => Unpublished(a)'
    /\ Handover(a) => (Handover(a)' /\ th'[a].prev = th[a].prev) \/ ~Running(th[a].prev)
    /\ active' = active /\ platform' = platform
    /\ gate'.shuttingDown = gate.shuttingDown /\ (gate'.shuttingDown => ~gate'.open)
    /\ gate'.open => gate.open \/ Txn(a)
    /\ \A g \in Generations :
          /\ gen'[g].shutdown = gen[g].shutdown
          /\ gen'[g].inFlight = gen[g].inFlight /\ gen'[g].reconcile = gen[g].reconcile
          /\ g # a \/ ~Unpublished(a) => gen'[g].built = gen[g].built /\ gen'[g].id = gen[g].id

LEMMA AttemptStep ==
    ASSUME IInv, NEW a \in Attempts, AttemptMoves(a)
    PROVE  IInv'
<1> USE DEF Threads
<1>1. \A u \in Threads : u # a => th'[u] = th[u]
  BY DEF AttemptMoves
<1>2. /\ active' = active /\ platform' = platform
      /\ gate'.shuttingDown = gate.shuttingDown /\ (gate'.shuttingDown => ~gate'.open)
      /\ gate'.open => gate.open \/ Txn(a)
  BY DEF AttemptMoves
<1>3. \A g \in Generations :
          /\ gen'[g].shutdown = gen[g].shutdown
          /\ gen'[g].inFlight = gen[g].inFlight /\ gen'[g].reconcile = gen[g].reconcile
          /\ Running(g)' <=> Running(g)
          /\ g # a \/ ~Unpublished(a) => gen'[g].built = gen[g].built /\ gen'[g].id = gen[g].id
  BY DEF AttemptMoves, Running
<1>4. \A b \in Attempts \ {a} : /\ Txn(b)' <=> Txn(b)
                                /\ Draining(b)' <=> Draining(b)
                                /\ Handover(b)' <=> Handover(b)
                                /\ Activating(b)' <=> Activating(b)
                                /\ Replacing(b)' <=> Replacing(b)
                                /\ Unpublished(b)' <=> Unpublished(b)
  BY <1>1 DEF Txn, Draining, Handover, Activating, Replacing, Unpublished
<1>5. \A u \in Threads \ {a} : Stopping(u)' <=> Stopping(u)
  BY <1>1 DEF Stopping
<1>6. active \in Generations \cup {None} /\ platform \in Generations \cup {None}
  BY DEF IInv, TypeOK
<1>7. \A t \in Threads : th[t].prev \in Generations \cup {None} /\ th[t].target \in Generations \cup {None}
  BY DEF IInv, TypeOK, ThreadType
<1>8. a \in Generations /\ None \notin Generations /\ a \in Threads /\ a # None
  BY DEF Generations
<1>9. Unpublished(a) => /\ a # active /\ a # platform /\ ~Running(a)
                        /\ \A t \in Threads : th[t].prev # a /\ (t # a => th[t].target # a)
  BY DEF IInv, AttemptInv, AttemptAt, CandidateAt, Running
<1>10. \A g \in Generations : g \in {active, platform} \/ Running(g) \/ (\E t \in Threads : th[t].prev = g)
          => gen'[g].built = gen[g].built /\ gen'[g].id = gen[g].id
  BY <1>3, <1>9
<1>11. AttemptInv'
  <2> SUFFICES ASSUME NEW b \in Attempts, b # a PROVE AttemptAt(b)'
    BY DEF AttemptInv, AttemptMoves
  <2>1. AttemptAt(b) /\ th'[b] = th[b] /\ b \in Generations
    BY <1>1 DEF IInv, AttemptInv, Generations
  <2>2. Txn(b) => ~Txn(a) /\ th'[a].target = None
    BY <1>4 DEF IInv, SlotInv, AttemptMoves, AttemptAt, LocalsAt, Txn, RetirePcs
  <2>3. LocalsAt(b)'
    BY <1>4, <2>1 DEF AttemptAt, LocalsAt
  <2>4. GateAt(b)'
    <3>1. Draining(b) \/ Handover(b) \/ Activating(b) \/ th[b].pc = "reopen" => Txn(b)
      BY DEF Draining, Handover, Activating, Txn, RetirePcs
    <3> QED
      BY <1>2, <1>3, <1>4, <2>1, <2>2, <3>1 DEF AttemptAt, LocalsAt, GateAt, Replacing, Draining
  <2>5. CandidateAt(b)'
    <3>1. ASSUME Unpublished(b) PROVE th'[a].prev # b /\ th'[a].target # b
      BY <2>1, <3>1 DEF AttemptAt, CandidateAt, AttemptMoves, Generations
    <3>2. ASSUME Handover(b) PROVE th'[a].target # th[b].prev
      BY <1>8, <2>1, <2>2, <3>2 DEF AttemptAt, LocalsAt, Replacing, Handover, Txn, RetirePcs
    <3>3. gen'[b].shutdown = gen[b].shutdown /\ gen'[b].inFlight = gen[b].inFlight /\ gen'[b].reconcile = gen[b].reconcile
          /\ gen'[b].built = gen[b].built
      BY <1>3, <2>1
    <3>4. Handover(b) => gen'[th[b].prev].shutdown = gen[th[b].prev].shutdown
      BY <1>3, <2>1 DEF AttemptAt, LocalsAt, Replacing
    <3>5. Unpublished(b) => \A t \in Threads : th'[t].prev # b /\ (t # b => th'[t].target # b)
      BY <1>1, <2>1, <3>1 DEF AttemptAt, CandidateAt
    <3>6. Handover(b) => \A t \in Threads : t # b => th'[t].target # th[b].prev
      BY <1>1, <2>1, <3>2 DEF AttemptAt, CandidateAt
    <3> QED
      BY <1>2, <1>4, <1>5, <2>1, <3>3, <3>4, <3>5, <3>6 DEF AttemptAt, CandidateAt
  <2>6. AgeAt(b)'
    <3>1. gen'[b].id = gen[b].id /\ (active # None => gen'[active].id = gen[active].id)
          /\ (platform # None => gen'[platform].id = gen[platform].id)
      BY <1>3, <1>6, <1>10, <2>1
    <3>2. th[b].prev # None => gen'[th[b].prev].id = gen[th[b].prev].id
      BY <1>7, <1>10
    <3>3. Draining(b) \/ Handover(b) \/ th[b].pc = "close" => th[b].prev # None
      BY <1>8, <2>1 DEF AttemptAt, LocalsAt, Replacing
    <3> QED
      BY <1>2, <1>3, <1>4, <2>1, <3>1, <3>2, <3>3 DEF AttemptAt, AgeAt
  <2> QED
    BY <2>3, <2>4, <2>5, <2>6 DEF AttemptAt
<1>12. CloserInv'
  BY <1>1, <1>2 DEF IInv, CloserInv, CloserAt
<1>13. TargetInv'
  <2>1. th'[a].target # None => th'[a].target # active
    BY <1>8, <1>9 DEF IInv, TargetInv, AttemptMoves
  <2>2. Stopping(a)' => th'[a].target \in Generations /\ gen'[th'[a].target].shutdown
    BY <1>3, <1>8 DEF IInv, TargetInv, AttemptMoves
  <2> QED
    BY <1>1, <1>2, <1>3, <1>5, <2>1, <2>2 DEF IInv, TargetInv
<1>14. ActiveInv'
  BY <1>2, <1>3, <1>6 DEF IInv, ActiveInv, OneGenerationServes
<1>15. LeakInv'
  <2> SUFFICES ASSUME NEW g \in Generations, gen'[g].built, ~gen'[g].shutdown
               PROVE  \/ g = active
                      \/ g \in Attempts /\ Unpublished(g)'
                      \/ \E t \in Threads : th'[t].target = g /\ th'[t].pc = "retire"
    BY <1>2 DEF LeakInv
  <2>1. CASE g = a /\ Unpublished(a)
    BY <1>3, <2>1 DEF AttemptMoves
  <2>2. CASE g # a \/ ~Unpublished(a)
    <3>1. gen[g].built /\ ~gen[g].shutdown
      BY <1>3, <2>2
    <3>2. CASE g \in Attempts /\ Unpublished(g)
      BY <1>4, <2>2, <3>2
    <3>3. CASE \E t \in Threads : th[t].target = g /\ th[t].pc = "retire"
      <4>1. PICK t \in Threads : th[t].target = g /\ th[t].pc = "retire"
        BY <3>3
      <4>2. t # a
        BY <3>1, <4>1, <1>8 DEF AttemptMoves
      <4> QED
        BY <1>1, <4>1, <4>2
    <3> QED
      BY <3>1, <3>2, <3>3 DEF IInv, LeakInv
  <2> QED
    BY <2>1, <2>2
<1>16. CatalogInv'
  <2>1. active # None => gen'[active].id = gen[active].id
    BY <1>6, <1>10
  <2>2. platform # None => gen'[platform].id = gen[platform].id
    BY <1>6, <1>10
  <2>3. \A g \in Generations : Running(g) => gen'[g].id = gen[g].id
    BY <1>10
  <2>4. ASSUME active # None, NEW g \in Generations, Running(g)
        PROVE  g = active \/ \E b \in Attempts : Handover(b)' /\ g = th'[b].prev
    <3>1. CASE \E b \in Attempts : Handover(b) /\ g = th[b].prev
      <4>1. PICK b \in Attempts : Handover(b) /\ g = th[b].prev
        BY <3>1
      <4> QED
        BY <1>1, <1>4, <2>4, <4>1 DEF AttemptMoves
    <3> QED
      BY <2>4, <3>1 DEF IInv, CatalogInv
  <2> QED
    BY <1>2, <1>3, <1>6, <2>1, <2>2, <2>3, <2>4 DEF IInv, CatalogInv
<1> QED
  BY <1>11, <1>12, <1>13, <1>14, <1>15, <1>16 DEF IInv, AttemptMoves

\* What the invariant says of attempt a and of the rest of the state.
LEMMA AttemptFacts ==
    ASSUME IInv, NEW a \in Attempts
    PROVE  /\ TypeOK /\ SlotInv /\ AttemptAt(a)
           /\ a \in Threads /\ a \in Generations /\ None \notin Generations
           /\ th[a] \in ThreadType /\ gen[a] \in GenerationType /\ gate \in GateType
           /\ active \in Generations \cup {None} /\ platform \in Generations \cup {None}
           /\ th[a].prev \in Generations \cup {None} /\ th[a].target \in Generations \cup {None}
           /\ \A g \in Generations : gen[g].id \in Nat
BY DEF IInv, TypeOK, AttemptInv, Threads, Generations, ThreadType, GenerationType

\* A step that moves only attempt a.
LEMMA PlainStep ==
    ASSUME IInv, NEW a \in Attempts, NEW pc, NEW prev, NEW target, NEW next,
           Moves(a, pc, prev, target, next), GateKept, GensKept,
           root' \in [Roots -> RootType], active' = active, slot' = slot, platform' = platform,
           Txn(a) \/ pc \in {"idle", "request", "done"},
           AttemptAt(a)',
           prev \in {th[a].prev, active, None},
           target \in {th[a].target, None} \/ (target = a /\ Unpublished(a)),
           pc \in {"refuse", "stop", "join"} => Stopping(a) /\ target = th[a].target,
           th[a].pc = "retire" /\ th[a].target # None => gen[th[a].target].shutdown,
           Unpublished(a) /\ gen[a].built /\ ~gen[a].shutdown => Unpublished(a)',
           Handover(a) => (Handover(a)' /\ prev = th[a].prev) \/ ~Running(th[a].prev)
    PROVE  IInv'
<1>1. TypeOK'
  BY DEF IInv, TypeOK, GateKept, GensKept, Moves
<1>2. SlotInv'
  <2>1. \A b \in Attempts : Txn(b)' => Txn(b)
    BY DEF Moves, Txn, Threads
  <2> QED
    BY <2>1 DEF IInv, SlotInv
<1>3. a \in Generations
  BY DEF Generations
<1>4. AttemptMoves(a)
  <2>1. gate'.shuttingDown => ~gate'.open
    BY DEF IInv, ActiveInv, GateKept
  <2>2. \A g \in Generations :
          /\ gen'[g].shutdown = gen[g].shutdown
          /\ gen'[g].inFlight = gen[g].inFlight /\ gen'[g].reconcile = gen[g].reconcile
          /\ gen'[g].built = gen[g].built /\ gen'[g].id = gen[g].id
    BY DEF GensKept, GenKept
  <2>3. Stopping(a)' => Stopping(a) /\ th'[a].target = th[a].target
    BY DEF Stopping, Moves
  <2> QED
    BY <1>1, <1>2, <1>3, <2>1, <2>2, <2>3 DEF AttemptMoves, Moves, GateKept
<1> QED
  BY <1>4, AttemptStep

\* The gate, the generations and the roots are untouched.
LEMMA Untouched ==
    ASSUME IInv, UNCHANGED <<gate, gen, root>>
    PROVE  GateKept /\ GensKept /\ root' \in [Roots -> RootType]
BY DEF IInv, TypeOK, GateKept, GensKept, GenKept

\* The invariant of attempt a after it moved, from what the step left alone.
LEMMA Stays ==
    ASSUME IInv, NEW a \in Attempts, NEW pc, NEW prev, NEW target, NEW next,
           Moves(a, pc, prev, target, next), GateKept, GensKept, active' = active, platform' = platform,
           prev \in {th[a].prev, active, None}
    PROVE  /\ Unpublished(a) =>
              /\ a # active' /\ a # platform'
              /\ gen'[a].inFlight = {} /\ gen'[a].reconcile = "none"
              /\ \A t \in Threads : th'[t].prev # a /\ (t # a => th'[t].target # a)
           /\ \A g \in Generations : Running(g)' <=> Running(g)
           /\ \A t \in Threads : t # a => th'[t].target = th[t].target
<1>1. AttemptAt(a) /\ a \in Generations /\ a \in Threads /\ None \notin Generations
  BY AttemptFacts
<1>2. \A g \in Generations : Running(g)' <=> Running(g)
  BY DEF GensKept, GenKept, Running
<1>3. \A t \in Threads : t # a => th'[t].target = th[t].target /\ th'[t].prev = th[t].prev
  BY DEF Moves
<1>4. th'[a].prev = prev
  BY DEF Moves
<1>5. gen'[a].inFlight = gen[a].inFlight /\ gen'[a].reconcile = gen[a].reconcile
  BY <1>1 DEF GensKept, GenKept
<1> QED
  BY <1>1, <1>2, <1>3, <1>4, <1>5 DEF AttemptAt, CandidateAt

LEMMA RequestReloadStep ==
    ASSUME IInv, NEW a \in Attempts, NEW kind \in Kinds, RequestReload(a, kind)
    PROVE  IInv'
<1>1. PICK pc \in {"request", "done"} : Moves(a, pc, th[a].prev, th[a].target, th[a].next)
  <2>1. th[a] \in ThreadType /\ TypeOK /\ a \in Threads
    BY AttemptFacts
  <2>2. PICK r \in ThreadType : /\ th' = [th EXCEPT ![a] = r] /\ r.pc \in {"request", "done"}
                                /\ r.prev = th[a].prev /\ r.target = th[a].target /\ r.next = th[a].next
    <3> DEFINE x == [th[a] EXCEPT !.kind = kind, !.pc = "done", !.outcome = "Shutdown"]
               y == [th[a] EXCEPT !.kind = kind, !.pc = "request"]
    <3>1. x \in ThreadType /\ x.pc = "done" /\ x.prev = th[a].prev /\ x.target = th[a].target /\ x.next = th[a].next
      BY <2>1 DEF ThreadType, Outcomes
    <3>2. y \in ThreadType /\ y.pc = "request" /\ y.prev = th[a].prev /\ y.target = th[a].target /\ y.next = th[a].next
      BY <2>1 DEF ThreadType, ReloadPcs
    <3>3. th' = [th EXCEPT ![a] = x] \/ th' = [th EXCEPT ![a] = y]
      BY <2>1 DEF RequestReload, TypeOK
    <3> HIDE DEF x, y
    <3> QED
      BY <3>1, <3>2, <3>3
  <2> QED
    BY <2>1, <2>2, ThreadUpdate
<1>2. GateKept /\ GensKept /\ root' \in [Roots -> RootType] /\ active' = active /\ slot' = slot /\ platform' = platform
  BY Untouched DEF RequestReload
<1>3. AttemptAt(a) /\ th[a].pc = "idle" /\ a \in Generations /\ None \notin Generations
  BY AttemptFacts DEF RequestReload
<1>4. /\ ~Stopping(a) /\ ~Handover(a) /\ Unpublished(a) /\ ~gen[a].built
      /\ th'[a].pc = pc /\ th'[a].prev = None /\ th'[a].target = None
  BY <1>1, <1>3 DEF Stopping, Handover, Unpublished, RetirePcs, AttemptAt, CandidateAt, LocalsAt, Txn, Moves
<1>5. AttemptAt(a)'
  <2>1. LocalsAt(a)'
    BY <1>1, <1>3, <1>4 DEF LocalsAt, Handover, Replacing, Draining, RetirePcs
  <2>2. GateAt(a)'
    BY <1>1, <1>3, <1>4 DEF GateAt, Handover, Activating, Draining, RetirePcs
  <2>3. CandidateAt(a)'
    <3>1. ~Handover(a)' /\ ~Stopping(a)'
      BY <1>1, <1>4 DEF Handover, Stopping, RetirePcs
    <3>2. gen'[a].built = gen[a].built /\ gen'[a].shutdown = gen[a].shutdown
      BY <1>2, <1>3 DEF GensKept, GenKept
    <3> QED
      BY <1>1, <1>2, <1>3, <1>4, <3>1, <3>2, Stays DEF AttemptAt, CandidateAt
  <2>4. AgeAt(a)'
    BY <1>1, <1>3, <1>4 DEF AgeAt, Handover, Activating, Draining, RetirePcs
  <2> QED
    BY <2>1, <2>2, <2>3, <2>4 DEF AttemptAt
<1> QED
  BY <1>1, <1>2, <1>4, <1>5, <1>3, PlainStep DEF Unpublished

\* The candidate of an attempt that does not come back to an earlier class.
LEMMA CandidateStays ==
    ASSUME IInv, NEW a \in Attempts, NEW pc, NEW prev, NEW target, NEW next,
           Moves(a, pc, prev, target, next), GateKept, GensKept, active' = active, platform' = platform,
           prev \in {th[a].prev, active, None},
           Unpublished(a)' => Unpublished(a) /\ (Stopping(a) => Stopping(a)'),
           pc \in {"idle", "request", "prepare", "build"} => th[a].pc \in {"idle", "request", "prepare", "build"},
           Handover(a)' => Handover(a) /\ prev = th[a].prev /\ (pc = "retire" => th[a].pc = "retire")
    PROVE  CandidateAt(a)'
<1>1. AttemptAt(a) /\ a \in Generations
  BY AttemptFacts
<1>2. th'[a].pc = pc /\ th'[a].prev = prev
  BY DEF Moves
<1>3. gen'[a].built = gen[a].built /\ gen'[a].shutdown = gen[a].shutdown
  BY <1>1 DEF GensKept, GenKept
<1>4. Handover(a) => gen'[th[a].prev].shutdown = gen[th[a].prev].shutdown
  BY <1>1 DEF GensKept, GenKept, AttemptAt, LocalsAt, Replacing
<1> QED
  BY <1>1, <1>2, <1>3, <1>4, Stays DEF AttemptAt, CandidateAt

\* A step inside the drain.
LEMMA DrainMove ==
    ASSUME IInv, NEW a \in Attempts, Draining(a),
           NEW pc \in {"drain", "arm", "drainWait", "recheck", "timeout", "swap"}, NEW next,
           Moves(a, pc, th[a].prev, th[a].target, next), GateKept, GensKept,
           root' \in [Roots -> RootType], active' = active, slot' = slot, platform' = platform,
           pc = "swap" => gen[th[a].prev].inFlight = {}
    PROVE  IInv'
<1>1. AttemptAt(a) /\ a \in Generations /\ None \notin Generations
  BY AttemptFacts
<1>2. th'[a].pc = pc /\ th'[a].prev = th[a].prev /\ th'[a].target = th[a].target
  BY DEF Moves
<1>3. /\ Txn(a) /\ Unpublished(a) /\ ~Handover(a) /\ ~Stopping(a)
      /\ th[a].pc \notin RetirePcs \cup {"idle", "request", "prepare", "build"}
      /\ th[a].prev \in Generations
  BY <1>1 DEF Draining, Txn, Unpublished, Handover, Stopping, RetirePcs, AttemptAt, LocalsAt, Replacing
<1>4. /\ Txn(a)' /\ Draining(a)' /\ Unpublished(a)' /\ ~Handover(a)' /\ ~Activating(a)' /\ ~Stopping(a)'
      /\ pc \notin RetirePcs \cup {"idle", "request", "prepare", "build", "exchange", "wake", "cutover", "close", "reopen"}
  BY <1>2 DEF Draining, Txn, Unpublished, Handover, Activating, Stopping, RetirePcs
<1>5. AttemptAt(a)'
  <2>1. LocalsAt(a)'
    BY <1>1, <1>2, <1>3, <1>4 DEF LocalsAt, AttemptAt, Replacing
  <2>2. GateAt(a)'
    BY <1>1, <1>2, <1>3, <1>4 DEF GateAt, AttemptAt, GateKept, GensKept, GenKept
  <2>3. CandidateAt(a)'
    BY <1>3, <1>4, CandidateStays
  <2>4. AgeAt(a)'
    BY <1>1, <1>2, <1>3, <1>4 DEF AgeAt, AttemptAt, GensKept, GenKept
  <2> QED
    BY <2>1, <2>2, <2>3, <2>4 DEF AttemptAt
<1> QED
  BY <1>3, <1>4, <1>5, PlainStep DEF RetirePcs

\* The transaction ends with nothing left to shut down.
LEMMA ReportMove ==
    ASSUME IInv, NEW a \in Attempts, th[a].pc \in {"prepare", "build", "reopen", "wake"}, NEW next,
           th[a].pc = "wake" => th[a].next = "release",
           Moves(a, "release", th[a].prev, th[a].target, next), GateKept, GensKept,
           root' \in [Roots -> RootType], active' = active, slot' = slot, platform' = platform
    PROVE  IInv'
<1>1. AttemptAt(a) /\ a \in Generations /\ None \notin Generations
  BY AttemptFacts
<1>2. th'[a].pc = "release" /\ th'[a].prev = th[a].prev /\ th'[a].target = th[a].target
  BY DEF Moves
<1>3. /\ Txn(a) /\ ~Handover(a) /\ ~Stopping(a) /\ th[a].pc \notin RetirePcs
      /\ Unpublished(a) => ~gen[a].built
  BY <1>1 DEF Txn, Unpublished, Handover, Stopping, RetirePcs, AttemptAt, CandidateAt, Draining
<1>4. /\ Txn(a)' /\ ~Draining(a)' /\ ~Unpublished(a)' /\ ~Handover(a)' /\ ~Activating(a)' /\ ~Replacing(a)'
      /\ "release" \notin RetirePcs
  BY <1>2 DEF Draining, Txn, Unpublished, Handover, Activating, Replacing, RetirePcs
<1>5. AttemptAt(a)'
  <2>1. LocalsAt(a)'
    BY <1>1, <1>2, <1>3, <1>4 DEF LocalsAt, AttemptAt
  <2>2. GateAt(a)'
    BY <1>2, <1>4 DEF GateAt
  <2>3. CandidateAt(a)'
    BY <1>3, <1>4, CandidateStays
  <2>4. AgeAt(a)'
    BY <1>2, <1>4 DEF AgeAt
  <2> QED
    BY <2>1, <2>2, <2>3, <2>4 DEF AttemptAt
<1> QED
  BY <1>3, <1>4, <1>5, PlainStep DEF RetirePcs

\* The candidate is not published: its shutdown() is called.
LEMMA DiscardMove ==
    ASSUME IInv, NEW a \in Attempts, th[a].pc \in {"cutover", "close", "discard", "swap"},
           Moves(a, "retire", th[a].prev, a, "release"), GateKept, GensKept,
           root' \in [Roots -> RootType], active' = active, slot' = slot, platform' = platform
    PROVE  IInv'
<1>1. AttemptAt(a) /\ a \in Generations /\ None \notin Generations
  BY AttemptFacts
<1>2. th'[a].pc = "retire" /\ th'[a].prev = th[a].prev /\ th'[a].target = a /\ th'[a].next = "release"
  BY DEF Moves
<1>3. /\ Txn(a) /\ ~Handover(a) /\ ~Stopping(a) /\ th[a].pc \notin RetirePcs /\ Unpublished(a)
  BY <1>1 DEF Txn, Unpublished, Handover, Stopping, RetirePcs, Draining
<1>4. /\ Txn(a)' /\ ~Draining(a)' /\ Unpublished(a)' /\ ~Handover(a)' /\ ~Activating(a)' /\ ~Replacing(a)'
  BY <1>2 DEF Draining, Txn, Unpublished, Handover, Activating, Replacing, RetirePcs
<1>5. AttemptAt(a)'
  <2>1. LocalsAt(a)'
    BY <1>1, <1>2, <1>3, <1>4 DEF LocalsAt, AttemptAt, RetirePcs
  <2>2. GateAt(a)'
    BY <1>2, <1>4 DEF GateAt
  <2>3. CandidateAt(a)'
    BY <1>3, <1>4, CandidateStays
  <2>4. AgeAt(a)'
    BY <1>2, <1>4 DEF AgeAt
  <2> QED
    BY <2>1, <2>2, <2>3, <2>4 DEF AttemptAt
<1> QED
  BY <1>3, <1>4, <1>5, PlainStep DEF RetirePcs

\* A step inside RuntimeGeneration::shutdown, called by an attempt.
LEMMA StoppingMove ==
    ASSUME IInv, NEW a \in Attempts, Stopping(a), NEW pc \in {"stop", "join"},
           Moves(a, pc, th[a].prev, th[a].target, th[a].next), GateKept, GensKept,
           root' \in [Roots -> RootType], active' = active, slot' = slot, platform' = platform
    PROVE  IInv'
<1>1. AttemptAt(a) /\ a \in Generations /\ None \notin Generations
  BY AttemptFacts
<1>2. th'[a].pc = pc /\ th'[a].prev = th[a].prev /\ th'[a].target = th[a].target /\ th'[a].next = th[a].next
  BY DEF Moves
<1>3. /\ Txn(a) /\ th[a].pc \in RetirePcs /\ pc \in RetirePcs
      /\ th[a].pc # "retire"
      /\ pc \notin {"exchange", "wake", "idle", "request", "prepare", "build", "close", "cutover", "reopen", "swap", "retire"}
  BY <1>1 DEF Txn, Unpublished, Handover, Stopping, RetirePcs, Draining
<1>4. /\ Txn(a)' /\ ~Draining(a)' /\ (Unpublished(a)' <=> Unpublished(a)) /\ (Handover(a)' <=> Handover(a)) /\ ~Activating(a)'
      /\ (Replacing(a)' <=> Handover(a)) /\ (Replacing(a) <=> Handover(a)) /\ Stopping(a)'
  BY <1>2, <1>3 DEF Draining, Txn, Unpublished, Handover, Activating, Replacing, RetirePcs, Stopping
<1>5. AttemptAt(a)'
  <2>1. LocalsAt(a)'
    BY <1>1, <1>2, <1>3, <1>4 DEF LocalsAt, AttemptAt
  <2>2. GateAt(a)'
    BY <1>1, <1>2, <1>3, <1>4 DEF GateAt, AttemptAt, GateKept
  <2>3. CandidateAt(a)'
    BY <1>3, <1>4, CandidateStays
  <2>4. AgeAt(a)'
    <3>1. \A g \in Generations : gen'[g].id = gen[g].id /\ (Running(g)' <=> Running(g))
      BY DEF GensKept, GenKept, Running
    <3>2. platform \in Generations \cup {None} /\ (Handover(a) => th[a].prev \in Generations)
      BY <1>1, <1>4, AttemptFacts DEF AttemptAt, LocalsAt
    <3> QED
      BY <1>1, <1>2, <1>3, <1>4, <3>1, <3>2 DEF AgeAt, AttemptAt
  <2> QED
    BY <2>1, <2>2, <2>3, <2>4 DEF AttemptAt
<1> QED
  BY <1>3, <1>4, <1>5, PlainStep

\* RuntimeGeneration::shutdown returns to an attempt.
LEMMA RetiredMove ==
    ASSUME IInv, NEW a \in Attempts, th[a].pc \in RetirePcs,
           Moves(a, th[a].next, th[a].prev, None, th[a].next), GateKept, GensKept,
           root' \in [Roots -> RootType], active' = active, slot' = slot, platform' = platform,
           th[a].target # None => gen[th[a].target].shutdown,
           Handover(a) => ~Running(th[a].prev)
    PROVE  IInv'
<1>1. AttemptAt(a) /\ a \in Generations /\ None \notin Generations
  BY AttemptFacts
<1>2. th'[a].pc = th[a].next /\ th'[a].prev = th[a].prev /\ th'[a].target = None /\ th[a].next \in {"release", "activate"}
  BY <1>1 DEF Moves, AttemptAt, LocalsAt
<1>3. /\ Txn(a)
      /\ th[a].next \notin {"exchange", "wake", "idle", "request", "prepare", "build", "close", "cutover", "reopen", "swap",
                            "refuse", "stop", "join", "done"}
      /\ th[a].next \notin RetirePcs
      /\ Handover(a) <=> th[a].next = "activate"
      /\ Unpublished(a) /\ gen[a].built => gen[a].shutdown
  BY <1>1, <1>2 DEF Txn, Unpublished, Handover, RetirePcs, Draining, AttemptAt, LocalsAt
<1>4. /\ Txn(a)' /\ ~Draining(a)' /\ ~Unpublished(a)' /\ ~Handover(a)' /\ (Activating(a)' <=> Handover(a))
      /\ ~Replacing(a)' /\ ~Stopping(a)'
  BY <1>2, <1>3 DEF Draining, Txn, Unpublished, Handover, Activating, Replacing, RetirePcs, Stopping
<1>5. AttemptAt(a)'
  <2>1. LocalsAt(a)'
    BY <1>1, <1>2, <1>3, <1>4 DEF LocalsAt, AttemptAt
  <2>2. GateAt(a)'
    BY <1>1, <1>2, <1>3, <1>4 DEF GateAt, AttemptAt, GateKept
  <2>3. CandidateAt(a)'
    BY <1>3, <1>4, CandidateStays
  <2>4. AgeAt(a)'
    <3>1. \A g \in Generations : gen'[g].id = gen[g].id /\ (Running(g)' <=> Running(g)) /\ gen[g].id \in Nat
      BY AttemptFacts DEF GensKept, GenKept, Running
    <3>2. platform \in Generations \cup {None} /\ (Handover(a) => th[a].prev \in Generations)
      BY <1>1, AttemptFacts DEF AttemptAt, LocalsAt, Replacing
    <3>3. Handover(a) => gen[a].id > gen[th[a].prev].id
      BY <1>1 DEF AttemptAt, AgeAt
    <3> QED
      BY <1>1, <1>2, <1>3, <1>4, <3>1, <3>2, <3>3 DEF AgeAt, AttemptAt
  <2> QED
    BY <2>1, <2>2, <2>3, <2>4 DEF AttemptAt
<1> QED
  BY <1>3, <1>4, <1>5, PlainStep

-----------------------------------------------------------------------------
(* The actions of an attempt.                                              *)

LEMMA GenUpdate ==
    ASSUME TypeOK, NEW g \in Generations, NEW r \in GenerationType, gen' = [gen EXCEPT ![g] = r]
    PROVE  /\ gen' \in [Generations -> GenerationType] /\ gen'[g] = r
           /\ \A h \in Generations : h # g => gen'[h] = gen[h]
BY DEF TypeOK

\* A generation changes in nothing the invariant speaks of.
LEMMA GenTouched ==
    ASSUME TypeOK, NEW g \in Generations, NEW r \in GenerationType, gen' = [gen EXCEPT ![g] = r],
           r.built = gen[g].built, r.id = gen[g].id, r.shutdown = gen[g].shutdown,
           r.inFlight = gen[g].inFlight, r.reconcile = gen[g].reconcile
    PROVE  GensKept
BY GenUpdate DEF GensKept, GenKept

\* The gate is held, or released, by an attempt.
LEMMA HolderSet ==
    ASSUME TypeOK, NEW h \in Attempts \cup {None}, gate' = [gate EXCEPT !.holder = h]
    PROVE  GateKept
BY DEF TypeOK, GateType, GateKept

LEMMA PrepareStep ==
    ASSUME IInv, NEW a \in Attempts, Prepare(a)
    PROVE  IInv'
<1>1. GateKept /\ GensKept /\ root' \in [Roots -> RootType] /\ active' = active /\ slot' = slot /\ platform' = platform
  BY Untouched DEF Prepare
<1>2. AttemptAt(a) /\ th[a].pc = "prepare" /\ a \in Generations /\ None \notin Generations /\ TypeOK /\ th[a] \in ThreadType
      /\ active \in Generations \cup {None} /\ a \in Threads
  BY AttemptFacts DEF Prepare
<1>3. CASE \E o \in Outcomes : Report(a, o)
  BY <1>1, <1>2, <1>3, ReportFacts, ReportMove
<1>4. CASE active # None /\ th' = [th EXCEPT ![a].pc = "build", ![a].prev = active]
  <2> DEFINE r == [th[a] EXCEPT !.pc = "build", !.prev = active]
  <2>1. th' = [th EXCEPT ![a] = r]
    BY <1>2, <1>4 DEF TypeOK, ThreadType
  <2>2. r \in ThreadType /\ r.pc = "build" /\ r.prev = active /\ r.target = th[a].target /\ r.next = th[a].next
    BY <1>2, <1>4 DEF ThreadType, ReloadPcs
  <2> HIDE DEF r
  <2>3. Moves(a, "build", active, th[a].target, th[a].next)
    BY <1>2, <2>1, <2>2, ThreadGoes
  <2>4. th'[a].pc = "build" /\ th'[a].prev = active /\ th'[a].target = None
    BY <1>2, <2>3 DEF Moves, AttemptAt, LocalsAt, RetirePcs
  <2>5. /\ Txn(a) /\ ~Handover(a) /\ ~Stopping(a) /\ Unpublished(a)
        /\ Txn(a)' /\ ~Handover(a)' /\ ~Stopping(a)' /\ Unpublished(a)' /\ ~Draining(a)' /\ ~Activating(a)'
    BY <1>2, <2>4 DEF Txn, Handover, Stopping, Unpublished, Draining, Activating, RetirePcs
  <2>6. AttemptAt(a)'
    <3>1. LocalsAt(a)'
      BY <1>2, <1>4, <2>4, <2>5 DEF LocalsAt, RetirePcs
    <3>2. GateAt(a)'
      BY <1>1, <2>4, <2>5 DEF GateAt
    <3>3. CandidateAt(a)'
      BY <1>1, <1>2, <2>3, <2>5, CandidateStays
    <3>4. AgeAt(a)'
      BY <2>4, <2>5 DEF AgeAt
    <3> QED
      BY <3>1, <3>2, <3>3, <3>4 DEF AttemptAt
  <2> QED
    BY <1>1, <1>2, <2>3, <2>5, <2>6, PlainStep
<1> QED
  BY <1>2, <1>3, <1>4 DEF Prepare, Outcomes

LEMMA BeginCutoverStep ==
    ASSUME IInv, NEW a \in Attempts, BeginCutover(a)
    PROVE  IInv'
<1>1. GateKept /\ GensKept /\ root' \in [Roots -> RootType] /\ active' = active /\ slot' = slot /\ platform' = platform
  BY Untouched DEF BeginCutover
<1>2. AttemptAt(a) /\ th[a].pc = "cutover" /\ a \in Generations /\ None \notin Generations /\ TypeOK /\ th[a] \in ThreadType
      /\ active \in Generations \cup {None} /\ a \in Threads
  BY AttemptFacts DEF BeginCutover
<1>3. CASE \E o \in Outcomes : CallRetire(a, a, "release", o)
  BY <1>1, <1>2, <1>3, CallRetireFacts, DiscardMove
<1>4. CASE active # None /\ th' = [th EXCEPT ![a].pc = "close", ![a].prev = active]
  <2> DEFINE r == [th[a] EXCEPT !.pc = "close", !.prev = active]
  <2>1. th' = [th EXCEPT ![a] = r]
    BY <1>2, <1>4 DEF TypeOK, ThreadType
  <2>2. r \in ThreadType /\ r.pc = "close" /\ r.prev = active /\ r.target = th[a].target /\ r.next = th[a].next
    BY <1>2, <1>4 DEF ThreadType, ReloadPcs
  <2> HIDE DEF r
  <2>3. Moves(a, "close", active, th[a].target, th[a].next)
    BY <1>2, <2>1, <2>2, ThreadGoes
  <2>4. th'[a].pc = "close" /\ th'[a].prev = active /\ th'[a].target = None
    BY <1>2, <2>3 DEF Moves, AttemptAt, LocalsAt, RetirePcs
  <2>5. /\ Txn(a) /\ ~Handover(a) /\ ~Stopping(a) /\ Unpublished(a)
        /\ Txn(a)' /\ ~Handover(a)' /\ ~Stopping(a)' /\ Unpublished(a)' /\ ~Draining(a)' /\ ~Activating(a)'
    BY <1>2, <2>4 DEF Txn, Handover, Stopping, Unpublished, Draining, Activating, RetirePcs
  <2>6. AttemptAt(a)'
    <3>1. LocalsAt(a)'
      BY <1>2, <1>4, <2>4, <2>5 DEF LocalsAt, RetirePcs
    <3>2. GateAt(a)'
      BY <1>1, <2>4, <2>5 DEF GateAt
    <3>3. CandidateAt(a)'
      BY <1>1, <1>2, <2>3, <2>5, CandidateStays
    <3>4. AgeAt(a)'
      BY <1>1, <1>2, <1>4, <2>4, <2>5 DEF AgeAt, AttemptAt, GensKept, GenKept
    <3> QED
      BY <3>1, <3>2, <3>3, <3>4 DEF AttemptAt
  <2> QED
    BY <1>1, <1>2, <2>3, <2>5, <2>6, PlainStep
<1> QED
  BY <1>2, <1>3, <1>4 DEF BeginCutover, Outcomes

LEMMA WaitForDrainStep ==
    ASSUME IInv, NEW a \in Attempts, WaitForDrain(a)
    PROVE  IInv'
<1>1. root' \in [Roots -> RootType] /\ active' = active /\ slot' = slot /\ platform' = platform /\ GateKept
  BY DEF IInv, TypeOK, WaitForDrain, GateKept
<1>2. AttemptAt(a) /\ th[a].pc = "drain" /\ Draining(a) /\ TypeOK /\ th[a] \in ThreadType /\ a \in Threads
  BY AttemptFacts DEF WaitForDrain, Draining
<1>3. CASE gen[th[a].prev].inFlight = {}
  <2>1. Goto(a, "swap") /\ gen' = gen
    BY <1>3 DEF WaitForDrain
  <2>2. GensKept
    BY <2>1 DEF IInv, TypeOK, GensKept, GenKept
  <2>3. Moves(a, "swap", th[a].prev, th[a].target, th[a].next)
    BY <1>2, <2>1, GotoFacts DEF ThreadPcs, ReloadPcs
  <2> QED
    BY <1>1, <1>2, <1>3, <2>2, <2>3, DrainMove
<1>4. CASE gen[th[a].prev].inFlight # {}
  <2> DEFINE g == th[a].prev
             x == [gen[g] EXCEPT !.drainWaiters = gen[g].drainWaiters \cup {a}]
             r == [th[a] EXCEPT !.pc = "arm", !.cancelPosted = FALSE]
  <2>1. gen' = [gen EXCEPT ![g] = x] /\ g \in Generations /\ gen[g] \in GenerationType
    BY <1>2, <1>4 DEF WaitForDrain, AttemptAt, LocalsAt, Replacing, TypeOK
  <2>2. x \in GenerationType /\ x.built = gen[g].built /\ x.id = gen[g].id /\ x.shutdown = gen[g].shutdown
        /\ x.inFlight = gen[g].inFlight /\ x.reconcile = gen[g].reconcile
    BY <2>1 DEF GenerationType
  <2>3. th' = [th EXCEPT ![a] = r]
    BY <1>2, <1>4 DEF WaitForDrain, TypeOK, ThreadType
  <2>4. r \in ThreadType /\ r.pc = "arm" /\ r.prev = th[a].prev /\ r.target = th[a].target /\ r.next = th[a].next
    BY <1>2 DEF ThreadType, ReloadPcs
  <2> HIDE DEF x, r
  <2>5. GensKept
    BY <1>2, <2>1, <2>2, GenTouched
  <2>6. Moves(a, "arm", th[a].prev, th[a].target, th[a].next)
    BY <1>2, <2>3, <2>4, ThreadGoes
  <2> QED
    BY <1>1, <1>2, <2>5, <2>6, DrainMove
<1> QED
  BY <1>3, <1>4

LEMMA DrainSteps ==
    ASSUME IInv, NEW a \in Attempts,
           \/ ArmDrainTimer(a) \/ DrainDeadline(a) \/ DrainRecheck(a)
           \/ (DrainCancel(a) /\ th[a].pc = "drainWait")
    PROVE  IInv'
<1>1. GateKept /\ GensKept /\ root' \in [Roots -> RootType] /\ active' = active /\ slot' = slot /\ platform' = platform
  BY Untouched DEF ArmDrainTimer, DrainDeadline, DrainRecheck, DrainCancel
<1>2. AttemptAt(a) /\ Draining(a) /\ TypeOK /\ th[a] \in ThreadType /\ a \in Threads
  BY AttemptFacts DEF ArmDrainTimer, DrainDeadline, DrainRecheck, DrainCancel, Draining
<1>3. CASE ArmDrainTimer(a)
  BY <1>1, <1>2, <1>3, GotoFacts, DrainMove DEF ArmDrainTimer, ThreadPcs, ReloadPcs
<1>4. CASE DrainRecheck(a)
  <2>1. PICK pc \in {"swap", "timeout", "drain"} :
             Goto(a, pc) /\ (pc = "swap" => gen[th[a].prev].inFlight = {})
    BY <1>4 DEF DrainRecheck
  <2>2. Moves(a, pc, th[a].prev, th[a].target, th[a].next)
    BY <1>2, <2>1, GotoFacts DEF ThreadPcs, ReloadPcs
  <2> QED
    BY <1>1, <1>2, <2>1, <2>2, DrainMove
<1>5. CASE DrainDeadline(a) \/ (DrainCancel(a) /\ th[a].pc = "drainWait")
  <2>1. PICK r \in ThreadType : th' = [th EXCEPT ![a] = r] /\ r.pc = "recheck" /\ r.prev = th[a].prev
                                /\ r.target = th[a].target /\ r.next = th[a].next
    <3>1. CASE DrainDeadline(a)
      <4> DEFINE r == [th[a] EXCEPT !.pc = "recheck", !.expired = TRUE]
      <4>1. th' = [th EXCEPT ![a] = r]
        BY <1>2, <3>1 DEF DrainDeadline, TypeOK, ThreadType
      <4>2. r \in ThreadType /\ r.pc = "recheck" /\ r.prev = th[a].prev /\ r.target = th[a].target /\ r.next = th[a].next
        BY <1>2 DEF ThreadType, ReloadPcs
      <4> HIDE DEF r
      <4> QED
        BY <4>1, <4>2
    <3>2. CASE DrainCancel(a) /\ th[a].pc = "drainWait"
      <4>1. PICK late \in BOOLEAN :
              th' = [th EXCEPT ![a].pc = "recheck", ![a].cancelPosted = FALSE, ![a].expired = late]
        BY <3>2 DEF DrainCancel
      <4> DEFINE r == [th[a] EXCEPT !.pc = "recheck", !.cancelPosted = FALSE, !.expired = late]
      <4>2. th' = [th EXCEPT ![a] = r]
        BY <1>2, <4>1 DEF TypeOK, ThreadType
      <4>3. r \in ThreadType /\ r.pc = "recheck" /\ r.prev = th[a].prev /\ r.target = th[a].target /\ r.next = th[a].next
        BY <1>2 DEF ThreadType, ReloadPcs
      <4> HIDE DEF r
      <4> QED
        BY <4>2, <4>3
    <3> QED
      BY <1>5, <3>1, <3>2
  <2>2. Moves(a, "recheck", th[a].prev, th[a].target, th[a].next)
    BY <1>2, <2>1, ThreadGoes
  <2> QED
    BY <1>1, <1>2, <2>2, DrainMove
<1> QED
  BY <1>3, <1>4, <1>5

LEMMA DiscardCandidateStep ==
    ASSUME IInv, NEW a \in Attempts, DiscardCandidate(a)
    PROVE  IInv'
<1>1. GateKept /\ GensKept /\ root' \in [Roots -> RootType] /\ active' = active /\ slot' = slot /\ platform' = platform
  BY Untouched DEF DiscardCandidate
<1>2. th[a].pc = "discard" /\ a \in Generations /\ TypeOK /\ a \in Threads
  BY AttemptFacts DEF DiscardCandidate
<1>3. Moves(a, "retire", th[a].prev, a, "release")
  BY <1>2, CallRetireFacts DEF DiscardCandidate, Outcomes
<1> QED
  BY <1>1, <1>2, <1>3, DiscardMove

\* A gate section that found the process shutting down discards the candidate.
LEMMA ShutdownFound ==
    ASSUME IInv, NEW a \in Attempts, th[a].pc \in {"close", "swap"},
           gate' = [gate EXCEPT !.holder = a], CallRetire(a, a, "release", "Shutdown"),
           UNCHANGED <<active, slot, gen, root, platform>>
    PROVE  IInv'
<1>1. a \in Generations /\ TypeOK /\ a \in Threads
  BY AttemptFacts
<1>2. GateKept /\ GensKept /\ root' \in [Roots -> RootType] /\ active' = active /\ slot' = slot /\ platform' = platform
  BY <1>1, HolderSet DEF TypeOK, GensKept, GenKept
<1>3. Moves(a, "retire", th[a].prev, a, "release")
  BY <1>1, CallRetireFacts DEF Outcomes
<1> QED
  BY <1>2, <1>3, DiscardMove

\* The candidate exists: built by the transaction, or given to it.
LEMMA BuiltMove ==
    ASSUME IInv, NEW a \in Attempts, th[a].pc \in {"request", "build"}, SlotInv', slot' \in BOOLEAN,
           Moves(a, "cutover", th[a].prev, th[a].target, th[a].next),
           NEW r \in GenerationType, gen' = [gen EXCEPT ![a] = r],
           r.shutdown = gen[a].shutdown, r.inFlight = gen[a].inFlight, r.reconcile = gen[a].reconcile,
           active # None => r.id > gen[active].id,
           UNCHANGED <<gate, active, root, platform>>
    PROVE  IInv'
<1>1. AttemptAt(a) /\ a \in Generations /\ None \notin Generations /\ TypeOK /\ a \in Threads
      /\ active \in Generations \cup {None}
  BY AttemptFacts
<1>2. th'[a].pc = "cutover" /\ th'[a].prev = th[a].prev /\ th'[a].target = th[a].target
      /\ \A u \in Threads : u # a => th'[u] = th[u]
  BY DEF Moves
<1>3. /\ gen' \in [Generations -> GenerationType] /\ gen'[a] = r
      /\ \A h \in Generations : h # a => gen'[h] = gen[h]
  BY <1>1, GenUpdate
<1>4. TypeOK'
  BY <1>1, <1>3 DEF TypeOK, Moves
<1>5. /\ ~Handover(a) /\ ~Stopping(a) /\ Unpublished(a) /\ th[a].pc \notin RetirePcs
      /\ Txn(a)' /\ ~Handover(a)' /\ ~Stopping(a)' /\ Unpublished(a)' /\ ~Draining(a)' /\ ~Activating(a)' /\ ~Replacing(a)'
  BY <1>2 DEF Txn, Handover, Stopping, Unpublished, Draining, Activating, Replacing, RetirePcs
<1>6. AttemptAt(a)'
  <2>1. LocalsAt(a)'
    BY <1>1, <1>2, <1>5 DEF LocalsAt, AttemptAt, RetirePcs
  <2>2. GateAt(a)'
    BY <1>2, <1>5 DEF GateAt
  <2>3. CandidateAt(a)'
    BY <1>1, <1>2, <1>3, <1>5 DEF CandidateAt, AttemptAt
  <2>4. AgeAt(a)'
    <3>1. a # active
      BY <1>1, <1>5 DEF AttemptAt, CandidateAt
    <3> QED
      BY <1>1, <1>2, <1>3, <1>5, <3>1 DEF AgeAt
  <2> QED
    BY <2>1, <2>2, <2>3, <2>4 DEF AttemptAt
<1>7. AttemptMoves(a)
  <2>1. gate'.shuttingDown => ~gate'.open
    BY DEF IInv, ActiveInv
  <2> QED
    BY <1>1, <1>2, <1>3, <1>4, <1>5, <1>6, <2>1 DEF AttemptMoves, RetirePcs
<1> QED
  BY <1>7, AttemptStep

LEMMA BuildStep ==
    ASSUME IInv, NEW a \in Attempts, Build(a)
    PROVE  IInv'
<1>1. AttemptAt(a) /\ th[a].pc = "build" /\ a \in Generations /\ None \notin Generations /\ TypeOK /\ a \in Threads
      /\ active \in Generations \cup {None} /\ gen[a] \in GenerationType
  BY AttemptFacts DEF Build
<1>2. CASE Report(a, "Failed") /\ gen' = gen
  <2>1. GateKept /\ GensKept /\ root' \in [Roots -> RootType] /\ active' = active /\ slot' = slot /\ platform' = platform
    BY <1>2, Untouched DEF Build
  <2>2. Moves(a, "release", th[a].prev, th[a].target, th[a].next)
    BY <1>1, <1>2, ReportFacts DEF Outcomes
  <2> QED
    BY <1>1, <2>1, <2>2, ReportMove
<1>3. CASE /\ gen' = [gen EXCEPT ![a].built = TRUE, ![a].id = gen[th[a].prev].id + 1]
           /\ Goto(a, "cutover")
  <2>1. Moves(a, "cutover", th[a].prev, th[a].target, th[a].next)
    BY <1>1, <1>3, GotoFacts DEF ThreadPcs, ReloadPcs
  <2>2. th[a].prev \in Generations /\ active \in {th[a].prev, None} /\ gen[th[a].prev].id \in Nat
    BY <1>1, AttemptFacts DEF AttemptAt, LocalsAt, GateAt, Replacing
  <2> DEFINE id == gen[th[a].prev].id + 1
             r == [gen[a] EXCEPT !.built = TRUE, !.id = id]
  <2>3. gen' = [gen EXCEPT ![a] = r]
    BY <1>1, <1>3 DEF TypeOK, GenerationType
  <2>7. id \in Nat /\ id > gen[th[a].prev].id
    BY <2>2
  <2> HIDE DEF id
  <2>4. /\ r \in GenerationType /\ r.shutdown = gen[a].shutdown /\ r.inFlight = gen[a].inFlight
        /\ r.reconcile = gen[a].reconcile /\ r.id = id
    BY <1>1, <2>7 DEF GenerationType
  <2> HIDE DEF r
  <2>5. active # None => r.id > gen[active].id
    BY <2>2, <2>4, <2>7
  <2>6. SlotInv' /\ slot' \in BOOLEAN
    <3>1. \A b \in Attempts : Txn(b)' => Txn(b)
      BY <1>1, <2>1 DEF Moves, Txn, Threads
    <3> QED
      BY <3>1 DEF IInv, TypeOK, SlotInv, Build
  <2> QED
    BY <1>1, <2>1, <2>3, <2>4, <2>5, <2>6, BuiltMove DEF Build
<1> QED
  BY <1>2, <1>3 DEF Build

\* When the slot is free no transaction runs.
LEMMA TakeSlotInv ==
    ASSUME IInv, NEW a \in Attempts, ~slot, slot' = TRUE,
           \A u \in Threads : u # a => th'[u] = th[u]
    PROVE  SlotInv'
<1>1. \A b \in Attempts : b # a => ~Txn(b)'
  BY DEF IInv, SlotInv, Txn, Threads
<1> QED
  BY <1>1 DEF SlotInv

LEMMA TakeSlotStep ==
    ASSUME IInv, NEW a \in Attempts, TakeSlot(a)
    PROVE  IInv'
<1>1. AttemptAt(a) /\ th[a].pc = "request" /\ a \in Generations /\ None \notin Generations /\ TypeOK /\ a \in Threads
      /\ active \in Generations \cup {None} /\ gen[a] \in GenerationType /\ th[a] \in ThreadType
      /\ \A g \in Generations : gen[g].id \in Nat
  BY AttemptFacts DEF TakeSlot
<1>2. CASE th' = [th EXCEPT ![a].pc = "done", ![a].outcome = "Busy"] /\ UNCHANGED <<slot, gen>>
  <2>1. GateKept /\ GensKept /\ root' \in [Roots -> RootType] /\ active' = active /\ slot' = slot /\ platform' = platform
    BY <1>2, Untouched DEF TakeSlot
  <2> DEFINE r == [th[a] EXCEPT !.pc = "done", !.outcome = "Busy"]
  <2>2. th' = [th EXCEPT ![a] = r]
    BY <1>1, <1>2 DEF TypeOK, ThreadType
  <2>3. r \in ThreadType /\ r.pc = "done" /\ r.prev = th[a].prev /\ r.target = th[a].target /\ r.next = th[a].next
    BY <1>1 DEF ThreadType, Outcomes
  <2> HIDE DEF r
  <2>4. Moves(a, "done", th[a].prev, th[a].target, th[a].next)
    BY <1>1, <2>2, <2>3, ThreadGoes
  <2>5. /\ th'[a].pc = "done" /\ th'[a].prev = None /\ th'[a].target = None
        /\ ~Handover(a) /\ ~Stopping(a) /\ Unpublished(a) /\ ~gen[a].built
    BY <1>1, <2>4 DEF Stopping, Handover, Unpublished, RetirePcs, AttemptAt, CandidateAt, LocalsAt, Txn, Moves
  <2>6. ~Txn(a)' /\ ~Handover(a)' /\ ~Stopping(a)' /\ ~Unpublished(a)' /\ ~Draining(a)' /\ ~Activating(a)' /\ ~Replacing(a)'
    BY <2>5 DEF Txn, Handover, Stopping, Unpublished, Draining, Activating, Replacing, RetirePcs
  <2>7. AttemptAt(a)'
    BY <2>5, <2>6 DEF AttemptAt, LocalsAt, GateAt, CandidateAt, AgeAt, RetirePcs
  <2> QED
    BY <1>1, <2>1, <2>4, <2>5, <2>6, <2>7, PlainStep
<1>3. CASE ~slot /\ Reserve(a) /\ th[a].kind = "reload_to"
  <2>1. PICK same \in BOOLEAN :
             gen' = [gen EXCEPT ![a].built = TRUE, ![a].compatible = same,
                                ![a].id = 1 + IF active = None THEN 0 ELSE gen[active].id]
    BY <1>3 DEF Reserve
  <2>2. Moves(a, "cutover", th[a].prev, th[a].target, th[a].next)
    BY <1>1, <1>3, GotoFacts DEF Reserve, ThreadPcs, ReloadPcs
  <2> DEFINE id == 1 + IF active = None THEN 0 ELSE gen[active].id
             r == [gen[a] EXCEPT !.built = TRUE, !.compatible = same, !.id = id]
  <2>3. id \in Nat /\ (active # None => id > gen[active].id)
    BY <1>1
  <2>4. gen' = [gen EXCEPT ![a] = r]
    BY <1>1, <2>1 DEF TypeOK, GenerationType
  <2> HIDE DEF id
  <2>5. /\ r \in GenerationType /\ r.shutdown = gen[a].shutdown /\ r.inFlight = gen[a].inFlight
        /\ r.reconcile = gen[a].reconcile /\ r.id = id
    BY <1>1, <2>3 DEF GenerationType
  <2> HIDE DEF r
  <2>6. SlotInv' /\ slot' \in BOOLEAN
    BY <1>3, <2>2, TakeSlotInv DEF Reserve, Moves
  <2> QED
    BY <1>1, <2>2, <2>3, <2>4, <2>5, <2>6, BuiltMove DEF TakeSlot
<1>4. CASE ~slot /\ Reserve(a) /\ th[a].kind # "reload_to"
  <2>1. Goto(a, "prepare") /\ slot' = TRUE /\ UNCHANGED gen
    BY <1>4 DEF Reserve
  <2>2. Moves(a, "prepare", th[a].prev, th[a].target, th[a].next)
    BY <1>1, <2>1, GotoFacts DEF ThreadPcs, ReloadPcs
  <2>3. GateKept /\ GensKept /\ root' \in [Roots -> RootType] /\ active' = active /\ platform' = platform
    BY <2>1, Untouched DEF TakeSlot
  <2>4. SlotInv' /\ TypeOK'
    BY <1>1, <1>4, <2>1, <2>2, <2>3, TakeSlotInv DEF TypeOK, GateKept, GensKept, Moves
  <2>5. /\ th'[a].pc = "prepare" /\ th'[a].prev = None /\ th'[a].target = None
        /\ ~Handover(a) /\ ~Stopping(a) /\ Unpublished(a) /\ ~gen[a].built
    BY <1>1, <2>2 DEF Stopping, Handover, Unpublished, RetirePcs, AttemptAt, CandidateAt, LocalsAt, Txn, Moves
  <2>6. Txn(a)' /\ ~Handover(a)' /\ ~Stopping(a)' /\ Unpublished(a)' /\ ~Draining(a)' /\ ~Activating(a)' /\ ~Replacing(a)'
    BY <2>5 DEF Txn, Handover, Stopping, Unpublished, Draining, Activating, Replacing, RetirePcs
  <2>7. AttemptAt(a)'
    <3>1. CandidateAt(a)'
      BY <1>1, <2>2, <2>3, <2>5, <2>6, CandidateStays
    <3> QED
      BY <2>5, <2>6, <3>1 DEF AttemptAt, LocalsAt, GateAt, AgeAt, RetirePcs
  <2>8. AttemptMoves(a)
    <3>1. gate'.shuttingDown => ~gate'.open
      BY <2>3 DEF IInv, ActiveInv, GateKept
    <3> QED
      BY <1>1, <2>1, <2>2, <2>3, <2>4, <2>5, <2>6, <2>7, <3>1 DEF AttemptMoves, Moves, GateKept, GensKept, GenKept
  <2> QED
    BY <2>8, AttemptStep
<1> QED
  BY <1>2, <1>3, <1>4 DEF TakeSlot

LEMMA CloseGateStep ==
    ASSUME IInv, NEW a \in Attempts, CloseGate(a)
    PROVE  IInv'
<1>1. AttemptAt(a) /\ th[a].pc = "close" /\ a \in Generations /\ None \notin Generations /\ TypeOK /\ a \in Threads
      /\ active \in Generations \cup {None} /\ gate \in GateType
  BY AttemptFacts DEF CloseGate
<1>2. CASE ~StillOwner(th[a].prev)
  BY <1>1, <1>2, ShutdownFound DEF CloseGate
<1>3. CASE StillOwner(th[a].prev)
  <2>1. Goto(a, "drain") /\ gate' = [gate EXCEPT !.open = FALSE] /\ UNCHANGED <<active, slot, gen, root, platform>>
    BY <1>3 DEF CloseGate
  <2>2. gate' \in GateType /\ gate'.open = FALSE /\ gate'.shuttingDown = gate.shuttingDown
    BY <1>1, <2>1 DEF GateType
  <2>3. Moves(a, "drain", th[a].prev, th[a].target, th[a].next)
    BY <1>1, <2>1, GotoFacts DEF ThreadPcs, ReloadPcs
  <2>4. th'[a].pc = "drain" /\ th'[a].prev = th[a].prev /\ th'[a].target = th[a].target
        /\ \A u \in Threads : u # a => th'[u] = th[u]
    BY <2>3 DEF Moves
  <2>5. /\ ~Handover(a) /\ ~Stopping(a) /\ Unpublished(a) /\ Txn(a) /\ Replacing(a)
        /\ Txn(a)' /\ ~Handover(a)' /\ ~Stopping(a)' /\ Unpublished(a)' /\ Draining(a)' /\ ~Activating(a)' /\ Replacing(a)'
    BY <1>1, <2>4 DEF Txn, Handover, Stopping, Unpublished, Draining, Activating, Replacing, RetirePcs
  <2>6. TypeOK' /\ SlotInv'
    <3>1. \A b \in Attempts : Txn(b)' => Txn(b)
      BY <2>4, <2>5 DEF Txn, Threads
    <3> QED
      BY <1>1, <2>1, <2>2, <2>3, <3>1 DEF IInv, TypeOK, SlotInv, Moves
  <2>7. AttemptAt(a)'
    <3>1. LocalsAt(a)'
      BY <1>1, <2>4, <2>5 DEF LocalsAt, AttemptAt, RetirePcs
    <3>2. GateAt(a)'
      BY <1>1, <2>1, <2>2, <2>4, <2>5 DEF GateAt, AttemptAt
    <3>3. CandidateAt(a)'
      BY <1>1, <2>1, <2>4, <2>5 DEF CandidateAt, AttemptAt
    <3>4. AgeAt(a)'
      BY <1>1, <2>1, <2>4, <2>5 DEF AgeAt, AttemptAt
    <3> QED
      BY <3>1, <3>2, <3>3, <3>4 DEF AttemptAt
  <2>8. AttemptMoves(a)
    BY <1>1, <2>1, <2>2, <2>4, <2>5, <2>6, <2>7 DEF AttemptMoves
  <2> QED
    BY <2>8, AttemptStep
<1> QED
  BY <1>2, <1>3

\* The gate opens again and the waiting messages are collected.
LEMMA GateOpens ==
    ASSUME IInv, NEW a \in Attempts, th[a].pc \in {"timeout", "reopen"}, ~gate.shuttingDown,
           NEW next, next = (IF th[a].pc = "timeout" THEN "discard" ELSE "release"),
           gate' = [gate EXCEPT !.open = TRUE, !.waiters = {}],
           Moves(a, "wake", th[a].prev, th[a].target, next),
           UNCHANGED <<active, slot, gen, root, platform>>
    PROVE  IInv'
<1>1. AttemptAt(a) /\ a \in Generations /\ None \notin Generations /\ TypeOK /\ a \in Threads
      /\ active \in Generations \cup {None} /\ gate \in GateType
  BY AttemptFacts
<1>2. gate' \in GateType /\ gate'.shuttingDown = gate.shuttingDown
  BY <1>1 DEF GateType
<1>4. th'[a].pc = "wake" /\ th'[a].prev = th[a].prev /\ th'[a].target = th[a].target /\ th'[a].next = next
      /\ \A u \in Threads : u # a => th'[u] = th[u]
  BY DEF Moves
<1>5. /\ ~Handover(a) /\ ~Stopping(a) /\ (Unpublished(a) <=> next = "discard") /\ Txn(a) /\ th[a].pc \notin RetirePcs
      /\ Txn(a)' /\ ~Handover(a)' /\ ~Stopping(a)' /\ (Unpublished(a)' <=> Unpublished(a))
      /\ ~Draining(a)' /\ ~Activating(a)' /\ ~Replacing(a)'
  BY <1>1, <1>4 DEF Txn, Handover, Stopping, Unpublished, Draining, Activating, Replacing, RetirePcs
<1>6. TypeOK' /\ SlotInv'
  <2>1. \A b \in Attempts : Txn(b)' => Txn(b)
    BY <1>4, <1>5 DEF Txn, Threads
  <2> QED
    BY <1>1, <1>2, <2>1 DEF IInv, TypeOK, SlotInv, Moves
<1>7. AttemptAt(a)'
  <2>1. LocalsAt(a)'
    BY <1>1, <1>4, <1>5 DEF LocalsAt, AttemptAt, RetirePcs
  <2>2. GateAt(a)'
    BY <1>1, <1>4, <1>5 DEF GateAt
  <2>3. CandidateAt(a)'
    BY <1>1, <1>4, <1>5 DEF CandidateAt, AttemptAt
  <2>4. AgeAt(a)'
    BY <1>4, <1>5 DEF AgeAt
  <2> QED
    BY <2>1, <2>2, <2>3, <2>4 DEF AttemptAt
<1>8. AttemptMoves(a)
  BY <1>1, <1>2, <1>4, <1>5, <1>6, <1>7 DEF AttemptMoves, RetirePcs
<1> QED
  BY <1>8, AttemptStep

\* The candidate is to be dropped, and the gate was left as it was or opened before.
LEMMA ToDiscard ==
    ASSUME IInv, NEW a \in Attempts, th[a].pc = "timeout" \/ (th[a].pc = "wake" /\ th[a].next = "discard"), NEW next,
           Moves(a, "discard", th[a].prev, th[a].target, next), GateKept, GensKept,
           root' \in [Roots -> RootType], active' = active, slot' = slot, platform' = platform
    PROVE  IInv'
<1>1. AttemptAt(a) /\ a \in Generations /\ None \notin Generations
  BY AttemptFacts
<1>2. th'[a].pc = "discard" /\ th'[a].prev = th[a].prev /\ th'[a].target = th[a].target
  BY DEF Moves
<1>3. /\ Txn(a) /\ ~Handover(a) /\ ~Stopping(a) /\ th[a].pc \notin RetirePcs /\ Unpublished(a)
      /\ Txn(a)' /\ ~Handover(a)' /\ ~Stopping(a)' /\ Unpublished(a)' /\ ~Draining(a)' /\ ~Activating(a)' /\ ~Replacing(a)'
  BY <1>2 DEF Draining, Txn, Unpublished, Handover, Activating, Replacing, Stopping, RetirePcs
<1>4. AttemptAt(a)'
  <2>1. LocalsAt(a)'
    BY <1>1, <1>2, <1>3 DEF LocalsAt, AttemptAt, RetirePcs
  <2>2. GateAt(a)'
    BY <1>2, <1>3 DEF GateAt
  <2>3. CandidateAt(a)'
    BY <1>3, CandidateStays
  <2>4. AgeAt(a)'
    BY <1>2, <1>3 DEF AgeAt
  <2> QED
    BY <2>1, <2>2, <2>3, <2>4 DEF AttemptAt
<1> QED
  BY <1>3, <1>4, PlainStep DEF RetirePcs

LEMMA DrainTimedOutStep ==
    ASSUME IInv, NEW a \in Attempts, DrainTimedOut(a)
    PROVE  IInv'
<1>1. th[a].pc = "timeout" /\ TypeOK /\ a \in Threads /\ th[a] \in ThreadType /\ gate \in GateType
  BY AttemptFacts DEF DrainTimedOut
<1>2. CASE StillOwner(th[a].prev)
  <2>1. /\ th' = [th EXCEPT ![a].pc = "wake", ![a].taken = gate.waiters, ![a].next = "discard"]
        /\ gate' = [gate EXCEPT !.open = TRUE, !.waiters = {}] /\ ~gate.shuttingDown
        /\ UNCHANGED <<active, slot, gen, root, platform>>
    BY <1>2 DEF DrainTimedOut, StillOwner
  <2> DEFINE r == [th[a] EXCEPT !.pc = "wake", !.taken = gate.waiters, !.next = "discard"]
  <2>2. th' = [th EXCEPT ![a] = r]
    BY <1>1, <2>1 DEF TypeOK, ThreadType
  <2>3. r \in ThreadType /\ r.pc = "wake" /\ r.prev = th[a].prev /\ r.target = th[a].target /\ r.next = "discard"
    <3>1. gate.waiters \in SUBSET Roots /\ "discard" \in ReloadPcs \cup {"idle", "exchange"}
      BY <1>1 DEF GateType, ReloadPcs
    <3> QED
      BY <1>1, <3>1 DEF ThreadType
  <2> HIDE DEF r
  <2>4. Moves(a, "wake", th[a].prev, th[a].target, "discard")
    BY <1>1, <2>2, <2>3, ThreadGoes
  <2> QED
    BY <1>1, <2>1, <2>4, GateOpens
<1>3. CASE ~StillOwner(th[a].prev)
  <2>1. Goto(a, "discard") /\ UNCHANGED <<gate, active, slot, gen, root, platform>>
    BY <1>3 DEF DrainTimedOut
  <2>2. Moves(a, "discard", th[a].prev, th[a].target, th[a].next)
    BY <1>1, <2>1, GotoFacts DEF ThreadPcs, ReloadPcs
  <2> QED
    BY <1>1, <2>1, <2>2, Untouched, ToDiscard
<1> QED
  BY <1>2, <1>3

LEMMA ReopenStep ==
    ASSUME IInv, NEW a \in Attempts, Reopen(a)
    PROVE  IInv'
<1>1. th[a].pc = "reopen" /\ TypeOK /\ a \in Threads /\ th[a] \in ThreadType /\ gate \in GateType
  BY AttemptFacts DEF Reopen
<1>2. CASE StillOwner(a)
  <2>1. /\ th' = [th EXCEPT ![a].pc = "wake", ![a].taken = gate.waiters,
                            ![a].next = "release", ![a].outcome = "Succeeded"]
        /\ gate' = [gate EXCEPT !.open = TRUE, !.waiters = {}] /\ ~gate.shuttingDown
        /\ UNCHANGED <<active, slot, gen, root, platform>>
    BY <1>2 DEF Reopen, StillOwner
  <2> DEFINE r == [th[a] EXCEPT !.pc = "wake", !.taken = gate.waiters, !.next = "release", !.outcome = "Succeeded"]
  <2>2. th' = [th EXCEPT ![a] = r]
    BY <1>1, <2>1 DEF TypeOK, ThreadType
  <2>3. r \in ThreadType /\ r.pc = "wake" /\ r.prev = th[a].prev /\ r.target = th[a].target /\ r.next = "release"
    <3>1. gate.waiters \in SUBSET Roots /\ "release" \in ReloadPcs \cup {"idle", "exchange"}
      BY <1>1 DEF GateType, ReloadPcs
    <3> QED
      BY <1>1, <3>1 DEF ThreadType, Outcomes
  <2> HIDE DEF r
  <2>4. Moves(a, "wake", th[a].prev, th[a].target, "release")
    BY <1>1, <2>2, <2>3, ThreadGoes
  <2> QED
    BY <1>1, <2>1, <2>4, GateOpens
<1>3. CASE ~StillOwner(a)
  <2>1. Report(a, "Shutdown") /\ UNCHANGED <<gate, active, slot, gen, root, platform>>
    BY <1>3 DEF Reopen
  <2>2. Moves(a, "release", th[a].prev, th[a].target, th[a].next)
    BY <1>1, <2>1, ReportFacts DEF Outcomes
  <2> QED
    BY <1>1, <2>1, <2>2, Untouched, ReportMove
<1> QED
  BY <1>2, <1>3

LEMMA ReleaseSlotStep ==
    ASSUME IInv, NEW a \in Attempts, ReleaseSlot(a)
    PROVE  IInv'
<1>1. AttemptAt(a) /\ th[a].pc = "release" /\ a \in Generations /\ None \notin Generations /\ TypeOK /\ a \in Threads
      /\ th[a] \in ThreadType
  BY AttemptFacts DEF ReleaseSlot
<1> DEFINE r == [NewThread EXCEPT !.kind = th[a].kind, !.pc = "done", !.outcome = th[a].outcome]
<1>2. th' = [th EXCEPT ![a] = r] /\ slot' = FALSE /\ UNCHANGED <<gate, active, gen, root, platform>>
  BY DEF ReleaseSlot
<1>3. r \in ThreadType /\ r.pc = "done" /\ r.prev = None /\ r.target = None /\ r.next = "idle"
  BY <1>1 DEF ThreadType, NewThread
<1> HIDE DEF r
<1>4. Moves(a, "done", None, None, "idle")
  BY <1>1, <1>2, <1>3, ThreadGoes
<1>5. /\ th'[a].pc = "done" /\ th'[a].prev = None /\ th'[a].target = None
      /\ \A u \in Threads : u # a => th'[u] = th[u]
  BY <1>4 DEF Moves
<1>6. /\ Txn(a) /\ ~Handover(a) /\ ~Unpublished(a)
      /\ ~Txn(a)' /\ ~Handover(a)' /\ ~Stopping(a)' /\ ~Unpublished(a)' /\ ~Draining(a)' /\ ~Activating(a)' /\ ~Replacing(a)'
  BY <1>1, <1>5 DEF Txn, Handover, Stopping, Unpublished, Draining, Activating, Replacing, RetirePcs
<1>7. TypeOK'
  BY <1>1, <1>2, <1>4 DEF TypeOK, Moves
<1>8. SlotInv'
  <2>1. \A b \in Attempts : ~Txn(b)'
    BY <1>5, <1>6 DEF IInv, SlotInv, Txn, Threads
  <2> QED
    BY <2>1 DEF SlotInv
<1>9. AttemptAt(a)'
  BY <1>5, <1>6 DEF AttemptAt, LocalsAt, GateAt, CandidateAt, AgeAt, RetirePcs
<1>10. AttemptMoves(a)
  <2>1. gate'.shuttingDown => ~gate'.open
    BY <1>2 DEF IInv, ActiveInv
  <2> QED
    BY <1>1, <1>2, <1>5, <1>6, <1>7, <1>8, <1>9, <2>1 DEF AttemptMoves
<1> QED
  BY <1>10, AttemptStep

LEMMA ActivateCatalogsStep ==
    ASSUME IInv, NEW a \in Attempts, ActivateCatalogs(a)
    PROVE  IInv'
<1>1. AttemptAt(a) /\ th[a].pc = "activate" /\ a \in Generations /\ None \notin Generations /\ TypeOK /\ a \in Threads
      /\ gen[a] \in GenerationType /\ platform \in Generations \cup {None}
  BY AttemptFacts DEF ActivateCatalogs
<1>2. root' \in [Roots -> RootType] /\ active' = active /\ slot' = slot /\ platform' = platform /\ GateKept
  BY DEF IInv, TypeOK, ActivateCatalogs, GateKept
<1>3. PICK pc \in {"reopen", "spawn"} : Moves(a, pc, th[a].prev, th[a].target, th[a].next)
  BY <1>1, GotoFacts DEF ActivateCatalogs, ThreadPcs, ReloadPcs
<1>4. GensKept
  <2> DEFINE r == [gen[a] EXCEPT !.catalogActive = TRUE]
  <2>1. gen' = [gen EXCEPT ![a] = r]
    BY DEF ActivateCatalogs
  <2>2. r \in GenerationType /\ r.built = gen[a].built /\ r.id = gen[a].id /\ r.shutdown = gen[a].shutdown
        /\ r.inFlight = gen[a].inFlight /\ r.reconcile = gen[a].reconcile
    BY <1>1 DEF GenerationType
  <2> HIDE DEF r
  <2> QED
    BY <1>1, <2>1, <2>2, GenTouched
<1>5. th'[a].pc = pc /\ th'[a].prev = th[a].prev /\ th'[a].target = th[a].target
  BY <1>3 DEF Moves
<1>6. /\ Txn(a) /\ ~Handover(a) /\ ~Stopping(a) /\ th[a].pc \notin RetirePcs /\ ~Unpublished(a) /\ Activating(a)
      /\ Txn(a)' /\ ~Handover(a)' /\ ~Stopping(a)' /\ ~Unpublished(a)' /\ ~Draining(a)' /\ ~Replacing(a)'
  BY <1>1, <1>5 DEF Draining, Txn, Unpublished, Handover, Activating, Replacing, Stopping, RetirePcs
<1>7. AttemptAt(a)'
  <2>1. LocalsAt(a)'
    BY <1>1, <1>5, <1>6 DEF LocalsAt, AttemptAt, RetirePcs
  <2>2. GateAt(a)'
    BY <1>1, <1>2, <1>5, <1>6 DEF GateAt, AttemptAt, GateKept, Activating
  <2>3. CandidateAt(a)'
    BY <1>2, <1>3, <1>4, <1>6, CandidateStays
  <2>4. AgeAt(a)'
    <3>1. \A g \in Generations : gen'[g].id = gen[g].id /\ (Running(g)' <=> Running(g))
      BY <1>4 DEF GensKept, GenKept, Running
    <3> QED
      BY <1>1, <1>2, <1>5, <1>6, <3>1 DEF AgeAt, AttemptAt
  <2> QED
    BY <2>1, <2>2, <2>3, <2>4 DEF AttemptAt
<1> QED
  BY <1>1, <1>2, <1>3, <1>4, <1>6, <1>7, PlainStep DEF RetirePcs

-----------------------------------------------------------------------------
(* A step of a closing thread.                                             *)

\* Closer s moves, or closes the gate for good.
CloserMoves(s) ==
    /\ TypeOK' /\ CloserAt(s)'
    /\ \A u \in Threads : u # s => th'[u] = th[u]
    /\ th'[s].target \in {th[s].target, None}
    /\ Stopping(s)' => Stopping(s) /\ th'[s].target = th[s].target
    /\ th[s].pc = "retire" /\ th[s].target # None => gen[th[s].target].shutdown
    /\ gate.shuttingDown => gate'.shuttingDown
    /\ gate'.shuttingDown => ~gate'.open
    /\ gate'.open => gate.open
    /\ GensKept
    /\ active' = active /\ platform' = platform /\ slot' = slot

LEMMA CloserStep ==
    ASSUME IInv, NEW s \in Closers, CloserMoves(s)
    PROVE  IInv'
<1> USE DEF Threads
<1>1. s \notin Attempts /\ \A u \in Threads : u # s => th'[u] = th[u]
  BY DEF CloserMoves
<1>2. /\ active' = active /\ platform' = platform /\ slot' = slot
      /\ gate.shuttingDown => gate'.shuttingDown
      /\ gate'.shuttingDown => ~gate'.open
      /\ gate'.open => gate.open
  BY DEF CloserMoves
<1>3. \A g \in Generations : /\ gen'[g].built = gen[g].built /\ gen'[g].id = gen[g].id /\ gen'[g].shutdown = gen[g].shutdown
                             /\ gen'[g].inFlight = gen[g].inFlight /\ gen'[g].reconcile = gen[g].reconcile
                             /\ Running(g)' <=> Running(g)
  BY DEF CloserMoves, GensKept, GenKept, Running
<1>4. \A b \in Attempts : /\ th'[b] = th[b]
                          /\ Txn(b)' <=> Txn(b)
                          /\ Draining(b)' <=> Draining(b)
                          /\ Handover(b)' <=> Handover(b)
                          /\ Activating(b)' <=> Activating(b)
                          /\ Replacing(b)' <=> Replacing(b)
                          /\ Unpublished(b)' <=> Unpublished(b)
  BY <1>1 DEF Txn, Draining, Handover, Activating, Replacing, Unpublished
<1>5. \A u \in Threads \ {s} : Stopping(u)' <=> Stopping(u)
  BY <1>1 DEF Stopping
<1>6. active \in Generations \cup {None} /\ platform \in Generations \cup {None} /\ None \notin Generations
  BY DEF IInv, TypeOK, Generations
<1>7. th'[s].target \in {th[s].target, None} /\ th'[s].prev = None /\ th[s].prev = None
  BY DEF CloserMoves, CloserAt, IInv, CloserInv
<1>8. SlotInv'
  BY <1>2, <1>4 DEF IInv, SlotInv
<1>9. AttemptInv'
  <2> SUFFICES ASSUME NEW b \in Attempts PROVE AttemptAt(b)'
    BY DEF AttemptInv
  <2>1. AttemptAt(b) /\ th'[b] = th[b] /\ b \in Generations
    BY <1>4 DEF IInv, AttemptInv, Generations
  <2>2. LocalsAt(b)'
    BY <1>4, <2>1 DEF AttemptAt, LocalsAt
  <2>3. GateAt(b)'
    BY <1>2, <1>3, <1>4, <2>1 DEF AttemptAt, LocalsAt, GateAt, Replacing, Draining
  <2>4. CandidateAt(b)'
    <3>1. Unpublished(b) => \A t \in Threads : th'[t].prev # b /\ (t # b => th'[t].target # b)
      BY <1>1, <1>6, <1>7, <2>1 DEF AttemptAt, CandidateAt
    <3>2. Handover(b) => \A t \in Threads : t # b => th'[t].target # th[b].prev
      BY <1>1, <1>6, <1>7, <2>1 DEF AttemptAt, CandidateAt, LocalsAt, Replacing
    <3>3. Handover(b) => th[b].prev \in Generations
      BY <2>1 DEF AttemptAt, LocalsAt, Replacing
    <3> QED
      BY <1>1, <1>2, <1>3, <1>4, <1>5, <2>1, <3>1, <3>2, <3>3 DEF AttemptAt, CandidateAt
  <2>5. AgeAt(b)'
    <3>1. Draining(b) \/ Handover(b) \/ th[b].pc = "close" => th[b].prev \in Generations
      BY <2>1 DEF AttemptAt, LocalsAt, Replacing
    <3> QED
      BY <1>2, <1>3, <1>4, <1>6, <2>1, <3>1 DEF AttemptAt, AgeAt
  <2> QED
    BY <2>2, <2>3, <2>4, <2>5 DEF AttemptAt
<1>10. CloserInv'
  BY <1>1, <1>2 DEF IInv, CloserInv, CloserAt, CloserMoves
<1>11. TargetInv'
  <2>1. Stopping(s)' => th'[s].target \in Generations /\ gen'[th'[s].target].shutdown
    BY <1>3 DEF IInv, TargetInv, CloserMoves
  <2> QED
    BY <1>1, <1>2, <1>3, <1>5, <1>7, <2>1 DEF IInv, TargetInv
<1>12. ActiveInv'
  BY <1>2, <1>3, <1>6 DEF IInv, ActiveInv, OneGenerationServes
<1>13. LeakInv'
  <2> SUFFICES ASSUME NEW g \in Generations, gen'[g].built, ~gen'[g].shutdown
               PROVE  \/ g = active
                      \/ g \in Attempts /\ Unpublished(g)'
                      \/ \E t \in Threads : th'[t].target = g /\ th'[t].pc = "retire"
    BY <1>2 DEF LeakInv
  <2>1. gen[g].built /\ ~gen[g].shutdown
    BY <1>3
  <2>2. CASE \E t \in Threads : th[t].target = g /\ th[t].pc = "retire"
    <3>1. PICK t \in Threads : th[t].target = g /\ th[t].pc = "retire"
      BY <2>2
    <3>2. t # s
      BY <2>1, <3>1, <1>6 DEF CloserMoves
    <3> QED
      BY <1>1, <3>1, <3>2
  <2> QED
    BY <1>4, <2>1, <2>2 DEF IInv, LeakInv
<1>14. CatalogInv'
  BY <1>2, <1>3, <1>4, <1>6 DEF IInv, CatalogInv
<1> QED
  BY <1>8, <1>9, <1>10, <1>11, <1>12, <1>13, <1>14 DEF IInv, CloserMoves

\* What the invariant says of closer s.
LEMMA CloserFacts ==
    ASSUME IInv, NEW s \in Closers
    PROVE  TypeOK /\ CloserAt(s) /\ s \in Threads /\ th[s] \in ThreadType /\ gate \in GateType
           /\ None \notin Generations /\ th[s].target \in Generations \cup {None}
           /\ (gate.shuttingDown => ~gate.open)
BY DEF IInv, TypeOK, CloserInv, Threads, ThreadType, ActiveInv, Generations

\* The closer goes on and nothing else changes.
LEMMA CloserGoes ==
    ASSUME IInv, NEW s \in Closers, NEW pc, NEW target, NEW next,
           Moves(s, pc, th[s].prev, target, next), GateKept, GensKept,
           root' \in [Roots -> RootType], active' = active, slot' = slot, platform' = platform,
           \/ pc \in {"idle", "exchange"} /\ target = None
           \/ pc \in {"stop", "join"} /\ Stopping(s) /\ target = th[s].target /\ next = th[s].next,
           pc # "idle" => gate.shuttingDown,
           th[s].pc = "retire" /\ th[s].target # None => gen[th[s].target].shutdown
    PROVE  IInv'
<1>1. TypeOK /\ CloserAt(s) /\ None \notin Generations /\ (gate.shuttingDown => ~gate.open)
  BY CloserFacts
<1>2. th'[s].pc = pc /\ th'[s].prev = th[s].prev /\ th'[s].target = target /\ th'[s].next = next
      /\ \A u \in Threads : u # s => th'[u] = th[u]
  BY DEF Moves
<1>3. CloserAt(s)'
  BY <1>1, <1>2 DEF CloserAt, GateKept, RetirePcs, Stopping
<1>4. TypeOK'
  BY <1>1 DEF TypeOK, GateKept, GensKept, Moves
<1>5. CloserMoves(s)
  BY <1>1, <1>2, <1>3, <1>4 DEF CloserMoves, GateKept, Stopping
<1> QED
  BY <1>5, CloserStep

-----------------------------------------------------------------------------
(* The subroutines, called by attempts and closers.                        *)

\* A thread inside one of them is an attempt or a closer, and holds what it must.
LEMMA ThreadFacts ==
    ASSUME IInv, NEW t \in Threads
    PROVE  TypeOK /\ th[t] \in ThreadType /\ (t \in Attempts \/ t \in Closers) /\ None \notin Generations
           /\ (Stopping(t) => th[t].target \in Generations /\ gen[th[t].target].shutdown)
           /\ th[t].next \in ReloadPcs \cup {"idle", "exchange"}
           /\ th[t].target \in Generations \cup {None}
BY DEF IInv, TypeOK, Threads, TargetInv, ThreadType, Generations

LEMMA CancelWaitersStep ==
    ASSUME IInv, NEW t \in Threads, CancelWaiters(t)
    PROVE  IInv'
<1>1. TypeOK /\ th[t] \in ThreadType /\ th[t].pc = "wake" /\ (t \in Attempts \/ t \in Closers)
      /\ th[t].next \in ReloadPcs \cup {"idle", "exchange"}
  BY ThreadFacts DEF CancelWaiters
<1>2. active' = active /\ slot' = slot /\ platform' = platform /\ GateKept /\ GensKept
  BY <1>1 DEF CancelWaiters, TypeOK, GateKept, GensKept, GenKept
<1>3. root' \in [Roots -> RootType]
  <2>1. ASSUME NEW q \in Roots PROVE [root[q] EXCEPT !.wake = "posted"] \in RootType /\ root[q] \in RootType
    BY <1>1 DEF TypeOK, RootType
  <2> QED
    BY <2>1 DEF CancelWaiters
<1> DEFINE r == [th[t] EXCEPT !.pc = th[t].next, !.taken = {}]
<1>4. th' = [th EXCEPT ![t] = r]
  BY <1>1 DEF CancelWaiters, TypeOK, ThreadType
<1>5. r \in ThreadType /\ r.pc = th[t].next /\ r.prev = th[t].prev /\ r.target = th[t].target /\ r.next = th[t].next
  BY <1>1 DEF ThreadType, ThreadPcs
<1> HIDE DEF r
<1>6. Moves(t, th[t].next, th[t].prev, th[t].target, th[t].next)
  BY <1>1, <1>4, <1>5, ThreadGoes
<1>7. CASE t \in Attempts
  <2>1. th[t].next \in {"discard", "release"}
    BY <1>1, <1>7, AttemptFacts DEF AttemptAt, LocalsAt
  <2>2. CASE th[t].next = "discard"
    BY <1>1, <1>2, <1>3, <1>6, <1>7, <2>2, ToDiscard
  <2>3. CASE th[t].next = "release"
    BY <1>1, <1>2, <1>3, <1>6, <1>7, <2>3, ReportMove
  <2> QED
    BY <2>1, <2>2, <2>3
<1>8. CASE t \in Closers
  <2>1. th[t].next \in {"idle", "exchange"} /\ gate.shuttingDown /\ th[t].target = None
    BY <1>1, <1>8, CloserFacts DEF CloserAt, RetirePcs
  <2> QED
    BY <1>1, <1>2, <1>3, <1>6, <1>8, <2>1, CloserGoes
<1> QED
  BY <1>1, <1>7, <1>8

\* shutdown() returns: its caller goes on.
LEMMA RetireReturns ==
    ASSUME IInv, NEW t \in Threads, th[t].pc \in RetirePcs,
           th' = [th EXCEPT ![t].pc = th[t].next, ![t].target = None],
           gate' = [gate EXCEPT !.holder = IF @ = t THEN None ELSE @], GensKept,
           th[t].target # None => gen[th[t].target].shutdown,
           th[t].pc = "join" => ~Running(th[t].target),
           th[t].pc \in {"retire", "join"},
           UNCHANGED <<active, slot, root, platform>>
    PROVE  IInv'
<1>1. TypeOK /\ th[t] \in ThreadType /\ (t \in Attempts \/ t \in Closers) /\ None \notin Generations
      /\ th[t].next \in ReloadPcs \cup {"idle", "exchange"}
  BY ThreadFacts
<1>2. active' = active /\ slot' = slot /\ platform' = platform /\ root' \in [Roots -> RootType]
  BY <1>1 DEF TypeOK
<1>3. GateKept
  <2>1. PICK h \in Attempts \cup {None} : gate' = [gate EXCEPT !.holder = h]
    BY <1>1 DEF TypeOK, GateType
  <2> QED
    BY <1>1, <2>1, HolderSet
<1> DEFINE r == [th[t] EXCEPT !.pc = th[t].next, !.target = None]
<1>4. th' = [th EXCEPT ![t] = r]
  BY <1>1 DEF TypeOK, ThreadType
<1>5. r \in ThreadType /\ r.pc = th[t].next /\ r.prev = th[t].prev /\ r.target = None /\ r.next = th[t].next
  BY <1>1 DEF ThreadType, ThreadPcs
<1> HIDE DEF r
<1>6. Moves(t, th[t].next, th[t].prev, None, th[t].next)
  BY <1>1, <1>4, <1>5, ThreadGoes
<1>7. CASE t \in Attempts
  <2>1. Handover(t) => ~Running(th[t].prev)
    <3>1. AttemptAt(t)
      BY <1>7, AttemptFacts
    <3>2. Handover(t) => th[t].target = th[t].prev /\ th[t].prev \in Generations
      BY <3>1 DEF AttemptAt, LocalsAt, Replacing
    <3>3. Handover(t) => th[t].pc # "retire"
      BY <1>1, <3>1, <3>2 DEF AttemptAt, CandidateAt
    <3> QED
      BY <3>2, <3>3
  <2> QED
    BY <1>2, <1>3, <1>6, <1>7, <2>1, RetiredMove
<1>8. CASE t \in Closers
  <2>1. th[t].next = "idle" /\ gate.shuttingDown
    BY <1>1, <1>8, CloserFacts DEF CloserAt, RetirePcs
  <2> QED
    BY <1>2, <1>3, <1>6, <1>8, <2>1, CloserGoes
<1> QED
  BY <1>1, <1>7, <1>8

\* The first caller marks the generation: nobody else shuts it down.
LEMMA MarkStep ==
    ASSUME IInv, NEW t \in Threads, NEW g \in Generations, g = th[t].target, th[t].pc = "retire",
           ~gen[g].shutdown, gen' = [gen EXCEPT ![g].shutdown = TRUE], Goto(t, "refuse"),
           UNCHANGED <<gate, active, slot, root, platform>>
    PROVE  IInv'
<1> USE DEF Threads
<1>1. TypeOK /\ None \notin Generations /\ gen[g] \in GenerationType
      /\ active \in Generations \cup {None} /\ platform \in Generations \cup {None}
  BY ThreadFacts DEF IInv, TypeOK
<1>2. Moves(t, "refuse", th[t].prev, th[t].target, th[t].next)
  BY <1>1, GotoFacts DEF ThreadPcs, RetirePcs
<1>3. /\ \A u \in Threads : u # t => th'[u] = th[u]
      /\ th'[t].pc = "refuse" /\ th'[t].prev = th[t].prev /\ th'[t].target = g /\ th'[t].next = th[t].next
  BY <1>2 DEF Moves
<1> DEFINE r == [gen[g] EXCEPT !.shutdown = TRUE]
<1>4. /\ r \in GenerationType /\ r.built = gen[g].built /\ r.id = gen[g].id /\ r.shutdown = TRUE
      /\ r.inFlight = gen[g].inFlight /\ r.reconcile = gen[g].reconcile
      /\ gen' = [gen EXCEPT ![g] = r]
  BY <1>1 DEF GenerationType
<1> HIDE DEF r
<1>5. /\ gen' \in [Generations -> GenerationType]
      /\ \A h \in Generations : /\ gen'[h].built = gen[h].built /\ gen'[h].id = gen[h].id
                                /\ gen'[h].inFlight = gen[h].inFlight /\ gen'[h].reconcile = gen[h].reconcile
                                /\ gen'[h].shutdown <=> (gen[h].shutdown \/ h = g)
                                /\ Running(h)' <=> Running(h)
  <2>1. /\ gen' \in [Generations -> GenerationType] /\ gen'[g] = r
        /\ \A h \in Generations : h # g => gen'[h] = gen[h]
    BY <1>1, <1>4, GenUpdate
  <2>2. ASSUME NEW h \in Generations
        PROVE  /\ gen'[h].built = gen[h].built /\ gen'[h].id = gen[h].id
               /\ gen'[h].inFlight = gen[h].inFlight /\ gen'[h].reconcile = gen[h].reconcile
               /\ gen'[h].shutdown <=> (gen[h].shutdown \/ h = g)
    BY <1>4, <2>1
  <2> QED
    BY <2>1, <2>2 DEF Running
<1>6. TypeOK'
  BY <1>1, <1>2, <1>5 DEF TypeOK, Moves
<1>7. \A b \in Attempts : /\ Txn(b)' <=> Txn(b)
                          /\ Draining(b)' <=> Draining(b)
                          /\ Handover(b)' <=> Handover(b)
                          /\ Activating(b)' <=> Activating(b)
                          /\ Replacing(b)' <=> Replacing(b)
                          /\ Unpublished(b)' <=> Unpublished(b)
                          /\ th'[b].prev = th[b].prev
  BY <1>3 DEF Txn, Draining, Handover, Activating, Replacing, Unpublished, RetirePcs
<1>8. \A u \in Threads : th'[u].target = th[u].target /\ th'[u].prev = th[u].prev /\ th'[u].next = th[u].next
                         /\ (th'[u].pc # th[u].pc => u = t)
  BY <1>3
<1>9. SlotInv'
  BY <1>7 DEF IInv, SlotInv
<1>10. AttemptInv'
  <2> SUFFICES ASSUME NEW b \in Attempts PROVE AttemptAt(b)'
    BY DEF AttemptInv
  <2>1. AttemptAt(b) /\ b \in Generations
    BY DEF IInv, AttemptInv, Generations
  <2>2. LocalsAt(b)'
    <3>1. CASE b = t
      BY <1>3, <1>7, <1>8, <2>1, <3>1 DEF AttemptAt, LocalsAt, RetirePcs
    <3>2. CASE b # t
      BY <1>3, <1>7, <2>1, <3>2 DEF AttemptAt, LocalsAt
    <3> QED
      BY <3>1, <3>2
  <2>3. GateAt(b)'
    <3>1. Draining(b) => th[b].prev \in Generations
      BY <2>1 DEF AttemptAt, LocalsAt, Replacing
    <3> QED
      BY <1>3, <1>5, <1>7, <2>1, <3>1 DEF AttemptAt, GateAt, Draining
  <2>4. CandidateAt(b)'
    <3>1. Unpublished(b) /\ g = b => b = t
      BY <2>1 DEF AttemptAt, CandidateAt
    <3>2. Handover(b) => th[b].prev \in Generations /\ (g = th[b].prev => b = t)
      BY <2>1 DEF AttemptAt, CandidateAt, LocalsAt, Replacing
    <3>3. Stopping(t)' /\ th'[t].pc # "retire"
      BY <1>3 DEF Stopping
    <3>4. b # t => (Stopping(b)' <=> Stopping(b)) /\ th'[b].pc = th[b].pc
      BY <1>3 DEF Stopping
    <3>5. b = t => ~Stopping(b) /\ th'[b].pc = "refuse"
      BY <1>3 DEF Stopping
    <3> QED
      BY <1>5, <1>7, <1>8, <2>1, <3>1, <3>2, <3>3, <3>4, <3>5 DEF AttemptAt, CandidateAt
  <2>5. AgeAt(b)'
    <3>1. Draining(b) \/ Handover(b) \/ th[b].pc = "close" => th[b].prev \in Generations
      BY <2>1 DEF AttemptAt, LocalsAt, Replacing
    <3> QED
      BY <1>1, <1>3, <1>5, <1>7, <2>1, <3>1 DEF AttemptAt, AgeAt
  <2> QED
    BY <2>2, <2>3, <2>4, <2>5 DEF AttemptAt
<1>11. CloserInv'
  <2> SUFFICES ASSUME NEW s \in Closers PROVE CloserAt(s)'
    BY DEF CloserInv
  <2>1. CloserAt(s)
    BY DEF IInv, CloserInv
  <2> QED
    BY <1>3, <2>1 DEF CloserAt, RetirePcs
<1>12. TargetInv'
  <2>1. ASSUME NEW u \in Threads, Stopping(u)' PROVE th'[u].target \in Generations /\ gen'[th'[u].target].shutdown
    BY <1>3, <1>5, <2>1 DEF IInv, TargetInv, Stopping
  <2> QED
    BY <1>8, <2>1 DEF IInv, TargetInv
<1>13. ActiveInv'
  <2>1. g # active
    BY <1>1 DEF IInv, TargetInv
  <2> QED
    BY <1>1, <1>5, <2>1 DEF IInv, ActiveInv, OneGenerationServes
<1>14. LeakInv'
  <2> SUFFICES ASSUME NEW h \in Generations, gen'[h].built, ~gen'[h].shutdown
               PROVE  \/ h = active
                      \/ h \in Attempts /\ Unpublished(h)'
                      \/ \E u \in Threads : th'[u].target = h /\ th'[u].pc = "retire"
    BY DEF LeakInv
  <2>1. gen[h].built /\ ~gen[h].shutdown /\ h # g
    BY <1>5
  <2>2. CASE \E u \in Threads : th[u].target = h /\ th[u].pc = "retire"
    BY <1>3, <2>1, <2>2
  <2> QED
    BY <1>7, <2>1, <2>2 DEF IInv, LeakInv
<1>15. CatalogInv'
  BY <1>1, <1>5, <1>7 DEF IInv, CatalogInv
<1> QED
  BY <1>6, <1>9, <1>10, <1>11, <1>12, <1>13, <1>14, <1>15 DEF IInv

LEMMA RetireStep ==
    ASSUME IInv, NEW t \in Threads, Retire(t)
    PROVE  IInv'
<1>1. TypeOK /\ th[t].pc = "retire" /\ th[t].target \in Generations \cup {None}
  BY ThreadFacts DEF Retire
<1>2. CASE th[t].target = None \/ gen[th[t].target].shutdown
  <2>1. /\ th' = [th EXCEPT ![t].pc = th[t].next, ![t].target = None]
        /\ gate' = [gate EXCEPT !.holder = IF @ = t THEN None ELSE @]
        /\ UNCHANGED <<gen, active, slot, root, platform>>
    BY <1>2 DEF Retire
  <2>2. GensKept
    BY <1>1, <2>1 DEF TypeOK, GensKept, GenKept
  <2> QED
    BY <1>1, <1>2, <2>1, <2>2, RetireReturns DEF RetirePcs
<1>3. CASE ~(th[t].target = None \/ gen[th[t].target].shutdown)
  BY <1>1, <1>3, MarkStep DEF Retire
<1> QED
  BY <1>2, <1>3

LEMMA RetireRefuseStep ==
    ASSUME IInv, NEW t \in Threads, RetireRefuse(t) \/ RetireStop(t)
    PROVE  IInv'
<1>1. TypeOK /\ Stopping(t) /\ th[t].target \in Generations /\ (t \in Attempts \/ t \in Closers)
      /\ gen[th[t].target] \in GenerationType
  BY ThreadFacts DEF RetireRefuse, RetireStop, Stopping, IInv, TypeOK
<1>2. PICK pc \in {"stop", "join"} : Moves(t, pc, th[t].prev, th[t].target, th[t].next)
  BY <1>1, GotoFacts DEF RetireRefuse, RetireStop, ThreadPcs, RetirePcs
<1>3. active' = active /\ slot' = slot /\ platform' = platform /\ root' \in [Roots -> RootType] /\ GateKept
  BY <1>1 DEF RetireRefuse, RetireStop, TypeOK, GateKept
<1>4. GensKept
  <2> DEFINE g == th[t].target
  <2>1. CASE RetireRefuse(t)
    <3> DEFINE r == [gen[g] EXCEPT !.accepting = FALSE]
    <3>1. gen' = [gen EXCEPT ![g] = r]
      BY <2>1 DEF RetireRefuse
    <3>2. r \in GenerationType /\ r.built = gen[g].built /\ r.id = gen[g].id /\ r.shutdown = gen[g].shutdown
          /\ r.inFlight = gen[g].inFlight /\ r.reconcile = gen[g].reconcile
      BY <1>1 DEF GenerationType
    <3> HIDE DEF r
    <3> QED
      BY <1>1, <3>1, <3>2, GenTouched
  <2>2. CASE RetireStop(t)
    <3> DEFINE r == [gen[g] EXCEPT !.catalogActive = FALSE, !.stage = "stopped"]
    <3>1. gen' = [gen EXCEPT ![g] = r]
      BY <1>1, <2>2 DEF RetireStop, TypeOK, GenerationType
    <3>2. r \in GenerationType /\ r.built = gen[g].built /\ r.id = gen[g].id /\ r.shutdown = gen[g].shutdown
          /\ r.inFlight = gen[g].inFlight /\ r.reconcile = gen[g].reconcile
      BY <1>1 DEF GenerationType
    <3> HIDE DEF r
    <3> QED
      BY <1>1, <3>1, <3>2, GenTouched
  <2> QED
    BY <2>1, <2>2
<1>5. CASE t \in Attempts
  BY <1>1, <1>2, <1>3, <1>4, <1>5, StoppingMove
<1>6. CASE t \in Closers
  <2>1. gate.shuttingDown /\ th[t].pc # "retire"
    BY <1>1, <1>6, CloserFacts DEF CloserAt, Stopping
  <2> QED
    BY <1>1, <1>2, <1>3, <1>4, <1>6, <2>1, CloserGoes
<1> QED
  BY <1>1, <1>5, <1>6

LEMMA RetireJoinStep ==
    ASSUME IInv, NEW t \in Threads, RetireJoin(t)
    PROVE  IInv'
<1>1. TypeOK /\ Stopping(t) /\ th[t].pc = "join" /\ th[t].target \in Generations /\ gen[th[t].target].shutdown
      /\ gen[th[t].target] \in GenerationType
  BY ThreadFacts DEF RetireJoin, Stopping, IInv, TypeOK
<1>2. GensKept
  <2> DEFINE g == th[t].target
             r == [gen[g] EXCEPT !.stage = "unloaded"]
  <2>1. gen' = [gen EXCEPT ![g] = r]
    BY DEF RetireJoin
  <2>2. r \in GenerationType /\ r.built = gen[g].built /\ r.id = gen[g].id /\ r.shutdown = gen[g].shutdown
        /\ r.inFlight = gen[g].inFlight /\ r.reconcile = gen[g].reconcile
    BY <1>1 DEF GenerationType
  <2> HIDE DEF r
  <2> QED
    BY <1>1, <2>1, <2>2, GenTouched
<1>3. ~Running(th[t].target)
  BY DEF RetireJoin, Running
<1> QED
  BY <1>1, <1>2, <1>3, RetireReturns DEF RetireJoin, RetirePcs

-----------------------------------------------------------------------------
(* Publication, the catalogs and the process shutdown.                     *)

\* While a transaction runs no other attempt is anywhere in one.
LEMMA Alone ==
    ASSUME IInv, NEW a \in Attempts, Txn(a), NEW b \in Attempts, b # a
    PROVE  /\ ~Txn(b) /\ th[b].prev = None /\ th[b].target = None
           /\ ~Draining(b) /\ ~Handover(b) /\ ~Activating(b) /\ ~Replacing(b) /\ ~Stopping(b)
           /\ th[b].pc \in {"idle", "request", "done"}
<1>1. ~Txn(b) /\ th[b].pc \in {"idle", "request", "done"}
  BY DEF IInv, SlotInv, Txn
<1>2. AttemptAt(b)
  BY AttemptFacts
<1> QED
  BY <1>1, <1>2 DEF AttemptAt, LocalsAt, Draining, Handover, Activating, Replacing, Stopping, RetirePcs

\* The candidate becomes the active generation and the old one is to be shut down.
LEMMA PublishStep ==
    ASSUME IInv, NEW a \in Attempts, Publish(a)
    PROVE  IInv'
<1> USE DEF Threads
<1>1. AttemptAt(a) /\ th[a].pc = "swap" /\ a \in Generations /\ None \notin Generations /\ TypeOK /\ a \in Threads
      /\ active \in Generations \cup {None} /\ platform \in Generations \cup {None}
      /\ \A g \in Generations : gen[g].id \in Nat
  BY AttemptFacts DEF Publish
<1>2. CASE ~StillOwner(th[a].prev)
  BY <1>1, <1>2, ShutdownFound DEF Publish
<1>3. CASE StillOwner(th[a].prev)
  <2> DEFINE p == th[a].prev
  <2>1. /\ active' = a /\ active = p /\ ~gate.shuttingDown /\ CallRetire(a, p, "activate", "none")
        /\ UNCHANGED <<gate, slot, gen, root, platform>>
    BY <1>3 DEF Publish, StillOwner
  <2>2. /\ Txn(a) /\ Draining(a) /\ Replacing(a) /\ Unpublished(a) /\ ~Stopping(a) /\ ~Handover(a)
        /\ th[a].pc \notin RetirePcs
    BY <1>1 DEF Txn, Draining, Replacing, Unpublished, Stopping, Handover, RetirePcs
  <2>3. /\ p \in Generations /\ p # a /\ ~gate.open /\ gen[p].inFlight = {} /\ gen[a].id > gen[p].id
        /\ ~gen[a].shutdown /\ ~gen[p].shutdown /\ gen[a].inFlight = {} /\ gen[a].reconcile = "none"
    BY <1>1, <2>1, <2>2 DEF AttemptAt, LocalsAt, GateAt, CandidateAt, AgeAt, IInv, ActiveInv
  <2>4. Moves(a, "retire", p, p, "activate")
    BY <1>1, <2>1, <2>3, CallRetireFacts DEF Outcomes
  <2>5. /\ th'[a].pc = "retire" /\ th'[a].prev = p /\ th'[a].target = p /\ th'[a].next = "activate"
        /\ \A u \in Threads : u # a => th'[u] = th[u]
    BY <2>4 DEF Moves
  <2>6. /\ Txn(a)' /\ Handover(a)' /\ Replacing(a)' /\ ~Draining(a)' /\ ~Activating(a)' /\ ~Unpublished(a)' /\ ~Stopping(a)'
    BY <2>5 DEF Txn, Draining, Replacing, Unpublished, Stopping, Handover, Activating, RetirePcs
  <2>7. \A b \in Attempts \ {a} : /\ th'[b] = th[b]
                                  /\ Txn(b)' <=> Txn(b)
                                  /\ Draining(b)' <=> Draining(b)
                                  /\ Handover(b)' <=> Handover(b)
                                  /\ Activating(b)' <=> Activating(b)
                                  /\ Replacing(b)' <=> Replacing(b)
                                  /\ Unpublished(b)' <=> Unpublished(b)
                                  /\ Stopping(b)' <=> Stopping(b)
    BY <2>5 DEF Txn, Draining, Handover, Activating, Replacing, Unpublished, Stopping
  <2>8. \A g \in Generations : Running(g)' <=> Running(g)
    BY <2>1 DEF Running
  <2>9. \A g \in Generations : Running(g) => g = p
    <3>1. ASSUME NEW g \in Generations, Running(g), NEW b \in Attempts, Handover(b) PROVE FALSE
      BY <2>2, <3>1, Alone
    <3> QED
      BY <1>1, <2>1, <2>3, <3>1 DEF IInv, CatalogInv
  <2>10. platform # None => gen[platform].id <= gen[p].id
    BY <1>1, <2>1, <2>3 DEF IInv, CatalogInv
  <2>11. TypeOK'
    BY <1>1, <2>1, <2>4 DEF TypeOK, Moves
  <2>12. SlotInv'
    BY <2>1, <2>2, <2>6, <2>7 DEF IInv, SlotInv
  <2>13. AttemptInv'
    <3>1. AttemptAt(a)'
      <4>1. LocalsAt(a)'
        BY <2>3, <2>5, <2>6 DEF LocalsAt, RetirePcs
      <4>2. GateAt(a)'
        BY <2>1, <2>3, <2>5, <2>6 DEF GateAt
      <4>3. CandidateAt(a)'
        <5>1. \A t \in Threads : t # a => th'[t].target # p
          BY <2>1, <2>3, <2>5, <1>1 DEF IInv, TargetInv
        <5> QED
          BY <2>1, <2>3, <2>5, <2>6, <5>1 DEF CandidateAt
      <4>4. AgeAt(a)'
        BY <2>1, <2>3, <2>5, <2>6, <2>8, <2>9, <2>10 DEF AgeAt
      <4> QED
        BY <4>1, <4>2, <4>3, <4>4 DEF AttemptAt
    <3>2. ASSUME NEW b \in Attempts, b # a PROVE AttemptAt(b)'
      <4>1. AttemptAt(b) /\ b \in Generations
        BY <3>2, AttemptFacts
      <4>2. /\ ~Txn(b) /\ th[b].prev = None /\ th[b].target = None
            /\ ~Draining(b) /\ ~Handover(b) /\ ~Activating(b) /\ ~Replacing(b) /\ ~Stopping(b)
            /\ th[b].pc \in {"idle", "request", "done"}
        BY <2>2, <3>2, Alone
      <4>3. LocalsAt(b)'
        BY <2>7, <3>2, <4>1, <4>2 DEF AttemptAt, LocalsAt, RetirePcs
      <4>4. GateAt(b)'
        BY <2>7, <3>2, <4>2 DEF GateAt
      <4>5. CandidateAt(b)'
        <5>1. Unpublished(b) => p # b
          BY <4>1 DEF AttemptAt, CandidateAt
        <5>2. Unpublished(b) => \A t \in Threads : th'[t].prev # b /\ (t # b => th'[t].target # b)
          BY <2>5, <4>1, <5>1 DEF AttemptAt, CandidateAt
        <5> QED
          BY <2>1, <2>7, <3>2, <4>1, <4>2, <5>2 DEF AttemptAt, CandidateAt
      <4>6. AgeAt(b)'
        BY <2>7, <3>2, <4>2 DEF AgeAt
      <4> QED
        BY <4>3, <4>4, <4>5, <4>6 DEF AttemptAt
    <3> QED
      BY <3>1, <3>2 DEF AttemptInv
  <2>14. CloserInv'
    BY <1>1, <2>1, <2>3, <2>5 DEF IInv, CloserInv, CloserAt
  <2>15. TargetInv'
    <3>1. \A t \in Threads : th'[t].target # a
      BY <1>1, <2>2, <2>3, <2>5 DEF AttemptAt, CandidateAt
    <3>2. ASSUME NEW t \in Threads, Stopping(t)' PROVE t # a /\ Stopping(t)
      BY <2>5, <2>6, <3>2 DEF Stopping
    <3> QED
      BY <2>1, <2>5, <3>1, <3>2 DEF IInv, TargetInv
  <2>16. ActiveInv'
    BY <1>1, <2>1, <2>3 DEF IInv, ActiveInv, OneGenerationServes
  <2>17. LeakInv'
    <3> SUFFICES ASSUME NEW g \in Generations, gen[g].built, ~gen[g].shutdown, g # a
                 PROVE  \/ g \in Attempts /\ Unpublished(g)'
                        \/ \E t \in Threads : th'[t].target = g /\ th'[t].pc = "retire"
      BY <2>1 DEF LeakInv
    <3>1. CASE g = active
      BY <1>1, <2>1, <2>5, <3>1
    <3>2. CASE g \in Attempts /\ Unpublished(g)
      BY <2>7, <3>2
    <3>3. CASE \E t \in Threads : th[t].target = g /\ th[t].pc = "retire"
      <4>1. PICK t \in Threads : th[t].target = g /\ th[t].pc = "retire"
        BY <3>3
      <4> QED
        BY <1>1, <2>5, <4>1
    <3> QED
      BY <3>1, <3>2, <3>3 DEF IInv, LeakInv
  <2>18. CatalogInv'
    <3>1. platform # None => gen[platform].id <= gen[a].id
      BY <1>1, <2>3, <2>10
    <3>2. \A g \in Generations : Running(g) => Handover(a)' /\ g = th'[a].prev
      BY <2>5, <2>6, <2>9
    <3> QED
      BY <1>1, <2>1, <2>8, <3>1, <3>2 DEF IInv, CatalogInv
  <2> QED
    BY <2>11, <2>12, <2>13, <2>14, <2>15, <2>16, <2>17, <2>18 DEF IInv
<1> QED
  BY <1>2, <1>3

\* The catalog coroutine of the candidate starts when no other runs.
LEMMA SpawnReconcileStep ==
    ASSUME IInv, NEW a \in Attempts, SpawnReconcile(a)
    PROVE  IInv'
<1> USE DEF Threads
<1>1. AttemptAt(a) /\ th[a].pc = "spawn" /\ a \in Generations /\ None \notin Generations /\ TypeOK /\ a \in Threads
      /\ active \in Generations \cup {None} /\ platform \in Generations \cup {None} /\ gen[a] \in GenerationType
  BY AttemptFacts DEF SpawnReconcile
<1>2. Moves(a, "reopen", th[a].prev, th[a].target, th[a].next)
  BY <1>1, GotoFacts DEF SpawnReconcile, ThreadPcs, ReloadPcs
<1>3. th'[a].pc = "reopen" /\ th'[a].prev = th[a].prev /\ th'[a].target = th[a].target
      /\ \A u \in Threads : u # a => th'[u] = th[u]
  BY <1>2 DEF Moves
<1> DEFINE x == IF gen[a].stage = "unloaded" THEN gen[a].reconcile ELSE "check"
           r == [gen[a] EXCEPT !.reconcile = x]
<1>4. gen' = [gen EXCEPT ![a] = r] /\ UNCHANGED <<gate, active, slot, root, platform>>
  BY <1>1 DEF SpawnReconcile, TypeOK
<1>5. x \in {"none", "check", "publish", "done"}
  BY <1>1 DEF GenerationType
<1> HIDE DEF x
<1>6. /\ r \in GenerationType /\ r.built = gen[a].built /\ r.id = gen[a].id /\ r.shutdown = gen[a].shutdown
      /\ r.inFlight = gen[a].inFlight
  BY <1>1, <1>5 DEF GenerationType
<1> HIDE DEF r
<1>7. /\ gen' \in [Generations -> GenerationType]
      /\ \A g \in Generations : /\ gen'[g].built = gen[g].built /\ gen'[g].id = gen[g].id /\ gen'[g].shutdown = gen[g].shutdown
                                /\ gen'[g].inFlight = gen[g].inFlight
                                /\ g # a => gen'[g] = gen[g]
  BY <1>1, <1>4, <1>6, GenUpdate
<1>8. /\ Txn(a) /\ Activating(a) /\ ~Unpublished(a) /\ ~Handover(a) /\ ~Stopping(a)
      /\ Txn(a)' /\ ~Handover(a)' /\ ~Replacing(a)' /\ ~Draining(a)' /\ ~Activating(a)' /\ ~Unpublished(a)' /\ ~Stopping(a)'
  BY <1>1, <1>3 DEF Txn, Draining, Replacing, Unpublished, Stopping, Handover, Activating, RetirePcs
<1>9. \A g \in Generations : Running(g)' => g = a
  BY <1>1, <1>7, <1>8 DEF AttemptAt, AgeAt, Running
<1>10. /\ ~gate.open /\ active \in {a, None} /\ (platform # None => gen[platform].id < gen[a].id)
       /\ th[a].target = None
  BY <1>1, <1>8 DEF AttemptAt, GateAt, AgeAt, LocalsAt, RetirePcs
<1>11. \A b \in Attempts \ {a} : /\ th'[b] = th[b]
                                 /\ Txn(b)' <=> Txn(b)
                                 /\ Draining(b)' <=> Draining(b)
                                 /\ Handover(b)' <=> Handover(b)
                                 /\ Activating(b)' <=> Activating(b)
                                 /\ Replacing(b)' <=> Replacing(b)
                                 /\ Unpublished(b)' <=> Unpublished(b)
                                 /\ Stopping(b)' <=> Stopping(b)
  BY <1>3 DEF Txn, Draining, Handover, Activating, Replacing, Unpublished, Stopping
<1>12. TypeOK'
  BY <1>1, <1>2, <1>4, <1>7 DEF TypeOK, Moves
<1>13. SlotInv'
  BY <1>4, <1>8, <1>11 DEF IInv, SlotInv
<1>14. AttemptInv'
  <2>1. AttemptAt(a)'
    BY <1>3, <1>4, <1>8, <1>10 DEF AttemptAt, LocalsAt, GateAt, CandidateAt, AgeAt, RetirePcs
  <2>2. ASSUME NEW b \in Attempts, b # a PROVE AttemptAt(b)'
    <3>1. AttemptAt(b) /\ b \in Generations
      BY <2>2, AttemptFacts
    <3>2. /\ ~Txn(b) /\ th[b].prev = None /\ th[b].target = None
          /\ ~Draining(b) /\ ~Handover(b) /\ ~Activating(b) /\ ~Replacing(b) /\ ~Stopping(b)
          /\ th[b].pc \in {"idle", "request", "done"}
      BY <1>8, <2>2, Alone
    <3>3. LocalsAt(b)' /\ GateAt(b)' /\ AgeAt(b)'
      BY <1>11, <2>2, <3>1, <3>2 DEF AttemptAt, LocalsAt, GateAt, AgeAt, RetirePcs
    <3>4. CandidateAt(b)'
      <4>1. Unpublished(b) => \A t \in Threads : th'[t].prev # b /\ (t # b => th'[t].target # b)
        BY <1>3, <3>1 DEF AttemptAt, CandidateAt
      <4> QED
        BY <1>4, <1>7, <1>11, <2>2, <3>1, <3>2, <4>1 DEF AttemptAt, CandidateAt
    <3> QED
      BY <3>3, <3>4 DEF AttemptAt
  <2> QED
    BY <2>1, <2>2 DEF AttemptInv
<1>15. CloserInv'
  BY <1>3, <1>4 DEF IInv, CloserInv, CloserAt
<1>16. TargetInv'
  <2>1. ASSUME NEW t \in Threads, Stopping(t)' PROVE t # a /\ Stopping(t)
    BY <1>3, <1>8, <2>1 DEF Stopping
  <2> QED
    BY <1>3, <1>4, <1>7, <2>1 DEF IInv, TargetInv
<1>17. ActiveInv'
  BY <1>1, <1>4, <1>7 DEF IInv, ActiveInv, OneGenerationServes
<1>18. LeakInv'
  <2> SUFFICES ASSUME NEW g \in Generations, gen[g].built, ~gen[g].shutdown
               PROVE  \/ g = active
                      \/ g \in Attempts /\ Unpublished(g)'
                      \/ \E t \in Threads : th'[t].target = g /\ th'[t].pc = "retire"
    BY <1>4, <1>7 DEF LeakInv
  <2>1. CASE \E t \in Threads : th[t].target = g /\ th[t].pc = "retire"
    BY <1>1, <1>3, <2>1
  <2> QED
    BY <1>8, <1>11, <2>1 DEF IInv, LeakInv
<1>19. CatalogInv'
  BY <1>1, <1>4, <1>7, <1>9, <1>10 DEF IInv, CatalogInv
<1> QED
  BY <1>12, <1>13, <1>14, <1>15, <1>16, <1>17, <1>18, <1>19 DEF IInv

\* The platform shows the catalog of a generation whose coroutine runs.
LEMMA PublishCatalogStep ==
    ASSUME IInv, NEW g \in Generations, PublishCatalog(g)
    PROVE  IInv'
<1> USE DEF Threads
<1>1. TypeOK /\ None \notin Generations /\ gen[g] \in GenerationType /\ Running(g)
      /\ active \in Generations \cup {None} /\ platform \in Generations \cup {None}
      /\ \A h \in Generations : gen[h].id \in Nat
  BY DEF IInv, TypeOK, Generations, PublishCatalog, Running, GenerationType
<1>2. platform' \in {platform, g} /\ UNCHANGED <<gate, active, slot, root, th>>
  BY DEF PublishCatalog
<1>3. PICK x \in {"done", "check"} : gen' = [gen EXCEPT ![g].reconcile = x]
  BY DEF PublishCatalog
<1> DEFINE r == [gen[g] EXCEPT !.reconcile = x]
<1>4. gen' = [gen EXCEPT ![g] = r]
  BY <1>3
<1>5. /\ r \in GenerationType /\ r.built = gen[g].built /\ r.id = gen[g].id /\ r.shutdown = gen[g].shutdown
      /\ r.inFlight = gen[g].inFlight
  BY <1>1 DEF GenerationType
<1> HIDE DEF r
<1>6. /\ gen' \in [Generations -> GenerationType]
      /\ \A h \in Generations : /\ gen'[h].built = gen[h].built /\ gen'[h].id = gen[h].id /\ gen'[h].shutdown = gen[h].shutdown
                                /\ gen'[h].inFlight = gen[h].inFlight
                                /\ h # g => gen'[h] = gen[h]
  BY <1>1, <1>4, <1>5, GenUpdate
<1>7. \A h \in Generations : Running(h)' => Running(h)
  BY <1>1, <1>6 DEF Running
<1>8. \A b \in Attempts : /\ Txn(b)' <=> Txn(b)
                          /\ Draining(b)' <=> Draining(b)
                          /\ Handover(b)' <=> Handover(b)
                          /\ Activating(b)' <=> Activating(b)
                          /\ Replacing(b)' <=> Replacing(b)
                          /\ Unpublished(b)' <=> Unpublished(b)
  BY <1>2 DEF Txn, Draining, Handover, Activating, Replacing, Unpublished
<1>9. \A t \in Threads : Stopping(t)' <=> Stopping(t)
  BY <1>2 DEF Stopping
<1>10. TypeOK'
  BY <1>1, <1>2, <1>6 DEF TypeOK
<1>11. AttemptInv'
  <2> SUFFICES ASSUME NEW b \in Attempts PROVE AttemptAt(b)'
    BY DEF AttemptInv
  <2>1. AttemptAt(b) /\ b \in Generations
    BY AttemptFacts
  <2>2. Draining(b) \/ Handover(b) \/ th[b].pc = "close" => th[b].prev \in Generations
    BY <2>1 DEF AttemptAt, LocalsAt, Replacing
  <2>3. LocalsAt(b)'
    BY <1>2, <1>8, <2>1 DEF AttemptAt, LocalsAt
  <2>4. GateAt(b)'
    BY <1>2, <1>6, <1>8, <2>1, <2>2 DEF AttemptAt, GateAt, Draining
  <2>5. CandidateAt(b)'
    <3>1. Unpublished(b) => b # g
      BY <1>1, <2>1 DEF AttemptAt, CandidateAt, Running
    <3> QED
      BY <1>2, <1>6, <1>8, <1>9, <2>1, <2>2, <3>1 DEF AttemptAt, CandidateAt
  <2>6. AgeAt(b)'
    <3>1. ~Activating(b)
      BY <1>1, <2>1 DEF AttemptAt, AgeAt
    <3>2. Handover(b) => g = th[b].prev
      BY <1>1, <2>1 DEF AttemptAt, AgeAt
    <3>3. Handover(b) => (platform' # None => gen'[platform'].id <= gen'[th'[b].prev].id)
      BY <1>1, <1>2, <1>6, <2>1, <2>2, <3>2 DEF AttemptAt, AgeAt
    <3>4. Handover(b) => \A h \in Generations : Running(h)' => h = th'[b].prev
      BY <1>2, <1>7, <2>1 DEF AttemptAt, AgeAt
    <3> QED
      BY <1>1, <1>2, <1>6, <1>8, <2>1, <2>2, <3>1, <3>3, <3>4 DEF AttemptAt, AgeAt
  <2> QED
    BY <2>3, <2>4, <2>5, <2>6 DEF AttemptAt
<1>12. SlotInv' /\ CloserInv' /\ LeakInv'
  BY <1>2, <1>6, <1>8 DEF IInv, SlotInv, CloserInv, CloserAt, LeakInv
<1>13. TargetInv' /\ ActiveInv'
  BY <1>1, <1>2, <1>6, <1>9 DEF IInv, TargetInv, ActiveInv, OneGenerationServes
<1>14. CatalogInv'
  <2>1. \A h \in Generations : Running(h)' /\ platform' # None => platform' = h \/ gen'[platform'].id < gen'[h].id
    BY <1>1, <1>2, <1>6, <1>7 DEF IInv, CatalogInv
  <2>2. ASSUME active # None PROVE gen[g].id <= gen[active].id
    <3>1. ASSUME NEW b \in Attempts, Handover(b), g = th[b].prev PROVE gen[g].id <= gen[active].id
      <4>1. AttemptAt(b) /\ b \in Generations
        BY AttemptFacts
      <4>2. active = b /\ gen[b].id > gen[g].id
        BY <2>2, <3>1, <4>1 DEF AttemptAt, GateAt, AgeAt
      <4> QED
        BY <1>1, <4>1, <4>2
    <3> QED
      BY <1>1, <2>2, <3>1 DEF IInv, CatalogInv
  <2>3. active # None /\ platform' # None => gen'[platform'].id <= gen'[active].id
    BY <1>1, <1>2, <1>6, <2>2 DEF IInv, CatalogInv
  <2>4. active # None => \A h \in Generations : Running(h)' =>
            h = active \/ \E b \in Attempts : Handover(b)' /\ h = th'[b].prev
    BY <1>2, <1>7, <1>8 DEF IInv, CatalogInv
  <2> QED
    BY <1>2, <1>7, <2>1, <2>3, <2>4 DEF IInv, CatalogInv
<1> QED
  BY <1>10, <1>11, <1>12, <1>13, <1>14 DEF IInv

LEMMA BeginShutdownStep ==
    ASSUME IInv, NEW s \in Closers, BeginShutdown(s)
    PROVE  IInv'
<1>1. TypeOK /\ CloserAt(s) /\ s \in Threads /\ th[s] \in ThreadType /\ gate \in GateType /\ None \notin Generations
      /\ th[s].pc = "idle" /\ th[s].target = None
  BY CloserFacts DEF BeginShutdown, CloserAt, RetirePcs
<1>2. PICK next \in {"idle", "exchange"} :
         \/ gate.shuttingDown /\ Goto(s, next) /\ UNCHANGED gate
         \/ /\ ~gate.shuttingDown
            /\ gate' = [gate EXCEPT !.shuttingDown = TRUE, !.open = FALSE, !.waiters = {}]
            /\ th' = [th EXCEPT ![s].pc = "wake", ![s].taken = gate.waiters, ![s].next = next]
  BY DEF BeginShutdown
<1>3. UNCHANGED <<active, slot, gen, root, platform>>
  BY DEF BeginShutdown
<1>4. GensKept /\ root' \in [Roots -> RootType]
  BY <1>1, <1>3 DEF TypeOK, GensKept, GenKept
<1>5. CASE gate.shuttingDown /\ Goto(s, next) /\ UNCHANGED gate
  <2>1. Moves(s, next, th[s].prev, th[s].target, th[s].next)
    BY <1>1, <1>5, GotoFacts DEF ThreadPcs
  <2>2. GateKept
    BY <1>1, <1>5 DEF GateKept
  <2> QED
    BY <1>1, <1>3, <1>4, <1>5, <2>1, <2>2, CloserGoes
<1>6. CASE /\ ~gate.shuttingDown
           /\ gate' = [gate EXCEPT !.shuttingDown = TRUE, !.open = FALSE, !.waiters = {}]
           /\ th' = [th EXCEPT ![s].pc = "wake", ![s].taken = gate.waiters, ![s].next = next]
  <2> DEFINE r == [th[s] EXCEPT !.pc = "wake", !.taken = gate.waiters, !.next = next]
  <2>1. th' = [th EXCEPT ![s] = r]
    BY <1>1, <1>6 DEF TypeOK, ThreadType
  <2>2. r \in ThreadType /\ r.pc = "wake" /\ r.prev = th[s].prev /\ r.target = th[s].target /\ r.next = next
    <3>1. gate.waiters \in SUBSET Roots /\ next \in ReloadPcs \cup {"idle", "exchange"}
      BY <1>1 DEF GateType
    <3> QED
      BY <1>1, <3>1 DEF ThreadType
  <2> HIDE DEF r
  <2>3. Moves(s, "wake", th[s].prev, th[s].target, next)
    BY <1>1, <2>1, <2>2, ThreadGoes
  <2>4. gate' \in GateType /\ gate'.shuttingDown /\ ~gate'.open
    BY <1>1, <1>6 DEF GateType
  <2>5. th'[s].pc = "wake" /\ th'[s].prev = th[s].prev /\ th'[s].target = th[s].target /\ th'[s].next = next
        /\ \A u \in Threads : u # s => th'[u] = th[u]
    BY <2>3 DEF Moves
  <2>6. CloserAt(s)'
    BY <1>1, <1>3, <2>4, <2>5 DEF CloserAt, RetirePcs
  <2>7. TypeOK'
    BY <1>1, <1>3, <1>4, <2>3, <2>4 DEF TypeOK, Moves
  <2>8. CloserMoves(s)
    BY <1>1, <1>3, <1>4, <2>4, <2>5, <2>6, <2>7 DEF CloserMoves, Stopping
  <2> QED
    BY <2>8, CloserStep
<1> QED
  BY <1>2, <1>5, <1>6

\* shutdown() takes the active generation away from everybody.
LEMMA ExchangeActiveStep ==
    ASSUME IInv, NEW s \in Closers, ExchangeActive(s)
    PROVE  IInv'
<1> USE DEF Threads
<1>1. TypeOK /\ CloserAt(s) /\ s \in Threads /\ s \notin Attempts /\ None \notin Generations
      /\ th[s].pc = "exchange" /\ gate.shuttingDown
      /\ active \in Generations \cup {None} /\ platform \in Generations \cup {None}
      /\ \A g \in Generations : gen[g].id \in Nat
  BY CloserFacts DEF ExchangeActive, CloserAt, TypeOK, GenerationType
<1>2. Moves(s, "retire", th[s].prev, active, "idle") /\ active' = None /\ UNCHANGED <<gate, slot, gen, root, platform>>
  BY <1>1, CallRetireFacts DEF ExchangeActive, Outcomes
<1>3. /\ th'[s].pc = "retire" /\ th'[s].prev = th[s].prev /\ th'[s].target = active /\ th'[s].next = "idle"
      /\ \A u \in Threads : u # s => th'[u] = th[u]
      /\ th[s].prev = None
  BY <1>1, <1>2 DEF Moves, CloserAt
<1>4. \A b \in Attempts : /\ th'[b] = th[b]
                          /\ Txn(b)' <=> Txn(b)
                          /\ Draining(b)' <=> Draining(b)
                          /\ Handover(b)' <=> Handover(b)
                          /\ Activating(b)' <=> Activating(b)
                          /\ Replacing(b)' <=> Replacing(b)
                          /\ Unpublished(b)' <=> Unpublished(b)
                          /\ Stopping(b)' <=> Stopping(b)
  BY <1>1, <1>3 DEF Txn, Draining, Handover, Activating, Replacing, Unpublished, Stopping
<1>5. \A g \in Generations : Running(g)' <=> Running(g)
  BY <1>2 DEF Running
<1>6. TypeOK'
  BY <1>1, <1>2 DEF TypeOK, Moves
<1>7. SlotInv'
  BY <1>2, <1>4 DEF IInv, SlotInv
<1>8. AttemptInv'
  <2> SUFFICES ASSUME NEW b \in Attempts PROVE AttemptAt(b)'
    BY DEF AttemptInv
  <2>1. AttemptAt(b) /\ b \in Generations /\ th'[b] = th[b]
    BY <1>4, AttemptFacts
  <2>2. LocalsAt(b)' /\ GateAt(b)'
    BY <1>2, <1>4, <2>1 DEF AttemptAt, LocalsAt, GateAt
  <2>3. CandidateAt(b)'
    <3>1. Unpublished(b) => active # b
      BY <2>1 DEF AttemptAt, CandidateAt
    <3>2. Handover(b) => active # th[b].prev
      <4>1. Handover(b) => active \in {b, None} /\ th[b].prev \in Generations /\ gen[b].id > gen[th[b].prev].id
        BY <2>1 DEF AttemptAt, LocalsAt, GateAt, AgeAt, Replacing
      <4> QED
        BY <1>1, <2>1, <4>1
    <3>3. Unpublished(b) => \A t \in Threads : th'[t].prev # b /\ (t # b => th'[t].target # b)
      BY <1>1, <1>3, <2>1, <3>1 DEF AttemptAt, CandidateAt
    <3>4. Handover(b) => \A t \in Threads : t # b => th'[t].target # th[b].prev
      BY <1>3, <2>1, <3>2 DEF AttemptAt, CandidateAt
    <3> QED
      BY <1>1, <1>2, <1>4, <2>1, <3>3, <3>4 DEF AttemptAt, CandidateAt
  <2>4. AgeAt(b)'
    BY <1>2, <1>4, <1>5, <2>1 DEF AttemptAt, AgeAt
  <2> QED
    BY <2>2, <2>3, <2>4 DEF AttemptAt
<1>9. CloserInv'
  BY <1>1, <1>2, <1>3 DEF IInv, CloserInv, CloserAt, RetirePcs
<1>10. TargetInv'
  <2>1. ASSUME NEW t \in Threads, Stopping(t)' PROVE t # s /\ Stopping(t)
    BY <1>3, <2>1 DEF Stopping
  <2> QED
    BY <1>2, <1>3, <2>1 DEF IInv, TargetInv
<1>11. ActiveInv'
  BY <1>1, <1>2 DEF IInv, ActiveInv, OneGenerationServes
<1>12. LeakInv'
  <2> SUFFICES ASSUME NEW g \in Generations, gen[g].built, ~gen[g].shutdown
               PROVE  \/ g \in Attempts /\ Unpublished(g)'
                      \/ \E t \in Threads : th'[t].target = g /\ th'[t].pc = "retire"
    BY <1>2 DEF LeakInv
  <2>1. CASE g = active
    BY <1>1, <1>3, <2>1
  <2>2. CASE \E t \in Threads : th[t].target = g /\ th[t].pc = "retire"
    BY <1>1, <1>3, <2>2
  <2> QED
    BY <1>4, <2>1, <2>2 DEF IInv, LeakInv
<1>13. CatalogInv'
  BY <1>2, <1>5 DEF IInv, CatalogInv
<1> QED
  BY <1>6, <1>7, <1>8, <1>9, <1>10, <1>11, <1>12, <1>13 DEF IInv

-----------------------------------------------------------------------------
(* Root messages and the other quiet steps.                                *)

LEMMA RootUpdate ==
    ASSUME TypeOK, NEW r \in Roots, NEW q \in RootType, root' = [root EXCEPT ![r] = q]
    PROVE  root' \in [Roots -> RootType]
BY DEF TypeOK

\* Only root messages move.
LEMMA RootMoves ==
    ASSUME IInv, root' \in [Roots -> RootType], UNCHANGED <<active, slot, gen, th, platform>>,
           gate' \in GateType, gate'.open = gate.open, gate'.shuttingDown = gate.shuttingDown
    PROVE  IInv'
<1>1. TypeOK'
  BY DEF IInv, TypeOK
<1>2. \A g \in Generations : Running(g)' <=> Running(g)
  BY DEF Running
<1>3. Quiet
  BY <1>1, <1>2 DEF Quiet
<1> QED
  BY <1>3, QuietStep

LEMMA RootStep ==
    ASSUME IInv, NEW r \in Roots, Submit(r) \/ StartWait(r) \/ DeliverWake(r) \/ WaitEnds(r) \/ RouteReturns(r)
    PROVE  IInv'
<1>1. TypeOK /\ root[r] \in RootType /\ UNCHANGED <<gate, active, slot, gen, th, platform>> /\ gate \in GateType
  BY DEF IInv, TypeOK, Submit, StartWait, DeliverWake, WaitEnds, RouteReturns
<1>2. root' \in [Roots -> RootType]
  <2>1. CASE Submit(r)
    <3> DEFINE q == [root[r] EXCEPT !.pc = "enter"]
    <3>1. root' = [root EXCEPT ![r] = q] /\ q \in RootType
      BY <1>1, <2>1 DEF Submit, RootType
    <3> QED
      BY <1>1, <3>1, RootUpdate
  <2>2. CASE StartWait(r)
    <3> DEFINE q == [root[r] EXCEPT !.pc = "waiting"]
    <3>1. root' = [root EXCEPT ![r] = q] /\ q \in RootType
      BY <1>1, <2>2 DEF StartWait, RootType
    <3> QED
      BY <1>1, <3>1, RootUpdate
  <2>3. CASE DeliverWake(r)
    <3> DEFINE q == [root[r] EXCEPT !.wake = "expired"]
    <3>1. root' = [root EXCEPT ![r] = q] /\ q \in RootType
      BY <1>1, <2>3 DEF DeliverWake, RootType
    <3> QED
      BY <1>1, <3>1, RootUpdate
  <2>4. CASE WaitEnds(r)
    <3> DEFINE q == [root[r] EXCEPT !.pc = "enter", !.wake = "none"]
    <3>1. root' = [root EXCEPT ![r] = q]
      BY <1>1, <2>4 DEF WaitEnds, TypeOK, RootType
    <3>2. q \in RootType
      BY <1>1 DEF RootType
    <3> QED
      BY <1>1, <3>1, <3>2, RootUpdate
  <2>5. CASE RouteReturns(r)
    <3> DEFINE q == [root[r] EXCEPT !.pc = "done", !.result = "processed"]
    <3>1. root' = [root EXCEPT ![r] = q]
      BY <1>1, <2>5 DEF RouteReturns, TypeOK, RootType
    <3>2. q \in RootType
      BY <1>1 DEF RootType
    <3> QED
      BY <1>1, <3>1, <3>2, RootUpdate
  <2> QED
    BY <2>1, <2>2, <2>3, <2>4, <2>5
<1> QED
  BY <1>1, <1>2, RootMoves

\* Routes come and go in one generation.
LEMMA RoutesMove ==
    ASSUME IInv, root' \in [Roots -> RootType], NEW g \in Generations, NEW x \in GenerationType,
           gen' = [gen EXCEPT ![g] = x],
           x.built = gen[g].built, x.id = gen[g].id, x.shutdown = gen[g].shutdown, x.reconcile = gen[g].reconcile,
           gen[g].inFlight = {} => x.inFlight = {} \/ (g = active /\ gate.open),
           th' \in [Threads -> ThreadType],
           \A t \in Threads : /\ th'[t].pc = th[t].pc /\ th'[t].prev = th[t].prev
                              /\ th'[t].target = th[t].target /\ th'[t].next = th[t].next,
           UNCHANGED <<gate, active, slot, platform>>
    PROVE  IInv'
<1>1. /\ gen' \in [Generations -> GenerationType] /\ gen'[g] = x
      /\ \A h \in Generations : h # g => gen'[h] = gen[h]
  BY GenUpdate DEF IInv
<1>2. TypeOK'
  BY <1>1 DEF IInv, TypeOK
<1>3. Quiet
  <2>1. \A h \in Generations :
          /\ gen'[h].built = gen[h].built /\ gen'[h].id = gen[h].id /\ gen'[h].shutdown = gen[h].shutdown
          /\ gen[h].inFlight = {} => gen'[h].inFlight = {} \/ (h = active /\ gate.open)
          /\ gen'[h].reconcile = gen[h].reconcile
    BY <1>1
  <2> QED
    BY <1>2, <2>1 DEF Quiet, Running
<1> QED
  BY <1>3, QuietStep

LEMMA EnterGateStep ==
    ASSUME IInv, NEW r \in Roots, EnterGate(r)
    PROVE  IInv'
<1>1. TypeOK /\ root[r] \in RootType /\ gate \in GateType /\ UNCHANGED <<active, slot, th, platform>>
      /\ active \in Generations \cup {None} /\ th \in [Threads -> ThreadType]
  BY DEF IInv, TypeOK, EnterGate
<1>2. CASE root' = [root EXCEPT ![r].pc = "done", ![r].result = "shutdown"] /\ UNCHANGED <<gate, gen>>
  <2> DEFINE q == [root[r] EXCEPT !.pc = "done", !.result = "shutdown"]
  <2>1. root' = [root EXCEPT ![r] = q]
    BY <1>1, <1>2 DEF TypeOK, RootType
  <2>2. q \in RootType
    BY <1>1 DEF RootType
  <2>3. root' \in [Roots -> RootType]
    BY <1>1, <2>1, <2>2, RootUpdate
  <2> QED
    BY <1>1, <1>2, <2>3, RootMoves
<1>3. CASE /\ gate.open /\ Admits(active)
           /\ root' = [root EXCEPT ![r].pc = "running", ![r].gen = active]
           /\ gen' = [gen EXCEPT ![active].inFlight = @ \cup {r}]
           /\ UNCHANGED gate
  <2>0. active \in Generations /\ gen[active] \in GenerationType
    BY <1>1, <1>3 DEF Admits, TypeOK
  <2> DEFINE q == [root[r] EXCEPT !.pc = "running", !.gen = active]
             i == gen[active].inFlight \cup {r}
             x == [gen[active] EXCEPT !.inFlight = i]
  <2>1. root' = [root EXCEPT ![r] = q]
    BY <1>1, <1>3 DEF TypeOK, RootType
  <2>2. q \in RootType
    BY <1>1, <2>0 DEF RootType
  <2>3. root' \in [Roots -> RootType]
    BY <1>1, <2>1, <2>2, RootUpdate
  <2>4. gen' = [gen EXCEPT ![active] = x] /\ i \in SUBSET Roots
    BY <1>1, <1>3, <2>0 DEF GenerationType
  <2> HIDE DEF i
  <2>5. x \in GenerationType /\ x.built = gen[active].built /\ x.id = gen[active].id
        /\ x.shutdown = gen[active].shutdown /\ x.reconcile = gen[active].reconcile
    BY <2>0, <2>4 DEF GenerationType
  <2> HIDE DEF x
  <2> QED
    BY <1>1, <1>3, <2>0, <2>3, <2>4, <2>5, RoutesMove
<1>4. CASE /\ root' = [root EXCEPT ![r].pc = "published", ![r].wake = "none"]
           /\ gate' = [gate EXCEPT !.waiters = @ \cup {r}]
           /\ UNCHANGED gen
  <2> DEFINE q == [root[r] EXCEPT !.pc = "published", !.wake = "none"]
  <2>1. root' = [root EXCEPT ![r] = q]
    BY <1>1, <1>4 DEF TypeOK, RootType
  <2>2. q \in RootType
    BY <1>1 DEF RootType
  <2>3. root' \in [Roots -> RootType]
    BY <1>1, <2>1, <2>2, RootUpdate
  <2>4. gate' \in GateType /\ gate'.open = gate.open /\ gate'.shuttingDown = gate.shuttingDown
    BY <1>1, <1>4 DEF GateType
  <2> QED
    BY <1>1, <1>4, <2>3, <2>4, RootMoves
<1> QED
  BY <1>2, <1>3, <1>4 DEF EnterGate

LEMMA ReleaseRouteStep ==
    ASSUME IInv, NEW r \in Roots, ReleaseRoute(r)
    PROVE  IInv'
<1> DEFINE g == root[r].gen
<1>1. TypeOK /\ root[r] \in RootType /\ UNCHANGED <<gate, active, slot, platform>> /\ th \in [Threads -> ThreadType]
      /\ g \in Generations /\ gen[g] \in GenerationType
  BY DEF IInv, TypeOK, ReleaseRoute, RootType
<1> DEFINE q == [root[r] EXCEPT !.gen = None]
           i == gen[g].inFlight \ {r}
           w == IF gen[g].inFlight = {r} THEN {} ELSE gen[g].drainWaiters
           x == [gen[g] EXCEPT !.inFlight = i, !.drainWaiters = w]
<1>2. root' \in [Roots -> RootType]
  <2>1. root' = [root EXCEPT ![r] = q] /\ q \in RootType
    BY <1>1 DEF ReleaseRoute, RootType
  <2> QED
    BY <1>1, <2>1, RootUpdate
<1>3. gen' = [gen EXCEPT ![g] = x]
  BY <1>1 DEF ReleaseRoute, TypeOK, GenerationType
<1>4. i \in SUBSET Roots /\ w \in SUBSET Attempts /\ (gen[g].inFlight = {} => i = {})
  BY <1>1 DEF GenerationType
<1> HIDE DEF i, w
<1>5. x \in GenerationType /\ x.built = gen[g].built /\ x.id = gen[g].id
      /\ x.shutdown = gen[g].shutdown /\ x.reconcile = gen[g].reconcile /\ x.inFlight = i
  BY <1>1, <1>4 DEF GenerationType
<1> HIDE DEF x
<1>6. ASSUME NEW t \in Threads
      PROVE  /\ th'[t] \in ThreadType /\ th'[t].pc = th[t].pc /\ th'[t].prev = th[t].prev
             /\ th'[t].target = th[t].target /\ th'[t].next = th[t].next
  <2> DEFINE y == [th[t] EXCEPT !.cancelPosted = TRUE]
  <2>1. th[t] \in ThreadType
    BY <1>1
  <2>2. y \in ThreadType /\ y.pc = th[t].pc /\ y.prev = th[t].prev /\ y.target = th[t].target /\ y.next = th[t].next
    BY <2>1 DEF ThreadType
  <2>3. th'[t] = y \/ th'[t] = th[t]
    BY DEF ReleaseRoute
  <2> HIDE DEF y
  <2> QED
    BY <2>1, <2>2, <2>3
<1>7. th' \in [Threads -> ThreadType]
  <2>1. th' = [t \in Threads |-> th'[t]]
    BY DEF ReleaseRoute
  <2> QED
    BY <1>6, <2>1
<1> QED
  BY <1>1, <1>2, <1>3, <1>4, <1>5, <1>6, <1>7, RoutesMove

LEMMA ReconcileCheckStep ==
    ASSUME IInv, NEW g \in Generations, ReconcileCheck(g)
    PROVE  IInv'
<1>1. TypeOK /\ gen[g] \in GenerationType /\ gen[g].reconcile = "check" /\ UNCHANGED <<gate, active, slot, root, th, platform>>
  BY DEF IInv, TypeOK, ReconcileCheck
<1>2. PICK v \in {"done", "publish"} : gen' = [gen EXCEPT ![g].reconcile = v]
  BY DEF ReconcileCheck
<1> DEFINE x == [gen[g] EXCEPT !.reconcile = v]
<1>3. gen' = [gen EXCEPT ![g] = x]
  BY <1>2
<1>4. x \in GenerationType /\ x.built = gen[g].built /\ x.id = gen[g].id
      /\ x.shutdown = gen[g].shutdown /\ x.inFlight = gen[g].inFlight
  BY <1>1 DEF GenerationType
<1> HIDE DEF x
<1>5. /\ gen' \in [Generations -> GenerationType] /\ gen'[g] = x
      /\ \A h \in Generations : h # g => gen'[h] = gen[h]
  BY <1>1, <1>3, <1>4, GenUpdate
<1>6. TypeOK'
  BY <1>1, <1>5 DEF TypeOK
<1>7. \A h \in Generations :
          /\ gen'[h].built = gen[h].built /\ gen'[h].id = gen[h].id /\ gen'[h].shutdown = gen[h].shutdown
          /\ gen'[h].inFlight = gen[h].inFlight
          /\ gen[h].reconcile = "none" => gen'[h].reconcile = "none"
          /\ Running(h)' => Running(h)
  BY <1>1, <1>4, <1>5 DEF Running
<1>8. Quiet
  BY <1>1, <1>6, <1>7 DEF Quiet
<1> QED
  BY <1>8, QuietStep

\* A cancel of the drain timer that comes when nobody waits is lost.
LEMMA LostCancelStep ==
    ASSUME IInv, NEW a \in Attempts, DrainCancel(a), th[a].pc # "drainWait"
    PROVE  IInv'
<1>1. TypeOK /\ th[a] \in ThreadType /\ a \in Threads /\ UNCHANGED <<gate, active, slot, gen, root, platform>>
  BY AttemptFacts DEF DrainCancel
<1> DEFINE r == [th[a] EXCEPT !.cancelPosted = FALSE]
<1>2. th' = [th EXCEPT ![a] = r]
  BY DEF DrainCancel
<1>3. r \in ThreadType /\ r.pc = th[a].pc /\ r.prev = th[a].prev /\ r.target = th[a].target /\ r.next = th[a].next
  BY <1>1 DEF ThreadType
<1> HIDE DEF r
<1>4. Moves(a, th[a].pc, th[a].prev, th[a].target, th[a].next)
  BY <1>1, <1>2, <1>3, ThreadGoes
<1>5. TypeOK'
  BY <1>1, <1>4 DEF TypeOK, Moves
<1>6. Quiet
  BY <1>1, <1>4, <1>5 DEF Quiet, Moves, Running
<1> QED
  BY <1>6, QuietStep

-----------------------------------------------------------------------------
(* The theorems.                                                           *)

LEMMA InitEstablishes == Init => IInv
<1> SUFFICES ASSUME Init PROVE IInv
  OBVIOUS
<1> DEFINE boot == [NewGeneration EXCEPT !.built = TRUE, !.id = 1, !.catalogActive = TRUE, !.reconcile = "check"]
<1>1. /\ NewGeneration \in GenerationType /\ NewGeneration.inFlight = {} /\ NewGeneration.reconcile = "none"
      /\ ~NewGeneration.shutdown /\ ~NewGeneration.built
  BY DEF NewGeneration, GenerationType
<1>2. boot \in GenerationType /\ boot.inFlight = {} /\ ~boot.shutdown /\ boot.id = 1 /\ boot.reconcile = "check"
  BY DEF NewGeneration, GenerationType
<1>3. gen \in [Generations -> GenerationType] /\ (\A g \in Generations : g # Boot => gen[g] = NewGeneration) /\ gen[Boot] = boot
  <2>1. gen = [g \in Generations |-> IF g = Boot THEN boot ELSE NewGeneration] /\ Boot \in Generations
    BY DEF Init, Generations
  <2> HIDE DEF boot
  <2> QED
    BY <1>1, <1>2, <2>1
<1> HIDE DEF boot
<1>4. NewThread \in ThreadType /\ NewThread.pc = "idle" /\ NewThread.prev = None /\ NewThread.target = None
  BY DEF NewThread, ThreadType, Outcomes
<1>5. th \in [Threads -> ThreadType] /\ \A t \in Threads : th[t].pc = "idle" /\ th[t].prev = None /\ th[t].target = None
  BY <1>4 DEF Init
<1>6. gate \in GateType /\ gate.open /\ ~gate.shuttingDown
  BY DEF Init, GateType
<1>7. root \in [Roots -> RootType]
  BY DEF Init, RootType
<1>8. active = Boot /\ slot = FALSE /\ platform = None /\ Boot \in Generations /\ None \notin Generations /\ Boot \notin Attempts
  BY DEF Init, Generations
<1>9. TypeOK
  BY <1>3, <1>5, <1>6, <1>7, <1>8 DEF TypeOK
<1>10. \A a \in Attempts : /\ a \in Threads /\ a \in Generations /\ a # Boot /\ th[a].pc = "idle" /\ th[a].prev = None /\ th[a].target = None
                           /\ ~Txn(a) /\ ~Draining(a) /\ ~Handover(a) /\ ~Activating(a) /\ ~Replacing(a) /\ Unpublished(a)
  BY <1>5, <1>8 DEF Threads, Generations, Txn, Draining, Handover, Activating, Replacing, Unpublished, RetirePcs
<1>11. SlotInv
  BY <1>10 DEF SlotInv
<1>12. AttemptInv
  <2> SUFFICES ASSUME NEW a \in Attempts PROVE AttemptAt(a)
    BY DEF AttemptInv
  <2>1. LocalsAt(a) /\ GateAt(a) /\ AgeAt(a)
    BY <1>10 DEF LocalsAt, GateAt, AgeAt, RetirePcs
  <2>2. CandidateAt(a)
    BY <1>1, <1>3, <1>5, <1>8, <1>10 DEF CandidateAt
  <2> QED
    BY <2>1, <2>2 DEF AttemptAt
<1>13. CloserInv
  BY <1>5 DEF CloserInv, CloserAt, Threads, RetirePcs
<1>14. TargetInv
  BY <1>5 DEF TargetInv, Stopping
<1>15. \A g \in Generations : gen[g].inFlight = {} /\ ~gen[g].shutdown
  BY <1>1, <1>2, <1>3
<1>16. ActiveInv
  BY <1>6, <1>8, <1>15 DEF ActiveInv, OneGenerationServes
<1>17. \A g \in Generations : g # Boot => ~gen[g].built /\ ~Running(g)
  BY <1>1, <1>3 DEF Running
<1>18. LeakInv
  BY <1>8, <1>17 DEF LeakInv
<1>19. CatalogInv
  BY <1>8, <1>17 DEF CatalogInv
<1> QED
  BY <1>9, <1>11, <1>12, <1>13, <1>14, <1>16, <1>18, <1>19 DEF IInv

\* Every step of the controller, of its roots and of its closers keeps the invariant.
THEOREM NextKeepsInvariant == IInv /\ [Next]_vars => IInv'
<1> SUFFICES ASSUME IInv, [Next]_vars PROVE IInv'
  OBVIOUS
<1>1. CASE UNCHANGED vars
  <2>1. TypeOK'
    BY <1>1 DEF IInv, TypeOK, vars
  <2> QED
    BY <1>1, <2>1, RootMoves DEF vars, TypeOK
<1>2. ASSUME NEW r \in Roots, Submit(r) \/ RootSteps(r) \/ RouteReturns(r) \/ ReleaseRoute(r) PROVE IInv'
  BY <1>2, RootStep, EnterGateStep, ReleaseRouteStep DEF RootSteps
<1>3. ASSUME NEW t \in Threads, CommonSteps(t) PROVE IInv'
  BY <1>3, CancelWaitersStep, RetireStep, RetireRefuseStep, RetireJoinStep DEF CommonSteps, RetireSteps
<1>4. ASSUME NEW a \in Attempts, ReloadSteps(a) PROVE IInv'
  <2>1. CASE TakeSlot(a) \/ Prepare(a) \/ Build(a) \/ BeginCutover(a) \/ CloseGate(a)
    BY <2>1, TakeSlotStep, PrepareStep, BuildStep, BeginCutoverStep, CloseGateStep
  <2>2. CASE WaitForDrain(a) \/ ArmDrainTimer(a) \/ DrainDeadline(a) \/ DrainRecheck(a) \/ DrainTimedOut(a)
    BY <2>2, WaitForDrainStep, DrainSteps, DrainTimedOutStep
  <2>3. CASE DiscardCandidate(a) \/ Publish(a) \/ ActivateCatalogs(a) \/ SpawnReconcile(a) \/ Reopen(a) \/ ReleaseSlot(a)
    BY <2>3, DiscardCandidateStep, PublishStep, ActivateCatalogsStep, SpawnReconcileStep, ReopenStep, ReleaseSlotStep
  <2> QED
    BY <1>4, <2>1, <2>2, <2>3 DEF ReloadSteps
<1>5. ASSUME NEW a \in Attempts, DrainCancel(a) PROVE IInv'
  BY <1>5, DrainSteps, LostCancelStep
<1>6. ASSUME NEW a \in Attempts, NEW k \in Kinds, RequestReload(a, k) PROVE IInv'
  BY <1>6, RequestReloadStep
<1>7. ASSUME NEW s \in Closers, BeginShutdown(s) \/ ExchangeActive(s) PROVE IInv'
  BY <1>7, BeginShutdownStep, ExchangeActiveStep
<1>8. ASSUME NEW g \in Generations, CatalogSteps(g) PROVE IInv'
  BY <1>8, ReconcileCheckStep, PublishCatalogStep DEF CatalogSteps
<1> QED
  BY <1>1, <1>2, <1>3, <1>4, <1>5, <1>6, <1>7, <1>8 DEF Next

\* The invariant holds in every reachable state.
THEOREM InvariantHolds == Spec => []IInv
BY InitEstablishes, NextKeepsInvariant, PTL DEF Spec

\* Every variable keeps its type.
THEOREM TypeCorrect == Spec => []TypeOK
<1>1. IInv => TypeOK
  BY DEF IInv
<1> QED
  BY <1>1, InvariantHolds, PTL

\* A reload never shuts a generation down under its routes (cutover publishes and retires
\* only after async_wait_for_drain): only the process shutdown does.
THEOREM DrainBeforeRetire == Spec => []DrainedBeforeRetired
<1>1. IInv => DrainedBeforeRetired
  <2> SUFFICES ASSUME IInv, NEW g \in Generations, gen[g].shutdown, gen[g].inFlight # {}, ~gate.shuttingDown PROVE FALSE
    BY DEF DrainedBeforeRetired
  <2>1. g = active /\ active # None
    BY DEF IInv, ActiveInv
  <2> QED
    BY <2>1 DEF IInv, ActiveInv
<1> QED
  BY <1>1, InvariantHolds, PTL

\* No two generations have routes in flight: the gate of the controller is closed from
\* the drain of the old generation to the publication of the new one.
THEOREM SharpCutover == Spec => []OneGenerationServes
<1>1. IInv => OneGenerationServes
  BY DEF IInv, ActiveInv
<1> QED
  BY <1>1, InvariantHolds, PTL

\* A generation that was built serves, belongs to a running transaction, or somebody has
\* called its shutdown(): no path of cutover or of the process shutdown loses one.
THEOREM NothingLeaks == Spec => []NoLeakedGeneration
<1>1. IInv => NoLeakedGeneration
  <2> SUFFICES ASSUME IInv, NEW g \in Generations, gen[g].built, ~gen[g].shutdown,
                      g # active, g \in Attempts, Unpublished(g)
               PROVE  th[g].pc \notin {"idle", "release", "done"}
    BY DEF NoLeakedGeneration, IInv, LeakInv
  <2>1. AttemptAt(g)
    BY AttemptFacts
  <2>2. th[g].pc # "idle"
    BY <2>1 DEF AttemptAt, CandidateAt
  <2>3. th[g].pc \notin {"release", "done"}
    BY DEF Unpublished, Draining, RetirePcs
  <2> QED
    BY <2>2, <2>3
<1> QED
  BY <1>1, InvariantHolds, PTL

\* Only the catalog coroutines change what the platform shows, and only a publication
\* or a process shutdown changes the active generation.
LEMMA WhoAdvances ==
    ASSUME IInv, Next
    PROVE  /\ platform' # platform => \E g \in Generations : PublishCatalog(g)
           /\ active' # active => active' = None \/ \E a \in Attempts : Publish(a)
<1>1. ASSUME NEW r \in Roots, Submit(r) \/ RootSteps(r) \/ RouteReturns(r) \/ ReleaseRoute(r)
      PROVE  UNCHANGED <<active, platform>>
  BY <1>1 DEF Submit, RootSteps, EnterGate, StartWait, DeliverWake, WaitEnds, RouteReturns, ReleaseRoute
<1>2. ASSUME NEW t \in Threads, CommonSteps(t) PROVE UNCHANGED <<active, platform>>
  BY <1>2 DEF CommonSteps, RetireSteps, CancelWaiters, Retire, RetireRefuse, RetireStop, RetireJoin
<1>3. ASSUME NEW a \in Attempts, ReloadSteps(a)
      PROVE  platform' = platform /\ (active' = active \/ Publish(a))
  <2>1. CASE TakeSlot(a) \/ Prepare(a) \/ Build(a) \/ BeginCutover(a) \/ CloseGate(a)
    BY <2>1 DEF TakeSlot, Prepare, Build, BeginCutover, CloseGate
  <2>2. CASE WaitForDrain(a) \/ ArmDrainTimer(a) \/ DrainDeadline(a) \/ DrainRecheck(a) \/ DrainTimedOut(a)
    BY <2>2 DEF WaitForDrain, ArmDrainTimer, DrainDeadline, DrainRecheck, DrainTimedOut
  <2>3. CASE DiscardCandidate(a) \/ Publish(a) \/ ActivateCatalogs(a) \/ SpawnReconcile(a) \/ Reopen(a) \/ ReleaseSlot(a)
    BY <2>3 DEF DiscardCandidate, Publish, ActivateCatalogs, SpawnReconcile, Reopen, ReleaseSlot
  <2> QED
    BY <1>3, <2>1, <2>2, <2>3 DEF ReloadSteps
<1>4. ASSUME NEW a \in Attempts, NEW k \in Kinds, RequestReload(a, k) PROVE UNCHANGED <<active, platform>>
  BY <1>4 DEF RequestReload
<1>7. ASSUME NEW a \in Attempts, DrainCancel(a) PROVE UNCHANGED <<active, platform>>
  BY <1>7 DEF DrainCancel
<1>5. ASSUME NEW s \in Closers, BeginShutdown(s) \/ ExchangeActive(s) PROVE platform' = platform /\ active' \in {active, None}
  BY <1>5 DEF BeginShutdown, ExchangeActive
<1>6. ASSUME NEW g \in Generations, CatalogSteps(g) PROVE active' = active /\ (platform' = platform \/ PublishCatalog(g))
  BY <1>6 DEF CatalogSteps, ReconcileCheck, PublishCatalog
<1> QED
  BY <1>1, <1>2, <1>3, <1>4, <1>5, <1>6, <1>7 DEF Next

\* The platform never shows an older command catalog again, the active generation is only
\* replaced by a younger one, and nothing serves after shutdown() (GenerationsOnlyAdvance).
THEOREM Advance == Spec => GenerationsOnlyAdvance
<1> DEFINE A == /\ platform' # platform /\ platform # None => gen'[platform'].id > gen[platform].id
                /\ active' # active /\ active' # None =>
                      active # None /\ gen'[active'].id > gen[active].id
<1>1. IInv /\ [Next]_vars => [A]_vars
  <2> SUFFICES ASSUME IInv, Next PROVE A
    OBVIOUS
  <2>1. ASSUME platform' # platform, platform # None PROVE gen'[platform'].id > gen[platform].id
    <3>1. PICK g \in Generations : PublishCatalog(g)
      BY <2>1, WhoAdvances
    <3>2. platform' = g /\ Running(g) /\ TypeOK /\ platform \in Generations
      BY <2>1, <3>1 DEF PublishCatalog, Running, IInv, TypeOK
    <3>3. gen'[g].id = gen[g].id
      <4>1. PICK x : gen' = [gen EXCEPT ![g].reconcile = x]
        BY <3>1 DEF PublishCatalog
      <4>2. gen[g] \in GenerationType
        BY <3>2 DEF TypeOK
      <4> DEFINE y == [gen[g] EXCEPT !.reconcile = x]
      <4>3. gen'[g] = y
        BY <3>2, <4>1 DEF TypeOK
      <4>4. y.id = gen[g].id
        BY <4>2 DEF GenerationType
      <4> QED
        BY <4>3, <4>4
    <3>4. gen[platform].id < gen[g].id /\ gen[platform].id \in Nat /\ gen[g].id \in Nat
      BY <2>1, <3>2 DEF IInv, CatalogInv, TypeOK, GenerationType
    <3> QED
      BY <3>2, <3>3, <3>4
  <2>2. ASSUME active' # active, active' # None PROVE active # None /\ gen'[active'].id > gen[active].id
    <3>1. PICK a \in Attempts : Publish(a)
      BY <2>2, WhoAdvances
    <3>2. active' = a /\ active = th[a].prev /\ gen' = gen /\ th[a].pc = "swap"
      BY <2>2, <3>1 DEF Publish, StillOwner
    <3>3. AttemptAt(a) /\ None \notin Generations /\ Draining(a) /\ Replacing(a)
      BY <3>2, AttemptFacts DEF Draining, Replacing
    <3> QED
      BY <3>2, <3>3 DEF AttemptAt, LocalsAt, AgeAt
  <2> QED
    BY <2>1, <2>2
<1> QED
  BY <1>1, InvariantHolds, PTL DEF Spec, GenerationsOnlyAdvance
=============================================================================
