--------------------------- MODULE RuntimeReload ---------------------------
(* Hot reload of the actor runtime: ActorRuntimeReloadController and the    *)
(* part of RuntimeGeneration it drives (route admission, drain, command     *)
(* catalogs, retirement).                                                   *)
(*                                                                          *)
(* Three kinds of actors run concurrently:                                  *)
(*   Roots     coroutines of ActorRuntimeReloadController::process, one per *)
(*             root message, on the bots' executors;                        *)
(*   Attempts  reload transactions (start_reload on the controller's own    *)
(*             one-thread pool, reload and reload_to on the caller's        *)
(*             executor); attempt a builds, or is given, the generation     *)
(*             object a;                                                    *)
(*   Closers   threads that call begin_shutdown or shutdown.                *)
(* Every critical section of gate_state_->mutex and of route_state_->mutex, *)
(* every atomic operation and every blocking call is a step.                *)
EXTENDS Naturals

CONSTANTS Roots, Attempts, Closers,
          Boot,                 \* the generation main builds
          None,                 \* nullptr
          Kinds                 \* entry points: "start", "reload", "reload_to"

Generations == Attempts \cup {Boot}
Threads == Attempts \cup Closers

ASSUME ReloadAssumption ==
    /\ Boot \notin Attempts
    /\ None \notin Generations \cup Threads \cup Roots
    /\ Attempts \cap Closers = {}
    /\ Kinds \subseteq {"start", "reload", "reload_to"}

VARIABLES
    gate,       \* GateState: open, shuttingDown, waiters; holder of its mutex
    active,     \* active_generation_
    slot,       \* reload_in_progress_
    gen,        \* the generation objects
    root,       \* process() coroutines and their gate timers
    th,         \* program counters and locals of reloads and closers
    platform    \* generation whose command catalog the platform shows

vars == <<gate, active, slot, gen, root, th, platform>>

-----------------------------------------------------------------------------
GateType == [open : BOOLEAN, shuttingDown : BOOLEAN, waiters : SUBSET Roots,
             holder : Attempts \cup {None}]

\* A generation: id_, shutdown_, RouteState (accepting, the in-flight routes,
\* the registered drain waiters), command_catalog_active_, the catalog
\* coroutine, and how far its shutdown() has come.
GenerationType ==
    [built : BOOLEAN, id : Nat, compatible : BOOLEAN,
     shutdown : BOOLEAN, accepting : BOOLEAN,
     inFlight : SUBSET Roots, drainWaiters : SUBSET Attempts,
     catalogActive : BOOLEAN,
     reconcile : {"none", "check", "publish", "done"},
     stage : {"live", "stopped", "unloaded"}]

\* A root message.  wake is the state of its gate timer: "none" before a wake
\* is posted to its executor, "expired" when the posted handler has run.
RootType ==
    [pc : {"idle", "enter", "published", "waiting", "running", "done"},
     gen : Generations \cup {None},
     wake : {"none", "posted", "expired"},
     result : {"none", "processed", "shutdown"}]

ReloadPcs == {"request", "prepare", "build", "cutover", "close", "drain",
              "arm", "drainWait", "recheck", "timeout", "discard", "swap",
              "activate", "spawn", "reopen", "release"}
RetirePcs == {"retire", "refuse", "stop", "join"}
Outcomes == {"none", "Succeeded", "Failed", "DrainTimeout", "Busy", "Shutdown"}

\* A reload or a closer: locals, the return address of the two subroutines
\* (cancel_waiters and RuntimeGeneration::shutdown) and the drain timer.
ThreadType ==
    [pc : ReloadPcs \cup RetirePcs \cup {"idle", "wake", "exchange", "done"},
     kind : {"start", "reload", "reload_to", "close"},
     prev : Generations \cup {None},
     target : Generations \cup {None},
     next : ReloadPcs \cup {"idle", "exchange"},
     taken : SUBSET Roots,
     cancelPosted : BOOLEAN, expired : BOOLEAN,
     outcome : Outcomes]

TypeOK ==
    /\ gate \in GateType
    /\ active \in Generations \cup {None}
    /\ slot \in BOOLEAN
    /\ gen \in [Generations -> GenerationType]
    /\ root \in [Roots -> RootType]
    /\ th \in [Threads -> ThreadType]
    /\ platform \in Generations \cup {None}

NewGeneration == [built |-> FALSE, id |-> 0, compatible |-> TRUE,
                  shutdown |-> FALSE, accepting |-> TRUE, inFlight |-> {},
                  drainWaiters |-> {}, catalogActive |-> FALSE,
                  reconcile |-> "none", stage |-> "live"]
NewThread == [pc |-> "idle", kind |-> "close", prev |-> None, target |-> None,
              next |-> "idle", taken |-> {}, cancelPosted |-> FALSE,
              expired |-> FALSE, outcome |-> "none"]

\* main has published the boot generation and activated its catalogs.
Init ==
    /\ gate = [open |-> TRUE, shuttingDown |-> FALSE, waiters |-> {},
               holder |-> None]
    /\ active = Boot
    /\ slot = FALSE
    /\ gen = [g \in Generations |->
                 IF g = Boot
                 THEN [NewGeneration EXCEPT !.built = TRUE, !.id = 1,
                                            !.catalogActive = TRUE, !.reconcile = "check"]
                 ELSE NewGeneration]
    /\ root = [r \in Roots |-> [pc |-> "idle", gen |-> None, wake |-> "none",
                                result |-> "none"]]
    /\ th = [t \in Threads |-> NewThread]
    /\ platform = None

GateFree == gate.holder = None
\* Closing the gate section of a reload: nothing ends the transaction early.
StillOwner(g) == ~gate.shuttingDown /\ active = g

\* The common ends of a step of thread t.
Goto(t, pc) == th' = [th EXCEPT ![t].pc = pc]
\* Record the result; the single-flight slot is released afterwards.
Report(t, outcome) ==
    th' = [th EXCEPT ![t].pc = "release", ![t].outcome = outcome]
\* Call g->shutdown(), then continue at next.
CallRetire(t, g, next, outcome) ==
    th' = [th EXCEPT ![t].pc = "retire", ![t].target = g, ![t].next = next,
                     ![t].outcome = outcome]

-----------------------------------------------------------------------------
(* process: root messages at the ingress gate.                             *)

\* A root message reaches process().
Submit(r) ==
    /\ root[r].pc = "idle"
    /\ root' = [root EXCEPT ![r].pc = "enter"]
    /\ UNCHANGED <<gate, active, slot, gen, th, platform>>

\* admit_route takes a lease unless the generation is being shut down.
Admits(g) == g # None /\ gen[g].accepting /\ ~gen[g].shutdown

\* One round of process() under the gate lock: refuse, admit or register.
EnterGate(r) ==
    /\ root[r].pc = "enter"
    /\ GateFree
    /\ \/ /\ gate.shuttingDown \/ (gate.open /\ ~Admits(active))
          /\ root' = [root EXCEPT ![r].pc = "done", ![r].result = "shutdown"]
          /\ UNCHANGED <<gate, gen>>
       \/ /\ ~gate.shuttingDown /\ gate.open /\ Admits(active)
          /\ root' = [root EXCEPT ![r].pc = "running", ![r].gen = active]
          /\ gen' = [gen EXCEPT ![active].inFlight = @ \cup {r}]
          /\ UNCHANGED gate
       \/ /\ ~gate.shuttingDown /\ ~gate.open
          /\ root' = [root EXCEPT ![r].pc = "published", ![r].wake = "none"]
          /\ gate' = [gate EXCEPT !.waiters = @ \cup {r}]
          /\ UNCHANGED gen
    /\ UNCHANGED <<active, slot, th, platform>>

\* waiter->async_wait, after the gate lock is released.
StartWait(r) ==
    /\ root[r].pc = "published"
    /\ root' = [root EXCEPT ![r].pc = "waiting"]
    /\ UNCHANGED <<gate, active, slot, gen, th, platform>>

\* The handler posted by cancel_waiters: expires_at(min) is persistent.
DeliverWake(r) ==
    /\ root[r].wake = "posted"
    /\ root' = [root EXCEPT ![r].wake = "expired"]
    /\ UNCHANGED <<gate, active, slot, gen, th, platform>>

\* The wait ends and process() goes round its loop.
WaitEnds(r) ==
    /\ root[r].pc = "waiting" /\ root[r].wake = "expired"
    /\ root' = [root EXCEPT ![r].pc = "enter", ![r].wake = "none"]
    /\ UNCHANGED <<gate, active, slot, gen, th, platform>>

\* generation->process() returns; terminal stages may still hold the lease.
RouteReturns(r) ==
    /\ root[r].pc = "running"
    /\ root' = [root EXCEPT ![r].pc = "done", ![r].result = "processed"]
    /\ UNCHANGED <<gate, active, slot, gen, th, platform>>

\* The last copy of the lease goes: release_route.  The last route of the
\* generation posts a cancel to every registered drain timer.
ReleaseRoute(r) ==
    LET g == root[r].gen
        last == gen[g].inFlight = {r}
    IN  /\ root[r].pc = "done" /\ g # None
        /\ gen' = [gen EXCEPT ![g].inFlight = @ \ {r},
                              ![g].drainWaiters = IF last THEN {} ELSE @]
        /\ th' = [t \in Threads |->
                    IF last /\ t \in gen[g].drainWaiters
                    THEN [th[t] EXCEPT !.cancelPosted = TRUE] ELSE th[t]]
        /\ root' = [root EXCEPT ![r].gen = None]
        /\ UNCHANGED <<gate, active, slot, platform>>

-----------------------------------------------------------------------------
(* The two subroutines: cancel_waiters and RuntimeGeneration::shutdown.     *)

\* cancel_waiters posts one handler per collected timer.
CancelWaiters(t) ==
    /\ th[t].pc = "wake"
    /\ root' = [r \in Roots |-> IF r \in th[t].taken
                                THEN [root[r] EXCEPT !.wake = "posted"] ELSE root[r]]
    /\ th' = [th EXCEPT ![t].pc = th[t].next, ![t].taken = {}]
    /\ UNCHANGED <<gate, active, slot, gen, platform>>

\* Mutant: the join is skipped.
RetireJoinNoWait(t) ==
    /\ th[t].pc = "join"
    /\ gen' = [gen EXCEPT ![th[t].target].stage = "unloaded"]
    /\ gate' = [gate EXCEPT !.holder = IF @ = t THEN None ELSE @]
    /\ th' = [th EXCEPT ![t].pc = th[t].next, ![t].target = None]
    /\ UNCHANGED <<active, slot, root, platform>>

\* shutdown() proper: only the first caller goes on, any other returns.
Retire(t) ==
    LET g == th[t].target IN
    /\ th[t].pc = "retire"
    /\ IF g = None \/ gen[g].shutdown
       THEN /\ th' = [th EXCEPT ![t].pc = th[t].next, ![t].target = None]
            /\ gate' = [gate EXCEPT !.holder = IF @ = t THEN None ELSE @]
            /\ UNCHANGED gen
       ELSE /\ gen' = [gen EXCEPT ![g].shutdown = TRUE]
            /\ Goto(t, "refuse")
            /\ UNCHANGED gate
    /\ UNCHANGED <<active, slot, root, platform>>

\* No further route is admitted.
RetireRefuse(t) ==
    /\ th[t].pc = "refuse"
    /\ gen' = [gen EXCEPT ![th[t].target].accepting = FALSE]
    /\ Goto(t, "stop")
    /\ UNCHANGED <<gate, active, slot, root, platform>>

\* The catalog is switched off; coordinator, orchestrator and scheduler are
\* shut down and the actor instances destroyed (see NativeActorScheduler).
RetireStop(t) ==
    /\ th[t].pc = "stop"
    /\ gen' = [gen EXCEPT ![th[t].target].catalogActive = FALSE,
                          ![th[t].target].stage = "stopped"]
    /\ Goto(t, "join")
    /\ UNCHANGED <<gate, active, slot, root, platform>>

\* actor_io_pool_->join() waits for the catalog coroutine, then the actor
\* libraries are unloaded.  A gate section that called shutdown() ends.
RetireJoin(t) ==
    /\ th[t].pc = "join"
    /\ gen[th[t].target].reconcile \in {"none", "done"}
    /\ gen' = [gen EXCEPT ![th[t].target].stage = "unloaded"]
    /\ gate' = [gate EXCEPT !.holder = IF @ = t THEN None ELSE @]
    /\ th' = [th EXCEPT ![t].pc = th[t].next, ![t].target = None]
    /\ UNCHANGED <<active, slot, root, platform>>

-----------------------------------------------------------------------------
(* The command catalog of a generation.                                    *)

\* activate_command_catalogs of the candidate: the compare-exchange on the
\* flag, then the load of shutdown_.
ActivateCatalogs(a) ==
    /\ th[a].pc = "activate"
    /\ gen' = [gen EXCEPT ![a].catalogActive = TRUE]
    /\ Goto(a, IF gen[a].catalogActive \/ gen[a].shutdown THEN "reopen" ELSE "spawn")
    /\ UNCHANGED <<gate, active, slot, root, platform>>

\* The end of activate_command_catalogs: co_spawn on the generation's pool.  A joined pool runs nothing.
SpawnReconcile(a) ==
    /\ th[a].pc = "spawn"
    /\ gen' = [gen EXCEPT ![a].reconcile = IF gen[a].stage = "unloaded" THEN @ ELSE "check"]
    /\ Goto(a, "reopen")
    /\ UNCHANGED <<gate, active, slot, root, platform>>

\* The head of a round of reconcile_command_catalog.
ReconcileCheck(g) ==
    /\ gen[g].reconcile = "check"
    /\ gen' = [gen EXCEPT ![g].reconcile =
                 IF ~gen[g].catalogActive \/ gen[g].shutdown THEN "done" ELSE "publish"]
    /\ UNCHANGED <<gate, active, slot, root, th, platform>>

\* publish_catalog is awaited: the platform takes the catalog, or the call
\* fails (the bot is unknown, or only the answer was lost) and is tried again,
\* unless this was the last of max_attempts or the generation was retired.  The
\* number of the attempt is left out: any attempt may be the last.
PublishCatalog(g) ==
    /\ gen[g].reconcile = "publish"
    /\ \/ /\ platform' = g
          /\ gen' = [gen EXCEPT ![g].reconcile = "done"]
       \/ /\ platform' \in {platform, g}
          /\ \E lastAttempt \in BOOLEAN :
                gen' = [gen EXCEPT ![g].reconcile =
                          IF lastAttempt \/ ~gen[g].catalogActive THEN "done" ELSE "check"]
    /\ UNCHANGED <<gate, active, slot, root, th>>

-----------------------------------------------------------------------------
(* Reload transactions.                                                    *)

\* A reload is asked for.  start_reload looks at the active generation first.
RequestReload(a, kind) ==
    /\ th[a].pc = "idle" /\ th[a].outcome = "none"
    /\ th' = [th EXCEPT ![a] =
          IF kind = "start" /\ active = None
          THEN [@ EXCEPT !.kind = kind, !.pc = "done", !.outcome = "Shutdown"]
          ELSE [@ EXCEPT !.kind = kind, !.pc = "request"]]
    /\ UNCHANGED <<gate, active, slot, gen, root, platform>>

\* The slot is this transaction's.  The candidate of reload_to exists already:
\* its id is the caller's, one above the active one, and only it may come with
\* another process-owned fingerprint, which the builder refuses.
Reserve(a) ==
    /\ slot' = TRUE
    /\ IF th[a].kind = "reload_to"
       THEN /\ \E same \in BOOLEAN :
                 gen' = [gen EXCEPT ![a].built = TRUE, ![a].compatible = same,
                           ![a].id = 1 + IF active = None THEN 0 ELSE gen[active].id]
            /\ Goto(a, "cutover")
       ELSE /\ Goto(a, "prepare")
            /\ UNCHANGED gen

\* The compare-exchange on the single-flight slot.
TakeSlot(a) ==
    /\ th[a].pc = "request"
    /\ \/ /\ slot
          /\ th' = [th EXCEPT ![a].pc = "done", ![a].outcome = "Busy"]
          /\ UNCHANGED <<slot, gen>>
       \/ ~slot /\ Reserve(a)
    /\ UNCHANGED <<gate, active, root, platform>>

\* reload_reserved loads the active generation and parses the configuration.
Prepare(a) ==
    /\ th[a].pc = "prepare"
    /\ \/ /\ active = None
          /\ Report(a, "Shutdown")
       \/ /\ active # None
          /\ \/ Report(a, "Failed")
             \/ th' = [th EXCEPT ![a].pc = "build", ![a].prev = active]
    /\ UNCHANGED <<gate, active, slot, gen, root, platform>>

\* The builder makes the candidate, or fails and leaves nothing behind.
Build(a) ==
    /\ th[a].pc = "build"
    /\ \/ /\ Report(a, "Failed")
          /\ UNCHANGED gen
       \/ /\ gen' = [gen EXCEPT ![a].built = TRUE, ![a].id = gen[th[a].prev].id + 1]
          /\ Goto(a, "cutover")
    /\ UNCHANGED <<gate, active, slot, root, platform>>

\* Mutant: a candidate that needs a restart is dropped without shutdown().
BeginCutoverNoDiscard(a) ==
    /\ th[a].pc = "cutover"
    /\ \/ /\ active = None
          /\ CallRetire(a, a, "release", "Shutdown")
       \/ /\ active # None /\ ~gen[a].compatible
          /\ Report(a, "Failed")
       \/ /\ active # None /\ gen[a].compatible
          /\ th' = [th EXCEPT ![a].pc = "close", ![a].prev = active]
    /\ UNCHANGED <<gate, active, slot, gen, root, platform>>

\* cutover: the generation to replace, and the process-owned fingerprint.
BeginCutover(a) ==
    /\ th[a].pc = "cutover"
    /\ \/ /\ active = None
          /\ CallRetire(a, a, "release", "Shutdown")
       \/ /\ active # None /\ ~gen[a].compatible
          /\ CallRetire(a, a, "release", "Failed")
       \/ /\ active # None /\ gen[a].compatible
          /\ th' = [th EXCEPT ![a].pc = "close", ![a].prev = active]
    /\ UNCHANGED <<gate, active, slot, gen, root, platform>>

\* The gate is closed, unless a shutdown came first: then the candidate is
\* shut down with the gate lock held.
CloseGate(a) ==
    /\ th[a].pc = "close"
    /\ GateFree
    /\ IF StillOwner(th[a].prev)
       THEN /\ gate' = [gate EXCEPT !.open = FALSE]
            /\ Goto(a, "drain")
       ELSE /\ gate' = [gate EXCEPT !.holder = a]
            /\ CallRetire(a, a, "release", "Shutdown")
    /\ UNCHANGED <<active, slot, gen, root, platform>>

\* Mutant: the drain is not waited for.
WaitForDrainNever(a) ==
    /\ th[a].pc = "drain"
    /\ Goto(a, "swap")
    /\ UNCHANGED <<gate, active, slot, gen, root, platform>>

\* async_wait_for_drain: done, or a timer is registered under the route lock.
WaitForDrain(a) ==
    LET g == th[a].prev IN
    /\ th[a].pc = "drain"
    /\ IF gen[g].inFlight = {}
       THEN /\ Goto(a, "swap")
            /\ UNCHANGED gen
       ELSE /\ gen' = [gen EXCEPT ![g].drainWaiters = @ \cup {a}]
            /\ th' = [th EXCEPT ![a].pc = "arm", ![a].cancelPosted = FALSE]
    /\ UNCHANGED <<gate, active, slot, root, platform>>

\* timer->async_wait.
ArmDrainTimer(a) ==
    /\ th[a].pc = "arm"
    /\ Goto(a, "drainWait")
    /\ UNCHANGED <<gate, active, slot, gen, root, platform>>

\* The posted cancel() runs.  It ends a wait; one that comes before the wait
\* is started is lost, which the one-thread pool of start_reload excludes.
DrainCancel(a) ==
    /\ th[a].cancelPosted
    /\ \/ /\ th[a].pc = "drainWait"
          /\ \E late \in BOOLEAN :
                th' = [th EXCEPT ![a].pc = "recheck", ![a].cancelPosted = FALSE,
                                 ![a].expired = late]
       \/ /\ th[a].pc # "drainWait"
          /\ th[a].kind # "start" \/ th[a].pc # "arm"
          /\ th' = [th EXCEPT ![a].cancelPosted = FALSE]
    /\ UNCHANGED <<gate, active, slot, gen, root, platform>>

\* Mutant: the drain timer has no deadline.
DrainDeadlineNever(a) == FALSE

\* The drain deadline passes.
DrainDeadline(a) ==
    /\ th[a].pc = "drainWait"
    /\ th' = [th EXCEPT ![a].pc = "recheck", ![a].expired = TRUE]
    /\ UNCHANGED <<gate, active, slot, gen, root, platform>>

\* Mutant: a passed deadline counts as drained.
DrainRecheckAlwaysDrained(a) ==
    /\ th[a].pc = "recheck"
    /\ Goto(a, "swap")
    /\ UNCHANGED <<gate, active, slot, gen, root, platform>>

\* After the wait the route count decides, then the deadline.
DrainRecheck(a) ==
    /\ th[a].pc = "recheck"
    /\ Goto(a, IF gen[th[a].prev].inFlight = {} THEN "swap"
               ELSE IF th[a].expired THEN "timeout" ELSE "drain")
    /\ UNCHANGED <<gate, active, slot, gen, root, platform>>

\* The drain failed: the gate opens again on the old generation.
DrainTimedOut(a) ==
    /\ th[a].pc = "timeout"
    /\ GateFree
    /\ IF StillOwner(th[a].prev)
       THEN /\ gate' = [gate EXCEPT !.open = TRUE, !.waiters = {}]
            /\ th' = [th EXCEPT ![a].pc = "wake", ![a].taken = gate.waiters,
                                ![a].next = "discard"]
       ELSE /\ Goto(a, "discard")
            /\ UNCHANGED gate
    /\ UNCHANGED <<active, slot, gen, root, platform>>

DiscardCandidate(a) ==
    /\ th[a].pc = "discard"
    /\ CallRetire(a, a, "release", "DrainTimeout")
    /\ UNCHANGED <<gate, active, slot, gen, root, platform>>

\* The swap under the gate lock; the previous generation is then shut down.
Publish(a) ==
    /\ th[a].pc = "swap"
    /\ GateFree
    /\ IF StillOwner(th[a].prev)
       THEN /\ active' = a
            /\ CallRetire(a, th[a].prev, "activate", "none")
            /\ UNCHANGED gate
       ELSE /\ gate' = [gate EXCEPT !.holder = a]
            /\ CallRetire(a, a, "release", "Shutdown")
            /\ UNCHANGED active
    /\ UNCHANGED <<slot, gen, root, platform>>

\* The gate opens on the candidate, unless a shutdown closed it for good.
Reopen(a) ==
    /\ th[a].pc = "reopen"
    /\ GateFree
    /\ IF StillOwner(a)
       THEN /\ gate' = [gate EXCEPT !.open = TRUE, !.waiters = {}]
            /\ th' = [th EXCEPT ![a].pc = "wake", ![a].taken = gate.waiters,
                                ![a].next = "release", ![a].outcome = "Succeeded"]
       ELSE /\ Report(a, "Shutdown")
            /\ UNCHANGED gate
    /\ UNCHANGED <<active, slot, gen, root, platform>>

\* The result is recorded and the ReloadSlot destroyed.
ReleaseSlot(a) ==
    /\ th[a].pc = "release"
    /\ slot' = FALSE
    /\ th' = [th EXCEPT ![a] = [NewThread EXCEPT !.kind = th[a].kind, !.pc = "done",
                                                 !.outcome = th[a].outcome]]
    /\ UNCHANGED <<gate, active, gen, root, platform>>

-----------------------------------------------------------------------------
(* Closers.                                                                *)

\* Mutant: begin_shutdown leaves the waiting messages where they are.
BeginShutdownNoWake(s) ==
    /\ th[s].pc = "idle"
    /\ GateFree
    /\ gate' = [gate EXCEPT !.shuttingDown = TRUE, !.open = FALSE]
    /\ \E next \in {"idle", "exchange"} : Goto(s, next)
    /\ UNCHANGED <<active, slot, gen, root, platform>>

\* begin_shutdown, called by itself or as the start of shutdown().
BeginShutdown(s) ==
    /\ th[s].pc = "idle"
    /\ GateFree
    /\ \E next \in {"idle", "exchange"} :
         \/ /\ gate.shuttingDown
            /\ Goto(s, next)
            /\ UNCHANGED gate
         \/ /\ ~gate.shuttingDown
            /\ gate' = [gate EXCEPT !.shuttingDown = TRUE, !.open = FALSE,
                                    !.waiters = {}]
            /\ th' = [th EXCEPT ![s].pc = "wake", ![s].taken = gate.waiters,
                                ![s].next = next]
    /\ UNCHANGED <<active, slot, gen, root, platform>>

\* shutdown(): active_generation_.exchange(nullptr), outside the gate lock.
ExchangeActive(s) ==
    /\ th[s].pc = "exchange"
    /\ active' = None
    /\ CallRetire(s, active, "idle", "none")
    /\ UNCHANGED <<gate, slot, gen, root, platform>>

-----------------------------------------------------------------------------
RootSteps(r) ==
    EnterGate(r) \/ StartWait(r) \/ DeliverWake(r) \/ WaitEnds(r)

RetireSteps(t) ==
    \/ Retire(t) \/ RetireRefuse(t) \/ RetireStop(t) \/ RetireJoin(t)

CommonSteps(t) == CancelWaiters(t) \/ RetireSteps(t)

ReloadSteps(a) ==
    \/ TakeSlot(a) \/ Prepare(a) \/ Build(a) \/ BeginCutover(a)
    \/ CloseGate(a)
    \/ WaitForDrain(a) \/ ArmDrainTimer(a) \/ DrainDeadline(a)
    \/ DrainRecheck(a) \/ DrainTimedOut(a) \/ DiscardCandidate(a)
    \/ Publish(a) \/ ActivateCatalogs(a) \/ SpawnReconcile(a)
    \/ Reopen(a) \/ ReleaseSlot(a)

CatalogSteps(g) == ReconcileCheck(g) \/ PublishCatalog(g)

Next ==
    \/ \E r \in Roots : Submit(r) \/ RootSteps(r) \/ RouteReturns(r) \/ ReleaseRoute(r)
    \/ \E t \in Threads : CommonSteps(t)
    \/ \E a \in Attempts : ReloadSteps(a) \/ DrainCancel(a)
    \/ \E a \in Attempts, k \in Kinds : RequestReload(a, k)
    \/ \E s \in Closers : BeginShutdown(s) \/ ExchangeActive(s)
    \/ \E g \in Generations : CatalogSteps(g)

Spec == Init /\ [][Next]_vars

\* Executors run what is ready, timers fire and a catalog call returns or times
\* out.  Nothing makes a route return: an actor may take any time.
FairSpec ==
    /\ Spec
    /\ \A r \in Roots : WF_vars(RootSteps(r))
    /\ \A t \in Threads : WF_vars(CommonSteps(t))
    /\ \A a \in Attempts : WF_vars(ReloadSteps(a))
    /\ \A s \in Closers : WF_vars(ExchangeActive(s))
    /\ \A g \in Generations : WF_vars(CatalogSteps(g))

-----------------------------------------------------------------------------
(* Properties.                                                             *)

\* A reload never shuts a generation down under its routes: while a route
\* holds a lease, only the process shutdown may have closed its generation
\* (cutover publishes and retires after async_wait_for_drain).
DrainedBeforeRetired ==
    \A g \in Generations : gen[g].shutdown /\ gen[g].inFlight # {} => gate.shuttingDown

\* The cutover boundary is sharp: no two generations have routes in flight.
OneGenerationServes ==
    \A g, h \in Generations : gen[g].inFlight # {} /\ gen[h].inFlight # {} => g = h

\* No generation leaks: one that was built is serving, belongs to a running
\* transaction, or somebody has called its shutdown().
NoLeakedGeneration ==
    \A g \in Generations : gen[g].built /\ ~gen[g].shutdown =>
        \/ g = active
        \/ g \in Attempts /\ th[g].pc \notin {"idle", "release", "done"}
        \/ \E t \in Threads : th[t].target = g /\ th[t].pc = "retire"

\* Generations only advance. The platform's command menu never goes back to an older
\* one, because the catalog coroutine of a generation has ended before the next one
\* activates; a generation that serves is only replaced by a younger one; and nothing
\* serves again once shutdown() took the active generation away.
GenerationsOnlyAdvance ==
    [][/\ platform' # platform /\ platform # None => gen'[platform'].id > gen[platform].id
       /\ active' # active /\ active' # None =>
             active # None /\ gen'[active'].id > gen[active].id]_vars

\* A message at the gate is admitted or refused, even if no route ever ends.
GateWaiterProceeds ==
    \A r \in Roots : root[r].pc = "enter" ~> root[r].pc \in {"running", "done"}

\* Every accepted reload ends and gives its slot back, even if no route of the
\* old generation ever ends.
ReloadTerminates ==
    \A a \in Attempts : th[a].pc = "request" ~> th[a].pc = "done"

\* The documented order publish -> reopen -> retire: while a reload shuts the
\* previous generation down, ingress is open again.
ReopenBeforeRetire ==
    \A a \in Attempts : th[a].pc \in RetirePcs /\ th[a].next = "activate"
        => gate.open \/ gate.shuttingDown
=============================================================================
