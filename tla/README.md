# TLA+ specification of the OBCX runtime

OBCX is a bot runtime in C++26. Bots speak OneBot11 (QQ) or Telegram; every
message they receive is routed through pipelines of actors, which are loaded
from shared libraries and replaced while the process runs. This directory holds
TLA+ modules of the runtime from the bots' transports to the actors, the TLC
configurations that check them, and TLAPS proofs. `PROJECT.json` maps each definition to the lines
it models and lists the hazards each property is about.

    tlc -workers 2 -config NativeActorScheduler_serial.cfg MCNativeActorScheduler
    tlapm NativeActorSchedulerProofs.tla      (and every other *Proofs.tla)

Paths below are relative to the repository's root.

## 1. Inventory

### 1.1 How a message travels

    bot thread (io_context)                    generation I/O pool, workers
    ----------------------                     ----------------------------
    transport (WebSocket, HTTP, long poll)
      -> adapter parses an event
      -> EventDispatcher -> MessageEventIngress
      -> ActorRuntimeReloadController::process   (the ingress gate)
         -> RuntimeGeneration::process           (a route lease)
            -> CommandCoordinator::process       (is it a command?)
               -> Orchestrator::process          (pipelines, stages)
                  -> NativeActorScheduler::enqueue
                                               -> ActorWorkStealingExecutor
                                               -> ActorTask of one mailbox
                                               -> bot action (WebSocket, HTTP)
      <- response, matched by its echo id      <- awaits the outcome

A reload builds a second `RuntimeGeneration` (scheduler, executor, actors,
orchestrator, coordinator) beside the first, closes the gate, waits for the
leases of the old one, swaps, retires the old one and opens the gate again.
`main` shuts down in the order: admission closed, `begin_shutdown`, blocking
executor, controller, bots, join with a deadline.

### 1.2 Components

| component (source) | state | operations | talks to | module |
|---|---|---|---|---|
| NativeActorScheduler (`src/core/native_actor_scheduler.cpp`) | mailboxes by actor:partition, active invocation and generation of each, three pending counters, metrics, shutdown flags | register_actor, enqueue, cancel, run_mailbox, on_external_ready, reclaim, shutdown, release_actors | executor (items), actors (tasks), callers (completion handlers) | `NativeActorScheduler` |
| ActorTask / ActorAsio (`include/core/actor_task.hpp`, `actor_asio.hpp`) | suspension kind and epoch, phase of the Asio operation | resume, yield, await, completion | scheduler | part of `NativeActorScheduler` |
| ActorWorkStealingExecutor (`src/core/actor_work_stealing_executor.cpp`) | a deque per worker, injector, runnable and active counts, wake epoch, flags | start, submit, reschedule, take, steal, sleep, shutdown | scheduler | `WorkStealingExecutor`, `WorkPool` |
| ActorRuntimeReloadController (`src/core/actor_runtime_reload_controller.cpp`) | gate with its waiters, active generation, single-flight slot | process, start_reload, reload, reload_to, cutover, begin_shutdown, shutdown | generations, bots' executors | `RuntimeReload` |
| RuntimeGeneration and its builder (`src/core/runtime_generation.cpp`) | accepting flag, in-flight routes, drain waiters, catalog state; what a build has made so far | process, async_wait_for_drain, activate catalogs, shutdown, build | controller, scheduler, coordinator, actor manager | `RuntimeReload` (service), `RuntimeBuild` (build, teardown) |
| WebsocketWriteQueue (`src/network/websocket_write_queue.cpp`) | bounded channel, active request, stop flag | send, run, stop | WebsocketClient | `WebsocketWriteQueue` |
| WebSocket connection manager, ActionRequestTracker, WebsocketClient (`src/onebot11/network/websocket/`, `src/network/websocket_client.cpp`) | table of pending actions, current client, reconnect timer | send_action_and_wait_async, on_ws_message, do_connect, schedule_reconnect, disconnect; start, respond, fail_all, cancel_all, deadline | actors, peer | `OneBotActions` |
| Orchestrator (`src/core/orchestrator.cpp`) | pipelines, partition expressions, terminal tasks, shutdown flag | process, stages in passes, emitted messages, terminal stages, shutdown | scheduler | `MessageRouting` |
| CommandCoordinator, matcher, platform adapter (`src/core/command_*.cpp`) | routing table, transaction counter | build, detect, process, deadline of a command, stop | scheduler, orchestrator | `CommandTable`, `MessageRouting` |
| protocol adapters, EventDispatcher, MessageEventIngress (`src/*/adapter/`, `include/core/event_dispatcher.hpp`, `src/core/message_event_ingress.cpp`) | handlers | parse_event, dispatch, to_envelope | bots, controller | `EventIngress` |
| Telegram connection manager, TGBot (`src/telegram/network/http/connection_manager.cpp`, `src/core/tg_bot.cpp`) | offset, polling flag, retry timer | start, stop, poll, process_updates, methods of the bot | Telegram's server | `TelegramPolling` |
| HTTP clients, proxy tunnels (`src/network/http_client.cpp`, `proxy_*.cpp`) | one connection per request | post, get, head, tunnel set-up | servers, proxies | `HttpTransport` |
| Configuration, thread budget (`src/common/config_loader.cpp`, `src/core/runtime_thread_budget.cpp`) | the file as read | readers, validation, order, fingerprint, budget | builder | `Configuration` |
| ActorManager, stager (`src/core/actor_manager.cpp`, `actor_package_stager.cpp`) | mapped libraries, contracts, actor instances, staged copies | stage, discover, activate, retire in two steps | generations, dynamic loader | `ActorContract`, `RuntimeBuild` |
| BlockingExecutor (`include/core/blocking_executor.hpp`) | admission flag, pending jobs, pool | async_run, close_admission, shutdown | actors, main | `BlockingWork` |
| DbManager (`src/core/db_manager.cpp`) | connection, writer thread and queue, transaction | execute, run_write_task, migrations, stop_writer | callables of actors | `BlockingWork` |
| main, command line, TUI (`src/app/main.cpp`, `src/common/cli_handler.cpp`, `src/tui/tui_app.cpp`) | stop flag, bot threads, shutdown callback | start of the bots, exit, signal, shutdown order with a deadline | everything | `Application` |

Not modelled, see section 7: OneBot11 over HTTP, outgoing JSON, reflection,
layout and logging.

### 1.3 What is hard here

* *Unlocked regions.* `run_mailbox` keeps raw pointers to the active
  invocation while it runs actor code without a lock; cancel, the shutdown
  sweep and I/O completions may come in between. A generation number per
  mailbox is the only thing that keeps stale items apart from current ones.
* *Claims and handoffs.* After a result was handed over, an empty mailbox stays
  claimed for a few yields so that a follow-up message skips the executor;
  enqueue then leaves its message to the worker that holds the claim.
* *Wakeups.* The scheduler (I/O completion before suspension), the executor
  (wake epoch), the gate (timer cancelled before it is waited on) and the drain
  wait (the same) each have their own lost-wakeup problem.
* *Races for one outcome.* Result, cancel, refusal and sweep of an invocation;
  response, deadline, broken connection, disconnect and failed write of a bot
  action; write, failure and stop of a queued message.
* *Shutdown at any moment*, in two modes, of every component, while reloads,
  messages and I/O are under way.
* *Recursion through data.* Actors emit messages that select pipelines that run
  actors; failures are messages too.
* *Code that is unloaded.* Actors, their callbacks and their blocking jobs live
  in libraries of which two versions are mapped during a reload; the loader
  knows libraries by name only.
* *A server that forgets.* Telegram drops updates that the next request skips,
  and the offset is not kept over a restart.
* *Threads that outlive scopes.* The TUI runs the shutdown callback, which works
  on locals of `main`, on a detached thread.

### 1.4 What makes each component correct

* Scheduler: one task per key at a time, FIFO per key, every caller gets one
  result, counters and metrics balance, mailboxes are reclaimed and never
  resurrected, both shutdown modes end with nothing held.
* Executor: every accepted item runs once (or is discarded by a cancelling
  shutdown); no worker sleeps while it is needed; shutdown joins everybody.
* Reload: one generation serves; nothing is retired under its routes outside
  a shutdown; no generation, gate or message is left behind; catalogs never go
  back.
* Write queue: FIFO on the wire, honest results, stop releases everybody.
* Actions: one outcome per action, none waits for nothing, at most one chain of
  reconnections, which breaks in one known way only.
* Routing: every message gets its result, failures come up from any depth, a
  command is settled once and decides alone whether its message goes on, no call
  without somebody who waits.
* Polling: a lost request or answer, a stop or a crash loses no update, and none is
  handed over twice by one process; polling never dies by itself; a tunnel is empty
  when it is handed on.
* Build: what serves was validated against what it runs with; code stays mapped
  as long as something may run it.
* Process: what was reported as stored is stored, as long as roll backs succeed;
  the shutdown ends, in order, and leaves nothing running.

## 2. Modules

All modules take their sets of threads, messages and limits as CONSTANTS with a
named ASSUME. A step is one critical section, one atomic operation or one
blocking call; handlers that contain several of them are several steps joined
by a program counter, so threads interleave exactly where the code lets them.
Coroutines that share the one thread of a bot are joined at their suspensions.
Operators whose comment starts with "Mutant:" are wrong variants, used to see
that each property can fail. `TypeOK` gives the types of the variables; it is
the first conjunct of most inductive invariants of section 4. A module
`XProofs` extends `X` and holds the theorems about it;
`NativeActorSchedulerWorkProofs` continues `NativeActorSchedulerProofs`, and
`OneBotWebsocketProofs` is about `WebsocketWriteQueue` and `OneBotActions`, whose
specification is called `ActionsSpec` so that both modules can be extended.

    WorkPool <= WorkStealingExecutor          (refinement)
    CommandTable, EventIngress -> MessageRouting
    HttpTransport -> TelegramPolling
    Configuration -> ActorContract -> RuntimeBuild
    BlockingWork -> Application               (->: is extended by)

Where two parts are in different modules, the upper one uses what the lower one
is checked for: MessageRouting a FIFO mailbox per key with one result each
(NativeActorScheduler), RuntimeReload a build that succeeds or fails
(RuntimeBuild) and routes that may not end, Application a controller whose
shutdown ends (RuntimeReload, scheduler_liveness).

### NativeActorScheduler

`box` are the mailbox objects, named by the invocation whose enqueue created
them, so that a reclaimed mailbox and its successor under the same key are
different objects; `mailboxes` is the map; `inv` the invocations with the state
of their task; `items` the work items queued in the executor; `th` the threads
with the locals they carry between critical sections (`events` is the
CompletionEvent list, `request` the ScheduleRequest, `touched` the mailbox
pointer, `cur` the item at hand). `result`, `calls`, `ticket` and `settledAt`
are history.

| code | actions |
|---|---|
| enqueue | `EnqueueRejected`, `EnqueueAdmitted` |
| cancel | `CancelPending`, `CancelActive` |
| run_mailbox | `TakeWork`, `Begin`, `AttachTask` or `StartError`, `Resume`, `AfterResume` (`KeepActive`, `FinishActive`), `IdleHandoff`, `LocalHandoff` |
| complete_active_locked, prepare_next_locked | `CompleteActive`, `Settle`, `PrepareNext` |
| invoke_completions, publish_request, fail_schedule_request | `InvokeCompletion`, `PublishRequest` |
| on_external_ready and the Asio bridge | `OperationCompletes`, `OnExternalReady` |
| reclaim_idle_mailbox | `ReclaimIdleMailbox` |
| shutdown, release_actors | `Shutdown`, `DrainDone`, `SweepMailbox`, `SweepDone`, `StopExecutor`, `Joined`, `ShutdownReturns`, `ReleaseActors` |

The executor appears as a bag of items that any idle worker may take; that is
what `WorkPool` promises. What a resume does is chosen freely: yield, suspend on
I/O, finish, fail. Durations, diagnostics and snapshots are left out. A `cancel` that
finds no message under its id changes nothing here; in the code it also tries to
reclaim the mailbox, which whoever left the mailbox idle is about to do anyway.
`Shutdown` stores `stopping` and `cancelling` in one step, both inside the critical
section of the state mutex.

### WorkStealingExecutor and WorkPool

Queues, both counters, sleeping workers and the flags, with every access a step
of its own. The wake epoch is kept as the one fact a worker learns from it:
whether it moved since it was loaded. `WorkPool` is the abstract specification:
items wait in a bag, each is taken by one worker and runs once, and may be
discarded while it waits. `ImplementsPool` is the refinement. What waits is
counted by its places, pairs of a queue and a position in it.

### RuntimeReload

Root messages, reload transactions and closers run concurrently. The gate mutex
has a holder, because a cutover that lost its ownership retires the candidate
inside the gate's critical section. Timers are explicit (`wake`, `cancelPosted`,
`expired`), because the code cancels timers that may not be waited on yet. A
build is one step that succeeds or fails; a catalog publication may fail and
still have reached the platform. The id of a candidate given to `reload_to` is the
caller's choice; it is one above the active one, as `start_reload` counts.

### WebsocketWriteQueue

The Boost channel is modelled from its use: bounded buffer, blocked senders in
order, close. The class is written for any executor, so no strand is assumed.

### OneBotActions

Callers on actor threads, the bot's thread with its handlers, and the thread
that disconnects. The write queue appears as writes that end, fail with the
connection or hang. An action stands for its echo id. A write that fails also fails
the stream, whose `is_open()` the read loop tests after every message: a pending read
then reports the error and the connection is made anew, but a loop whose message was
already on its way to the executor leaves without a report (`LeavesSilently`, state
`left`).

`ws_client_` and a request's deadline are read without synchronisation by callers
and by `disconnect`; the model reads each of them in one step. Left out: a second
`disconnect` from the destructor, and the errors `start()` returns for a duplicate
echo or a non-positive timeout (echoes are distinct, timeouts positive here).

### EventIngress

From the JSON of a platform to the envelope of a root message: which documents
parse, which of them are events a handler listens to, the conversation id and
the text that commands are looked for in. A document is a record of the facts
the adapters test (kind of the update, ids present, content with or without the
fields its segment needs); it is an operator module without state.

### CommandTable

The routing table: platforms are normalised, routes expanded to scopes of
platform, bot and command, conflicts and limits found, patterns compiled; then
the candidates of a message and the commands they match. Texts are words with
the facts the adapter tests.

### MessageRouting

A task is a coroutine with a stack: a command or a posted terminal stage at the
bottom, one frame per nested `process_message`. `mail` holds the mailboxes,
`root` the root messages with their results and, as history, the failures that
occurred.

| code | actions |
|---|---|
| ingress, CommandCoordinator::process | `Ignore`, `Process` (`StartPlain`, `StartCommand`), `Resume`, `Timeout`, `Decide`, `CommandReturns` |
| Orchestrator::process_message, passes over the stages | `RouteNext`, `NextPass`, `RefuseStage`, `UnknownActor`, `CallStage`, `FinishStage`, `Return` |
| terminal async stages | `PostTerminal`, `StartTerminal`, `TerminalEnds` |
| scheduler and actors | `Answer`, `Hang` |
| shutdown of a generation | `ShutdownCoordinator`, `CloseTerminal`, `StopScheduler` |

Partition keys are built as the two places of the code build them (`StageKey`,
`CommandKey`); emitted messages have the fields of their root message. `said` is what
the actor of a command answered, from which and from the fallback of the route
`CommandSettledOnce` computes whether the message has to go on.

### HttpTransport and TelegramPolling

A request is the sequence of its I/O operations, each with or without a deadline,
computed from the configuration as the clients and tunnels do it. Every operation
may succeed, fail, or wait for a silent peer. The server answers a poll with
any increasing sequence of updates it still has from the offset on (`Batches`).
Above it the polling coroutine
(`PollBegins`, `PollIo`, `PollIoFails`, `PollAnswered`, `PollFailed`,
`PollDelayEnds`), the methods of the bot (`Call`, `CallIo`, `CallReturns`), and
the process (`Start`, `StopPolling`, `ProcessEnds`: an orderly stop or a crash at
any moment, after which nothing but the server's state is left).

`PollAnswered` moves the offset past the whole answer, as `process_updates` does
before its loop; `HandOver` then takes one update at a time, which becomes an event or
is passed over, and `HandOverFails` is the exception that leaves the rest behind. The
loop holds the thread of the bot, so that no other coroutine runs in between, but the
process may end there. An update stands for its `update_id`. The methods of the bot
are the names in `RequestMethods`, told apart by their verb, by what they refuse
before they send, and by `get_updates`, which drops updates at the server like a poll.

### Configuration, ActorContract, RuntimeBuild

`Configuration` and `ActorContract` are operators: the readers with their
defaults, each validation, cycle search and actor order as the code does them,
the thread budget, the contract of a library. `RuntimeBuild` has an action per
step of `RuntimeGenerationBuilder::build` (`Begin`, `Validate`, `CreateRoot`,
`Stage`, `Discover`, `Connect`, `Activate`, `Publish`), each with its early
returns and the roll back of a candidate (`Drop`, which is also the end of a run
that only validates its configuration), the steps of a teardown
(`Stop`, `begin_actor_retirement`, `CallbackRuns`, `finish_actor_retirement`,
`Destroy`) and `Deploy`, which replaces a library on disk between builds. The
dynamic loader is external: one image per identity, bound when it is mapped. The
tests for missing process services are left out: `main` and the controller always
pass them. What is wrong with the actor, the scope or the command names of a written
route is a set of error codes.

### BlockingWork and Application

Callables on the pool and their use of one database connection; around them the
process: bots that start, end or fail, four ways to be told to stop, and the
shutdown callback in its order, on the thread that got the command or on the
TUI's. A migration may commit, roll back, or fail to roll back: the code ignores that
failure (`db_manager.cpp:222`), and the statements that follow are executed in the
transaction that is left open. `BlockingExecutor::shutdown` is prepared for a join
that throws; `thread_pool::join` does not, and that path is left out.

## 3. Runs

| run | instance | what it shows |
|---|---|---|
| scheduler_serial | 3 invocations of one key (two with one message id), 2 workers, 1 caller, 1 I/O thread | serial FIFO execution, one completion each and in order, reclaimed mailboxes are dead |
| scheduler_shutdown | 2 invocations, 2 workers, 2 callers, both shutdown modes, all three limits set | types, ownership across unlocked regions, no lost wakeup, continuation or message, counters equal what is held, quiescence after shutdown |
| scheduler_liveness | 2 invocations, 1 caller, both modes, fair threads | every caller gets a result, shutdown ends |
| executor_check | 2 workers, 1 caller, an item accepted twice, both modes, threads that fail to start | what a shutdown leaves, refinement of `WorkPool`, accepted work runs |
| reload_safety | 2 root messages, 2 transactions, 1 closer | sharp cutover, no leak, generations only advance |
| reload_liveness | 1 root, 2 transactions, 1 closer, fair | messages pass or are refused and reloads end even if no route ever returns |
| write_queue | 3 requests, capacity 1, a stopper and the writer's own stop | FIFO and honest results, senders return |
| onebot_actions | 2 actions, 2 clients | one outcome, one reconnect chain that breaks in one way only, every action ends |
| routing | 1 root message made of any of 8 documents, 3 actors (one not registered), 3 pipelines, hop limit 2, 3 commands | failures are reported, a command is settled once and its message goes on exactly when it should, calls have waiters, every route ends |
| telegram | 2 updates in answers of up to 2, 2 starts of the process, 1 caller with 5 methods, 3 connection configurations | what the server drops was handed over or given up knowingly, none twice; tunnels are clean, polling goes on |
| packages | 2 actors, 2 private libraries and one of the process, each replaceable; 2 generations, the second from any of 176 requests | code stays mapped, libraries are the examined ones, what serves is sound, the thread budget |
| process | 2 callables of any kind on 2 threads, 2 bots, command line or TUI | durable writes unless a roll back fails, callables before libraries, nothing outlives main, a stop ends |

*Why these bounds.* Scheduler: two workers are enough for every race between
two holders of one mailbox; three invocations of one key give an active one, its
successor and the one behind it, the longest chain a critical section touches,
and two of them share a message id because cancel works by id. One suspension
per task gives completion before, during and after the suspension. The handoff
limits (15 local handoffs, 4 idle yields in the code) are 1 and 2, so that both
sides of each limit are reached. Executor: two workers give stealing and
sleeping; an item that is accepted twice gives two items that exist at once.
Reload: two transactions compete for the slot and follow one another, two roots
are at the gate and in flight at once; requests are `start` and `reload_to` for
safety and `reload` for liveness, the entry points differ only in who runs them
and who built the candidate. Write queue: capacity 1 with three senders gives
one active, one buffered, one blocked. Actions: two clients give one
reconnection with actions sent over the old and the new connection; the bound
`MaxClients` ends the chain of reconnections and nothing else. Routing: the
documents are one for each branch of the ingress and of the detection; the
pipelines contain an async stage somebody waits for, one that nobody waits for,
a stage that waits, a pipeline that feeds itself and one for failures whose actor
is missing, so that a route nests to the limit and fails at every level; one root
is enough because roots share only mailboxes, whose order is the scheduler's
business. Polling: an answer of two updates can be handed over by half when the
process ends or an exception comes; two starts give a restart in every state. Packages: the first generation serves while the second
is built, which is all the code ever has at once; requests change one part of a
valid configuration at a time, and all graphs of two actors and of three stages.
The constants that stand for limits (timeouts, hop limit, threads) are small, and
the values that are written lie on both sides of each: 6 blocking workers are the
last that fit beside an unwritten number of actor workers, and 7 are cut. Process: two callables are
a migration and something beside it, or a nested write and something behind it;
each of the bots may end by itself, run into the deadline or not start at all.

The scheduler's limits are set to two in scheduler_shutdown, so that the counters
are kept; two invocations do not exceed them, and three with a shutdown are out
of reach. Admission against a limit is therefore not exercised, only that the
counters it compares are exact.

`UseGlobalSharing` is FALSE in the scheduler's runs: sharing turns the local
handoff and the idle claim off and leaves the path by which requests are
published, which is also taken when the handoffs are used up. The theorems hold
for both values.

`CHECK_DEADLOCK FALSE` is set where the system ends: each invocation, request or
action of the instance happens once. RuntimeReload is checked for deadlock.

*Fairness.* `FairSpec` is weak fairness per thread for code that nothing outside
can hold up: worker loops, completion handlers, the rest of a call that was
begun, expired timers, queued handlers. No fairness is assumed for callers who
may call, for operators who may reload, for a peer who may answer, connect or
break, or for routes that may return. Exceptions, each with its reason: the
scheduler's liveness needs Asio operations to end and actors to return from a
resume (a hanging actor holds its key for ever, and the code has no remedy);
`EveryActionEnds` needs writes to end (`FairTransportSpec`), and
`OneBotActions_timeout_doc.cfg` shows what happens without it. `SendersReturn`
states its exception in the formula: everybody returns unless a write hangs for ever and
nobody stops the queue. In `TelegramPolling` only deadlines expire by fairness,
no peer has to answer; the system's resolver, for which the code sets no
deadline, is assumed to end. In `MessageRouting` actors answer unless they hang
(`Hang`), and then only the deadline of a command helps: stages of a pipeline
have none, so hanging is offered for commands only. In `Application` a callable
returns (the code joins the pool without a deadline) and the shutdown callback
goes on; no bot thread has to end.

## 4. Proofs

Each theorem holds for every value of the constants that satisfies the
assumption named in the table, finite or not; nothing else is assumed. Two of the
scheduler's theorems count invocations and also use `FinitenessAssumption`: the
calls, keys and threads are finitely many. At any time of a run they are, and the
sums in these two properties say nothing about infinite sets. All are proved
alike: `InvariantHolds` shows `Spec => []IInv` from one lemma for the initial
states and one per action, and the theorems follow from `IInv`. Each inductive
invariant, the scheduler's second and third included, was checked by TLC on the
instances of section 3.

| module | theorems (property) | assumption |
|---|---|---|
| `NativeActorSchedulerProofs` | `TypeCorrect`, `Exclusion` (`ExclusiveExecution`), `Ownership` (`WorkerOwnsMailbox`), `ReclaimedIsDead` (`UnmappedMailboxIsDead`), `FirstInFirstOut` (`FifoPerKey`) | `ConstantsAssumption` |
| `NativeActorSchedulerWorkProofs` | `NothingIsLost` (`NoLostWork`), `ShutdownLeavesNothing` (`StoppedIsQuiescent`) | `ConstantsAssumption` |
| | `CountersAreExact` (`BackpressureCounters`), `OneResult` (`OneResultInOrder`) | `ConstantsAssumption`, `FinitenessAssumption` |
| `WorkStealingExecutorProofs` | `TypeCorrect`, `ShutdownIsClean` (`ShutdownLeavesOnlyLate`), `ExecutorIsAPool` (`ImplementsPool`, the refinement) | `ExecutorAssumption` |
| `RuntimeReloadProofs` | `TypeCorrect`, `DrainBeforeRetire` (`DrainedBeforeRetired`), `SharpCutover` (`OneGenerationServes`), `NothingLeaks` (`NoLeakedGeneration`), `Advance` (`GenerationsOnlyAdvance`, an action property) | `ReloadAssumption` |
| `OneBotWebsocketProofs` | `TypeCorrect`, `WireIsFaithful` (`FaithfulWire`) | `QueueAssumption` |
| | `ActionsTypeCorrect`, `OutcomeDecidedOnce` (`OneOutcome`, an action property), `OneReconnectChain` (`ReconnectChain`) | `ActionsAssumption` |
| `TelegramPollingProofs` | `TypeCorrect`, `DeliveredOnce` (`UpdatesHandedOnce`), `TunnelsAreClean` (`TunnelIsClean`) | `PollingAssumption` |
| `ApplicationProofs` | `DurableResults` (`OkIsDurable`), `CodeOutlivesCallables` (`CallableHasItsCode`), `MainLeavesLast` (`NothingOutlivesMain`) | `WorkAssumption` |
| `MessageRoutingProofs` | `FailuresReachIngress` (`FailuresAreReported`), `SettledOnce` (`CommandSettledOnce`), `CallsAreAwaited` (`CallsHaveWaiters`) | `RoutingAssumption` |

*Scheduler.* `IInv == TypeOK /\ Structure /\ SweepInv /\ HolderInv /\
WorkerOwnsMailbox /\ DistinctCur`. Two workers could hold the same key through
two mailbox objects, so exclusion needs to know that mailboxes which own work
are in the map (`MapInv`) and that an invocation's home has its key (`HomeInv`);
they could hold one mailbox through a stale item, so a generation must name one
invocation of its mailbox (`GenInv`) and no generation may run ahead of its
mailbox; a worker at `start`, `resume` or `post` must name an activated
invocation (`HolderInv`), and so must every request, queued item and pending I/O
operation from which such a worker can come. A cancelling shutdown resets
mailboxes one by one, hence `SweepInv`. `BoxStep`, `SettleStep`, `QuietStep` and
`MailboxStep` collect what steps of one shape have in common.
`InvariantImpliesExclusion` gives exclusion: two executing workers with one key
have homes with this key, both homes own work, so both are in the map under the
key, are the same, and have one active invocation, which `DistinctCur` forbids.

*Order in the scheduler.* `FirstInFirstOut` has a second inductive invariant on
top of `IInv`: `Fifo` says that every queue is in the order of admission, that
what is queued was admitted after everything of its key that was ever activated,
and that the active invocation is the youngest of those. Whatever takes
invocations out of a mailbox thins it (`Thins`: drop some, or activate one that
nothing is left before), which `PrepareNextThins` and `RemoveAtOrder` show of
`prepare_next_locked` and of `cancel`; `ThinStep` shows that thinning keeps
`Fifo`, because no other mailbox of the key owns work (`MapInv`). `AdmitOrder`
is the other half: an admission gives out the youngest ticket.

*Work, shutdown and results in the scheduler.* `BooksHold` adds a third
inductive invariant, `Live /\ Ledger /\ ShutInv`, on top of `IInv` and `Fifo`.

* `Live` follows the work. Between critical sections a runnable mailbox has
  exactly one continuation and a running or suspended one none, a suspended one
  has somebody to wake it, and its operation is reported once, under the
  current suspension epoch (`TasksLive`). This is inductive
  only together with what a thread may still hold (`TailInv`: a request or
  events only on the way to where they are handed over), with reports that are
  never ahead of the epoch (`EpochInv`) and with the fields of a mailbox agreeing
  with its status (`BoxesLive`). `NothingIsLost` follows.
* `Ledger` follows the accounts. Counters are cardinalities of what the
  mailboxes hold (`CountInv`), an invocation is in one place (`PlaceInv`). That
  a result comes before the immediate successor is an invariant only with two facts
  about the past: while a result is undelivered, the successor is still the
  unpublished request of the thread that has it (`SuccInv`), and what is queued
  behind a predecessor that has left came after it left (`TopInv`).
* `ShutInv` says that the executor is stopped only after the drain has seen
  nothing held, or the sweep has visited every mailbox, and that nothing is held
  afterwards; `ShutdownLeavesNothing` follows.

The actions are grouped by what their critical section does to a mailbox: lemmas
about leaving it, being taken out of it and being admitted to it carry the
invariant through all of them, and steps that only move a thread or an item go
through the lemmas for steps that leave all contents as they are. The properties
themselves sum over keys, mailboxes and threads with `MapThenSumSet`, a `CHOOSE`
of a recursive function. `SumsAreUnique` and `SubSums` reason about it by the
least cardinality of a counterexample, which needs no induction over operators;
`KeyTotal`, `BoxTotal` and `EventTotal` then turn each sum into a cardinality.

*Executor.* A counter that is wrong by one would hide a lost item, so
`CountInv` says that `active_count_` is the number of running workers and
`runnable_count_` the number of places in the queues plus what a clearing
shutdown has taken out and not yet subtracted; the sets are finite because each
step adds at most one element. A draining shutdown leaves nothing that came in
time because whoever is queued has a worker that will still look (`WatchedInv`:
a worker leaves only after it has read zero from the counters, and takes its
leave back when it was woken); a cancelling one because a queue is never filled
again after it was cleared (`ClearedInv`). Every action lemma proves `IInv'`
together with `PoolStep`: the step is one of `WorkPool` or changes nothing the
pool sees. How often an item is queued is a cardinality, and `HeldAppend`,
`HeldFront`, `HeldTail` and `HeldClear` say how each queue operation moves it.
`Workers # {}` is what `normalized_worker_count` guarantees.

*Reload.* Everything rests on `SlotInv` (one transaction at a time) and on what
is true of this transaction at each of its steps (`AttemptInv`): the gate is
closed from the drain to the end of the cutover, the active generation can only
be the one it replaces or, after the swap, its own, or none because the process
shuts down; its candidate is nobody else's until it is published. So routes run
in the active generation alone (`ActiveInv`) and the drained one stays drained.
`TargetInv` and `CloserInv` keep closers from a generation that serves,
`LeakInv` follows each built generation to who will shut it down, and
`CatalogInv` orders catalog coroutines by the ids of their generations, from
which the action property follows.

*Write queue.* The order on the wire comes from an order on everything a request
passes: wire, request in hand, buffer and blocked senders are each in the order
of admission and each ahead of the next (`OrderInv`, `WriterInv`). That a
result is honest needs to know who may have failed a request before the wire
got it, hence `StopInv` and `ResultInv`.

*Actions.* An action is in the table or in the hands of exactly one thread, and
has its outcome when it is in neither (`OwnerInv`); that is why nothing
overwrites an outcome. The places a reconnection can be at exclude one another, and
until `disconnect` one of them is taken or a read loop has left a stream on which a
write had failed (`ClientInv`, `ChainInv`).

*Polling.* What the server has dropped was handed over or given up, and so is what
it will drop at the next request, unless it is still in the batch at hand, which this
process hands over before it asks again and another process gets once more
(`DroppedInv`): the server drops updates only when it is asked past them, so a
crash between offset and hand-over loses nothing. Given up is an update that is no
event, what an exception of the hand-over loop leaves behind, and what a caller's own
`get_updates` asks past. The offset is past what this process handed over
(`HandedInv`), and the batch at hand leaves nothing out (`BatchInv`). For
tunnels, `RequestInv` says of every request that the fixed-size reads left to do
ask for exactly the bytes the proxy has sent and nobody has read.

*Process.* A job is posted once, in the writer's queue once, or in the writer's
hands (`PostedInv`, `QueueInv`, `CurrentInv`); while a migration has the mutex no
other statement gets into its transaction, and a transaction outlives its migration
only when the ROLLBACK has failed (`TransactionInv`, `RowsInv`). The row of a nested
write task whose inner task fails stays, because each task commits by itself; the
theorem says of single statements, writes and migrations that a failure leaves no row. Around it `AppInv` orders the shutdown callback,
the bots' threads and what `main` waits for.

*Routing.* A root message is routed by one task, and only while it is in state
`routing` (`RouteInv`); terminal stages never touch it. Each step of that task
works on the top of its stack, whose frames above the first are routes
(`StackOK`), and a failure that was noted is in one of the frames (`InFrames`):
when a route returns, `Merge` moves its failures one frame down, and the last
frame hands them to the result. What the root has been through so far is kept
equal to what the frame at the bottom says (`SettledSoFar`): a command that is
not decided has routed its message nowhere, one that timed out has nothing left
to route, and a task that awaits with a timer is a command that has done nothing
else (`AwaitOK`). `MailInv` says that a call is in one place, which its task
knows as long as it has no answer, so that a cancelled call is the one that is
removed, and an entry without a waiter can only be what a timed out command left
running. The lemmas about mailboxes (`MailKept`, `MailRemoved`, `MailAbandoned`,
`MailPosted`) and about stacks (`RouteTopStep`, `NestedStack`, `NestedReturn`,
`CommandTopStep`) are shared by the actions. Of `RoutingAssumption` the proof
uses that the table was built and that `CommandFallback` has two values; what the
table computes enters only through `ScopeFacts`: the scope a message is routed
to is one of the table's.

Only model-checked:

* liveness, which is outside the prover's reach: `EveryInvocationCompletes`,
  `ShutdownCompletes`, `AcceptedWorkRuns`, `GateWaiterProceeds`,
  `ReloadTerminates`, `SendersReturn`, `EveryActionEnds`, `EveryRouteEnds`,
  `PollingGoesOn`, `StopEnds`;
* `RuntimeBuild`: `ActiveIsSound` and `BudgetIsExact` are about what
  `Configuration` and `CommandTable` compute with folds and recursive functions,
  `CodeIsMapped` and `LibrariesAreExamined` about reachability computed by one.
  What such a function returns for every input needs induction over data, which
  the installed provers cannot do; TLC compares them with what they are for over
  the instance's inputs.

## 5. Where the code and its documents differ

Each of these has a configuration with one property, the document's statement,
which TLC violates; the behaviour it prints is the disagreement. They are kept
apart from the runs of section 3.

    tlc -config NativeActorScheduler_fifo_doc.cfg MCNativeActorScheduler
    tlc -config RuntimeReload_order_doc.cfg MCRuntimeReload
    tlc -config OneBotActions_timeout_doc.cfg OneBotActions
    tlc -config OneBotActions_reconnect_doc.cfg OneBotActions
    tlc -config RuntimeBuild_closure_doc.cfg MCRuntimeBuild
    tlc -config Application_signal_doc.cfg MCApplication
    tlc -config MessageRouting_mailbox_doc.cfg MCMessageRouting
    tlc -config TelegramPolling_https_doc.cfg MCTelegramPolling

* *fifo*. `openspec/specs/native-actor-execution/spec.md:33`: "the scheduler
  publishes the completed result before starting the oldest pending message".
  This holds for the immediate successor (`ResultBeforeNextMessage`), but a
  cancel that hits the successor just after it was made runnable starts the
  message behind it before the first result is handed over.
* *order*. `docs/architecture/actor-runtime-v2-operations.md:82`: "prepare ->
  gate -> drain -> publish -> reopen -> retire"; cutover retires the previous
  generation with the gate closed (`actor_runtime_reload_controller.cpp:541`, the
  gate opens at 555), so ingress waits for its scheduler and pool to stop.
* *timeout*. `openspec/changes/reorganize-core-and-actor-tests/specs/`
  `websocket-runtime-reliability/spec.md:34`: "the caller receives the stable
  timeout failure once". The deadline completes the pending action, but its
  caller awaits the write first: behind a peer that does not read it learns of
  the timeout only when the connection breaks.
* *reconnect*. `include/onebot11/network/websocket/connection_manager.hpp:24` gives
  the manager the logic of automatic reconnection. When a write fails while a
  received message is already on its way to the read loop, the loop handles the
  message, finds `is_open()` false (`websocket_client.cpp:52`) and leaves without an
  error, so nobody schedules a reconnection until `disconnect`.
* *closure*. `openspec/specs/actor-runtime-reload/spec.md:99`: "the active actor
  continues executing the old dependency, and the candidate actor executes the
  rebuilt dependency". The identity of a staged library has the digest of its own
  content only (`actor_package_stager.cpp:304`). When x is unchanged and y below
  it was rebuilt, x keeps its identity, and the loader gives the candidate the
  mapped x, which is bound to the old y. Direct dependencies are right
  (`LibrariesAreExamined`).
* *signal*. `src/app/main.cpp:547`: "Block on signal in case stdin closed before
  SIGINT." The monitor sets the flag and notifies without the mutex of the
  waiting thread (line 72), so both may fall between its test and its block.
  `StopEnds` leaves exactly this window out.
* *mailbox*. `openspec/changes/archive/2026-07-31-add-actor-command-routing/`
  `design.md:259`: "Submission uses the same scheduler, mailbox, backpressure
  [...] as every other actor message". Partition keys are built in two places
  that treat empty values differently: the coordinator drops leading ones, the
  orchestrator keeps them. With an expression whose first field is empty for a
  message, a command and a stage of the same actor go to two mailboxes, and may
  run at once.
* *https*. `include/network/proxy_http_client.hpp:21` says of HTTPS proxies that
  the connection to the proxy uses SSL. CONNECT does, but the tunnel then returns
  the layer below the SSL stream (`proxy_tunnel.cpp:192`), and the request that
  follows bypasses the session the proxy still has open.

Observed while modelling, and not stated as a property:

* The executor coalesces notifications, so a worker can stay asleep while an item
  waits in the injector and another worker is busy; `AcceptedWorkRuns` shows that
  the item runs nevertheless. A push that passed the admission test may land
  after the workers have left; `ShutdownLeavesOnlyLate` bounds this, and
  `StoppedIsQuiescent` shows that no live invocation is in such an item.
* `on_ws_message` schedules a reconnection without a look at `is_running_`; bots
  stop their io_context right after disconnect. A response with an unknown echo
  falls through to parse_event.
* Telegram: `set_timeout(poll_force_close)` of a poll also holds for the actions
  that follow it; an error status is polled again without a delay; offsets are
  `int`; `TGBot::poll_updates` is not called. A message and a callback query of
  one chat get different conversation ids ("chat:" and "group:" or "private:"),
  and an edited message that contains a command runs it again.
* HTTP: the answer to CONNECT without a length is read to the end of the stream;
  the proxy client ignores `use_ssl` for other ports than 443; OneBot11 over HTTP
  resets its client from another thread while a poll may use it.
* Configuration: `schema_version` is cut to 32 bits before it is compared;
  `less_equal` is not tested among defaults; a bot without `type` or `enabled`, or
  a connection without `type`, is dereferenced although it is absent. A library
  of the process that only the candidate needs is not compared with the one that
  was there at startup.
* Build: an allocation failure in activate_actor leaves a discovered entry
  without a handle; the directory of a failed candidate is removed before its
  libraries are closed.
* `BlockingExecutor::shutdown` joins without a deadline, so one callable that
  does not return keeps the process; a failed post calls a completion that was
  moved from.

## 6. Plan

Modelled and checked: everything in the table of section 1.2. Proved: section 4.
Every safety property that a run checks is a theorem, except the four of
`RuntimeBuild`, which stay with TLC for the reason given at the end of section 4.

What could still be added: a `SerialMailbox` that states what `MessageRouting`
uses of the scheduler, with the scheduler shown to implement it.

## 7. Not modelled

* OneBot11 over HTTP: a polling loop of the form of Telegram's, without an offset;
  its requests are those of `HttpTransport`.
* Outgoing requests of both protocols, message segments and headers: JSON built
  field by field, without a decision that returns to the runtime.
* Reflection of actor messages (compile-time), plain data types, BotRegistry (only
  read once bots run), synchronous HTTP, compression, TOML parsing, ELF patching,
  layout of the TUI, logging.
* Allocation failures, except where a section above says so.
