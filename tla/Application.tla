---------------------------- MODULE Application ----------------------------
(***************************************************************************)
(* The process around the runtime: the start of the bots, the ways to stop *)
(* it (a signal, the command line, the end of the input, the terminal user *)
(* interface) and the order in which it shuts down (src/app/main.cpp,      *)
(* common/component_manager.cpp, common/cli_handler.cpp, tui/tui_app.cpp), *)
(* with the blocking work of its actors.                                   *)
(*                                                                         *)
(* Reloads, the other commands of the command line, are RuntimeReload.     *)
(***************************************************************************)
EXTENDS BlockingWork

CONSTANTS
    BotConfigs      \* bot |-> [type, connection], the enabled bots

VARIABLES
    ui,         \* "cli" or "tui"
    stop,       \* g_should_stop
    monitor,    \* the thread of SignalMonitor
    main,       \* where the main thread is
    refresh,    \* the refresh thread of the TUI: [pc, running]
    shutdown,   \* how far the shutdown callback is
    runtime,    \* the active generation: "up" or "down"
    bots        \* the bots: [state, transport]

appVars == <<ui, stop, monitor, main, refresh, shutdown, runtime, bots>>
vars == <<workVars, appVars>>

Bots == DOMAIN BotConfigs

AppInit ==
    /\ ui \in {"cli", "tui"}
    /\ stop = FALSE
    /\ monitor = "armed"
    /\ main = "starting"
    /\ refresh = [pc |-> "none", running |-> TRUE]
    /\ shutdown = "none"
    /\ runtime = "up"
    /\ bots = [b \in Bots |-> [state |-> "configured", transport |-> "none"]]

Init == WorkInit /\ AppInit

-----------------------------------------------------------------------------
(* Startup.                                                                *)

\* The transport a connection is configured for; what is not known is OneBot HTTP.
get_connection_type(connection, type) ==
    IF type = "telegram" /\ connection = "http" THEN "TelegramHTTP"
    ELSE IF type = "telegram" /\ connection \in {"websocket", "ws"} THEN "TelegramWebsocket"
    ELSE IF type = "qq" /\ connection \in {"websocket", "ws"} THEN "Onebot11WebSocket"
    ELSE "Onebot11HTTP"

\* The transports that ConnectionManagerFactory makes for the adapter of a bot.
Makes(type) ==
    CASE type = "qq" -> {"Onebot11WebSocket", "Onebot11HTTP"}
      [] type = "telegram" -> {"TelegramHTTP"}
      [] OTHER -> {}

\* The adapter create_bot makes for a bot's type, if it knows the type.
create_bot(type) == type \in {"qq", "telegram"}

\* connect of the bot makes the transport, or the factory throws.
setup_bot(b) == get_connection_type(BotConfigs[b].connection, BotConfigs[b].type) \in Makes(BotConfigs[b].type)

\* The bot is registered, its events go to the runtime and its thread starts. A bot
\* that cannot be made or set up is left out; connecting may throw by itself.
StartBot(b) ==
    /\ main = "starting"
    /\ bots[b].state = "configured"
    /\ \/ bots' = [bots EXCEPT ![b].state = "failed"]
       \/ /\ create_bot(BotConfigs[b].type)
          /\ setup_bot(b)
          /\ bots' = [bots EXCEPT ![b] =
                [state |-> "running",
                 transport |-> get_connection_type(BotConfigs[b].connection, BotConfigs[b].type)]]
    /\ UNCHANGED <<ui, stop, monitor, main, refresh, shutdown, runtime, workVars>>

\* With no bot at all the process ends; otherwise the user interface runs.
Started ==
    /\ main = "starting"
    /\ \A b \in Bots : bots[b].state # "configured"
    /\ \/ /\ \A b \in Bots : bots[b].state = "failed"
          /\ main' = "leaving"
          /\ runtime' = "down"
          /\ UNCHANGED refresh
       \/ /\ \E b \in Bots : bots[b].state # "failed"
          /\ main' = "ui"
          /\ refresh' = [refresh EXCEPT !.pc = IF ui = "tui" THEN "polling" ELSE "none"]
          /\ UNCHANGED runtime
    /\ UNCHANGED <<ui, stop, monitor, shutdown, bots, workVars>>

\* An actor that handles an event of a bot submits a callable.
Submit(j) ==
    /\ runtime # "down"
    /\ \E b \in Bots : bots[b].state \notin {"configured", "failed"}
    /\ \E kind \in Kinds : async_run(j, kind)
    /\ UNCHANGED appVars

\* The event loop of a bot returns, because of stop() or by itself.
BotEnds(b) ==
    /\ bots[b].state \in {"running", "stopping"}
    /\ main \notin {"killed", "over"}
    /\ bots' = [bots EXCEPT ![b].state = "finished"]
    /\ UNCHANGED <<ui, stop, monitor, main, refresh, shutdown, runtime, workVars>>

-----------------------------------------------------------------------------
(* Signals and the condition variable g_stop_cv.                           *)

SignalArrives ==
    /\ monitor = "armed"
    /\ main \notin {"unwinding", "killed", "over"}
    /\ stop' = TRUE
    /\ monitor' = IF stop THEN "returned" ELSE "notify"
    /\ UNCHANGED <<ui, main, refresh, shutdown, runtime, bots, workVars>>

\* notify_one, without the mutex: only a thread that is blocked notices.
MonitorNotifies ==
    /\ monitor = "notify"
    /\ monitor' = "returned"
    /\ main' = IF main = "blocked" THEN "wait" ELSE main
    /\ UNCHANGED <<ui, stop, refresh, shutdown, runtime, bots, workVars>>

-----------------------------------------------------------------------------
(* The command line.                                                       *)

ExitCommand ==
    /\ main = "ui"
    /\ ui = "cli"
    /\ stop' = TRUE
    /\ main' = "wait"
    /\ UNCHANGED <<ui, monitor, refresh, shutdown, runtime, bots, workVars>>

\* CliHandler::run leaves its loop: the input ended or failed, or a stop is seen.
InputEnds ==
    /\ main = "ui"
    /\ ui = "cli"
    /\ main' = "wait"
    /\ UNCHANGED <<ui, stop, monitor, refresh, shutdown, runtime, bots, workVars>>

CliSeesStop == stop /\ InputEnds

\* g_stop_cv.wait: the predicate is tested under the mutex, then the thread blocks.
TestStop ==
    /\ main = "wait"
    /\ \/ /\ stop
          /\ main' = "callback"
          /\ shutdown' = "closing"
       \/ /\ ~stop
          /\ main' = "tested"
          /\ UNCHANGED shutdown
    /\ UNCHANGED <<ui, stop, monitor, refresh, runtime, bots, workVars>>

Block ==
    /\ main = "tested"
    /\ main' = "blocked"
    /\ UNCHANGED <<ui, stop, monitor, refresh, shutdown, runtime, bots, workVars>>

-----------------------------------------------------------------------------
(* The terminal user interface.                                            *)

TuiExit ==
    /\ main = "ui"
    /\ ui = "tui"
    /\ ~stop
    /\ stop' = TRUE
    /\ UNCHANGED <<ui, monitor, main, refresh, shutdown, runtime, bots, workVars>>

\* The refresh thread sees the stop first and runs the callback on a detached thread.
RefreshStartsShutdown ==
    /\ refresh.pc = "polling"
    /\ stop
    /\ shutdown = "none"
    /\ shutdown' = "closing"
    /\ UNCHANGED <<ui, stop, monitor, main, refresh, runtime, bots, workVars>>

\* It ends when the callback is complete, and then ends the loop of the screen, or
\* when that loop ended by itself.
RefreshEnds ==
    /\ refresh.pc = "polling"
    /\ shutdown = "complete" \/ ~refresh.running
    /\ refresh' = [pc |-> "ended", running |-> FALSE]
    /\ UNCHANGED <<ui, stop, monitor, main, shutdown, runtime, bots, workVars>>

\* screen.Loop returns.
LoopEnds ==
    /\ main = "ui"
    /\ ui = "tui"
    /\ main' = "joining"
    /\ stop' = TRUE
    /\ refresh' = [refresh EXCEPT !.running = FALSE]
    /\ UNCHANGED <<ui, monitor, shutdown, runtime, bots, workVars>>

LoopExits == refresh.pc = "ended" /\ LoopEnds

\* Mutant: the callback of the detached thread is taken for complete.
TuiJoinsAtOnce ==
    /\ main = "joining"
    /\ refresh.pc = "ended"
    /\ main' = IF shutdown = "none" THEN "callback" ELSE "leaving"
    /\ shutdown' = IF shutdown = "none" THEN "closing" ELSE shutdown
    /\ UNCHANGED <<ui, stop, monitor, refresh, runtime, bots, workVars>>

\* The refresh thread is joined; the callback runs here if nobody started it.
TuiJoins ==
    /\ main = "joining"
    /\ refresh.pc = "ended"
    /\ main' = "callback"
    /\ shutdown' = IF shutdown = "none" THEN "closing" ELSE shutdown
    /\ UNCHANGED <<ui, stop, monitor, refresh, runtime, bots, workVars>>

-----------------------------------------------------------------------------
(* The shutdown callback.                                                  *)

Then(next) ==
    /\ shutdown' = next
    /\ UNCHANGED <<ui, stop, monitor, main, refresh>>

\* close_admission. (begin_shutdown of the controller comes next: RuntimeReload. Actors
\* that run in the meantime can submit, and are refused.)
CloseAdmission ==
    /\ shutdown = "closing"
    /\ accepting' = FALSE
    /\ Then("draining")
    /\ UNCHANGED <<runtime, bots, posted, job, writer, db>>

\* Mutant: the pool is not waited for.
JoinPoolAtOnce ==
    /\ shutdown = "draining"
    /\ Then("retiring")
    /\ UNCHANGED <<runtime, bots, workVars>>

\* BlockingExecutor::shutdown: every admitted callable ends first. (The code is prepared
\* for a join that throws and stops the pool then; thread_pool::join does not.)
JoinPool ==
    /\ shutdown = "draining"
    /\ InFlight = {}
    /\ Then("retiring")
    /\ UNCHANGED <<runtime, bots, workVars>>

\* reload_controller->shutdown(): the generation retires, its actors are unloaded.
RetireRuntime ==
    /\ shutdown = "retiring"
    /\ runtime' = "down"
    /\ Then("stopping")
    /\ UNCHANGED <<bots, workVars>>

StopBots ==
    /\ shutdown = "stopping"
    /\ bots' = [b \in Bots |-> IF bots[b].state = "running" THEN [bots[b] EXCEPT !.state = "stopping"] ELSE bots[b]]
    /\ Then("awaiting")
    /\ UNCHANGED <<runtime, workVars>>

BotThreads == {b \in Bots : bots[b].state \in {"running", "stopping"}}

BotsEnded ==
    /\ shutdown = "awaiting"
    /\ BotThreads = {}
    /\ Then("complete")
    /\ UNCHANGED <<runtime, bots, workVars>>

\* Mutant: a bot thread that does not end is waited for.
BotDeadlineWaits == FALSE

\* BOT_SHUTDOWN_TIMEOUT_SECONDS are over: quick_exit.
BotDeadline ==
    /\ shutdown = "awaiting"
    /\ BotThreads # {}
    /\ main \notin {"killed", "over"}
    /\ main' = "killed"
    /\ UNCHANGED <<ui, stop, monitor, refresh, shutdown, runtime, bots, workVars>>

Callback ==
    CloseAdmission \/ JoinPool \/ RetireRuntime \/ StopBots \/ BotsEnded \/ BotDeadline

-----------------------------------------------------------------------------
(* The end of main: its locals are destroyed, at last the databases, whose *)
(* writers are joined, and the signal monitor.                             *)

CallbackComplete ==
    /\ main = "callback"
    /\ shutdown = "complete"
    /\ main' = "leaving"
    /\ UNCHANGED <<ui, stop, monitor, refresh, shutdown, runtime, bots, workVars>>

StopWriter ==
    /\ main = "leaving"
    /\ main' = "unwinding"
    /\ writer' = [writer EXCEPT !.stop = TRUE]
    /\ UNCHANGED <<ui, stop, monitor, refresh, shutdown, runtime, bots, accepting, posted, job, db>>

Over ==
    /\ main = "unwinding"
    /\ writer.pc = "ended"
    /\ monitor # "notify"
    /\ main' = "over"
    /\ UNCHANGED <<ui, stop, monitor, refresh, shutdown, runtime, bots, workVars>>

Work ==
    /\ main # "killed"
    /\ Take \/ Writer \/ \E j \in Jobs : Run(j)
    /\ UNCHANGED appVars

Main ==
    \/ \E b \in Bots : StartBot(b)
    \/ Started \/ CliSeesStop \/ TestStop \/ Block \/ LoopExits \/ TuiJoins
    \/ CallbackComplete \/ StopWriter \/ Over

Next ==
    \/ Main \/ Callback
    \/ RefreshStartsShutdown \/ RefreshEnds
    \/ SignalArrives \/ MonitorNotifies
    \/ ExitCommand \/ InputEnds \/ TuiExit \/ LoopEnds
    \/ \E b \in Bots : BotEnds(b)
    \/ \E j \in Jobs : Submit(j)
    \/ Work

\* Threads run; users, signals, peers and actors need not do anything.
Fairness ==
    /\ WF_vars(Main)
    /\ WF_vars(Callback)
    /\ WF_vars(RefreshStartsShutdown \/ RefreshEnds)
    /\ WF_vars(MonitorNotifies)
    /\ WF_vars(Take /\ UNCHANGED appVars)
    /\ WF_vars(Writer /\ UNCHANGED appVars)
    /\ \A j \in Jobs : WF_vars(Run(j) /\ UNCHANGED appVars)

Spec == Init /\ [][Next]_vars /\ Fairness

-----------------------------------------------------------------------------
TypeOK ==
    /\ main \in {"starting", "ui", "wait", "tested", "blocked", "joining", "callback",
                 "leaving", "unwinding", "over", "killed"}
    /\ shutdown \in {"none", "closing", "draining", "retiring", "stopping", "awaiting", "complete"}
    /\ bots \in [Bots -> [state : {"configured", "failed", "running", "stopping", "finished"},
                          transport : {"none", "Onebot11WebSocket", "Onebot11HTTP", "TelegramHTTP"}]]

\* The code of a callable is in the library of its actor: no callable is pending or
\* running when the generation that holds the libraries is retired.
CallableHasItsCode == runtime = "down" => InFlight = {}

\* What main leaves behind it is not used any more: the shutdown callback, which may
\* run on a detached thread of the TUI and works on locals of main, is complete, and
\* no bot thread runs. quick_exit is the way out when that cannot be had.
NothingOutlivesMain ==
    main \in {"leaving", "unwinding", "over"} =>
        /\ shutdown \in {"none", "complete"}
        /\ BotThreads = {}

Ended == main \in {"over", "killed"}

\* A request to stop ends the process, also when a bot thread hangs: one that comes
\* while main does not block on the condition variable, or is there already.
StopEnds ==
    /\ (stop /\ main \notin {"tested", "blocked"}) ~> Ended
    /\ (main = "blocked" /\ monitor = "notify") ~> Ended

\* main.cpp: "Block on signal in case stdin closed before SIGINT."
SignalEnds == stop ~> Ended
=============================================================================
