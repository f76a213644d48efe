--------------------------- MODULE OneBotActions ---------------------------
(* Actions over the OneBot11 WebSocket: WebSocketConnectionManager with    *)
(* its ActionRequestTracker and the WebsocketClient objects it replaces on *)
(* every reconnection.                                                     *)
(*                                                                         *)
(* Three kinds of threads meet in the tracker:                             *)
(*   Actions   coroutines of send_action_and_wait_async, on the actors'    *)
(*             executors; an action stands for its echo id;                *)
(*   Io        the bot's thread, which runs the io_context: the client,    *)
(*             the strand, deadlines and the reconnect timer, one handler  *)
(*             at a time;                                                  *)
(*   Main      the thread that calls disconnect().                         *)
(* A step is one critical section of the tracker or the part of a handler  *)
(* between two of them.  The write queue is the one of WebsocketWriteQueue *)
(* and appears as writes that end, fail with the connection or hang.  The  *)
(* status flag is_connected_ steers nothing here and is left out.          *)
EXTENDS Naturals, FiniteSets

CONSTANTS Actions, Io, Main,
          MaxClients     \* bound of the model: WebsocketClient objects made

ASSUME ActionsAssumption ==
    /\ Io # Main /\ {Io, Main} \cap Actions = {}
    /\ MaxClients \in Nat \ {0}

Threads == Actions \cup {Io, Main}
Clients == 1..MaxClients

VARIABLES
    table,     \* pending_ of the tracker
    act,       \* PendingAction and the coroutine that waits for it
    hand,      \* what a thread took out of the table and has not finished yet
    client,    \* run() of each WebsocketClient
    current,   \* ws_client_: its number, 0 for null
    io,        \* the handler the bot's thread is in
    posted,    \* handlers waiting on the io_context: connect, close
    timer,     \* reconnect_timer_
    main       \* disconnect()

actionsVars == <<table, act, hand, client, current, io, posted, timer, main>>

Statuses == {"Response", "Timeout", "TransportFailure", "Cancelled"}

-----------------------------------------------------------------------------
ActionType ==
    [pc : {"idle", "arm", "spawned", "sending", "threw", "wait", "done"},
     deadline : {"none", "armed", "due", "off"},
     outcome : Statuses \cup {"none"},
     completions : 0..1,          \* calls of PendingAction::finish
     sentOn : Clients \cup {0}]   \* whose peer has the request, until it has its outcome

\* run() of a client and its stream: is_open() holds in "open" only.  close() has
\* begun in "closing", a write has failed in "failed", and in both the read loop
\* still waits for its read; it left with an error in "ended", without in "left".
ClientStates == {"none", "connecting", "open", "closing", "failed", "ended", "left"}

ActionsTypeOK ==
    /\ table \subseteq Actions
    /\ act \in [Actions -> ActionType]
    /\ hand \in [Threads -> [acts : SUBSET Actions, status : Statuses]]
    /\ client \in [Clients -> ClientStates]
    /\ current \in Clients \cup {0}
    /\ io \in [pc : {"idle", "snapshot", "failEach", "stopWriter"}, todo : SUBSET Actions]
    /\ posted \in [connect : BOOLEAN, close : Clients \cup {0}]
    /\ timer \in {"off", "armed", "due"}
    /\ main \in {"running", "close", "cancelTimer", "done"}

Empty == [acts |-> {}, status |-> "Cancelled"]

\* connect() has posted the first connection attempt.
ActionsInit ==
    /\ table = {}
    /\ act = [e \in Actions |-> [pc |-> "idle", deadline |-> "none", outcome |-> "none",
                                 completions |-> 0, sentOn |-> 0]]
    /\ hand = [t \in Threads |-> Empty]
    /\ client = [n \in Clients |-> "none"]
    /\ current = 0
    /\ io = [pc |-> "idle", todo |-> {}]
    /\ posted = [connect |-> TRUE, close |-> 0]
    /\ timer = "off"
    /\ main = "running"

Live(n) == client[n] \in {"connecting", "open", "closing", "failed"}
Goto(e, pc) == act' = [act EXCEPT ![e].pc = pc]

\* The bot's thread is between two handlers.
IoFree == io.pc = "idle" /\ hand[Io].acts = {}

-----------------------------------------------------------------------------
(* ActionRequestTracker::finish, in its two halves.                        *)

\* Mutant: the entry is found but not erased.
TakeNoErase(t, e, status) ==
    /\ hand' = [hand EXCEPT ![t] = IF e \in table THEN [acts |-> {e}, status |-> status] ELSE @]
    /\ UNCHANGED table

\* Under the lock: whoever removes the entry owns the outcome.
Take(t, e, status) ==
    /\ hand' = [hand EXCEPT ![t] = IF e \in table THEN [acts |-> {e}, status |-> status] ELSE @]
    /\ table' = table \ {e}

\* After it: disarm the deadline, if start() has stored one by now and its
\* handler is not queued already, and complete the request.
FinishAction(t) ==
    \E e \in hand[t].acts :
        /\ act' = [act EXCEPT
              ![e].deadline = IF @ = "armed" THEN "off" ELSE @,
              ![e].outcome = IF @ = "none" THEN hand[t].status ELSE @,
              ![e].completions = @ + 1,
              ![e].sentOn = 0]
        /\ hand' = [hand EXCEPT ![t] = IF hand[t].acts = {e} THEN Empty
                                        ELSE [hand[t] EXCEPT !.acts = hand[t].acts \ {e}]]
        /\ UNCHANGED <<table, client, current, io, posted, timer, main>>

-----------------------------------------------------------------------------
(* send_action_and_wait_async                                              *)

\* Without a client the call throws; else start() enters it into the table ...
Call(e) ==
    /\ act[e].pc = "idle"
    /\ \/ /\ current = 0
          /\ Goto(e, "done")
          /\ UNCHANGED table
       \/ /\ current # 0
          /\ Goto(e, "arm")
          /\ table' = table \cup {e}
    /\ UNCHANGED <<hand, client, current, io, posted, timer, main>>

\* ... before its deadline is armed, outside the lock.
Arm(e) ==
    /\ act[e].pc = "arm"
    /\ act' = [act EXCEPT ![e].pc = "spawned", ![e].deadline = "armed"]
    /\ UNCHANGED <<table, hand, client, current, io, posted, timer, main>>

\* The send, spawned on the strand: an open client queues the message, one that
\* is not open returns at once, and one whose run() was ended by an exception
\* may look open but has no queue left, so that the send throws.
SendOnStrand(e) ==
    /\ act[e].pc = "spawned"
    /\ IoFree
    /\ \/ client[current] = "open" /\ Goto(e, "sending")
       \/ client[current] # "open" /\ Goto(e, "wait")
       \/ client[current] = "ended" /\ Goto(e, "threw")
    /\ UNCHANGED <<table, hand, client, current, io, posted, timer, main>>

\* stop() of the write queue: every queued send throws.
SendsThrow ==
    act' = [e \in Actions |-> IF act[e].pc = "sending"
                              THEN [act[e] EXCEPT !.pc = "threw"] ELSE act[e]]

\* The queued message is written, or the write fails: then the stream has failed
\* and the queue stops, while the read that is under way has yet to end.
SendEnds(e) ==
    /\ act[e].pc = "sending"
    /\ IoFree
    /\ \/ /\ act' = [act EXCEPT ![e].pc = "wait", ![e].sentOn = IF act[e].outcome = "none" THEN current ELSE 0]
          /\ UNCHANGED client
       \/ /\ SendsThrow
          /\ client' = [client EXCEPT ![current] = IF @ \in {"open", "closing"} THEN "failed" ELSE @]
    /\ UNCHANGED <<table, hand, current, io, posted, timer, main>>

\* The send threw: fail(echo), then wait for whatever outcome won.
FailOwn(e) ==
    /\ act[e].pc = "threw"
    /\ Take(e, e, "TransportFailure")
    /\ Goto(e, "wait")
    /\ UNCHANGED <<client, current, io, posted, timer, main>>

\* request->wait() returns the outcome.
WaitReturns(e) ==
    /\ act[e].pc = "wait" /\ hand[e].acts = {}
    /\ act[e].outcome # "none"
    /\ Goto(e, "done")
    /\ UNCHANGED <<table, hand, client, current, io, posted, timer, main>>

-----------------------------------------------------------------------------
(* Handlers of the bot's thread                                            *)

\* The deadline passes; from then on cancel() cannot stop its handler.
DeadlineExpires(e) ==
    /\ act[e].deadline = "armed"
    /\ act' = [act EXCEPT ![e].deadline = "due"]
    /\ UNCHANGED <<table, hand, client, current, io, posted, timer, main>>

\* Mutant: the handler does not find the tracker.
DeadlineHandlerLost(e) ==
    /\ act[e].deadline = "due"
    /\ IoFree
    /\ act' = [act EXCEPT ![e].deadline = "off"]
    /\ UNCHANGED <<table, hand, client, current, io, posted, timer, main>>

DeadlineHandler(e) ==
    /\ act[e].deadline = "due"
    /\ IoFree
    /\ Take(Io, e, "Timeout")
    /\ act' = [act EXCEPT ![e].deadline = "off"]
    /\ UNCHANGED <<client, current, io, posted, timer, main>>

\* The peer of client n may answer, also before the writer has seen the end of
\* the write; a late or repeated response finds no entry.
MayAnswer(e, n) ==
    /\ e \in table
    /\ n = IF act[e].pc = "sending" THEN current ELSE act[e].sentOn

\* on_ws_message with a response: respond(echo), and the read loop goes on.
Response(e) ==
    /\ IoFree
    /\ \E n \in Clients : client[n] = "open" /\ MayAnswer(e, n)
    /\ Take(Io, e, "Response")
    /\ UNCHANGED <<act, client, current, io, posted, timer, main>>

\* do_connect on the strand: a new client replaces the old one.
DoConnect ==
    /\ posted.connect
    /\ IoFree
    /\ current < MaxClients
    /\ current' = current + 1
    /\ client' = [client EXCEPT ![current + 1] = "connecting"]
    /\ posted' = [posted EXCEPT !.connect = FALSE]
    /\ UNCHANGED <<table, act, hand, io, timer, main>>

\* The handshake is done: on_ws_message with the empty message.
Connected(n) ==
    /\ client[n] = "connecting"
    /\ IoFree
    /\ client' = [client EXCEPT ![n] = "open"]
    /\ timer' = IF timer = "armed" THEN "off" ELSE timer
    /\ UNCHANGED <<table, act, hand, current, io, posted, main>>

\* Connecting, reading or closing ends with an error: on_ws_message(ec).
ConnectionEnds(n) ==
    /\ Live(n)
    /\ IoFree
    /\ client' = [client EXCEPT ![n] = "ended"]
    /\ io' = [io EXCEPT !.pc = "snapshot"]
    /\ UNCHANGED <<table, act, hand, current, posted, timer, main>>

\* The read under way completes with a message, an event or a response, although
\* close() has begun or a write has failed: the read loop then finds the stream no
\* longer open and leaves, without an error for on_ws_message.
LeavesSilently(n) ==
    /\ client[n] \in {"closing", "failed"}
    /\ IoFree
    /\ \/ UNCHANGED <<table, hand>>
       \/ \E e \in Actions : MayAnswer(e, n) /\ Take(Io, e, "Response")
    /\ client' = [client EXCEPT ![n] = "left"]
    /\ io' = [io EXCEPT !.pc = "stopWriter"]
    /\ UNCHANGED <<act, current, posted, timer, main>>

\* fail_all: the echoes are copied under the lock ...
FailAllSnapshot ==
    /\ io.pc = "snapshot"
    /\ io' = [pc |-> "failEach", todo |-> table]
    /\ UNCHANGED <<table, act, hand, client, current, posted, timer, main>>

\* ... and failed one after the other.
FailEach ==
    /\ io.pc = "failEach" /\ hand[Io].acts = {}
    /\ \E e \in io.todo :
         /\ io' = [io EXCEPT !.todo = @ \ {e}]
         /\ Take(Io, e, "TransportFailure")
    /\ UNCHANGED <<act, client, current, posted, timer, main>>

\* Mutant: the next attempt is made at once, and by the timer again.
ScheduleReconnectAndConnect ==
    /\ io.pc = "failEach" /\ hand[Io].acts = {} /\ io.todo = {}
    /\ timer' = "armed"
    /\ posted' = [posted EXCEPT !.connect = TRUE]
    /\ io' = [io EXCEPT !.pc = "stopWriter"]
    /\ UNCHANGED <<table, act, hand, client, current, main>>

\* schedule_reconnect: always, disconnect() or not.
ScheduleReconnect ==
    /\ io.pc = "failEach" /\ hand[Io].acts = {} /\ io.todo = {}
    /\ timer' = "armed"
    /\ io' = [io EXCEPT !.pc = "stopWriter"]
    /\ UNCHANGED <<table, act, hand, client, current, posted, main>>

\* run() ends with stop_writer().
StopWriter ==
    /\ io.pc = "stopWriter" /\ hand[Io].acts = {}
    /\ SendsThrow
    /\ io' = [io EXCEPT !.pc = "idle"]
    /\ UNCHANGED <<table, hand, client, current, posted, timer, main>>

TimerExpires ==
    /\ timer = "armed"
    /\ timer' = "due"
    /\ UNCHANGED <<table, act, hand, client, current, io, posted, main>>

\* The reconnect handler posts do_connect.
TimerHandler ==
    /\ timer = "due"
    /\ IoFree
    /\ timer' = "off"
    /\ posted' = [posted EXCEPT !.connect = TRUE]
    /\ UNCHANGED <<table, act, hand, client, current, io, main>>

\* The close() that disconnect() spawned: nothing to do unless it is open.
CloseHandler ==
    /\ posted.close # 0
    /\ IoFree
    /\ client' = [client EXCEPT ![posted.close] = IF @ = "open" THEN "closing" ELSE @]
    /\ posted' = [posted EXCEPT !.close = 0]
    /\ UNCHANGED <<table, act, hand, current, io, timer, main>>

-----------------------------------------------------------------------------
(* disconnect                                                              *)

\* cancel_all takes the whole table ...
CancelAll ==
    /\ main = "running"
    /\ hand' = [hand EXCEPT ![Main] = [acts |-> table, status |-> "Cancelled"]]
    /\ table' = {}
    /\ main' = "close"
    /\ UNCHANGED <<act, client, current, io, posted, timer>>

\* ... and finishes what it took; then close() of the client of the moment is
\* spawned.
SpawnClose ==
    /\ main = "close" /\ hand[Main].acts = {}
    /\ posted' = [posted EXCEPT !.close = current]
    /\ main' = "cancelTimer"
    /\ UNCHANGED <<table, act, hand, client, current, io, timer>>

\* reconnect_timer_.cancel(): a handler that is queued already still runs.
CancelTimer ==
    /\ main = "cancelTimer"
    /\ timer' = IF timer = "armed" THEN "off" ELSE timer
    /\ main' = "done"
    /\ UNCHANGED <<table, act, hand, client, current, io, posted>>

-----------------------------------------------------------------------------
CallerSteps(e) == Arm(e) \/ FailOwn(e) \/ FinishAction(e) \/ WaitReturns(e)
IoInternal == FailAllSnapshot \/ FailEach \/ ScheduleReconnect \/ StopWriter \/ FinishAction(Io)
MainSteps == FinishAction(Main) \/ SpawnClose \/ CancelTimer

ActionsNext ==
    \/ \E e \in Actions : \/ Call(e) \/ CallerSteps(e)
                          \/ SendOnStrand(e) \/ SendEnds(e)
                          \/ DeadlineExpires(e) \/ DeadlineHandler(e) \/ Response(e)
    \/ \E n \in Clients : Connected(n) \/ ConnectionEnds(n) \/ LeavesSilently(n)
    \/ DoConnect \/ TimerExpires \/ TimerHandler \/ CloseHandler
    \/ IoInternal
    \/ CancelAll \/ MainSteps

ActionsSpec == ActionsInit /\ [][ActionsNext]_actionsVars

\* Threads run, timers expire and queued handlers get their turn (the
\* io_context serves them in order).  The peer owes nothing: no connection need
\* succeed or break, no response need come and no write need end.
FairActionsSpec ==
    /\ ActionsSpec
    /\ \A e \in Actions : /\ WF_actionsVars(CallerSteps(e)) /\ WF_actionsVars(SendOnStrand(e))
                          /\ WF_actionsVars(DeadlineExpires(e)) /\ WF_actionsVars(DeadlineHandler(e))
    /\ WF_actionsVars(IoInternal) /\ WF_actionsVars(MainSteps)
    /\ WF_actionsVars(DoConnect) /\ WF_actionsVars(TimerHandler) /\ WF_actionsVars(CloseHandler)

\* As FairActionsSpec, with a peer that reads: every write ends.
FairTransportSpec == FairActionsSpec /\ \A e \in Actions : WF_actionsVars(SendEnds(e))

-----------------------------------------------------------------------------
(* Properties.                                                             *)

\* Response, deadline, broken connection, disconnect and a failed send race
\* for an action: the one that takes it out of the table completes it, and no
\* later one touches it again.
OneOutcome ==
    [][\A e \in Actions : act[e].outcome # "none" =>
          act'[e].outcome = act[e].outcome /\ act'[e].completions = act[e].completions]_actionsVars

\* Where the next connection comes from.
Sources == (IF io.pc \in {"snapshot", "failEach"} THEN 1 ELSE 0)
           + (IF timer # "off" THEN 1 ELSE 0)
           + (IF posted.connect THEN 1 ELSE 0)
           + Cardinality({n \in Clients : Live(n)})

\* Reconnection is one chain: there is never a second live client or a second
\* attempt on the way, and until disconnect() the chain breaks in one way only: a
\* read loop that had a message at hand left a stream on which a write had failed.
ReconnectChain ==
    /\ Sources <= 1
    /\ main = "running" => Sources = 1 \/ \E n \in Clients : client[n] = "left"

\* With a peer that reads, every action ends: by its response or its deadline,
\* whatever the connection and disconnect() do.
EveryActionEnds == \A e \in Actions : act[e].pc = "arm" ~> act[e].pc = "done"

\* openspec/changes/reorganize-core-and-actor-tests/specs/
\* websocket-runtime-reliability/spec.md:34: when the deadline fires first "the
\* caller receives the stable timeout failure once".
TimeoutReachesCaller ==
    \A e \in Actions : act[e].outcome = "Timeout" ~> act[e].pc = "done"

\* include/onebot11/network/websocket/connection_manager.hpp:24: the manager has
\* the logic of automatic reconnection; so nothing but disconnect() ends it.
ReconnectsByItself == main = "running" => Sources = 1
=============================================================================
