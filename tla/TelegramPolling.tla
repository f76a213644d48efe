-------------------------- MODULE TelegramPolling --------------------------
(***************************************************************************)
(* A Telegram bot and its server: TelegramConnectionManager                *)
(* (src/telegram/network/http/connection_manager.cpp) below TGBot          *)
(* (src/core/tg_bot.cpp). One coroutine polls for updates, others send     *)
(* actions and files; they share the thread of the bot and every one of    *)
(* their requests goes through HttpTransport. The server drops an update   *)
(* once a getUpdates asks for a later one. The process may stop in order   *)
(* or crash, and start again with nothing but what the server still holds. *)
(***************************************************************************)
EXTENDS HttpTransport, FiniteSets, FiniteSetsExt, Functions

CONSTANTS
    Configs,        \* connection configurations
    Callers,        \* coroutines that call a method of the bot
    Methods,        \* the methods they may call
    Updates,        \* updates the server receives: 1..Updates
    Limit,          \* updates in one answer (100 in the code)
    Starts          \* how often the process may start

VARIABLES
    config,         \* the configuration of this bot
    server,         \* the updates the server holds
    arrived,        \* number of updates the server has received
    process,        \* "down", "up" (the io_context runs) or "stopped"
    started,        \* number of starts
    is_polling,
    update_offset,
    poller,         \* the polling coroutine: [pc, request, batch]
    calls,          \* [caller |-> [method, request, result]]
    handed,         \* updates handed to the dispatcher since the start
    everHanded,     \* history: updates handed over by any process
    skipped         \* history: updates that a process gave up: they did not parse, stood
                    \* behind an exception in their batch, or a caller asked past them

client == <<is_polling, update_offset>>
history == <<everHanded, skipped>>
vars == <<config, server, arrived, process, started, client, poller, calls, handed, history>>

\* The methods of TGBot by what they do. send_private_message stands for those that
\* serialise an action and await send_action_and_wait_async, get_status for those that
\* answer at once.
LocalMethods == {"get_status"}
RequestMethods ==
    {"send_private_message", "delete_message", "get_updates", "send_media_group_uploads",
     "get_media_download_url", "download_file_content", "head"}

ASSUME PollingAssumption ==
    /\ Configs \subseteq [proxy : {"none", "http", "https", "socks5"}, auth : BOOLEAN,
                          port443 : BOOLEAN, use_ssl : BOOLEAN]
    /\ Methods \subseteq RequestMethods \cup LocalMethods
    /\ Updates \in Nat
    /\ Limit \in Nat \ {0}
    /\ Starts \in Nat \ {0}
    /\ MaxDomain \in Nat

\* The request behind a method; head is offered by the clients and called by no bot.
MethodVerb(method) ==
    CASE method = "download_file_content" -> "get"
      [] method = "head"                  -> "head"
      [] OTHER                            -> "post"
Swallows(method) == method = "get_media_download_url"
\* Refused before anything is sent: a message id without its chat, a group of fewer
\* than 2 or more than 10 files or with an empty one, a URL without scheme or path.
MayRefuse(method) == method \in {"delete_message", "send_media_group_uploads", "download_file_content"}

NoRequest == [todo |-> <<>>, unread |-> 0, tls |-> <<>>, status |-> "none"]
Idle == [method |-> "none", request |-> NoRequest, result |-> "none"]
NoPoller == [pc |-> "gone", request |-> NoRequest, batch |-> <<>>]

Init ==
    /\ config \in Configs
    /\ server = {}
    /\ arrived = 0
    /\ process = "down"
    /\ started = 0
    /\ is_polling = FALSE
    /\ update_offset = 0
    /\ poller = NoPoller
    /\ calls = [c \in Callers |-> Idle]
    /\ handed = <<>>
    /\ everHanded = {}
    /\ skipped = {}

(***************************************************************************)
(* The server.                                                             *)
(***************************************************************************)
UpdateArrives ==
    /\ arrived < Updates
    /\ arrived' = arrived + 1
    /\ server' = server \cup {arrived + 1}
    /\ UNCHANGED <<config, process, started, client, poller, calls, handed, history>>

\* A getUpdates with this offset has reached the server.
Confirm(offset) == {u \in server : u >= offset}

Increasing(b) == \A i, j \in DOMAIN b : i < j => b[i] < b[j]

\* What the server answers: its oldest updates from the offset on, in order.
Batches(offset) ==
    LET held == {u \in server : u >= offset}
    IN {b \in BoundedSeq(held, Limit) :
          /\ Increasing(b)
          /\ \A u \in held, i \in DOMAIN b : u < b[i] => u \in Range(b)
          /\ Len(b) = Limit \/ held \subseteq Range(b)}

(***************************************************************************)
(* connect, run, stop.                                                     *)
(***************************************************************************)
\* TGBot::connect makes a new manager; start_polling spawns the coroutine.
Start ==
    /\ process \in {"down", "stopped"}
    /\ started < Starts
    /\ started' = started + 1
    /\ process' = "up"
    /\ is_polling' = TRUE
    /\ update_offset' = 0
    /\ poller' = [NoPoller EXCEPT !.pc = "check"]
    /\ calls' = [c \in Callers |-> Idle]
    /\ handed' = <<>>
    /\ UNCHANGED <<config, server, arrived, history>>

\* TGBot::stop, first part: disconnect. A pending retry delay is cancelled.
StopPolling ==
    /\ process = "up"
    /\ is_polling
    /\ is_polling' = FALSE
    /\ poller' = IF poller.pc = "delay" THEN NoPoller ELSE poller
    /\ UNCHANGED <<config, server, arrived, process, started, update_offset, calls, handed, history>>

\* io_context_->stop() after it, or a crash at any time: no coroutine goes on.
ProcessEnds ==
    /\ process = "up"
    /\ process' = "stopped"
    /\ poller' = NoPoller
    /\ calls' = [c \in Callers |-> Idle]
    /\ UNCHANGED <<config, server, arrived, started, client, handed, history>>

(***************************************************************************)
(* poll_updates.                                                           *)
(***************************************************************************)
\* The head of the loop: getUpdates with the current offset.
PollBegins ==
    /\ process = "up"
    /\ poller.pc = "check"
    /\ poller' = IF is_polling
                 THEN [poller EXCEPT !.pc = "request", !.request = NewRequest(config, "post")]
                 ELSE NoPoller
    /\ UNCHANGED <<config, server, arrived, process, started, client, calls, handed, history>>

\* An operation of the request completes. The server reads the request when it is
\* written and answers later, out of what it holds by then.
PollIo ==
    /\ process = "up"
    /\ poller.pc = "request"
    /\ poller.request.status = "running"
    /\ Completes(config, poller.request)
    /\ LET op == Head(poller.request.todo).op
       IN \E answer \in Answers(op),
             batch \in IF op = "read" THEN Batches(update_offset) ELSE {<<>>} :
             /\ poller' = [poller EXCEPT !.request = After(config, @, answer), !.batch = batch]
             /\ server' = IF op = "write" THEN Confirm(update_offset) ELSE server
    /\ UNCHANGED <<config, arrived, process, started, client, calls, handed, history>>

\* The connection breaks, or the deadline of the operation passes; the server may
\* have read the request all the same.
PollIoFails ==
    /\ process = "up"
    /\ poller.pc = "request"
    /\ poller.request.status = "running"
    /\ poller' = [poller EXCEPT !.request = Failed(@)]
    /\ server' \in {server} \cup IF Head(poller.request.todo).op = "write"
                                 THEN {Confirm(update_offset)} ELSE {}
    /\ UNCHANGED <<config, arrived, process, started, client, calls, handed, history>>

PollExpires == WillEnd(poller.request) /\ PollIoFails

\* update_offset_ after a batch: an update stands for its update_id, so it contains one.
PastBatch(batch) == IF batch = <<>> THEN update_offset ELSE Last(batch) + 1

\* Mutant: the offset moves on although an answer with an error status was dropped.
PollAnsweredAlwaysAdvances ==
    /\ process = "up"
    /\ poller.pc = "request"
    /\ poller.request.status = "response"
    /\ update_offset' = PastBatch(poller.batch)
    /\ \E batch \in {poller.batch, <<>>} :
          poller' = [NoPoller EXCEPT !.pc = "handing", !.batch = batch]
    /\ UNCHANGED <<config, server, arrived, process, started, is_polling, calls, handed, history>>

\* The response is there. process_updates first moves the offset past the whole batch.
\* An answer with an error status, or one that does not parse, is dropped and the loop
\* goes on at once.
PollAnswered ==
    /\ process = "up"
    /\ poller.pc = "request"
    /\ poller.request.status = "response"
    /\ \/ /\ update_offset' = PastBatch(poller.batch)
          /\ poller' = [NoPoller EXCEPT !.pc = "handing", !.batch = poller.batch]
       \/ /\ poller' = [NoPoller EXCEPT !.pc = "check"]
          /\ UNCHANGED update_offset
    /\ UNCHANGED <<config, server, arrived, process, started, is_polling, calls, handed, history>>

\* The loop of process_updates: the next update is an event and dispatched, or passed
\* over because it is none.
HandOver ==
    /\ process = "up"
    /\ poller.pc = "handing"
    /\ poller.batch # <<>>
    /\ poller' = [poller EXCEPT !.batch = Tail(@)]
    /\ LET u == Head(poller.batch)
       IN \/ /\ handed' = Append(handed, u)
             /\ everHanded' = everHanded \cup {u}
             /\ UNCHANGED skipped
          \/ /\ skipped' = skipped \cup {u}
             /\ UNCHANGED <<handed, everHanded>>
    /\ UNCHANGED <<config, server, arrived, process, started, client, calls>>

\* An exception out of the loop: process_updates catches it, and the rest of the batch
\* is behind the offset.
HandOverFails ==
    /\ process = "up"
    /\ poller.pc = "handing"
    /\ poller.batch # <<>>
    /\ poller' = [NoPoller EXCEPT !.pc = "check"]
    /\ skipped' = skipped \cup Range(poller.batch)
    /\ UNCHANGED <<config, server, arrived, process, started, client, calls, handed, everHanded>>

HandOverEnds ==
    /\ process = "up"
    /\ poller.pc = "handing"
    /\ poller.batch = <<>>
    /\ poller' = [NoPoller EXCEPT !.pc = "check"]
    /\ UNCHANGED <<config, server, arrived, process, started, client, calls, handed, history>>

\* Mutant: an exception leaves the loop.
PollFailedExits ==
    /\ process = "up"
    /\ poller.pc = "request"
    /\ poller.request.status = "error"
    /\ poller' = NoPoller
    /\ UNCHANGED <<config, server, arrived, process, started, client, calls, handed, history>>

\* An exception: wait before the next request.
PollFailed ==
    /\ process = "up"
    /\ poller.pc = "request"
    /\ poller.request.status = "error"
    /\ poller' = [NoPoller EXCEPT !.pc = "delay"]
    /\ UNCHANGED <<config, server, arrived, process, started, client, calls, handed, history>>

PollDelayEnds ==
    /\ process = "up"
    /\ poller.pc = "delay"
    /\ poller' = [poller EXCEPT !.pc = "check"]
    /\ UNCHANGED <<config, server, arrived, process, started, client, calls, handed, history>>

(***************************************************************************)
(* Actions and files.                                                      *)
(***************************************************************************)
\* process_updates does not give the thread of the bot up before it returns.
ThreadFree == process = "up" /\ poller.pc # "handing"

Call(c, method) ==
    /\ ThreadFree
    /\ calls[c] = Idle
    /\ \/ /\ method \in LocalMethods
          /\ calls' = [calls EXCEPT ![c] = [Idle EXCEPT !.method = method, !.result = "body"]]
       \/ /\ MayRefuse(method)
          /\ calls' = [calls EXCEPT ![c] = [Idle EXCEPT !.method = method, !.result = "exception"]]
       \/ /\ method \notin LocalMethods
          /\ calls' = [calls EXCEPT ![c] = [method |-> method, result |-> "none",
                                            request |-> NewRequest(config, MethodVerb(method))]]
    /\ UNCHANGED <<config, server, arrived, process, started, client, poller, handed, history>>

\* A get_updates of a caller reaches the server, with an offset of its own.
CallReaches(c) ==
    /\ calls[c].method = "get_updates"
    /\ Head(calls[c].request.todo).op = "write"
    /\ \E offset \in 0..(arrived + 1) :
          server' = Confirm(offset) /\ skipped' = skipped \cup (server \ Confirm(offset))

\* An operation of the request completes. What was written has reached the server.
CallIo(c) ==
    /\ ThreadFree
    /\ calls[c].request.status = "running"
    /\ Completes(config, calls[c].request)
    /\ \E answer \in Answers(Head(calls[c].request.todo).op) :
          calls' = [calls EXCEPT ![c].request = After(config, @, answer)]
    /\ \/ CallReaches(c)
       \/ calls[c].method # "get_updates" /\ UNCHANGED <<server, skipped>>
       \/ Head(calls[c].request.todo).op # "write" /\ UNCHANGED <<server, skipped>>
    /\ UNCHANGED <<config, arrived, process, started, client, poller, handed, everHanded>>

CallIoFails(c) ==
    /\ ThreadFree
    /\ calls[c].request.status = "running"
    /\ \E q \in Broken(calls[c].request) : calls' = [calls EXCEPT ![c].request = q]
    /\ CallReaches(c) \/ UNCHANGED <<server, skipped>>
    /\ UNCHANGED <<config, arrived, process, started, client, poller, handed, everHanded>>

CallExpires(c) == WillEnd(calls[c].request) /\ CallIoFails(c)

\* The method returns the body, or throws for an error status or a failed request;
\* get_media_download_url turns either into an empty optional.
CallReturns(c) ==
    /\ ThreadFree
    /\ calls[c].result = "none"
    /\ calls[c].request.status \in {"response", "error"}
    /\ \E success \in IF calls[c].request.status = "response" THEN BOOLEAN ELSE {FALSE} :
          calls' = [calls EXCEPT ![c].result = IF success THEN "body"
                                               ELSE IF Swallows(calls[c].method) THEN "nullopt"
                                               ELSE "exception"]
    /\ UNCHANGED <<config, server, arrived, process, started, client, poller, handed, history>>

Polling ==
    \/ PollBegins \/ PollIo \/ PollIoFails \/ PollAnswered \/ PollFailed \/ PollDelayEnds
    \/ HandOver \/ HandOverFails \/ HandOverEnds

Next ==
    \/ UpdateArrives
    \/ Start \/ StopPolling \/ ProcessEnds
    \/ Polling
    \/ \E c \in Callers :
          \/ \E method \in Methods : Call(c, method)
          \/ CallIo(c) \/ CallIoFails(c) \/ CallReturns(c)

Spec == Init /\ [][Next]_vars

\* Coroutines of a running bot go on, deadlines expire, and the system's resolver
\* ends (nothing in the code bounds it). Nothing is assumed about the peers.
FairSpec ==
    /\ Spec
    /\ WF_vars(PollBegins \/ PollAnswered \/ HandOver \/ HandOverEnds \/ PollFailed \/ PollDelayEnds)
    /\ WF_vars(PollExpires)
    /\ \A c \in Callers : WF_vars(CallExpires(c)) /\ WF_vars(CallReturns(c))

(***************************************************************************)
(* Properties.                                                             *)
(***************************************************************************)
TypeOK ==
    /\ config \in Configs
    /\ server \subseteq 1..Updates
    /\ process \in {"down", "up", "stopped"}
    /\ poller.pc \in {"gone", "check", "request", "handing", "delay"}
    /\ update_offset \in 0..(Updates + 1)
    /\ handed \in Seq(1..Updates)
    /\ skipped \subseteq 1..Updates
    /\ \A c \in Callers : calls[c].result \in {"none", "body", "exception", "nullopt"}

\* An update that the server has dropped was handed over, by this process or by one
\* before it, or given up knowingly: it did not parse, an exception of the hand-over
\* loop left it behind, or a caller's own get_updates asked past it. No lost request or
\* answer, and no crash between moving the offset and the hand-over, loses one. Within
\* one run of the process none is handed over twice or out of order, although requests
\* whose answer was lost are repeated.
UpdatesHandedOnce ==
    /\ (1..arrived) \ server \subseteq everHanded \cup skipped
    /\ \A i \in 1..(Len(handed) - 1) : handed[i] < handed[i + 1]

\* When the tunnel is open, nothing of the proxy's answer is left to be taken for
\* an answer of the target.
TunnelIsClean ==
    \A q \in {poller.request} \cup {calls[c].request : c \in Callers} :
        q.todo # <<>> /\ Head(q.todo).op \in {"handshake", "write", "read"} => q.unread = 0

\* Polling goes on as long as the bot is up and polling is not stopped: no lost answer,
\* silent peer or error ends it.
PollingGoesOn == []<>(poller.pc = "check" \/ process # "up" \/ ~is_polling)

\* The connection to an HTTPS proxy uses TLS, the request that goes through it too.
ProxyConnectionUsesTls ==
    \A q \in {poller.request} \cup {calls[c].request : c \in Callers} :
        config.proxy = "https" /\ q.todo # <<>> /\ Head(q.todo).op \in {"handshake", "write"} =>
            q.tls # <<>> /\ q.tls[1] = "proxy"
=============================================================================
