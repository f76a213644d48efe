------------------------ MODULE WebsocketWriteQueue ------------------------
(* The bounded FIFO writer of a WebSocket connection                       *)
(* (websocket_write_queue.cpp): senders put requests into a concurrent     *)
(* channel, one writer coroutine takes them and awaits the transport, and  *)
(* stop() ends everything.  The class is written for any executor, so each *)
(* atomic operation, critical section of state_mutex_ and channel call is  *)
(* a step.                                                                 *)
(*                                                                         *)
(* The channel is Boost.Asio's: a send completes when its element is in    *)
(* the buffer, waits while the buffer is full, and fails once the channel  *)
(* is closed; what is buffered can still be received after the close.      *)
EXTENDS Naturals, Sequences, SequencesExt

CONSTANTS
    Requests,    \* one per call of send()
    Stoppers,    \* other callers of stop(): stop_writer and the destructor
    Writer,      \* the coroutine in run(), which may call stop() itself
    None,
    Capacity     \* of the channel (100 in websocket_client.cpp)

ASSUME QueueAssumption ==
    /\ Capacity \in Nat \ {0}
    /\ Writer \notin Stoppers
    /\ None \notin Requests

Closers == Stoppers \cup {Writer}

VARIABLES
    channel,   \* requests_: buffer, senders waiting for room, closed
    state,     \* stopped_, terminal_failure_, active_
    req,       \* WriteRequest with its sender
    writer,    \* run(): program counter, request and failure at hand
    closer,    \* calls of stop()
    admitted,  \* history: the requests in the order the channel took them
    wire       \* history: the messages the transport has written

vars == <<channel, state, req, writer, closer, admitted, wire>>

Outcomes == {"none", "ok", "cancelled", "failed"}
Failures == {"cancelled", "failed"}

-----------------------------------------------------------------------------
RequestType == [pc : {"idle", "push", "blocked", "await", "refused", "done"},
                outcome : Outcomes,    \* what finish() put into completion
                result : Outcomes]     \* how send() ended

CloserType == [pc : {"idle", "record", "close", "cancel", "finish", "drain", "done"},
               failure : Outcomes, active : Requests \cup {None}]

Init ==
    /\ channel = [buffer |-> <<>>, blocked |-> <<>>, closed |-> FALSE]
    /\ state = [stopped |-> FALSE, terminal |-> "none", active |-> None]
    /\ req = [r \in Requests |-> [pc |-> "idle", outcome |-> "none", result |-> "none"]]
    /\ writer = [pc |-> "receive", cur |-> None, failure |-> "none", cancelled |-> FALSE]
    /\ closer = [t \in Closers |-> [pc |-> "idle", failure |-> "none", active |-> None]]
    /\ admitted = <<>>
    /\ wire = <<>>

\* terminal_failure().
TerminalFailure == IF state.terminal = "none" THEN "cancelled" ELSE state.terminal

\* request->finish(outcome): only the first one counts.
Finish(r, outcome) ==
    req' = [req EXCEPT ![r].outcome = IF @ = "none" THEN outcome ELSE @]

-----------------------------------------------------------------------------
(* send                                                                    *)

\* send looks at stopped_ first.
Send(r) ==
    /\ req[r].pc = "idle"
    /\ req' = [req EXCEPT ![r].pc = IF state.stopped THEN "refused" ELSE "push"]
    /\ UNCHANGED <<channel, state, writer, closer, admitted, wire>>

\* requests_.async_send: fail, enter the buffer, or wait for room.
Push(r) ==
    /\ req[r].pc = "push"
    /\ \/ /\ channel.closed
          /\ req' = [req EXCEPT ![r].pc = "refused"]
          /\ UNCHANGED <<channel, admitted>>
       \/ /\ ~channel.closed /\ Len(channel.buffer) < Capacity
          /\ channel' = [channel EXCEPT !.buffer = Append(@, r)]
          /\ req' = [req EXCEPT ![r].pc = "await"]
          /\ admitted' = Append(admitted, r)
       \/ /\ ~channel.closed /\ Len(channel.buffer) >= Capacity
          /\ channel' = [channel EXCEPT !.blocked = Append(@, r)]
          /\ req' = [req EXCEPT ![r].pc = "blocked"]
          /\ admitted' = Append(admitted, r)
    /\ UNCHANGED <<state, writer, closer, wire>>

\* The send failed: rethrow terminal_failure().
Refused(r) ==
    /\ req[r].pc = "refused"
    /\ req' = [req EXCEPT ![r].pc = "done", ![r].result = TerminalFailure]
    /\ UNCHANGED <<channel, state, writer, closer, admitted, wire>>

\* completion.async_receive ends the call.
Completed(r) ==
    /\ req[r].pc = "await" /\ req[r].outcome # "none"
    /\ req' = [req EXCEPT ![r].pc = "done", ![r].result = req[r].outcome]
    /\ UNCHANGED <<channel, state, writer, closer, admitted, wire>>

\* An element leaves the buffer; the first waiting sender takes its place.
Shifted ==
    LET rest == Tail(channel.buffer)
    IN  IF channel.blocked = <<>>
        THEN [channel EXCEPT !.buffer = rest]
        ELSE [channel EXCEPT !.buffer = Append(rest, Head(channel.blocked)),
                             !.blocked = Tail(@)]
\* ... and its async_send is complete.
Unblocked(f) ==
    IF channel.blocked = <<>> THEN f ELSE [f EXCEPT ![Head(channel.blocked)].pc = "await"]

-----------------------------------------------------------------------------
(* run                                                                     *)

\* requests_.async_receive: an element, or the end of a closed channel.
Receive ==
    /\ writer.pc = "receive"
    /\ \/ /\ channel.buffer # <<>>
          /\ writer' = [writer EXCEPT !.pc = "claim", !.cur = Head(channel.buffer)]
          /\ channel' = Shifted
          /\ req' = Unblocked(req)
       \/ /\ channel.buffer = <<>> /\ channel.closed
          /\ writer' = [writer EXCEPT !.pc = "exited"]
          /\ UNCHANGED <<channel, req>>
    /\ UNCHANGED <<state, closer, admitted, wire>>

SetActive ==
    /\ writer.pc = "claim"
    /\ state' = [state EXCEPT !.active = writer.cur]
    /\ writer' = [writer EXCEPT !.pc = "check"]
    /\ UNCHANGED <<channel, req, closer, admitted, wire>>

\* The writer looks at stopped_ once the request is visible to stop().
CheckStopped ==
    /\ writer.pc = "check"
    /\ writer' = [writer EXCEPT !.pc = IF state.stopped THEN "abort" ELSE "write"]
    /\ UNCHANGED <<channel, state, req, closer, admitted, wire>>

\* The request of a stopped queue is not written.
Abort ==
    /\ writer.pc = "abort"
    /\ Finish(writer.cur, TerminalFailure)
    /\ writer' = [writer EXCEPT !.pc = "clearAborted"]
    /\ UNCHANGED <<channel, state, closer, admitted, wire>>

\* write_operation_ is started ...
WriteStarts ==
    /\ writer.pc = "write"
    /\ writer' = [writer EXCEPT !.pc = "writing", !.cancelled = FALSE]
    /\ UNCHANGED <<channel, state, req, closer, admitted, wire>>

\* ... and ends, with an error when the transport failed or was cancelled.
WriteEnds ==
    /\ writer.pc = "writing"
    /\ \/ /\ writer' = [writer EXCEPT !.pc = "wrote"]
          /\ wire' = Append(wire, writer.cur)
       \/ /\ writer' = [writer EXCEPT !.pc = "failed",
                                      !.failure = IF writer.cancelled THEN "cancelled" ELSE "failed"]
          /\ UNCHANGED wire
    /\ UNCHANGED <<channel, state, req, closer, admitted>>

\* Mutant: the sender hears of a failed write as if it had been written.
FinishWriteAlwaysOk ==
    /\ writer.pc \in {"wrote", "failed"}
    /\ Finish(writer.cur, "ok")
    /\ writer' = [writer EXCEPT !.pc = IF @ = "wrote" THEN "clear" ELSE "clearFailed"]
    /\ UNCHANGED <<channel, state, closer, admitted, wire>>

FinishWrite ==
    /\ writer.pc \in {"wrote", "failed"}
    /\ Finish(writer.cur, IF writer.pc = "wrote" THEN "ok" ELSE writer.failure)
    /\ writer' = [writer EXCEPT !.pc = IF @ = "wrote" THEN "clear" ELSE "clearFailed"]
    /\ UNCHANGED <<channel, state, closer, admitted, wire>>

\* clear_active; after a failed write the writer stops the queue and leaves.
ClearActive ==
    /\ writer.pc \in {"clear", "clearAborted", "clearFailed"}
    /\ state' = [state EXCEPT !.active = IF @ = writer.cur THEN None ELSE @]
    /\ writer' = [writer EXCEPT !.cur = None,
                                !.pc = CASE @ = "clear" -> "receive"
                                         [] @ = "clearAborted" -> "exited"
                                         [] @ = "clearFailed" -> "stop"]
    /\ UNCHANGED <<channel, req, closer, admitted, wire>>

-----------------------------------------------------------------------------
(* stop.  The writer calls it with the write's failure.                    *)

\* The compare-exchange on stopped_: only the first caller goes on.
Stop(t) ==
    /\ closer[t].pc = "idle"
    /\ t = Writer => writer.pc = "stop"
    /\ IF state.stopped
       THEN /\ closer' = [closer EXCEPT ![t].pc = "done"]
            /\ UNCHANGED state
       ELSE /\ closer' = [closer EXCEPT ![t].pc = "record",
                             ![t].failure = IF t = Writer THEN writer.failure ELSE "cancelled"]
            /\ state' = [state EXCEPT !.stopped = TRUE]
    /\ writer' = IF t = Writer THEN [writer EXCEPT !.pc = "exited"] ELSE writer
    /\ UNCHANGED <<channel, req, admitted, wire>>

\* terminal_failure_ is stored and the active request noted.
StopRecord(t) ==
    /\ closer[t].pc = "record"
    /\ state' = [state EXCEPT !.terminal = closer[t].failure]
    /\ closer' = [closer EXCEPT ![t].pc = "close", ![t].active = state.active]
    /\ UNCHANGED <<channel, req, writer, admitted, wire>>

\* requests_.close(): senders that wait for room fail, or stay to be drained.
StopClose(t) ==
    /\ closer[t].pc = "close"
    /\ \/ /\ channel' = [channel EXCEPT !.closed = TRUE]
          /\ UNCHANGED req
       \/ /\ channel' = [channel EXCEPT !.closed = TRUE, !.blocked = <<>>]
          /\ req' = [r \in Requests |-> IF r \in ToSet(channel.blocked)
                                        THEN [req[r] EXCEPT !.pc = "refused"] ELSE req[r]]
    /\ closer' = [closer EXCEPT ![t].pc = "cancel"]
    /\ UNCHANGED <<state, writer, admitted, wire>>

\* cancel_operation_: a write that is under way will end.
StopCancel(t) ==
    /\ closer[t].pc = "cancel"
    /\ writer' = [writer EXCEPT !.cancelled = TRUE]
    /\ closer' = [closer EXCEPT ![t].pc = "finish"]
    /\ UNCHANGED <<channel, state, req, admitted, wire>>

\* Mutant: the active request is left to the writer.
StopFinishActiveNever(t) ==
    /\ closer[t].pc = "finish"
    /\ closer' = [closer EXCEPT ![t].pc = "drain"]
    /\ UNCHANGED <<channel, state, req, writer, admitted, wire>>

StopFinishActive(t) ==
    /\ closer[t].pc = "finish"
    /\ IF closer[t].active = None THEN UNCHANGED req
       ELSE Finish(closer[t].active, closer[t].failure)
    /\ closer' = [closer EXCEPT ![t].pc = "drain"]
    /\ UNCHANGED <<channel, state, writer, admitted, wire>>

\* One round of drain_queued.
Drain(t) ==
    /\ closer[t].pc = "drain"
    /\ \/ /\ channel.buffer # <<>>
          /\ req' = Unblocked([req EXCEPT ![Head(channel.buffer)].outcome =
                                  IF @ = "none" THEN closer[t].failure ELSE @])
          /\ channel' = Shifted
          /\ UNCHANGED closer
       \/ /\ channel.buffer = <<>>
          /\ closer' = [closer EXCEPT ![t].pc = "done"]
          /\ UNCHANGED <<req, channel>>
    /\ UNCHANGED <<state, writer, admitted, wire>>

-----------------------------------------------------------------------------
SenderSteps(r) == Push(r) \/ Refused(r) \/ Completed(r)
WriterSteps == \/ Receive \/ SetActive \/ CheckStopped \/ Abort \/ WriteStarts
               \/ FinishWrite \/ ClearActive \/ Stop(Writer)
CloserSteps(t) == StopRecord(t) \/ StopClose(t) \/ StopCancel(t)
                  \/ StopFinishActive(t) \/ Drain(t)

Next ==
    \/ \E r \in Requests : Send(r) \/ SenderSteps(r)
    \/ WriterSteps \/ WriteEnds
    \/ \E t \in Stoppers : Stop(t)
    \/ \E t \in Closers : CloserSteps(t)

Spec == Init /\ [][Next]_vars

\* The executors run what is ready.  Nothing makes a write end: the peer may
\* never read.
FairSpec ==
    /\ Spec
    /\ \A r \in Requests : WF_vars(SenderSteps(r))
    /\ WF_vars(WriterSteps)
    /\ \A t \in Closers : WF_vars(CloserSteps(t))

-----------------------------------------------------------------------------
(* Properties.                                                             *)

\* The types of the queue's state; the buffer respects its capacity.
TypeOK ==
    /\ channel.buffer \in Seq(Requests) /\ Len(channel.buffer) <= Capacity
    /\ channel.blocked \in Seq(Requests)
    /\ channel.closed \in BOOLEAN
    /\ state \in [stopped : BOOLEAN, terminal : {"none"} \cup Failures,
                  active : Requests \cup {None}]
    /\ req \in [Requests -> RequestType]
    /\ writer.cur \in Requests \cup {None}
    /\ closer \in [Closers -> CloserType]

Position(r) == CHOOSE n \in DOMAIN admitted : admitted[n] = r

\* A sender is told "ok" only for a message that was written, and of a written
\* message it hears something else only when the queue was stopped meanwhile
\* (run and stop both finish the active request).
HonestResults ==
    \A r \in Requests : req[r].pc = "done" =>
        /\ req[r].result = "ok" => r \in ToSet(wire)
        /\ r \in ToSet(wire) /\ req[r].result # "ok" => state.stopped

\* Messages reach the transport in the order the channel admitted them, each at most
\* once, whatever the backpressure; and senders hear the truth about theirs.
FaithfulWire ==
    /\ \A m, n \in DOMAIN wire : m < n => Position(wire[m]) < Position(wire[n])
    /\ HonestResults

\* Every send ends, also behind a write that never ends once somebody stops the
\* queue.
SendersReturn ==
    \/ \A r \in Requests : req[r].pc = "push" ~> req[r].pc = "done"
    \/ <>[](writer.pc = "writing" /\ ~state.stopped)
=============================================================================
