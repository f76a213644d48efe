-------------------- MODULE OneBotWebsocketProofs ---------------------
(***************************************************************************)
(* Machine-checked proofs about the two halves of the OneBot11 WebSocket   *)
(* transport: WebsocketWriteQueue, for every set of requests, every set of *)
(* callers of stop() and every capacity, and OneBotActions, for every set  *)
(* of actions and every number of clients.  Each half has its own          *)
(* variables and its own specification; no theorem mixes them.             *)
(***************************************************************************)
EXTENDS WebsocketWriteQueue, OneBotActions, FiniteSetTheorems, TLAPS

-----------------------------------------------------------------------------
(* The write queue.                                                        *)

USE QueueAssumption

-----------------------------------------------------------------------------
(* The inductive invariant.                                                *)

\* r is in the sequence s.
In(r, s) == \E n \in DOMAIN s : s[n] = r
\* x comes before y in the sequence a.
Earlier(a, x, y) == \E m, n \in DOMAIN a : m < n /\ a[m] = x /\ a[n] = y
\* The elements of s are in the order of a.
Ordered(a, s) == \A m, n \in DOMAIN s : m < n => Earlier(a, s[m], s[n])
\* The elements of s come in a before those of t.
Ahead(a, s, t) == \A m \in DOMAIN s, n \in DOMAIN t : Earlier(a, s[m], t[n])

WriterPcs == {"receive", "claim", "check", "write", "writing", "wrote", "failed", "clear",
              "abort", "clearAborted", "clearFailed", "stop", "exited"}
\* The writer has a request in hand that may still be written.
Pending == writer.pc \in {"claim", "check", "write", "writing"}

Types ==
    /\ channel \in [buffer : Seq(Requests), blocked : Seq(Requests), closed : BOOLEAN]
    /\ writer \in [pc : WriterPcs, cur : Requests \cup {None}, failure : Outcomes, cancelled : BOOLEAN]
    /\ admitted \in Seq(Requests) /\ wire \in Seq(Requests)
    /\ TypeOK

\* A request enters the channel once, and leaves it in the order in which it came.
OrderInv ==
    /\ \A m, n \in DOMAIN admitted : admitted[m] = admitted[n] => m = n
    /\ \A r \in Requests : req[r].pc \in {"idle", "push"} => ~In(r, admitted)
    /\ \A n \in DOMAIN channel.buffer : In(channel.buffer[n], admitted)
    /\ \A n \in DOMAIN channel.blocked : In(channel.blocked[n], admitted)
    /\ \A n \in DOMAIN wire : In(wire[n], admitted)
    /\ Ordered(admitted, wire) /\ Ordered(admitted, channel.buffer) /\ Ordered(admitted, channel.blocked)
    /\ Ahead(admitted, wire, channel.buffer) /\ Ahead(admitted, wire, channel.blocked) /\ Ahead(admitted, channel.buffer, channel.blocked)
    /\ channel.blocked # <<>> => Len(channel.buffer) = Capacity

\* What the writer holds lies between the wire and the channel.
WriterInv ==
    /\ writer.pc \notin {"receive", "stop", "exited"} => writer.cur \in Requests
    /\ Pending =>
        /\ In(writer.cur, admitted)
        /\ \A n \in DOMAIN wire : Earlier(admitted, wire[n], writer.cur)
        /\ \A n \in DOMAIN channel.buffer : Earlier(admitted, writer.cur, channel.buffer[n])
        /\ \A n \in DOMAIN channel.blocked : Earlier(admitted, writer.cur, channel.blocked[n])
    /\ writer.pc = "wrote" => In(writer.cur, wire)
    /\ writer.pc = "failed" => ~In(writer.cur, wire)
    /\ writer.pc \in {"failed", "clearFailed", "stop"} => writer.failure \in Failures

\* Everything that a stop() leads to comes after stopped_ is set.
StopInv ==
    /\ channel.closed => state.stopped
    /\ writer.pc \in {"abort", "clearAborted"} => state.stopped
    /\ \A r \in Requests : req[r].pc = "refused" => state.stopped
    /\ \A t \in Closers : closer[t].pc \notin {"idle", "done"} => state.stopped /\ closer[t].failure \in Failures

\* r was failed, or its sender was told that it failed.
Bad(r) == req[r].outcome \in Failures \/ (req[r].pc = "done" /\ req[r].result # "ok")

\* The outcome of a request, and what its sender hears.
ResultInv ==
    \A r \in Requests :
        /\ req[r].outcome = "ok" => In(r, wire)
        /\ req[r].pc = "done" /\ req[r].result = "ok" => In(r, wire)
        /\ Bad(r) /\ ~state.stopped => writer.pc \in {"clearFailed", "stop"} /\ ~In(r, wire)

IInv == Types /\ OrderInv /\ WriterInv /\ StopInv /\ ResultInv

-----------------------------------------------------------------------------
(* Sequences.                                                              *)

LEMMA AppendFacts ==
    ASSUME NEW S, NEW s \in Seq(S), NEW x \in S
    PROVE  /\ Append(s, x) \in Seq(S) /\ Len(Append(s, x)) = Len(s) + 1
           /\ DOMAIN s = 1..Len(s) /\ DOMAIN Append(s, x) = 1..(Len(s) + 1)
           /\ \A n \in DOMAIN s : Append(s, x)[n] = s[n]
           /\ Append(s, x)[Len(s) + 1] = x
           /\ Len(s) \in Nat
OBVIOUS

\* A place in a longer sequence is one it had or the new one behind all others.
LEMMA AppendedPlaces ==
    ASSUME NEW S, NEW s \in Seq(S), NEW x \in S
    PROVE  \A n \in DOMAIN Append(s, x) :
              \/ n \in DOMAIN s /\ Append(s, x)[n] = s[n]
              \/ n = Len(s) + 1 /\ Append(s, x)[n] = x /\ \A m \in DOMAIN s : m < n
BY AppendFacts

LEMMA TailFacts ==
    ASSUME NEW S, NEW s \in Seq(S), s # <<>>
    PROVE  /\ Tail(s) \in Seq(S) /\ Len(Tail(s)) = Len(s) - 1 /\ Len(s) \in Nat \ {0}
           /\ DOMAIN s = 1..Len(s) /\ DOMAIN Tail(s) = 1..(Len(s) - 1)
           /\ \A n \in DOMAIN Tail(s) : Tail(s)[n] = s[n + 1] /\ n + 1 \in DOMAIN s
           /\ Head(s) = s[1] /\ 1 \in DOMAIN s /\ Head(s) \in S
OBVIOUS

\* The order of admission.
LEMMA EarlierFacts ==
    ASSUME Types, OrderInv
    PROVE  /\ \A x, y : Earlier(admitted, x, y) => x # y
           /\ \A x, y : Earlier(admitted, x, y) => In(x, admitted) /\ In(y, admitted)
BY DEF Types, OrderInv, Earlier, In

LEMMA EarlierGrows ==
    ASSUME Types, NEW r \in Requests, admitted' = Append(admitted, r)
    PROVE  /\ \A x, y : Earlier(admitted, x, y) => Earlier(admitted', x, y)
           /\ \A x : In(x, admitted) => In(x, admitted') /\ Earlier(admitted', x, r)
           /\ In(r, admitted')
           /\ \A x : In(x, admitted') => x = r \/ In(x, admitted)
<1>1. /\ DOMAIN admitted = 1..Len(admitted) /\ DOMAIN admitted' = 1..(Len(admitted) + 1) /\ Len(admitted) \in Nat
      /\ \A n \in DOMAIN admitted : admitted'[n] = admitted[n]
      /\ admitted'[Len(admitted) + 1] = r
  BY AppendFacts DEF Types
<1>2. ASSUME NEW x, NEW y, Earlier(admitted, x, y) PROVE Earlier(admitted', x, y)
  BY <1>1, <1>2 DEF Earlier
<1>3. ASSUME NEW x, In(x, admitted) PROVE In(x, admitted') /\ Earlier(admitted', x, r)
  <2>1. PICK n \in DOMAIN admitted : admitted[n] = x
    BY <1>3 DEF In
  <2>2. n \in DOMAIN admitted' /\ admitted'[n] = x /\ n < Len(admitted) + 1 /\ Len(admitted) + 1 \in DOMAIN admitted'
    BY <1>1, <2>1
  <2> QED
    BY <1>1, <2>2 DEF In, Earlier
<1>4. In(r, admitted')
  BY <1>1 DEF In
<1>5. ASSUME NEW x, In(x, admitted') PROVE x = r \/ In(x, admitted)
  BY <1>1, <1>5 DEF In
<1> QED
  BY <1>2, <1>3, <1>4, <1>5

-----------------------------------------------------------------------------
(* Requests.                                                               *)

LEMMA ReqUpdate ==
    ASSUME Types, NEW r \in Requests, NEW q \in RequestType, req' = [req EXCEPT ![r] = q]
    PROVE  /\ req' \in [Requests -> RequestType] /\ req'[r] = q
           /\ \A x \in Requests : x # r => req'[x] = req[x]
BY DEF Types, TypeOK

\* A sender moves to pc.
LEMMA ReqGoes ==
    ASSUME Types, NEW r \in Requests, NEW pc \in {"idle", "push", "blocked", "await", "refused", "done"},
           req' = [req EXCEPT ![r].pc = pc]
    PROVE  /\ req' \in [Requests -> RequestType]
           /\ \A x \in Requests : x # r => req'[x] = req[x]
           /\ req'[r].pc = pc /\ req'[r].outcome = req[r].outcome /\ req'[r].result = req[r].result
<1> DEFINE q == [req[r] EXCEPT !.pc = pc]
<1>1. req' = [req EXCEPT ![r] = q] /\ req[r] \in RequestType
  BY DEF Types, TypeOK
<1>2. q \in RequestType /\ q.pc = pc /\ q.outcome = req[r].outcome /\ q.result = req[r].result
  BY <1>1 DEF RequestType
<1> HIDE DEF q
<1> QED
  BY <1>1, <1>2, ReqUpdate

\* A sender returns with a result.
LEMMA ReqReturns ==
    ASSUME Types, NEW r \in Requests, NEW o \in Outcomes,
           req' = [req EXCEPT ![r].pc = "done", ![r].result = o]
    PROVE  /\ req' \in [Requests -> RequestType]
           /\ \A x \in Requests : x # r => req'[x] = req[x]
           /\ req'[r].pc = "done" /\ req'[r].outcome = req[r].outcome /\ req'[r].result = o
<1> DEFINE q == [req[r] EXCEPT !.pc = "done", !.result = o]
<1>1. req' = [req EXCEPT ![r] = q] /\ req[r] \in RequestType
  BY DEF Types, TypeOK, RequestType
<1>2. q \in RequestType /\ q.pc = "done" /\ q.outcome = req[r].outcome /\ q.result = o
  BY <1>1 DEF RequestType
<1> HIDE DEF q
<1> QED
  BY <1>1, <1>2, ReqUpdate

\* finish() decides the outcome of r, unless it is decided.
Decided(f, r, o) ==
    /\ \A x \in Requests : f[x].pc = req[x].pc /\ f[x].result = req[x].result
    /\ \A x \in Requests : x # r => f[x].outcome = req[x].outcome
    /\ f[r].outcome = o \/ (f[r].outcome = req[r].outcome /\ req[r].outcome # "none")

LEMMA FinishFacts ==
    ASSUME Types, NEW r \in Requests, NEW o \in Outcomes, NEW f,
           f = [req EXCEPT ![r].outcome = IF @ = "none" THEN o ELSE @]
    PROVE  f \in [Requests -> RequestType] /\ Decided(f, r, o)
<1> DEFINE v == IF req[r].outcome = "none" THEN o ELSE req[r].outcome
           q == [req[r] EXCEPT !.outcome = v]
<1>1. f = [req EXCEPT ![r] = q] /\ req[r] \in RequestType /\ req \in [Requests -> RequestType]
  BY DEF Types, TypeOK
<1>2. v \in Outcomes /\ (v = o \/ (v = req[r].outcome /\ req[r].outcome # "none"))
  BY <1>1 DEF RequestType
<1> HIDE DEF v
<1>3. q \in RequestType /\ q.pc = req[r].pc /\ q.outcome = v /\ q.result = req[r].result
  BY <1>1, <1>2 DEF RequestType
<1> HIDE DEF q
<1>4. f \in [Requests -> RequestType] /\ f[r] = q /\ \A x \in Requests : x # r => f[x] = req[x]
  BY <1>1, <1>3
<1> QED
  BY <1>2, <1>3, <1>4 DEF Decided

-----------------------------------------------------------------------------
(* What most steps leave alone.                                            *)

\* The channel keeps its elements and nothing reaches the wire.
LEMMA OrderKept ==
    ASSUME OrderInv, channel'.buffer = channel.buffer, channel'.blocked = channel.blocked,
           UNCHANGED <<admitted, wire>>,
           \A r \in Requests : req'[r].pc \in {"idle", "push"} => req[r].pc \in {"idle", "push"}
    PROVE  OrderInv'
BY DEF OrderInv, In, Ordered, Ahead, Earlier

\* The writer keeps its request in hand.
LEMMA PendingKept ==
    ASSUME WriterInv, Pending, channel'.buffer = channel.buffer, channel'.blocked = channel.blocked,
           UNCHANGED <<admitted, wire>>, writer'.cur = writer.cur
    PROVE  /\ In(writer'.cur, admitted')
           /\ \A n \in DOMAIN wire' : Earlier(admitted', wire'[n], writer'.cur)
           /\ \A n \in DOMAIN channel'.buffer : Earlier(admitted', writer'.cur, channel'.buffer[n])
           /\ \A n \in DOMAIN channel'.blocked : Earlier(admitted', writer'.cur, channel'.blocked[n])
BY DEF WriterInv, In, Earlier

LEMMA WriterKept ==
    ASSUME WriterInv, channel'.buffer = channel.buffer, channel'.blocked = channel.blocked,
           UNCHANGED <<admitted, wire>>,
           writer'.pc = writer.pc, writer'.cur = writer.cur, writer'.failure = writer.failure
    PROVE  WriterInv'
BY DEF WriterInv, Pending, In, Earlier

\* Every request keeps the outcome and the result it has, or gets an honest one.
LEMMA ResultStep ==
    ASSUME IInv,
           \A x \in Requests : In(x, wire) => In(x, wire'),
           state.stopped => state'.stopped,
           writer.pc \in {"clearFailed", "stop"} =>
              state'.stopped \/ (writer'.pc \in {"clearFailed", "stop"} /\ wire' = wire),
           \A x \in Requests :
              /\ req'[x].outcome = "ok" => req[x].outcome = "ok" \/ In(x, wire')
              /\ req'[x].pc = "done" /\ req'[x].result = "ok" =>
                    (req[x].pc = "done" /\ req[x].result = "ok") \/ In(x, wire')
              /\ Bad(x)' => Bad(x) \/ state'.stopped \/ (writer'.pc \in {"clearFailed", "stop"} /\ ~In(x, wire'))
    PROVE  ResultInv'
<1> SUFFICES ASSUME NEW x \in Requests
             PROVE  /\ req'[x].outcome = "ok" => In(x, wire')
                    /\ req'[x].pc = "done" /\ req'[x].result = "ok" => In(x, wire')
                    /\ Bad(x)' /\ ~state'.stopped => writer'.pc \in {"clearFailed", "stop"} /\ ~In(x, wire')
  BY DEF ResultInv
<1>1. /\ req[x].outcome = "ok" => In(x, wire)
      /\ req[x].pc = "done" /\ req[x].result = "ok" => In(x, wire)
      /\ Bad(x) /\ ~state.stopped => writer.pc \in {"clearFailed", "stop"} /\ ~In(x, wire)
  BY DEF IInv, ResultInv
<1>2. wire' = wire => (In(x, wire') <=> In(x, wire))
  BY DEF In
<1> QED
  BY <1>1, <1>2

\* Nothing but the requests changes, and those only as they may.
LEMMA SenderStep ==
    ASSUME IInv, req' \in [Requests -> RequestType], UNCHANGED <<channel, state, writer, closer, admitted, wire>>,
           \A r \in Requests : req'[r].pc \in {"idle", "push"} => req[r].pc \in {"idle", "push"},
           \A r \in Requests : req'[r].pc = "refused" => state.stopped,
           \A x \in Requests :
              /\ req'[x].outcome = "ok" => req[x].outcome = "ok" \/ In(x, wire)
              /\ req'[x].pc = "done" /\ req'[x].result = "ok" =>
                    (req[x].pc = "done" /\ req[x].result = "ok") \/ In(x, wire)
              /\ Bad(x)' => Bad(x) \/ state.stopped
    PROVE  IInv'
<1>1. Types'
  BY DEF IInv, Types, TypeOK
<1>2. OrderInv' /\ WriterInv'
  BY OrderKept, WriterKept DEF IInv
<1>3. StopInv'
  BY DEF IInv, StopInv
<1>4. \A x \in Requests : In(x, wire') <=> In(x, wire)
  BY DEF In
<1>5. ResultInv'
  BY <1>4, ResultStep
<1> QED
  BY <1>1, <1>2, <1>3, <1>5 DEF IInv

-----------------------------------------------------------------------------
(* Senders.                                                                *)

LEMMA SendStep ==
    ASSUME IInv, NEW r \in Requests, Send(r) \/ Refused(r) \/ Completed(r)
    PROVE  IInv'
<1>1. Types /\ UNCHANGED <<channel, state, writer, closer, admitted, wire>> /\ req[r] \in RequestType
  BY DEF IInv, Types, TypeOK, Send, Refused, Completed
<1>2. CASE Send(r)
  <2>1. PICK pc \in {"push", "refused"} : req' = [req EXCEPT ![r].pc = pc] /\ (pc = "refused" => state.stopped)
    BY <1>2 DEF Send
  <2>2. /\ req' \in [Requests -> RequestType]
        /\ \A x \in Requests : x # r => req'[x] = req[x]
        /\ req'[r].pc = pc /\ req'[r].outcome = req[r].outcome /\ req'[r].result = req[r].result
    BY <1>1, <2>1, ReqGoes
  <2>3. req[r].pc = "idle"
    BY <1>2 DEF Send
  <2>4. \A x \in Requests : req'[x].pc = "refused" => state.stopped
    BY <2>1, <2>2 DEF IInv, StopInv
  <2> QED
    BY <1>1, <2>2, <2>3, <2>4, SenderStep DEF Bad
<1>3. CASE Refused(r)
  <2>1. state.stopped /\ TerminalFailure \in Failures
    BY <1>1, <1>3 DEF Refused, IInv, StopInv, TerminalFailure, Types, TypeOK, Failures
  <2>2. /\ req' \in [Requests -> RequestType]
        /\ \A x \in Requests : x # r => req'[x] = req[x]
        /\ req'[r].pc = "done" /\ req'[r].outcome = req[r].outcome /\ req'[r].result = TerminalFailure
    BY <1>1, <1>3, <2>1, ReqReturns DEF Refused, Failures, Outcomes
  <2> QED
    BY <1>1, <2>1, <2>2, SenderStep DEF Failures
<1>4. CASE Completed(r)
  <2>1. req' = [req EXCEPT ![r].pc = "done", ![r].result = req[r].outcome] /\ req[r].pc = "await" /\ req[r].outcome # "none"
        /\ req[r].outcome \in Outcomes
    BY <1>1, <1>4 DEF Completed, RequestType
  <2>2. /\ req' \in [Requests -> RequestType]
        /\ \A x \in Requests : x # r => req'[x] = req[x]
        /\ req'[r].pc = "done" /\ req'[r].outcome = req[r].outcome /\ req'[r].result = req[r].outcome
    BY <1>1, <2>1, ReqReturns
  <2>3. req[r].outcome = "ok" => In(r, wire)
    BY DEF IInv, ResultInv
  <2>4. Bad(r)' => Bad(r)
    BY <2>1, <2>2 DEF Bad, Failures, Outcomes
  <2>5. \A x \in Requests : req'[x].pc = "refused" => state.stopped
    BY <2>2 DEF IInv, StopInv
  <2> QED
    BY <1>1, <2>2, <2>3, <2>4, <2>5, SenderStep DEF Bad
<1> QED
  BY <1>2, <1>3, <1>4

\* A request enters the channel behind all that were admitted before.
LEMMA EnterChannel ==
    ASSUME IInv, NEW r \in Requests, req[r].pc = "push", admitted' = Append(admitted, r),
           UNCHANGED <<state, writer, closer, wire>>,
           channel' \in [buffer : Seq(Requests), blocked : Seq(Requests), closed : BOOLEAN],
           channel'.closed = channel.closed, Len(channel'.buffer) <= Capacity,
           \/ /\ channel'.buffer = Append(channel.buffer, r) /\ channel'.blocked = channel.blocked
              /\ channel.blocked = <<>>
           \/ /\ channel'.buffer = channel.buffer /\ channel'.blocked = Append(channel.blocked, r)
              /\ Len(channel.buffer) >= Capacity,
           NEW pc \in {"await", "blocked"}, req' = [req EXCEPT ![r].pc = pc]
    PROVE  IInv'
<1>1. Types /\ OrderInv /\ WriterInv /\ channel.buffer \in Seq(Requests) /\ channel.blocked \in Seq(Requests)
      /\ wire \in Seq(Requests)
  BY DEF IInv, Types, TypeOK
<1>2. /\ req' \in [Requests -> RequestType]
      /\ \A x \in Requests : x # r => req'[x] = req[x]
      /\ req'[r].pc = pc /\ req'[r].outcome = req[r].outcome /\ req'[r].result = req[r].result
  BY <1>1, ReqGoes
<1>3. /\ \A x, y : Earlier(admitted, x, y) => Earlier(admitted', x, y)
      /\ \A x : In(x, admitted) => In(x, admitted') /\ Earlier(admitted', x, r)
      /\ In(r, admitted')
      /\ \A x : In(x, admitted') => x = r \/ In(x, admitted)
  BY <1>1, EarlierGrows
<1>4. ~In(r, admitted)
  BY <1>1 DEF OrderInv
<1>5. Types'
  BY <1>1, <1>2, AppendFacts DEF Types, TypeOK
<1>6. \A n \in DOMAIN channel'.buffer :
         \/ n \in DOMAIN channel.buffer /\ channel'.buffer[n] = channel.buffer[n]
         \/ /\ n = Len(channel.buffer) + 1 /\ channel'.buffer[n] = r /\ channel.blocked = <<>> /\ channel'.blocked = <<>>
            /\ \A m \in DOMAIN channel.buffer : m < n
  <2>1. CASE channel'.buffer = channel.buffer
    BY <2>1
  <2>2. CASE /\ channel'.buffer = Append(channel.buffer, r) /\ channel'.blocked = channel.blocked
             /\ channel.blocked = <<>>
    <3>1. channel.buffer \in Seq(Requests)
      BY <1>1
    <3> QED
      BY <2>2, <3>1, AppendedPlaces
  <2> QED
    BY <2>1, <2>2
<1>7. \A n \in DOMAIN channel'.blocked :
         \/ n \in DOMAIN channel.blocked /\ channel'.blocked[n] = channel.blocked[n]
         \/ /\ n = Len(channel.blocked) + 1 /\ channel'.blocked[n] = r /\ channel'.buffer = channel.buffer
            /\ \A m \in DOMAIN channel.blocked : m < n
  <2>1. CASE channel'.blocked = channel.blocked
    BY <2>1
  <2>2. CASE channel'.buffer = channel.buffer /\ channel'.blocked = Append(channel.blocked, r)
    <3>1. channel.blocked \in Seq(Requests)
      BY <1>1
    <3> QED
      BY <2>2, <3>1, AppendedPlaces
  <2> QED
    BY <2>1, <2>2
<1>8. OrderInv'
  <2>1. (\A m, n \in DOMAIN admitted : admitted[m] = admitted[n] => m = n)'
    <3>1. /\ DOMAIN admitted = 1..Len(admitted) /\ DOMAIN admitted' = 1..(Len(admitted) + 1) /\ Len(admitted) \in Nat
          /\ \A n \in DOMAIN admitted : admitted'[n] = admitted[n]
          /\ admitted'[Len(admitted) + 1] = r
      BY <1>1, AppendFacts DEF Types
    <3> QED
      BY <1>1, <1>4, <3>1 DEF OrderInv, In
  <2>2. (\A x \in Requests : req[x].pc \in {"idle", "push"} => ~In(x, admitted))'
    BY <1>1, <1>2, <1>3 DEF OrderInv
  <2>3. (\A n \in DOMAIN channel.buffer : In(channel.buffer[n], admitted))'
    BY <1>1, <1>3, <1>6 DEF OrderInv
  <2>4. (\A n \in DOMAIN channel.blocked : In(channel.blocked[n], admitted))'
    BY <1>1, <1>3, <1>7 DEF OrderInv
  <2>5. (\A n \in DOMAIN wire : In(wire[n], admitted))' /\ Ordered(admitted', wire')
    BY <1>1, <1>3 DEF OrderInv, Ordered
  <2>6. Ordered(admitted', channel'.buffer)
    <3> SUFFICES ASSUME NEW m \in DOMAIN channel'.buffer, NEW n \in DOMAIN channel'.buffer, m < n
                 PROVE  Earlier(admitted', channel'.buffer[m], channel'.buffer[n])
      BY DEF Ordered
    <3>1. m \in DOMAIN channel.buffer /\ channel'.buffer[m] = channel.buffer[m]
      BY <1>1, <1>6, AppendFacts
    <3> QED
      BY <1>1, <1>3, <1>6, <3>1 DEF OrderInv, Ordered
  <2>7. Ordered(admitted', channel'.blocked)
    <3> SUFFICES ASSUME NEW m \in DOMAIN channel'.blocked, NEW n \in DOMAIN channel'.blocked, m < n
                 PROVE  Earlier(admitted', channel'.blocked[m], channel'.blocked[n])
      BY DEF Ordered
    <3>1. m \in DOMAIN channel.blocked /\ channel'.blocked[m] = channel.blocked[m]
      BY <1>1, <1>7, AppendFacts
    <3> QED
      BY <1>1, <1>3, <1>7, <3>1 DEF OrderInv, Ordered
  <2>8. Ahead(admitted', wire', channel'.buffer) /\ Ahead(admitted', wire', channel'.blocked)
    <3>1. ASSUME NEW m \in DOMAIN wire, NEW n \in DOMAIN channel'.buffer PROVE Earlier(admitted', wire[m], channel'.buffer[n])
      <4>1. CASE n \in DOMAIN channel.buffer /\ channel'.buffer[n] = channel.buffer[n]
        BY <1>1, <1>3, <4>1 DEF OrderInv, Ahead
      <4>2. CASE channel'.buffer[n] = r
        BY <1>1, <1>3, <4>2 DEF OrderInv
      <4> QED
        BY <1>6, <4>1, <4>2
    <3>2. ASSUME NEW m \in DOMAIN wire, NEW n \in DOMAIN channel'.blocked PROVE Earlier(admitted', wire[m], channel'.blocked[n])
      <4>1. CASE n \in DOMAIN channel.blocked /\ channel'.blocked[n] = channel.blocked[n]
        BY <1>1, <1>3, <4>1 DEF OrderInv, Ahead
      <4>2. CASE channel'.blocked[n] = r
        BY <1>1, <1>3, <4>2 DEF OrderInv
      <4> QED
        BY <1>7, <4>1, <4>2
    <3> QED
      BY <3>1, <3>2 DEF Ahead
  <2>9. Ahead(admitted', channel'.buffer, channel'.blocked)
    <3> SUFFICES ASSUME NEW m \in DOMAIN channel'.buffer, NEW n \in DOMAIN channel'.blocked
                 PROVE  Earlier(admitted', channel'.buffer[m], channel'.blocked[n])
      BY DEF Ahead
    <3>1. m \in DOMAIN channel.buffer /\ channel'.buffer[m] = channel.buffer[m]
      BY <1>6
    <3> QED
      BY <1>1, <1>3, <1>7, <3>1 DEF OrderInv, Ahead
  <2>10. channel'.blocked # <<>> => Len(channel'.buffer) = Capacity
    BY <1>1 DEF Types, TypeOK
  <2> QED
    BY <2>1, <2>2, <2>3, <2>4, <2>5, <2>6, <2>7, <2>8, <2>9, <2>10 DEF OrderInv
<1>9. WriterInv'
  <2>1. Pending' <=> Pending
    BY DEF Pending
  <2>2. Pending =>
        /\ In(writer'.cur, admitted')
        /\ \A n \in DOMAIN wire : Earlier(admitted', wire[n], writer.cur)
        /\ \A n \in DOMAIN channel'.buffer : Earlier(admitted', writer.cur, channel'.buffer[n])
        /\ \A n \in DOMAIN channel'.blocked : Earlier(admitted', writer.cur, channel'.blocked[n])
    BY <1>1, <1>3, <1>6, <1>7 DEF WriterInv
  <2> QED
    BY <1>1, <2>1, <2>2 DEF WriterInv, In
<1>10. StopInv'
  BY <1>2 DEF IInv, StopInv
<1>11. \A x \in Requests : In(x, wire') <=> In(x, wire)
  BY DEF In
<1>12. ResultInv'
  BY <1>2, <1>11, ResultStep DEF Bad
<1> QED
  BY <1>5, <1>8, <1>9, <1>10, <1>12 DEF IInv

LEMMA PushStep ==
    ASSUME IInv, NEW r \in Requests, Push(r)
    PROVE  IInv'
<1>1. Types /\ channel.buffer \in Seq(Requests) /\ channel.blocked \in Seq(Requests)
      /\ channel \in [buffer : Seq(Requests), blocked : Seq(Requests), closed : BOOLEAN]
      /\ Len(channel.buffer) \in Nat /\ Len(channel.buffer) <= Capacity
      /\ req[r].pc = "push" /\ UNCHANGED <<state, writer, closer, wire>>
  BY DEF IInv, Types, TypeOK, Push
<1>2. CASE channel.closed /\ req' = [req EXCEPT ![r].pc = "refused"] /\ UNCHANGED <<channel, admitted>>
  <2>1. /\ req' \in [Requests -> RequestType]
        /\ \A x \in Requests : x # r => req'[x] = req[x]
        /\ req'[r].pc = "refused" /\ req'[r].outcome = req[r].outcome /\ req'[r].result = req[r].result
    BY <1>1, <1>2, ReqGoes
  <2>2. \A x \in Requests : req'[x].pc = "refused" => state.stopped
    BY <1>2, <2>1 DEF IInv, StopInv
  <2> QED
    BY <1>1, <1>2, <2>1, <2>2, SenderStep DEF Bad
<1>3. CASE /\ ~channel.closed /\ Len(channel.buffer) < Capacity
           /\ channel' = [channel EXCEPT !.buffer = Append(@, r)]
           /\ req' = [req EXCEPT ![r].pc = "await"]
           /\ admitted' = Append(admitted, r)
  <2> DEFINE b == Append(channel.buffer, r)
  <2>1. b \in Seq(Requests) /\ Len(b) = Len(channel.buffer) + 1 /\ channel' = [channel EXCEPT !.buffer = b]
    BY <1>1, <1>3, AppendFacts
  <2> HIDE DEF b
  <2>2. /\ channel' \in [buffer : Seq(Requests), blocked : Seq(Requests), closed : BOOLEAN]
        /\ channel'.buffer = b /\ channel'.blocked = channel.blocked /\ channel'.closed = channel.closed
    BY <1>1, <2>1
  <2>3. channel.blocked = <<>>
    BY <1>1, <1>3 DEF IInv, OrderInv
  <2>4. Len(channel'.buffer) <= Capacity
    BY <1>1, <1>3, <2>1, <2>2
  <2> QED
    BY <1>1, <1>3, <2>2, <2>3, <2>4, EnterChannel DEF b
<1>4. CASE /\ ~channel.closed /\ Len(channel.buffer) >= Capacity
           /\ channel' = [channel EXCEPT !.blocked = Append(@, r)]
           /\ req' = [req EXCEPT ![r].pc = "blocked"]
           /\ admitted' = Append(admitted, r)
  <2> DEFINE b == Append(channel.blocked, r)
  <2>1. b \in Seq(Requests) /\ channel' = [channel EXCEPT !.blocked = b]
    BY <1>1, <1>4, AppendFacts
  <2> HIDE DEF b
  <2>2. /\ channel' \in [buffer : Seq(Requests), blocked : Seq(Requests), closed : BOOLEAN]
        /\ channel'.blocked = b /\ channel'.buffer = channel.buffer /\ channel'.closed = channel.closed
    BY <1>1, <2>1
  <2> QED
    BY <1>1, <1>4, <2>2, EnterChannel DEF b
<1> QED
  BY <1>2, <1>3, <1>4 DEF Push

-----------------------------------------------------------------------------
(* The channel gives its first element away.                               *)

\* What is left in the channel, and what went.
LEMMA ShiftFacts ==
    ASSUME Types, OrderInv, channel.buffer # <<>>, channel' = Shifted
    PROVE  /\ channel' \in [buffer : Seq(Requests), blocked : Seq(Requests), closed : BOOLEAN]
           /\ channel'.closed = channel.closed /\ Len(channel'.buffer) <= Capacity
           /\ channel'.blocked # <<>> => Len(channel'.buffer) = Capacity
           /\ Head(channel.buffer) = channel.buffer[1] /\ 1 \in DOMAIN channel.buffer /\ Head(channel.buffer) \in Requests
           /\ \A n \in DOMAIN channel'.buffer :
                 \/ n + 1 \in DOMAIN channel.buffer /\ channel'.buffer[n] = channel.buffer[n + 1] /\ 1 < n + 1
                 \/ /\ n = Len(channel.buffer) /\ 1 \in DOMAIN channel.blocked /\ channel'.buffer[n] = channel.blocked[1]
                    /\ \A m \in DOMAIN channel'.buffer : m < n => m + 1 \in DOMAIN channel.buffer /\ channel'.buffer[m] = channel.buffer[m + 1]
           /\ \A n \in DOMAIN channel'.blocked :
                 n + 1 \in DOMAIN channel.blocked /\ channel'.blocked[n] = channel.blocked[n + 1] /\ 1 < n + 1
           /\ DOMAIN channel'.buffer \subseteq Nat /\ DOMAIN channel'.blocked \subseteq Nat
<1> DEFINE b == channel.buffer
           k == channel.blocked
<1>1. /\ b \in Seq(Requests) /\ k \in Seq(Requests) /\ Len(b) <= Capacity /\ b # <<>>
      /\ channel \in [buffer : Seq(Requests), blocked : Seq(Requests), closed : BOOLEAN]
      /\ k # <<>> => Len(b) = Capacity
  BY DEF Types, TypeOK, OrderInv
<1>2. CASE k = <<>>
  <2>1. channel' = [channel EXCEPT !.buffer = Tail(b)]
    BY <1>2 DEF Shifted
  <2> HIDE DEF b, k
  <2>2. /\ Tail(b) \in Seq(Requests) /\ Len(Tail(b)) = Len(b) - 1 /\ Len(b) \in Nat \ {0}
        /\ DOMAIN b = 1..Len(b) /\ DOMAIN Tail(b) = 1..(Len(b) - 1)
        /\ \A n \in DOMAIN Tail(b) : Tail(b)[n] = b[n + 1] /\ n + 1 \in DOMAIN b
        /\ Head(b) = b[1] /\ 1 \in DOMAIN b /\ Head(b) \in Requests
    BY <1>1, TailFacts
  <2>3. /\ channel' \in [buffer : Seq(Requests), blocked : Seq(Requests), closed : BOOLEAN]
        /\ channel'.buffer = Tail(b) /\ channel'.blocked = channel.blocked /\ channel'.closed = channel.closed
    BY <1>1, <2>1, <2>2
  <2>4. Len(Tail(b)) <= Capacity /\ \A n \in DOMAIN Tail(b) : 1 < n + 1 /\ n \in Nat
    <3>1. ASSUME NEW i \in Nat \ {0}, NEW j, i <= Capacity, j = i - 1
          PROVE  j <= Capacity /\ \A n \in 1..(i - 1) : 1 < n + 1 /\ n \in Nat
      BY <3>1
    <3> QED
      BY <1>1, <2>2, <3>1
  <2>5. channel'.blocked = <<>> /\ DOMAIN channel'.blocked = {}
    BY <1>2, <2>3 DEF k
  <2> QED
    BY <2>2, <2>3, <2>4, <2>5 DEF b
<1>3. CASE k # <<>>
  <2> DEFINE u == Tail(b)
             c == Append(u, Head(k))
             l == Tail(k)
  <2>1. channel' = [channel EXCEPT !.buffer = c, !.blocked = l]
    BY <1>1, <1>3 DEF Shifted
  <2> HIDE DEF b, k
  <2>2. /\ u \in Seq(Requests) /\ Len(u) = Len(b) - 1 /\ Len(b) \in Nat \ {0}
        /\ DOMAIN b = 1..Len(b) /\ DOMAIN u = 1..(Len(b) - 1)
        /\ \A n \in DOMAIN u : u[n] = b[n + 1] /\ n + 1 \in DOMAIN b
        /\ Head(b) = b[1] /\ 1 \in DOMAIN b /\ Head(b) \in Requests
    BY <1>1, TailFacts
  <2>3. /\ l \in Seq(Requests) /\ Len(k) \in Nat \ {0} /\ DOMAIN l = 1..(Len(k) - 1)
        /\ \A n \in DOMAIN l : l[n] = k[n + 1] /\ n + 1 \in DOMAIN k
        /\ Head(k) = k[1] /\ 1 \in DOMAIN k /\ Head(k) \in Requests
    BY <1>1, <1>3, TailFacts
  <2> HIDE DEF u, l
  <2>4. /\ c \in Seq(Requests) /\ Len(c) = Len(u) + 1 /\ DOMAIN c = 1..(Len(u) + 1)
        /\ \A n \in DOMAIN u : c[n] = u[n]
        /\ c[Len(u) + 1] = Head(k)
    BY <2>2, <2>3, AppendFacts
  <2> HIDE DEF c
  <2>5. /\ channel' \in [buffer : Seq(Requests), blocked : Seq(Requests), closed : BOOLEAN]
        /\ channel'.buffer = c /\ channel'.blocked = l /\ channel'.closed = channel.closed
    BY <1>1, <2>1, <2>3, <2>4
  <2>6. Len(c) = Capacity /\ \A n \in DOMAIN l : 1 < n + 1 /\ n \in Nat
    BY <1>1, <1>3, <2>2, <2>3, <2>4
  <2>7. \A n \in DOMAIN c : n \in Nat /\
                 \/ n + 1 \in DOMAIN b /\ c[n] = b[n + 1] /\ 1 < n + 1
                 \/ /\ n = Len(b) /\ 1 \in DOMAIN k /\ c[n] = k[1]
                    /\ \A m \in DOMAIN c : m < n => m + 1 \in DOMAIN b /\ c[m] = b[m + 1]
    <3> SUFFICES ASSUME NEW n \in DOMAIN c
                 PROVE  /\ n \in Nat
                        /\ \/ n + 1 \in DOMAIN b /\ c[n] = b[n + 1] /\ 1 < n + 1
                           \/ /\ n = Len(b) /\ 1 \in DOMAIN k /\ c[n] = k[1]
                              /\ \A m \in DOMAIN c : m < n => m + 1 \in DOMAIN b /\ c[m] = b[m + 1]
      OBVIOUS
    <3>1. n \in Nat /\ 1 < n + 1 /\ (n \in DOMAIN u \/ n = Len(b)) /\ Len(u) + 1 = Len(b)
      BY <2>2, <2>4
    <3>2. CASE n \in DOMAIN u
      BY <2>2, <2>4, <3>1, <3>2
    <3>3. CASE n = Len(b)
      <4>1. \A m \in DOMAIN c : m < n => m \in DOMAIN u
        BY <2>2, <2>4, <3>3
      <4> QED
        BY <2>2, <2>3, <2>4, <3>1, <3>3, <4>1
    <3> QED
      BY <3>1, <3>2, <3>3
  <2> QED
    BY <2>2, <2>3, <2>5, <2>6, <2>7 DEF b, k
<1> QED
  BY <1>2, <1>3

\* The rest keeps its order, and all of it comes after what went.
LEMMA ShiftOrder ==
    ASSUME Types, OrderInv, channel.buffer # <<>>, channel' = Shifted, UNCHANGED <<admitted, wire>>,
           \A r \in Requests : req'[r].pc \in {"idle", "push"} => req[r].pc \in {"idle", "push"}
    PROVE  /\ OrderInv'
           /\ \A n \in DOMAIN channel'.buffer : Earlier(admitted, Head(channel.buffer), channel'.buffer[n])
           /\ \A n \in DOMAIN channel'.blocked : Earlier(admitted, Head(channel.buffer), channel'.blocked[n])
           /\ \A x : (\A n \in DOMAIN channel.buffer : Earlier(admitted, x, channel.buffer[n])) /\ (\A n \in DOMAIN channel.blocked : Earlier(admitted, x, channel.blocked[n])) =>
                 /\ \A n \in DOMAIN channel'.buffer : Earlier(admitted, x, channel'.buffer[n])
                 /\ \A n \in DOMAIN channel'.blocked : Earlier(admitted, x, channel'.blocked[n])
           /\ In(Head(channel.buffer), admitted)
           /\ \A n \in DOMAIN wire : Earlier(admitted, wire[n], Head(channel.buffer))
<1> DEFINE b == channel.buffer
           k == channel.blocked
           c == channel'.buffer
           l == channel'.blocked
<1>1. /\ channel'.blocked # <<>> => Len(channel'.buffer) = Capacity
      /\ Head(b) = b[1] /\ 1 \in DOMAIN b
      /\ \A n \in DOMAIN c :
                 \/ n + 1 \in DOMAIN b /\ c[n] = b[n + 1] /\ 1 < n + 1
                 \/ /\ n = Len(b) /\ 1 \in DOMAIN k /\ c[n] = k[1]
                    /\ \A m \in DOMAIN c : m < n => m + 1 \in DOMAIN b /\ c[m] = b[m + 1]
      /\ \A n \in DOMAIN l : n + 1 \in DOMAIN k /\ l[n] = k[n + 1] /\ 1 < n + 1
      /\ DOMAIN c \subseteq Nat /\ DOMAIN l \subseteq Nat
  BY ShiftFacts
<1>2. /\ \A n \in DOMAIN b : In(b[n], admitted)
      /\ \A n \in DOMAIN k : In(k[n], admitted)
      /\ Ordered(admitted, b) /\ Ordered(admitted, k) /\ Ahead(admitted, b, k)
      /\ Ahead(admitted, wire, b) /\ Ahead(admitted, wire, k)
  BY DEF OrderInv
<1>3. \A m \in DOMAIN c, n \in DOMAIN c : m < n => Earlier(admitted, c[m], c[n])
  <2> SUFFICES ASSUME NEW m \in DOMAIN c, NEW n \in DOMAIN c, m < n PROVE Earlier(admitted, c[m], c[n])
    OBVIOUS
  <2> HIDE DEF b, k, c, l
  <2>1. CASE n + 1 \in DOMAIN b /\ c[n] = b[n + 1]
    <3>1. CASE m + 1 \in DOMAIN b /\ c[m] = b[m + 1]
      <4>1. m + 1 < n + 1
        BY <1>1
      <4> QED
        BY <1>2, <2>1, <3>1, <4>1 DEF Ordered
    <3>2. CASE m = Len(b)
      <4>1. b \in Seq(Requests)
        BY DEF Types, TypeOK, b
      <4>2. n + 1 <= Len(b) /\ n \in Nat /\ Len(b) \in Nat
        BY <1>1, <2>1, <4>1
      <4> QED
        BY <3>2, <4>2
    <3> QED
      BY <1>1, <3>1, <3>2
  <2>2. CASE /\ n = Len(b) /\ 1 \in DOMAIN k /\ c[n] = k[1]
             /\ \A q \in DOMAIN c : q < n => q + 1 \in DOMAIN b /\ c[q] = b[q + 1]
    BY <1>2, <2>2 DEF Ahead
  <2> QED
    BY <1>1, <2>1, <2>2
<1>4. \A m \in DOMAIN l, n \in DOMAIN l : m < n => Earlier(admitted, l[m], l[n])
  <2> SUFFICES ASSUME NEW m \in DOMAIN l, NEW n \in DOMAIN l, m < n PROVE Earlier(admitted, l[m], l[n])
    OBVIOUS
  <2>1. m + 1 < n + 1
    BY <1>1
  <2> HIDE DEF b, k, c, l
  <2> QED
    BY <1>1, <1>2, <2>1 DEF Ordered
<1>5. \A m \in DOMAIN c, n \in DOMAIN l : Earlier(admitted, c[m], l[n])
  <2> HIDE DEF b, k, c, l
  <2> QED
    BY <1>1, <1>2 DEF Ordered, Ahead
<1>6. \A m \in DOMAIN wire : (\A n \in DOMAIN c : Earlier(admitted, wire[m], c[n])) /\ (\A n \in DOMAIN l : Earlier(admitted, wire[m], l[n]))
  <2> HIDE DEF b, k, c, l
  <2> QED
    BY <1>1, <1>2 DEF Ahead
<1>7. (\A n \in DOMAIN c : In(c[n], admitted)) /\ (\A n \in DOMAIN l : In(l[n], admitted))
  <2> HIDE DEF b, k, c, l
  <2> QED
    BY <1>1, <1>2
<1>8. (\A n \in DOMAIN c : Earlier(admitted, b[1], c[n])) /\ (\A n \in DOMAIN l : Earlier(admitted, b[1], l[n]))
  <2> HIDE DEF b, k, c, l
  <2> QED
    BY <1>1, <1>2 DEF Ordered, Ahead
<1>9. ASSUME NEW x, \A n \in DOMAIN b : Earlier(admitted, x, b[n]), \A n \in DOMAIN k : Earlier(admitted, x, k[n])
      PROVE  (\A n \in DOMAIN c : Earlier(admitted, x, c[n])) /\ (\A n \in DOMAIN l : Earlier(admitted, x, l[n]))
  <2> HIDE DEF b, k, c, l
  <2> QED
    BY <1>1, <1>9
<1>10. OrderInv'
  <2>1. Ordered(admitted', channel'.buffer) /\ Ordered(admitted', channel'.blocked) /\ Ordered(admitted', wire')
    BY <1>3, <1>4 DEF Ordered, OrderInv
  <2>2. Ahead(admitted', wire', channel'.buffer) /\ Ahead(admitted', wire', channel'.blocked) /\ Ahead(admitted', channel'.buffer, channel'.blocked)
    BY <1>5, <1>6 DEF Ahead
  <2> HIDE DEF b, k, c, l
  <2> QED
    BY <1>1, <1>7, <2>1, <2>2 DEF OrderInv, c, l
<1>11. In(Head(b), admitted) /\ \A n \in DOMAIN wire : Earlier(admitted, wire[n], Head(b))
  <2> HIDE DEF b, k, c, l
  <2> QED
    BY <1>1, <1>2 DEF Ahead
<1> QED
  BY <1>1, <1>8, <1>9, <1>10, <1>11

\* The first waiting sender goes on to await its completion.
LEMMA UnblockFacts ==
    ASSUME Types, NEW f \in [Requests -> RequestType], NEW g, g = Unblocked(f)
    PROVE  /\ g \in [Requests -> RequestType]
           /\ \A x \in Requests : g[x].outcome = f[x].outcome /\ g[x].result = f[x].result
           /\ \A x \in Requests : g[x].pc = f[x].pc \/ g[x].pc = "await"
<1>1. CASE channel.blocked = <<>>
  BY <1>1 DEF Unblocked
<1>2. CASE channel.blocked # <<>>
  <2> DEFINE h == Head(channel.blocked)
             q == [f[h] EXCEPT !.pc = "await"]
  <2>1. h \in Requests /\ g = [f EXCEPT ![h] = q]
    BY <1>2, TailFacts DEF Types, TypeOK, Unblocked
  <2> HIDE DEF h
  <2>2. f[h] \in RequestType
    BY <2>1
  <2>3. q \in RequestType /\ q.pc = "await" /\ q.outcome = f[h].outcome /\ q.result = f[h].result
    BY <2>2 DEF RequestType
  <2> HIDE DEF q
  <2> QED
    BY <2>1, <2>3
<1> QED
  BY <1>1, <1>2

-----------------------------------------------------------------------------
(* run().                                                                  *)

\* Steps of the writer that leave the channel, the requests and the wire alone.
LEMMA WriterStep ==
    ASSUME IInv, UNCHANGED <<channel, req, closer, admitted, wire>>,
           writer' \in [pc : WriterPcs, cur : Requests \cup {None}, failure : Outcomes, cancelled : BOOLEAN],
           state' \in [stopped : BOOLEAN, terminal : {"none"} \cup Failures, active : Requests \cup {None}],
           state'.stopped = state.stopped, WriterInv',
           writer'.pc \in {"abort", "clearAborted"} => state.stopped,
           writer.pc \in {"clearFailed", "stop"} => writer'.pc \in {"clearFailed", "stop"}
    PROVE  IInv'
<1>1. Types'
  BY DEF IInv, Types, TypeOK
<1>2. OrderInv'
  BY OrderKept DEF IInv
<1>3. StopInv'
  BY DEF IInv, StopInv
<1>4. ResultInv'
  BY ResultStep DEF Bad
<1> QED
  BY <1>1, <1>2, <1>3, <1>4 DEF IInv

LEMMA ReceiveStep ==
    ASSUME IInv, Receive
    PROVE  IInv'
<1>1. /\ Types /\ OrderInv /\ WriterInv /\ StopInv /\ writer.pc = "receive" /\ UNCHANGED <<state, closer, admitted, wire>>
      /\ writer \in [pc : WriterPcs, cur : Requests \cup {None}, failure : Outcomes, cancelled : BOOLEAN]
      /\ req \in [Requests -> RequestType]
  BY DEF IInv, Types, TypeOK, Receive
<1>2. CASE /\ channel.buffer # <<>>
           /\ writer' = [writer EXCEPT !.pc = "claim", !.cur = Head(channel.buffer)]
           /\ channel' = Shifted
           /\ req' = Unblocked(req)
  <2> DEFINE h == Head(channel.buffer)
  <2>1. /\ channel' \in [buffer : Seq(Requests), blocked : Seq(Requests), closed : BOOLEAN]
        /\ channel'.closed = channel.closed /\ Len(channel'.buffer) <= Capacity
        /\ h \in Requests
    BY <1>1, <1>2, ShiftFacts
  <2>2. /\ req' \in [Requests -> RequestType]
        /\ \A x \in Requests : req'[x].outcome = req[x].outcome /\ req'[x].result = req[x].result
        /\ \A x \in Requests : req'[x].pc = req[x].pc \/ req'[x].pc = "await"
    BY <1>1, <1>2, UnblockFacts
  <2>3. /\ OrderInv'
        /\ \A n \in DOMAIN channel'.buffer : Earlier(admitted, h, channel'.buffer[n])
        /\ \A n \in DOMAIN channel'.blocked : Earlier(admitted, h, channel'.blocked[n])
        /\ In(h, admitted)
        /\ \A n \in DOMAIN wire : Earlier(admitted, wire[n], h)
    BY <1>1, <1>2, <2>2, ShiftOrder
  <2> HIDE DEF h
  <2>4. /\ writer' \in [pc : WriterPcs, cur : Requests \cup {None}, failure : Outcomes, cancelled : BOOLEAN]
        /\ writer'.pc = "claim" /\ writer'.cur = h
    BY <1>1, <1>2, <2>1 DEF WriterPcs, h
  <2>5. Types'
    BY <1>1, <2>1, <2>2, <2>4 DEF Types, TypeOK
  <2>6. WriterInv'
    BY <1>1, <2>1, <2>3, <2>4 DEF WriterInv, Pending
  <2>7. StopInv'
    BY <1>1, <2>1, <2>2, <2>4 DEF StopInv
  <2>8. ResultInv'
    BY <1>1, <2>2, <2>4, ResultStep DEF Bad
  <2> QED
    BY <2>3, <2>5, <2>6, <2>7, <2>8 DEF IInv
<1>3. CASE channel.buffer = <<>> /\ channel.closed /\ writer' = [writer EXCEPT !.pc = "exited"] /\ UNCHANGED <<channel, req>>
  <2>1. /\ writer' \in [pc : WriterPcs, cur : Requests \cup {None}, failure : Outcomes, cancelled : BOOLEAN]
        /\ writer'.pc = "exited"
    BY <1>1, <1>3 DEF WriterPcs
  <2>2. WriterInv'
    BY <2>1 DEF WriterInv, Pending
  <2> QED
    BY <1>1, <1>3, <2>1, <2>2, WriterStep DEF Types, TypeOK
<1> QED
  BY <1>2, <1>3 DEF Receive

\* SetActive, CheckStopped and WriteStarts keep the request in hand.
LEMMA HandStep ==
    ASSUME IInv, SetActive \/ CheckStopped \/ WriteStarts
    PROVE  IInv'
<1>1. /\ WriterInv /\ Pending /\ UNCHANGED <<channel, req, closer, admitted, wire>>
      /\ writer \in [pc : WriterPcs, cur : Requests \cup {None}, failure : Outcomes, cancelled : BOOLEAN]
      /\ state \in [stopped : BOOLEAN, terminal : {"none"} \cup Failures, active : Requests \cup {None}]
      /\ writer.pc \notin {"receive", "stop", "exited", "clearFailed"}
  BY DEF IInv, Types, TypeOK, SetActive, CheckStopped, WriteStarts, Pending
<1>2. /\ writer' \in [pc : WriterPcs, cur : Requests \cup {None}, failure : Outcomes, cancelled : BOOLEAN]
      /\ writer'.cur = writer.cur /\ writer'.failure = writer.failure
      /\ writer'.pc \in {"check", "abort", "write", "writing"}
      /\ writer'.pc = "abort" => state.stopped
  BY <1>1 DEF SetActive, CheckStopped, WriteStarts, WriterPcs
<1>3. /\ state' \in [stopped : BOOLEAN, terminal : {"none"} \cup Failures, active : Requests \cup {None}]
      /\ state'.stopped = state.stopped
  BY <1>1 DEF SetActive, CheckStopped, WriteStarts
<1>4. WriterInv'
  BY <1>1, <1>2, PendingKept DEF WriterInv, Pending
<1> QED
  BY <1>1, <1>2, <1>3, <1>4, WriterStep

LEMMA ClearActiveStep ==
    ASSUME IInv, ClearActive
    PROVE  IInv'
<1>1. /\ WriterInv /\ UNCHANGED <<channel, req, closer, admitted, wire>>
      /\ writer \in [pc : WriterPcs, cur : Requests \cup {None}, failure : Outcomes, cancelled : BOOLEAN]
      /\ state \in [stopped : BOOLEAN, terminal : {"none"} \cup Failures, active : Requests \cup {None}]
      /\ writer.pc \in {"clear", "clearAborted", "clearFailed"}
  BY DEF IInv, Types, TypeOK, ClearActive
<1>2. /\ writer' \in [pc : WriterPcs, cur : Requests \cup {None}, failure : Outcomes, cancelled : BOOLEAN]
      /\ writer'.failure = writer.failure
      /\ writer'.pc \in {"receive", "exited", "stop"}
      /\ writer'.pc = "stop" <=> writer.pc = "clearFailed"
  <2>1. CASE writer.pc = "clear"
    <3>1. writer' = [writer EXCEPT !.cur = None, !.pc = "receive"]
      BY <1>1, <2>1 DEF ClearActive
    <3> QED
      BY <1>1, <2>1, <3>1 DEF WriterPcs
  <2>2. CASE writer.pc = "clearAborted"
    <3>1. writer' = [writer EXCEPT !.cur = None, !.pc = "exited"]
      BY <1>1, <2>2 DEF ClearActive
    <3> QED
      BY <1>1, <2>2, <3>1 DEF WriterPcs
  <2>3. CASE writer.pc = "clearFailed"
    <3>1. writer' = [writer EXCEPT !.cur = None, !.pc = "stop"]
      BY <1>1, <2>3 DEF ClearActive
    <3> QED
      BY <1>1, <2>3, <3>1 DEF WriterPcs
  <2> QED
    BY <1>1, <2>1, <2>2, <2>3
<1>3. /\ state' \in [stopped : BOOLEAN, terminal : {"none"} \cup Failures, active : Requests \cup {None}]
      /\ state'.stopped = state.stopped
  BY <1>1 DEF ClearActive
<1>4. WriterInv'
  BY <1>1, <1>2 DEF WriterInv, Pending
<1> QED
  BY <1>1, <1>2, <1>3, <1>4, WriterStep

\* The writer finishes its request, and what it says of it is true.
LEMMA WriterFinishes ==
    ASSUME IInv, UNCHANGED <<channel, state, closer, admitted, wire>>,
           NEW o \in Outcomes \ {"none"}, Finish(writer.cur, o), writer.cur \in Requests,
           NEW pc \in {"clear", "clearAborted", "clearFailed"}, writer' = [writer EXCEPT !.pc = pc],
           writer.pc \notin {"clearFailed", "stop"},
           o = "ok" => In(writer.cur, wire),
           o # "ok" => state.stopped \/ (pc = "clearFailed" /\ ~In(writer.cur, wire)),
           pc = "clearFailed" => writer.failure \in Failures,
           pc = "clearAborted" => state.stopped
    PROVE  IInv'
<1> DEFINE c == writer.cur
<1>1. /\ Types
      /\ writer \in [pc : WriterPcs, cur : Requests \cup {None}, failure : Outcomes, cancelled : BOOLEAN]
  BY DEF IInv, Types
<1>2. req' \in [Requests -> RequestType] /\ Decided(req', c, o)
  BY <1>1, FinishFacts DEF Finish
<1>3. /\ writer' \in [pc : WriterPcs, cur : Requests \cup {None}, failure : Outcomes, cancelled : BOOLEAN]
      /\ writer'.pc = pc /\ writer'.cur = c /\ writer'.failure = writer.failure
  BY <1>1 DEF WriterPcs
<1> HIDE DEF c
<1>4. Types'
  BY <1>2, <1>3 DEF IInv, Types, TypeOK
<1>5. OrderInv'
  BY <1>2, OrderKept DEF IInv, Decided
<1>6. WriterInv'
  BY <1>3 DEF WriterInv, Pending, c
<1>7. StopInv'
  BY <1>2, <1>3 DEF IInv, StopInv, Decided
<1>8. \A x \in Requests : In(x, wire') <=> In(x, wire)
  BY DEF In
<1>9. ResultInv'
  <2>1. ASSUME NEW x \in Requests
        PROVE  /\ req'[x].outcome = "ok" => req[x].outcome = "ok" \/ In(x, wire')
               /\ req'[x].pc = "done" /\ req'[x].result = "ok" =>
                     (req[x].pc = "done" /\ req[x].result = "ok") \/ In(x, wire')
               /\ Bad(x)' => Bad(x) \/ state'.stopped \/ (writer'.pc \in {"clearFailed", "stop"} /\ ~In(x, wire'))
    <3>1. CASE x = c
      BY <1>2, <1>3, <1>8, <3>1 DEF Decided, Bad, c, Failures
    <3>2. CASE x # c
      BY <1>2, <3>2 DEF Decided, Bad
    <3> QED
      BY <3>1, <3>2
  <2> QED
    BY <1>8, <2>1, ResultStep
<1> QED
  BY <1>4, <1>5, <1>6, <1>7, <1>9 DEF IInv

LEMMA AbortStep ==
    ASSUME IInv, Abort
    PROVE  IInv'
<1>1. state.stopped /\ TerminalFailure \in Failures /\ writer.cur \in Requests /\ writer.pc = "abort"
  BY DEF Abort, IInv, StopInv, WriterInv, TerminalFailure, Types, TypeOK, Failures
<1>2. TerminalFailure \in Outcomes \ {"none"} /\ TerminalFailure # "ok"
  BY <1>1 DEF Failures, Outcomes
<1> QED
  BY <1>1, <1>2, WriterFinishes DEF Abort

LEMMA FinishWriteStep ==
    ASSUME IInv, FinishWrite
    PROVE  IInv'
<1>1. CASE writer.pc = "wrote"
  <2>1. In(writer.cur, wire) /\ writer.cur \in Requests /\ Finish(writer.cur, "ok") /\ "ok" \in Outcomes \ {"none"}
        /\ writer' = [writer EXCEPT !.pc = "clear"] /\ UNCHANGED <<channel, state, closer, admitted, wire>>
    BY <1>1 DEF FinishWrite, IInv, WriterInv, Outcomes
  <2> QED
    BY <1>1, <2>1, WriterFinishes
<1>2. CASE writer.pc = "failed"
  <2>1. ~In(writer.cur, wire) /\ writer.cur \in Requests /\ writer.failure \in Failures
        /\ Finish(writer.cur, writer.failure)
        /\ writer' = [writer EXCEPT !.pc = "clearFailed"] /\ UNCHANGED <<channel, state, closer, admitted, wire>>
    BY <1>2 DEF FinishWrite, IInv, WriterInv
  <2>2. writer.failure \in Outcomes \ {"none"} /\ writer.failure # "ok"
    BY <2>1 DEF Outcomes, Failures
  <2> QED
    BY <1>2, <2>1, <2>2, WriterFinishes
<1> QED
  BY <1>1, <1>2 DEF FinishWrite

\* A message that is written comes after all that is on the wire and before all
\* that is in the channel.
LEMMA WriteEndsStep ==
    ASSUME IInv, WriteEnds
    PROVE  IInv'
<1>1. /\ Types /\ OrderInv /\ WriterInv /\ StopInv
      /\ writer.pc = "writing" /\ Pending /\ writer.cur \in Requests
      /\ UNCHANGED <<channel, state, req, closer, admitted>>
      /\ writer \in [pc : WriterPcs, cur : Requests \cup {None}, failure : Outcomes, cancelled : BOOLEAN]
      /\ wire \in Seq(Requests)
  BY DEF IInv, Types, WriteEnds, WriterInv, Pending
<1> DEFINE c == writer.cur
<1>2. /\ In(c, admitted)
      /\ \A n \in DOMAIN wire : Earlier(admitted, wire[n], c)
      /\ \A n \in DOMAIN channel.buffer : Earlier(admitted, c, channel.buffer[n])
      /\ \A n \in DOMAIN channel.blocked : Earlier(admitted, c, channel.blocked[n])
  BY <1>1 DEF WriterInv
<1>3. CASE writer' = [writer EXCEPT !.pc = "wrote"] /\ wire' = Append(wire, c)
  <2> HIDE DEF c
  <2>1. /\ wire' \in Seq(Requests) /\ DOMAIN wire = 1..Len(wire) /\ DOMAIN wire' = 1..(Len(wire) + 1)
        /\ \A n \in DOMAIN wire : wire'[n] = wire[n]
        /\ wire'[Len(wire) + 1] = c /\ Len(wire) \in Nat
    BY <1>1, <1>3, AppendFacts DEF c
  <2>2. \A n \in DOMAIN wire' : (n \in DOMAIN wire /\ wire'[n] = wire[n]) \/ (n = Len(wire) + 1 /\ wire'[n] = c)
    BY <2>1
  <2>3. /\ writer' \in [pc : WriterPcs, cur : Requests \cup {None}, failure : Outcomes, cancelled : BOOLEAN]
        /\ writer'.pc = "wrote" /\ writer'.cur = c
    BY <1>1, <1>3 DEF WriterPcs, c
  <2>4. Types'
    BY <1>1, <2>1, <2>3 DEF Types, TypeOK
  <2>5. OrderInv'
    <3>1. \A n \in DOMAIN wire' : In(wire'[n], admitted)
      BY <1>1, <1>2, <2>2 DEF OrderInv
    <3>2. Ordered(admitted, wire')
      <4> SUFFICES ASSUME NEW m \in DOMAIN wire', NEW n \in DOMAIN wire', m < n
                   PROVE  Earlier(admitted, wire'[m], wire'[n])
        BY DEF Ordered
      <4>1. m \in DOMAIN wire /\ wire'[m] = wire[m]
        BY <2>1
      <4> QED
        BY <1>1, <1>2, <2>2, <4>1 DEF OrderInv, Ordered
    <3>3. Ahead(admitted, wire', channel.buffer) /\ Ahead(admitted, wire', channel.blocked)
      BY <1>1, <1>2, <2>2 DEF OrderInv, Ahead
    <3> QED
      BY <1>1, <3>1, <3>2, <3>3 DEF OrderInv
  <2>6. In(c, wire') /\ \A x : In(x, wire) => In(x, wire')
    BY <2>1 DEF In
  <2>7. WriterInv'
    BY <1>1, <2>3, <2>6 DEF WriterInv, Pending, c
  <2>8. StopInv'
    BY <1>1, <2>3 DEF StopInv
  <2>9. ResultInv'
    BY <1>1, <2>3, <2>6, ResultStep DEF Bad
  <2> QED
    BY <2>4, <2>5, <2>7, <2>8, <2>9 DEF IInv
<1>4. CASE /\ writer' = [writer EXCEPT !.pc = "failed", !.failure = IF writer.cancelled THEN "cancelled" ELSE "failed"]
           /\ UNCHANGED wire
  <2>1. PICK f \in Failures : writer' = [writer EXCEPT !.pc = "failed", !.failure = f]
    BY <1>4 DEF Failures
  <2>2. /\ writer' \in [pc : WriterPcs, cur : Requests \cup {None}, failure : Outcomes, cancelled : BOOLEAN]
        /\ writer'.pc = "failed" /\ writer'.cur = c /\ writer'.failure \in Failures
    BY <1>1, <2>1 DEF WriterPcs, Failures, Outcomes
  <2>3. ~In(c, wire)
    BY <1>1, <1>2, EarlierFacts DEF In
  <2>4. WriterInv'
    BY <1>1, <1>4, <2>2, <2>3 DEF WriterInv, Pending, In
  <2>5. /\ state' \in [stopped : BOOLEAN, terminal : {"none"} \cup Failures, active : Requests \cup {None}]
        /\ state'.stopped = state.stopped
    BY <1>1 DEF Types, TypeOK
  <2> QED
    BY <1>1, <1>4, <2>2, <2>4, <2>5, WriterStep
<1> QED
  BY <1>3, <1>4 DEF WriteEnds

-----------------------------------------------------------------------------
(* stop().                                                                 *)

\* A caller of stop() moves to pc.
LEMMA CloserGoes ==
    ASSUME Types, NEW t \in Closers, NEW pc \in {"idle", "record", "close", "cancel", "finish", "drain", "done"},
           closer' = [closer EXCEPT ![t].pc = pc]
    PROVE  /\ closer' \in [Closers -> CloserType]
           /\ \A x \in Closers : x # t => closer'[x] = closer[x]
           /\ closer'[t].pc = pc /\ closer'[t].failure = closer[t].failure
<1> DEFINE q == [closer[t] EXCEPT !.pc = pc]
<1>1. closer' = [closer EXCEPT ![t] = q] /\ closer[t] \in CloserType /\ closer \in [Closers -> CloserType]
  BY DEF Types, TypeOK
<1>2. q \in CloserType /\ q.pc = pc /\ q.failure = closer[t].failure
  BY <1>1 DEF CloserType
<1> HIDE DEF q
<1> QED
  BY <1>1, <1>2

\* Once the queue is stopped, the callers of stop() and the requests may go
\* where they like, as long as nobody is told "ok".
LEMMA StoppedStep ==
    ASSUME IInv, state'.stopped, Types', OrderInv', UNCHANGED wire, writer'.pc = writer.pc, WriterInv',
           \A x \in Closers : closer'[x].pc \notin {"idle", "done"} => closer'[x].failure \in Failures,
           \A x \in Requests :
              /\ req'[x].outcome = "ok" => req[x].outcome = "ok"
              /\ req'[x].pc = "done" => req[x].pc = "done" /\ req'[x].result = req[x].result
    PROVE  IInv'
<1>1. StopInv'
  BY DEF StopInv
<1>2. ResultInv'
  <2>1. \A x \in Requests : In(x, wire') <=> In(x, wire)
    BY DEF In
  <2> QED
    BY <2>1 DEF IInv, ResultInv
<1> QED
  BY <1>1, <1>2 DEF IInv

LEMMA StopStep ==
    ASSUME IInv, NEW t \in Closers, Stop(t)
    PROVE  IInv'
<1>1. /\ Types /\ StopInv /\ WriterInv /\ UNCHANGED <<channel, req, admitted, wire>> /\ closer[t].pc = "idle"
      /\ writer \in [pc : WriterPcs, cur : Requests \cup {None}, failure : Outcomes, cancelled : BOOLEAN]
      /\ state \in [stopped : BOOLEAN, terminal : {"none"} \cup Failures, active : Requests \cup {None}]
      /\ closer \in [Closers -> CloserType]
  BY DEF IInv, Types, TypeOK, Stop
<1>2. /\ writer' \in [pc : WriterPcs, cur : Requests \cup {None}, failure : Outcomes, cancelled : BOOLEAN]
      /\ writer'.pc \in {writer.pc, "exited"} /\ writer'.cur = writer.cur /\ writer'.failure = writer.failure
      /\ writer'.pc = writer.pc \/ writer.pc = "stop"
  <2>1. CASE t = Writer
    <3>1. writer' = [writer EXCEPT !.pc = "exited"] /\ writer.pc = "stop"
      BY <2>1 DEF Stop
    <3> QED
      BY <1>1, <3>1 DEF WriterPcs
  <2>2. CASE t # Writer
    BY <1>1, <2>2 DEF Stop
  <2> QED
    BY <2>1, <2>2
<1>3. /\ state' \in [stopped : BOOLEAN, terminal : {"none"} \cup Failures, active : Requests \cup {None}]
      /\ state'.stopped
  <2>1. CASE state.stopped
    BY <1>1, <2>1 DEF Stop
  <2>2. CASE ~state.stopped
    <3>1. state' = [state EXCEPT !.stopped = TRUE]
      BY <2>2 DEF Stop
    <3> QED
      BY <1>1, <3>1
  <2> QED
    BY <2>1, <2>2
<1>4. /\ closer' \in [Closers -> CloserType]
      /\ \A x \in Closers : closer'[x].pc \notin {"idle", "done"} => closer'[x].failure \in Failures
  <2>1. CASE state.stopped
    <3>1. closer' = [closer EXCEPT ![t].pc = "done"]
      BY <2>1 DEF Stop
    <3>2. /\ closer' \in [Closers -> CloserType]
          /\ \A x \in Closers : x # t => closer'[x] = closer[x]
          /\ closer'[t].pc = "done"
      BY <1>1, <3>1, CloserGoes
    <3> QED
      BY <1>1, <3>2 DEF StopInv
  <2>2. CASE ~state.stopped
    <3> DEFINE f == IF t = Writer THEN writer.failure ELSE "cancelled"
               q == [closer[t] EXCEPT !.pc = "record", !.failure = f]
    <3>1. f \in Failures /\ f \in Outcomes
      BY <1>1 DEF Stop, WriterInv, Failures, Outcomes
    <3>2. closer' = [closer EXCEPT ![t].pc = "record", ![t].failure = f]
      BY <2>2 DEF Stop
    <3> HIDE DEF f
    <3>3. closer' = [closer EXCEPT ![t] = q] /\ closer[t] \in CloserType
      BY <1>1, <3>2 DEF CloserType
    <3>4. q \in CloserType /\ q.failure = f
      BY <3>1, <3>3 DEF CloserType
    <3> HIDE DEF q
    <3>5. /\ closer' \in [Closers -> CloserType] /\ closer'[t] = q
          /\ \A x \in Closers : x # t => closer'[x] = closer[x]
      BY <1>1, <3>3, <3>4
    <3> QED
      BY <1>1, <3>1, <3>4, <3>5 DEF StopInv
  <2> QED
    BY <2>1, <2>2
<1>5. Types'
  BY <1>1, <1>2, <1>3, <1>4 DEF Types, TypeOK
<1>6. OrderInv'
  BY <1>1, OrderKept DEF IInv
<1>7. WriterInv'
  <2>1. CASE writer'.pc = writer.pc
    BY <1>1, <1>2, <2>1, WriterKept
  <2>2. CASE writer'.pc = "exited"
    BY <2>2 DEF WriterInv, Pending
  <2> QED
    BY <1>2, <2>1, <2>2
<1>8. StopInv'
  BY <1>3, <1>4 DEF StopInv
<1>9. ResultInv'
  BY <1>1, <1>3, ResultStep DEF Bad
<1> QED
  BY <1>5, <1>6, <1>7, <1>8, <1>9 DEF IInv

\* The steps of stop() that leave the channel and the requests alone.
LEMMA StopQuietStep ==
    ASSUME IInv, NEW t \in Closers, StopRecord(t) \/ StopCancel(t)
    PROVE  IInv'
<1>1. /\ Types /\ StopInv /\ WriterInv /\ UNCHANGED <<channel, req, admitted, wire>>
      /\ writer \in [pc : WriterPcs, cur : Requests \cup {None}, failure : Outcomes, cancelled : BOOLEAN]
      /\ state \in [stopped : BOOLEAN, terminal : {"none"} \cup Failures, active : Requests \cup {None}]
      /\ closer \in [Closers -> CloserType] /\ closer[t] \in CloserType
      /\ state.stopped /\ closer[t].failure \in Failures
  BY DEF IInv, Types, TypeOK, StopInv, StopRecord, StopCancel
<1>2. /\ writer' \in [pc : WriterPcs, cur : Requests \cup {None}, failure : Outcomes, cancelled : BOOLEAN]
      /\ writer'.pc = writer.pc /\ writer'.cur = writer.cur /\ writer'.failure = writer.failure
  BY <1>1 DEF StopRecord, StopCancel
<1>3. /\ state' \in [stopped : BOOLEAN, terminal : {"none"} \cup Failures, active : Requests \cup {None}]
      /\ state'.stopped
  BY <1>1 DEF StopRecord, StopCancel
<1>4. /\ closer' \in [Closers -> CloserType]
      /\ \A x \in Closers : x # t => closer'[x] = closer[x]
      /\ closer'[t].failure = closer[t].failure
  <2>1. CASE StopRecord(t)
    <3> DEFINE q == [closer[t] EXCEPT !.pc = "close", !.active = state.active]
    <3>1. closer' = [closer EXCEPT ![t] = q]
      BY <1>1, <2>1 DEF StopRecord, CloserType
    <3>2. q \in CloserType /\ q.failure = closer[t].failure
      BY <1>1 DEF CloserType
    <3> HIDE DEF q
    <3> QED
      BY <1>1, <3>1, <3>2
  <2>2. CASE StopCancel(t)
    BY <1>1, <2>2, CloserGoes DEF StopCancel
  <2> QED
    BY <2>1, <2>2
<1>5. Types'
  BY <1>1, <1>2, <1>3, <1>4 DEF Types, TypeOK
<1>6. OrderInv' /\ WriterInv'
  BY <1>1, <1>2, OrderKept, WriterKept DEF IInv
<1>7. \A x \in Closers : closer'[x].pc \notin {"idle", "done"} => closer'[x].failure \in Failures
  BY <1>1, <1>4 DEF StopInv
<1> QED
  BY <1>1, <1>2, <1>3, <1>5, <1>6, <1>7, StoppedStep

\* close(): the senders that wait for room stay, or fail and are gone.
LEMMA StopCloseStep ==
    ASSUME IInv, NEW t \in Closers, StopClose(t)
    PROVE  IInv'
<1>1. /\ Types /\ OrderInv /\ StopInv /\ WriterInv /\ UNCHANGED <<state, writer, admitted, wire>>
      /\ channel \in [buffer : Seq(Requests), blocked : Seq(Requests), closed : BOOLEAN]
      /\ req \in [Requests -> RequestType]
      /\ state.stopped /\ closer[t].failure \in Failures
  BY DEF IInv, Types, TypeOK, StopInv, StopClose
<1>2. /\ closer' \in [Closers -> CloserType]
      /\ \A x \in Closers : closer'[x].pc \notin {"idle", "done"} => closer'[x].failure \in Failures
  BY <1>1, CloserGoes DEF StopClose, StopInv
<1>3. CASE channel' = [channel EXCEPT !.closed = TRUE] /\ UNCHANGED req
  <2>1. /\ channel' \in [buffer : Seq(Requests), blocked : Seq(Requests), closed : BOOLEAN]
        /\ channel'.buffer = channel.buffer /\ channel'.blocked = channel.blocked
    BY <1>1, <1>3
  <2>2. Types'
    BY <1>1, <1>2, <1>3, <2>1 DEF Types, TypeOK
  <2>3. OrderInv' /\ WriterInv'
    BY <1>1, <1>3, <2>1, OrderKept, WriterKept
  <2> QED
    BY <1>1, <1>2, <1>3, <2>2, <2>3, StoppedStep
<1>4. CASE /\ channel' = [channel EXCEPT !.closed = TRUE, !.blocked = <<>>]
           /\ req' = [r \in Requests |-> IF r \in ToSet(channel.blocked)
                                         THEN [req[r] EXCEPT !.pc = "refused"] ELSE req[r]]
  <2>1. <<>> \in Seq(Requests) /\ DOMAIN <<>> = {}
    OBVIOUS
  <2>2. /\ channel' \in [buffer : Seq(Requests), blocked : Seq(Requests), closed : BOOLEAN]
        /\ channel'.buffer = channel.buffer /\ channel'.blocked = <<>>
    BY <1>1, <1>4, <2>1
  <2>3. ASSUME NEW r \in Requests
        PROVE  /\ req'[r] \in RequestType
               /\ req'[r].outcome = req[r].outcome /\ req'[r].result = req[r].result
               /\ req'[r].pc \in {req[r].pc, "refused"}
    <3>1. req[r] \in RequestType /\ req'[r] \in {req[r], [req[r] EXCEPT !.pc = "refused"]}
      BY <1>1, <1>4
    <3> QED
      BY <3>1 DEF RequestType
  <2>4. req' \in [Requests -> RequestType]
    BY <1>4, <2>3
  <2>5. Types'
    BY <1>1, <1>2, <2>2, <2>4 DEF Types, TypeOK
  <2>6. OrderInv'
    BY <1>1, <2>1, <2>2, <2>3 DEF OrderInv, Ordered, Ahead
  <2>7. WriterInv'
    BY <1>1, <2>1, <2>2 DEF WriterInv, Pending
  <2> QED
    BY <1>1, <1>2, <2>3, <2>5, <2>6, <2>7, StoppedStep
<1> QED
  BY <1>3, <1>4 DEF StopClose

LEMMA StopFinishActiveStep ==
    ASSUME IInv, NEW t \in Closers, StopFinishActive(t)
    PROVE  IInv'
<1>1. /\ Types /\ StopInv /\ UNCHANGED <<channel, state, writer, admitted, wire>>
      /\ req \in [Requests -> RequestType] /\ closer[t] \in CloserType
      /\ state.stopped /\ closer[t].failure \in Failures
  BY DEF IInv, Types, TypeOK, StopInv, StopFinishActive
<1>2. /\ closer' \in [Closers -> CloserType]
      /\ \A x \in Closers : closer'[x].pc \notin {"idle", "done"} => closer'[x].failure \in Failures
  BY <1>1, CloserGoes DEF StopFinishActive, StopInv
<1>3. /\ req' \in [Requests -> RequestType]
      /\ \A x \in Requests : req'[x].pc = req[x].pc /\ req'[x].result = req[x].result
      /\ \A x \in Requests : req'[x].outcome = "ok" => req[x].outcome = "ok"
  <2>1. CASE closer[t].active = None
    BY <1>1, <2>1 DEF StopFinishActive
  <2>2. CASE closer[t].active # None
    <3>1. closer[t].active \in Requests /\ closer[t].failure \in Outcomes /\ closer[t].failure # "ok"
      BY <1>1, <2>2 DEF CloserType, Failures
    <3>2. req' \in [Requests -> RequestType] /\ Decided(req', closer[t].active, closer[t].failure)
      BY <1>1, <2>2, <3>1, FinishFacts DEF StopFinishActive, Finish
    <3> QED
      BY <3>1, <3>2 DEF Decided
  <2> QED
    BY <2>1, <2>2
<1>4. Types'
  BY <1>1, <1>2, <1>3 DEF Types, TypeOK
<1>5. OrderInv' /\ WriterInv'
  BY <1>1, <1>3, OrderKept, WriterKept DEF IInv
<1> QED
  BY <1>1, <1>2, <1>3, <1>4, <1>5, StoppedStep

LEMMA DrainStep ==
    ASSUME IInv, NEW t \in Closers, Drain(t)
    PROVE  IInv'
<1>1. /\ Types /\ OrderInv /\ WriterInv /\ StopInv /\ UNCHANGED <<state, writer, admitted, wire>>
      /\ req \in [Requests -> RequestType] /\ closer[t] \in CloserType
      /\ state.stopped /\ closer[t].failure \in Failures
  BY DEF IInv, Types, TypeOK, StopInv, Drain
<1>2. CASE channel.buffer = <<>> /\ closer' = [closer EXCEPT ![t].pc = "done"] /\ UNCHANGED <<req, channel>>
  <2>1. /\ closer' \in [Closers -> CloserType]
        /\ \A x \in Closers : closer'[x].pc \notin {"idle", "done"} => closer'[x].failure \in Failures
    BY <1>1, <1>2, CloserGoes DEF StopInv
  <2>2. Types'
    BY <1>1, <1>2, <2>1 DEF Types, TypeOK
  <2>3. OrderInv' /\ WriterInv'
    BY <1>1, <1>2, OrderKept, WriterKept
  <2> QED
    BY <1>1, <1>2, <2>1, <2>2, <2>3, StoppedStep
<1>3. CASE /\ channel.buffer # <<>>
           /\ req' = Unblocked([req EXCEPT ![Head(channel.buffer)].outcome =
                                  IF @ = "none" THEN closer[t].failure ELSE @])
           /\ channel' = Shifted
           /\ UNCHANGED closer
  <2> DEFINE h == Head(channel.buffer)
             f == [req EXCEPT ![h].outcome = IF @ = "none" THEN closer[t].failure ELSE @]
  <2>1. /\ channel' \in [buffer : Seq(Requests), blocked : Seq(Requests), closed : BOOLEAN]
        /\ channel'.closed = channel.closed /\ Len(channel'.buffer) <= Capacity
        /\ h \in Requests
    BY <1>1, <1>3, ShiftFacts
  <2>2. closer[t].failure \in Outcomes /\ closer[t].failure # "ok" /\ req' = Unblocked(f)
    BY <1>1, <1>3 DEF CloserType, Failures
  <2>3. f \in [Requests -> RequestType] /\ Decided(f, h, closer[t].failure)
    BY <1>1, <2>1, <2>2, FinishFacts
  <2> HIDE DEF f
  <2>4. /\ req' \in [Requests -> RequestType]
        /\ \A x \in Requests : req'[x].outcome = f[x].outcome /\ req'[x].result = f[x].result
        /\ \A x \in Requests : req'[x].pc = f[x].pc \/ req'[x].pc = "await"
    BY <1>1, <2>2, <2>3, UnblockFacts
  <2>5. \A x \in Requests : /\ req'[x].outcome = "ok" => req[x].outcome = "ok"
                            /\ req'[x].result = req[x].result
                            /\ req'[x].pc \in {req[x].pc, "await"}
    BY <2>2, <2>3, <2>4 DEF Decided
  <2>6. OrderInv'
    BY <1>1, <1>3, <2>5, ShiftOrder
  <2>7. Pending =>
           /\ \A n \in DOMAIN channel'.buffer : Earlier(admitted, writer.cur, channel'.buffer[n])
           /\ \A n \in DOMAIN channel'.blocked : Earlier(admitted, writer.cur, channel'.blocked[n])
    BY <1>1, <1>3, <2>5, ShiftOrder DEF WriterInv
  <2>8. WriterInv'
    BY <1>1, <2>7 DEF WriterInv, Pending
  <2>9. Types'
    BY <1>1, <1>3, <2>1, <2>4 DEF Types, TypeOK
  <2> QED
    BY <1>1, <1>3, <2>5, <2>6, <2>8, <2>9, StoppedStep DEF StopInv
<1> QED
  BY <1>2, <1>3 DEF Drain

-----------------------------------------------------------------------------
(* The theorems.                                                           *)

LEMMA InitEstablishes == Init => IInv
<1> SUFFICES ASSUME Init PROVE IInv
  OBVIOUS
<1>1. <<>> \in Seq(Requests) /\ Len(<<>>) = 0 /\ DOMAIN <<>> = {}
  OBVIOUS
<1>2. Types
  <2>1. channel \in [buffer : Seq(Requests), blocked : Seq(Requests), closed : BOOLEAN] /\ Len(channel.buffer) <= Capacity
    BY <1>1 DEF Init
  <2>2. writer \in [pc : WriterPcs, cur : Requests \cup {None}, failure : Outcomes, cancelled : BOOLEAN]
    BY DEF Init, WriterPcs, Outcomes
  <2>3. state \in [stopped : BOOLEAN, terminal : {"none"} \cup Failures, active : Requests \cup {None}]
    BY DEF Init
  <2>4. req \in [Requests -> RequestType]
    BY DEF Init, RequestType, Outcomes
  <2>5. closer \in [Closers -> CloserType]
    BY DEF Init, CloserType, Outcomes
  <2> QED
    BY <1>1, <2>1, <2>2, <2>3, <2>4, <2>5 DEF Types, TypeOK, Init
<1>3. OrderInv
  BY <1>1 DEF Init, OrderInv, Ordered, Ahead, In
<1>4. WriterInv /\ StopInv
  BY DEF Init, WriterInv, Pending, StopInv
<1>5. ResultInv
  BY DEF Init, ResultInv, Bad, Failures
<1> QED
  BY <1>2, <1>3, <1>4, <1>5 DEF IInv

LEMMA StutterKeeps ==
    ASSUME IInv, UNCHANGED vars
    PROVE  IInv'
<1>1. Types' /\ StopInv'
  BY DEF IInv, vars, Types, TypeOK, StopInv
<1>2. OrderInv' /\ WriterInv'
  BY OrderKept, WriterKept DEF IInv, vars
<1>3. ResultInv'
  BY ResultStep DEF vars, Bad
<1> QED
  BY <1>1, <1>2, <1>3 DEF IInv

\* The inductive step: every step of a sender, of the writer and of a caller of
\* stop() keeps the invariant.
THEOREM NextKeepsInvariant == IInv /\ [Next]_vars => IInv'
<1> SUFFICES ASSUME IInv, [Next]_vars PROVE IInv'
  OBVIOUS
<1>1. CASE \E r \in Requests : Send(r) \/ SenderSteps(r)
  BY <1>1, SendStep, PushStep DEF SenderSteps
<1>2. CASE WriterSteps
  <2>1. Writer \in Closers
    BY DEF Closers
  <2> QED
    BY <1>2, <2>1, ReceiveStep, HandStep, AbortStep, FinishWriteStep, ClearActiveStep, StopStep DEF WriterSteps
<1>3. CASE WriteEnds
  BY <1>3, WriteEndsStep
<1>4. CASE \E t \in Stoppers : Stop(t)
  BY <1>4, StopStep DEF Closers
<1>5. CASE \E t \in Closers : CloserSteps(t)
  BY <1>5, StopQuietStep, StopCloseStep, StopFinishActiveStep, DrainStep DEF CloserSteps
<1>6. CASE UNCHANGED vars
  BY <1>6, StutterKeeps
<1> QED
  BY <1>1, <1>2, <1>3, <1>4, <1>5, <1>6 DEF Next

\* The inductive invariant holds in every behaviour of the write queue.
THEOREM InvariantHolds == Spec => []IInv
BY InitEstablishes, NextKeepsInvariant, PTL DEF Spec

\* Types, and the channel never buffers more than its capacity: shifting a waiting
\* sender into the buffer cannot overfill it.
THEOREM TypeCorrect == Spec => []TypeOK
<1>1. IInv => TypeOK
  BY DEF IInv, Types
<1> QED
  BY <1>1, InvariantHolds, PTL

\* The position of an admitted request is its only one.
LEMMA PositionFacts ==
    ASSUME IInv, NEW n \in DOMAIN admitted
    PROVE  Position(admitted[n]) = n
BY DEF IInv, OrderInv, Position

\* Messages reach the transport in the order the channel admitted them, each at most
\* once, and a sender hears "ok" only of a message that was written: for any number
\* of senders, of callers of stop() and any capacity.
THEOREM WireIsFaithful == Spec => []FaithfulWire
<1>1. ASSUME IInv PROVE FaithfulWire
  <2>1. ASSUME NEW m \in DOMAIN wire, NEW n \in DOMAIN wire, m < n
        PROVE  Position(wire[m]) < Position(wire[n])
    <3>1. PICK i, j \in DOMAIN admitted : i < j /\ admitted[i] = wire[m] /\ admitted[j] = wire[n]
      BY <1>1, <2>1 DEF IInv, OrderInv, Ordered, Earlier
    <3> QED
      BY <1>1, <3>1, PositionFacts
  <2>2. \A r : r \in ToSet(wire) <=> In(r, wire)
    BY DEF ToSet, In
  <2>3. HonestResults
    BY <1>1, <2>2 DEF HonestResults, IInv, ResultInv, Bad, WriterInv
  <2> QED
    BY <2>1, <2>3 DEF FaithfulWire
<1> QED
  BY <1>1, InvariantHolds, PTL

-----------------------------------------------------------------------------
(* Actions, the clients and their reconnections.                           *)

USE ActionsAssumption

-----------------------------------------------------------------------------
(* The inductive invariant.                                                *)

\* An action has at most one owner: the table, or the one thread that took it out;
\* it is finished when nobody owns it any more, by the one that did.
OwnerInv ==
    /\ \A e \in Actions :
        /\ act[e].completions = IF act[e].outcome = "none" THEN 0 ELSE 1
        /\ act[e].pc = "idle" => act[e].outcome = "none" /\ e \notin table
        /\ act[e].outcome # "none" => e \notin table
    /\ \A t \in Threads : \A e \in hand[t].acts :
        act[e].pc # "idle" /\ act[e].outcome = "none" /\ e \notin table
    /\ \A s, t \in Threads : s # t => hand[s].acts \cap hand[t].acts = {}

\* Only the newest client is live, and it closes only because of disconnect().
ClientInv ==
    /\ \A n \in Clients : n > current => client[n] = "none"
    /\ \A n \in Clients : Live(n) => n = current
    /\ \A n \in Clients : client[n] = "closing" => main # "running"
    /\ posted.close # 0 => main # "running"

Failing == io.pc \in {"snapshot", "failEach"}
SomeLive == \E n \in Clients : Live(n)
SomeLeft == \E n \in Clients : client[n] = "left"

\* The places a reconnection can be at exclude one another.
ChainInv ==
    /\ ~(Failing /\ timer # "off") /\ ~(Failing /\ posted.connect) /\ ~(Failing /\ SomeLive)
    /\ ~(timer # "off" /\ posted.connect) /\ ~(timer # "off" /\ SomeLive)
    /\ ~(posted.connect /\ SomeLive)
    /\ main = "running" => Failing \/ timer # "off" \/ posted.connect \/ SomeLive \/ SomeLeft

ActionsInv == ActionsTypeOK /\ OwnerInv /\ ClientInv /\ ChainInv

LEMMA InitInv == ActionsInit => ActionsInv
<1> SUFFICES ASSUME ActionsInit PROVE ActionsInv
  OBVIOUS
<1> USE DEF ActionsInit
<1>1. ActionsTypeOK
  BY DEF ActionsTypeOK, ActionType, Statuses, Empty, Clients, ClientStates
<1>2. OwnerInv
  BY DEF OwnerInv, Empty
<1>3. ClientInv /\ ChainInv
  BY DEF ClientInv, ChainInv, Live, SomeLive, Failing, Clients
<1> QED
  BY <1>1, <1>2, <1>3 DEF ActionsInv

-----------------------------------------------------------------------------
(* What a step does to the state of an action.                             *)

\* The steps that leave the outcome of every action as it is.
KeepsOutcome ==
    \A e \in Actions : act'[e].outcome = act[e].outcome /\ act'[e].completions = act[e].completions
                       /\ (act'[e].pc = "idle" => act[e].pc = "idle")

LEMMA ActUpdate ==
    ASSUME ActionsTypeOK, NEW e \in Actions, NEW r \in ActionType, act' = [act EXCEPT ![e] = r],
           r.outcome = act[e].outcome, r.completions = act[e].completions,
           r.pc = "idle" => act[e].pc = "idle"
    PROVE  act' \in [Actions -> ActionType] /\ KeepsOutcome
           /\ act'[e] = r /\ \A f \in Actions : f # e => act'[f] = act[f]
BY DEF ActionsTypeOK, KeepsOutcome

\* Goto only moves the coroutine.
LEMMA GotoFacts ==
    ASSUME ActionsTypeOK, NEW e \in Actions, NEW pc \in {"arm", "spawned", "sending", "threw", "wait", "done"},
           Goto(e, pc)
    PROVE  act' \in [Actions -> ActionType] /\ KeepsOutcome
           /\ act'[e].pc = pc /\ \A f \in Actions : f # e => act'[f] = act[f]
<1> DEFINE r == [act[e] EXCEPT !.pc = pc]
<1>1. act[e] \in ActionType
  BY DEF ActionsTypeOK
<1>2. act' = [act EXCEPT ![e] = r]
  BY <1>1 DEF Goto, ActionsTypeOK, ActionType
<1>3. r \in ActionType /\ r.outcome = act[e].outcome /\ r.completions = act[e].completions /\ r.pc = pc
  BY <1>1 DEF ActionType
<1> HIDE DEF r
<1> QED
  BY <1>2, <1>3, ActUpdate

\* A step that gives nobody a new action and finishes none.
LEMMA OwnerKept ==
    ASSUME ActionsTypeOK, OwnerInv, KeepsOutcome, UNCHANGED <<table, hand>>
    PROVE  OwnerInv'
BY DEF ActionsTypeOK, OwnerInv, KeepsOutcome

\* Take moves an action from the table to a thread and leaves the rest of the table.
LEMMA TakeFacts ==
    ASSUME ActionsTypeOK, OwnerInv, NEW t \in Threads, NEW e \in Actions, NEW status \in Statuses,
           Take(t, e, status), KeepsOutcome, act' \in [Actions -> ActionType]
    PROVE  /\ OwnerInv'
           /\ table' \subseteq Actions
           /\ hand' \in [Threads -> [acts : SUBSET Actions, status : Statuses]]
<1> DEFINE r == IF e \in table THEN [acts |-> {e}, status |-> status] ELSE hand[t]
<1>1. hand' = [hand EXCEPT ![t] = r] /\ table' = table \ {e}
  BY DEF Take, ActionsTypeOK
<1>2. r \in [acts : SUBSET Actions, status : Statuses]
      /\ ((r.acts = {e} /\ e \in table) \/ (r.acts = hand[t].acts /\ e \notin table))
  BY DEF ActionsTypeOK
<1> HIDE DEF r
<1>3. hand' \in [Threads -> [acts : SUBSET Actions, status : Statuses]]
      /\ hand'[t] = r /\ \A s \in Threads : s # t => hand'[s] = hand[s]
  BY <1>1, <1>2 DEF ActionsTypeOK
<1>4. table' \subseteq Actions
  BY <1>1 DEF ActionsTypeOK
<1>5. \A f \in Actions :
        /\ act'[f].completions = IF act'[f].outcome = "none" THEN 0 ELSE 1
        /\ act'[f].pc = "idle" => act'[f].outcome = "none" /\ f \notin table'
        /\ act'[f].outcome # "none" => f \notin table'
  BY <1>1 DEF OwnerInv, KeepsOutcome
<1>6. \A s \in Threads : \A f \in hand'[s].acts :
        act'[f].pc # "idle" /\ act'[f].outcome = "none" /\ f \notin table'
  BY <1>1, <1>2, <1>3 DEF OwnerInv, KeepsOutcome, ActionsTypeOK
<1>7. \A s, u \in Threads : s # u => hand'[s].acts \cap hand'[u].acts = {}
  BY <1>2, <1>3 DEF OwnerInv
<1>8. OwnerInv'
  BY <1>5, <1>6, <1>7 DEF OwnerInv
<1> QED
  BY <1>3, <1>4, <1>8

\* What is finished is owned by the thread that finishes it, and was not finished yet.
LEMMA FinishActionStep ==
    ASSUME ActionsInv, NEW t \in Threads, FinishAction(t)
    PROVE  ActionsInv' /\ \A e \in Actions : act[e].outcome # "none" => act'[e] = act[e]
<1> USE DEF ActionsInv
<1>1. PICK e \in hand[t].acts :
        /\ act' = [act EXCEPT
              ![e].deadline = IF @ = "armed" THEN "off" ELSE @,
              ![e].outcome = IF @ = "none" THEN hand[t].status ELSE @,
              ![e].completions = @ + 1,
              ![e].sentOn = 0]
        /\ hand' = [hand EXCEPT ![t] = IF hand[t].acts = {e} THEN Empty
                                        ELSE [hand[t] EXCEPT !.acts = hand[t].acts \ {e}]]
        /\ UNCHANGED <<table, client, current, io, posted, timer, main>>
  BY DEF FinishAction
<1>2. /\ e \in Actions /\ act[e] \in ActionType /\ hand[t] \in [acts : SUBSET Actions, status : Statuses]
      /\ act[e].outcome = "none" /\ act[e].completions = 0 /\ act[e].pc # "idle" /\ e \notin table
  BY DEF ActionsTypeOK, OwnerInv
<1> DEFINE d == IF act[e].deadline = "armed" THEN "off" ELSE act[e].deadline
           st == hand[t].status
           r == [act[e] EXCEPT !.deadline = d, !.outcome = st, !.completions = 1, !.sentOn = 0]
           h == IF hand[t].acts = {e} THEN Empty ELSE [hand[t] EXCEPT !.acts = hand[t].acts \ {e}]
<1>3. act' = [act EXCEPT ![e] = r]
  BY <1>1, <1>2 DEF ActionsTypeOK, ActionType
<1>4. d \in {"none", "armed", "due", "off"} /\ st \in Statuses /\ st \in Statuses \cup {"none"} /\ 1 \in 0..1
  BY <1>2 DEF ActionType
<1> HIDE DEF d, st
<1>5. r \in ActionType /\ r.outcome = st /\ r.completions = 1 /\ r.pc = act[e].pc
  BY <1>2, <1>4 DEF ActionType
<1>6. h \in [acts : SUBSET Actions, status : Statuses] /\ h.acts = hand[t].acts \ {e}
  BY <1>2 DEF Empty, Statuses
<1>7. hand' = [hand EXCEPT ![t] = h]
  BY <1>1
<1> HIDE DEF r, h
<1>8. act' \in [Actions -> ActionType] /\ act'[e] = r /\ \A f \in Actions : f # e => act'[f] = act[f]
  BY <1>2, <1>3, <1>5 DEF ActionsTypeOK
<1>9. hand' \in [Threads -> [acts : SUBSET Actions, status : Statuses]] /\ hand'[t] = h
      /\ \A s \in Threads : s # t => hand'[s] = hand[s]
  BY <1>6, <1>7 DEF ActionsTypeOK
<1>10. ActionsTypeOK'
  BY <1>1, <1>8, <1>9 DEF ActionsTypeOK
<1>11. OwnerInv'
  <2>1. st # "none"
    BY <1>4 DEF Statuses
  <2>2. \A f \in Actions :
        /\ act'[f].completions = IF act'[f].outcome = "none" THEN 0 ELSE 1
        /\ act'[f].pc = "idle" => act'[f].outcome = "none" /\ f \notin table'
        /\ act'[f].outcome # "none" => f \notin table'
    BY <1>1, <1>2, <1>5, <1>8, <2>1 DEF OwnerInv
  <2>3. \A s \in Threads : e \notin hand'[s].acts /\ hand'[s].acts \subseteq hand[s].acts
    BY <1>6, <1>9 DEF OwnerInv
  <2>4. \A s \in Threads : \A f \in hand'[s].acts :
        act'[f].pc # "idle" /\ act'[f].outcome = "none" /\ f \notin table'
    BY <1>1, <1>8, <1>9, <2>3 DEF OwnerInv
  <2>5. \A s, u \in Threads : s # u => hand'[s].acts \cap hand'[u].acts = {}
    BY <2>3 DEF OwnerInv
  <2> QED
    BY <2>2, <2>4, <2>5 DEF OwnerInv
<1>12. ClientInv' /\ ChainInv'
  BY <1>1 DEF ClientInv, ChainInv, Live, SomeLive, SomeLeft, Failing
<1> QED
  BY <1>2, <1>8, <1>10, <1>11, <1>12

-----------------------------------------------------------------------------
(* The coroutine of an action.                                             *)

\* The reconnection is not concerned.
LEMMA ConnectionKept ==
    ASSUME ClientInv, ChainInv, UNCHANGED <<client, current, io, posted, timer, main>>
    PROVE  ClientInv' /\ ChainInv'
BY DEF ClientInv, ChainInv, Live, SomeLive, SomeLeft, Failing

LEMMA CallStep ==
    ASSUME ActionsInv, NEW e \in Actions, Call(e)
    PROVE  ActionsInv' /\ KeepsOutcome
<1> USE DEF ActionsInv
<1>1. act[e].pc = "idle" /\ UNCHANGED <<hand, client, current, io, posted, timer, main>>
  BY DEF Call
<1>2. ClientInv' /\ ChainInv'
  BY <1>1, ConnectionKept
<1>3. CASE Goto(e, "done") /\ UNCHANGED table
  <2>1. act' \in [Actions -> ActionType] /\ KeepsOutcome
    BY <1>3, GotoFacts
  <2>2. OwnerInv'
    BY <1>1, <1>3, <2>1, OwnerKept
  <2> QED
    BY <1>1, <1>2, <1>3, <2>1, <2>2 DEF ActionsTypeOK
<1>4. CASE Goto(e, "arm") /\ table' = table \cup {e}
  <2>1. act' \in [Actions -> ActionType] /\ KeepsOutcome /\ act'[e].pc = "arm"
        /\ \A f \in Actions : f # e => act'[f] = act[f]
    BY <1>4, GotoFacts
  <2>2. act[e].outcome = "none" /\ \A t \in Threads : e \notin hand[t].acts
    BY <1>1 DEF OwnerInv
  <2>3. OwnerInv'
    BY <1>1, <1>4, <2>1, <2>2 DEF OwnerInv, KeepsOutcome, ActionsTypeOK
  <2> QED
    BY <1>1, <1>2, <1>4, <2>1, <2>3 DEF ActionsTypeOK
<1> QED
  BY <1>3, <1>4 DEF Call

\* The steps of an action that move its coroutine or its deadline only.
LEMMA ActionOnly ==
    ASSUME ActionsInv, act' \in [Actions -> ActionType], KeepsOutcome,
           UNCHANGED <<table, hand, client, current, io, posted, timer, main>>
    PROVE  ActionsInv'
<1> USE DEF ActionsInv
<1>1. ActionsTypeOK'
  BY DEF ActionsTypeOK
<1>2. OwnerInv'
  BY OwnerKept
<1> QED
  BY <1>1, <1>2, ConnectionKept

LEMMA ArmStep ==
    ASSUME ActionsInv, NEW e \in Actions, Arm(e)
    PROVE  ActionsInv' /\ KeepsOutcome
<1> DEFINE r == [act[e] EXCEPT !.pc = "spawned", !.deadline = "armed"]
<1>1. act[e] \in ActionType
  BY DEF ActionsInv, ActionsTypeOK
<1>2. act' = [act EXCEPT ![e] = r]
  BY <1>1 DEF Arm, ActionsInv, ActionsTypeOK, ActionType
<1>3. r \in ActionType /\ r.outcome = act[e].outcome /\ r.completions = act[e].completions /\ r.pc = "spawned"
  BY <1>1 DEF ActionType
<1> HIDE DEF r
<1>4. act' \in [Actions -> ActionType] /\ KeepsOutcome
  BY <1>2, <1>3, ActUpdate DEF ActionsInv
<1> QED
  BY <1>4, ActionOnly DEF Arm

LEMMA SendOnStrandStep ==
    ASSUME ActionsInv, NEW e \in Actions, SendOnStrand(e)
    PROVE  ActionsInv' /\ KeepsOutcome
<1>1. act' \in [Actions -> ActionType] /\ KeepsOutcome
  BY GotoFacts DEF SendOnStrand, ActionsInv
<1> QED
  BY <1>1, ActionOnly DEF SendOnStrand

LEMMA FailOwnStep ==
    ASSUME ActionsInv, NEW e \in Actions, FailOwn(e)
    PROVE  ActionsInv' /\ KeepsOutcome
<1> USE DEF ActionsInv
<1>1. act' \in [Actions -> ActionType] /\ KeepsOutcome
  BY GotoFacts DEF FailOwn
<1>2. e \in Threads /\ "TransportFailure" \in Statuses
  BY DEF Threads, Statuses
<1>3. /\ OwnerInv' /\ table' \subseteq Actions
      /\ hand' \in [Threads -> [acts : SUBSET Actions, status : Statuses]]
  BY <1>1, <1>2, TakeFacts DEF FailOwn
<1>4. UNCHANGED <<client, current, io, posted, timer, main>>
  BY DEF FailOwn
<1>5. ActionsTypeOK'
  BY <1>1, <1>3, <1>4 DEF ActionsTypeOK
<1> QED
  BY <1>1, <1>3, <1>4, <1>5, ConnectionKept

LEMMA WaitReturnsStep ==
    ASSUME ActionsInv, NEW e \in Actions, WaitReturns(e)
    PROVE  ActionsInv' /\ KeepsOutcome
<1>1. act' \in [Actions -> ActionType] /\ KeepsOutcome
  BY GotoFacts DEF WaitReturns, ActionsInv
<1> QED
  BY <1>1, ActionOnly DEF WaitReturns

\* The deadline of an action moves.
LEMMA DeadlineFacts ==
    ASSUME ActionsTypeOK, NEW e \in Actions, NEW d \in {"due", "off"}, act' = [act EXCEPT ![e].deadline = d]
    PROVE  act' \in [Actions -> ActionType] /\ KeepsOutcome
<1> DEFINE r == [act[e] EXCEPT !.deadline = d]
<1>1. act[e] \in ActionType
  BY DEF ActionsTypeOK
<1>2. act' = [act EXCEPT ![e] = r]
  BY <1>1 DEF ActionsTypeOK, ActionType
<1>3. r \in ActionType /\ r.outcome = act[e].outcome /\ r.completions = act[e].completions /\ r.pc = act[e].pc
  BY <1>1 DEF ActionType
<1> HIDE DEF r
<1> QED
  BY <1>2, <1>3, ActUpdate

LEMMA DeadlineExpiresStep ==
    ASSUME ActionsInv, NEW e \in Actions, DeadlineExpires(e)
    PROVE  ActionsInv' /\ KeepsOutcome
<1>1. act' \in [Actions -> ActionType] /\ KeepsOutcome
  BY DeadlineFacts DEF DeadlineExpires, ActionsInv
<1> QED
  BY <1>1, ActionOnly DEF DeadlineExpires

\* A handler of the bot's thread takes one action out of the table.
LEMMA IoTakes ==
    ASSUME ActionsInv, NEW e \in Actions, NEW status \in Statuses, Take(Io, e, status),
           act' \in [Actions -> ActionType], KeepsOutcome,
           UNCHANGED <<client, current, io, posted, timer, main>>
    PROVE  ActionsInv'
<1> USE DEF ActionsInv
<1>1. Io \in Threads
  BY DEF Threads
<1>2. /\ OwnerInv' /\ table' \subseteq Actions
      /\ hand' \in [Threads -> [acts : SUBSET Actions, status : Statuses]]
  BY <1>1, TakeFacts
<1>3. ActionsTypeOK'
  BY <1>2 DEF ActionsTypeOK
<1> QED
  BY <1>2, <1>3, ConnectionKept

LEMMA DeadlineHandlerStep ==
    ASSUME ActionsInv, NEW e \in Actions, DeadlineHandler(e)
    PROVE  ActionsInv' /\ KeepsOutcome
<1>1. act' \in [Actions -> ActionType] /\ KeepsOutcome
  BY DeadlineFacts DEF DeadlineHandler, ActionsInv
<1>2. "Timeout" \in Statuses
  BY DEF Statuses
<1> QED
  BY <1>1, <1>2, IoTakes DEF DeadlineHandler

LEMMA ResponseStep ==
    ASSUME ActionsInv, NEW e \in Actions, Response(e)
    PROVE  ActionsInv' /\ KeepsOutcome
<1>1. act' \in [Actions -> ActionType] /\ KeepsOutcome
  BY DEF Response, ActionsInv, ActionsTypeOK, KeepsOutcome
<1>2. "Response" \in Statuses
  BY DEF Statuses
<1> QED
  BY <1>1, <1>2, IoTakes DEF Response

-----------------------------------------------------------------------------
(* Connections.                                                            *)

\* The steps of the connection do not touch the actions.
LEMMA ActionsKept ==
    ASSUME ActionsTypeOK, OwnerInv, UNCHANGED <<table, act, hand>>
    PROVE  OwnerInv' /\ KeepsOutcome
BY DEF OwnerInv, KeepsOutcome

LEMMA DoConnectStep ==
    ASSUME ActionsInv, DoConnect
    PROVE  ActionsInv' /\ KeepsOutcome
<1> USE DEF ActionsInv
<1>1. /\ posted.connect /\ current < MaxClients /\ current' = current + 1
      /\ client' = [client EXCEPT ![current + 1] = "connecting"]
      /\ posted' = [posted EXCEPT !.connect = FALSE]
      /\ UNCHANGED <<table, act, hand, io, timer, main>>
  BY DEF DoConnect
<1>2. current + 1 \in Clients /\ current \in Nat
  BY <1>1 DEF ActionsTypeOK, Clients
<1>3. ~posted'.connect /\ posted'.close = posted.close
  BY <1>1 DEF ActionsTypeOK
<1>4. ActionsTypeOK'
  BY <1>1, <1>2 DEF ActionsTypeOK, ClientStates
<1>5. \A n \in Clients : client'[n] = IF n = current + 1 THEN "connecting" ELSE client[n]
  BY <1>1, <1>2 DEF ActionsTypeOK
<1>6. ~SomeLive /\ ~Failing /\ timer = "off"
  BY <1>1 DEF ChainInv
<1>7. \A n \in Clients : Live(n)' <=> n = current + 1
  BY <1>5, <1>6 DEF Live, SomeLive
<1>8. ClientInv'
  <2>1. \A n \in Clients : n > current' => client'[n] = "none"
    BY <1>1, <1>2, <1>5 DEF ClientInv, Clients
  <2>2. \A n \in Clients : client'[n] = "closing" => main' # "running"
    BY <1>1, <1>5 DEF ClientInv
  <2>3. posted'.close # 0 => main' # "running"
    BY <1>1, <1>3 DEF ClientInv
  <2> QED
    BY <1>1, <1>7, <2>1, <2>2, <2>3 DEF ClientInv
<1>9. ChainInv'
  BY <1>1, <1>2, <1>3, <1>6, <1>7 DEF ChainInv, SomeLive, SomeLeft, Failing
<1> QED
  BY <1>1, <1>4, <1>8, <1>9, ActionsKept

\* A live client goes on to another live state, or ends.
LEMMA ClientUpdate ==
    ASSUME ActionsInv, NEW n \in Clients, NEW c \in {"open", "ended", "closing", "failed", "left"},
           client' = [client EXCEPT ![n] = c], UNCHANGED current,
           c \in {"open", "closing", "failed"} => Live(n),
           c = "closing" => main # "running", UNCHANGED <<main>>,
           posted'.close \in {0, posted.close}, Live(n)
    PROVE  /\ client' \in [Clients -> ClientStates]
           /\ ClientInv'
           /\ SomeLive' <=> c \in {"open", "closing", "failed"}
           /\ SomeLive /\ n = current
<1> USE DEF ActionsInv
<1>1. \A m \in Clients : client'[m] = IF m = n THEN c ELSE client[m]
  BY DEF ActionsTypeOK
<1>2. n = current /\ SomeLive
  BY DEF ClientInv, SomeLive
<1>3. \A m \in Clients : Live(m)' => m = n /\ c \in {"open", "closing", "failed"}
  BY <1>1, <1>2 DEF ClientInv, Live
<1>4. c \in {"open", "closing", "failed"} => Live(n)'
  BY <1>1 DEF Live
<1>5. client' \in [Clients -> ClientStates]
  BY DEF ActionsTypeOK, ClientStates
<1>6. ~(n > current)
  BY <1>2 DEF ActionsTypeOK, Clients
<1>7. ClientInv'
  BY <1>1, <1>2, <1>3, <1>6 DEF ClientInv
<1> QED
  BY <1>2, <1>3, <1>4, <1>5, <1>7 DEF SomeLive

\* The queue stops: sends that were queued throw.
LEMMA SendsThrowFacts ==
    ASSUME ActionsTypeOK, SendsThrow
    PROVE  act' \in [Actions -> ActionType] /\ KeepsOutcome
<1>1. \A e \in Actions : /\ act'[e] \in ActionType
                         /\ act'[e].outcome = act[e].outcome /\ act'[e].completions = act[e].completions
                         /\ act'[e].pc = "idle" => act[e].pc = "idle"
  <2> TAKE e \in Actions
  <2>1. act[e] \in ActionType
    BY DEF ActionsTypeOK
  <2>2. act'[e] = IF act[e].pc = "sending" THEN [act[e] EXCEPT !.pc = "threw"] ELSE act[e]
    BY DEF SendsThrow
  <2> QED
    BY <2>1, <2>2 DEF ActionType
<1> QED
  BY <1>1 DEF SendsThrow, KeepsOutcome

\* A message is written, or the write fails and with it the stream of the client.
LEMMA SendEndsStep ==
    ASSUME ActionsInv, NEW e \in Actions, SendEnds(e)
    PROVE  ActionsInv' /\ KeepsOutcome
<1> USE DEF ActionsInv
<1> DEFINE sent == IF act[e].outcome = "none" THEN current ELSE 0
<1>1. CASE act' = [act EXCEPT ![e].pc = "wait", ![e].sentOn = sent] /\ UNCHANGED client
  <2> DEFINE r == [act[e] EXCEPT !.pc = "wait", !.sentOn = sent]
  <2>1. act[e] \in ActionType /\ sent \in Clients \cup {0}
    BY DEF ActionsTypeOK
  <2> HIDE DEF sent
  <2>2. act' = [act EXCEPT ![e] = r]
    BY <1>1, <2>1 DEF ActionsTypeOK, ActionType
  <2>3. r \in ActionType /\ r.outcome = act[e].outcome /\ r.completions = act[e].completions /\ r.pc = "wait"
    BY <2>1 DEF ActionType
  <2> HIDE DEF r
  <2>4. act' \in [Actions -> ActionType] /\ KeepsOutcome
    BY <2>2, <2>3, ActUpdate
  <2> QED
    BY <1>1, <2>4, ActionOnly DEF SendEnds
<1>2. CASE /\ SendsThrow
           /\ client' = [client EXCEPT ![current] = IF @ \in {"open", "closing"} THEN "failed" ELSE @]
  <2>1. act' \in [Actions -> ActionType] /\ KeepsOutcome
    BY <1>2, SendsThrowFacts
  <2>2. UNCHANGED <<table, hand, current, io, posted, timer, main>>
    BY DEF SendEnds
  <2>3. OwnerInv'
    BY <2>1, <2>2, OwnerKept
  <2>4. CASE current \in Clients /\ client[current] \in {"open", "closing"}
    <3>1. client' = [client EXCEPT ![current] = "failed"] /\ Live(current)
      BY <1>2, <2>4 DEF Live
    <3>2. client' \in [Clients -> ClientStates] /\ ClientInv' /\ SomeLive' /\ SomeLive
      BY <2>2, <2>4, <3>1, ClientUpdate
    <3>3. ActionsTypeOK' /\ ChainInv'
      BY <2>1, <2>2, <3>2 DEF ActionsTypeOK, ChainInv, Failing
    <3> QED
      BY <2>1, <2>3, <3>2, <3>3
  <2>5. CASE ~(current \in Clients /\ client[current] \in {"open", "closing"})
    <3>1. UNCHANGED client
      BY <1>2, <2>5 DEF ActionsTypeOK
    <3>2. ActionsTypeOK'
      BY <2>1, <2>2, <3>1 DEF ActionsTypeOK
    <3> QED
      BY <2>1, <2>2, <2>3, <3>1, <3>2, ConnectionKept
  <2> QED
    BY <2>4, <2>5
<1> QED
  BY <1>1, <1>2 DEF SendEnds

LEMMA ConnectedStep ==
    ASSUME ActionsInv, NEW n \in Clients, Connected(n)
    PROVE  ActionsInv' /\ KeepsOutcome
<1> USE DEF ActionsInv
<1>1. /\ client[n] = "connecting" /\ client' = [client EXCEPT ![n] = "open"]
      /\ timer' = (IF timer = "armed" THEN "off" ELSE timer)
      /\ UNCHANGED <<table, act, hand, current, io, posted, main>>
  BY DEF Connected
<1>2. Live(n)
  BY <1>1 DEF Live
<1>3. posted'.close \in {0, posted.close}
  BY <1>1
<1>4. /\ client' \in [Clients -> ClientStates]
      /\ ClientInv' /\ SomeLive' /\ SomeLive
  BY <1>1, <1>2, <1>3, ClientUpdate
<1>5. ActionsTypeOK'
  BY <1>1, <1>4 DEF ActionsTypeOK
<1>6. ChainInv'
  BY <1>1, <1>4 DEF ChainInv, Failing
<1> QED
  BY <1>1, <1>4, <1>5, <1>6, ActionsKept

LEMMA ConnectionEndsStep ==
    ASSUME ActionsInv, NEW n \in Clients, ConnectionEnds(n)
    PROVE  ActionsInv' /\ KeepsOutcome
<1> USE DEF ActionsInv
<1>1. /\ Live(n) /\ client' = [client EXCEPT ![n] = "ended"] /\ io' = [io EXCEPT !.pc = "snapshot"]
      /\ UNCHANGED <<table, act, hand, current, posted, timer, main>>
  BY DEF ConnectionEnds
<1>2. posted'.close \in {0, posted.close}
  BY <1>1
<1>3. /\ client' \in [Clients -> ClientStates]
      /\ ClientInv' /\ ~SomeLive' /\ SomeLive
  BY <1>1, <1>2, ClientUpdate
<1>4. ActionsTypeOK'
  BY <1>1, <1>3 DEF ActionsTypeOK
<1>5. ChainInv'
  BY <1>1, <1>3 DEF ChainInv, Failing, ActionsTypeOK
<1> QED
  BY <1>1, <1>3, <1>4, <1>5, ActionsKept

\* The chain breaks here: the client has left and nothing follows it.
LEMMA LeavesSilentlyStep ==
    ASSUME ActionsInv, NEW n \in Clients, LeavesSilently(n)
    PROVE  ActionsInv' /\ KeepsOutcome
<1> USE DEF ActionsInv
<1>1. /\ client[n] \in {"closing", "failed"} /\ client' = [client EXCEPT ![n] = "left"]
      /\ io' = [io EXCEPT !.pc = "stopWriter"]
      /\ UNCHANGED <<act, current, posted, timer, main>>
  BY DEF LeavesSilently
<1>2. Live(n) /\ posted'.close \in {0, posted.close}
  BY <1>1 DEF Live
<1>3. client' \in [Clients -> ClientStates] /\ ClientInv' /\ ~SomeLive' /\ SomeLive
  BY <1>1, <1>2, ClientUpdate
<1>4. SomeLeft'
  BY <1>1 DEF SomeLeft, ActionsTypeOK
<1>5. act' \in [Actions -> ActionType] /\ KeepsOutcome
  BY <1>1 DEF ActionsTypeOK, KeepsOutcome
<1>6. Io \in Threads /\ "Response" \in Statuses
  BY DEF Threads, Statuses
<1>7. /\ OwnerInv' /\ table' \subseteq Actions
      /\ hand' \in [Threads -> [acts : SUBSET Actions, status : Statuses]]
  <2>1. CASE UNCHANGED <<table, hand>>
    BY <1>5, <2>1, OwnerKept DEF ActionsTypeOK
  <2>2. CASE \E e \in Actions : Take(Io, e, "Response")
    BY <1>5, <1>6, <2>2, TakeFacts
  <2> QED
    BY <2>1, <2>2 DEF LeavesSilently
<1>8. ActionsTypeOK'
  BY <1>1, <1>3, <1>5, <1>7 DEF ActionsTypeOK
<1>9. ChainInv'
  BY <1>1, <1>3, <1>4 DEF ChainInv, Failing, ActionsTypeOK
<1> QED
  BY <1>3, <1>5, <1>7, <1>8, <1>9

LEMMA CloseHandlerStep ==
    ASSUME ActionsInv, CloseHandler
    PROVE  ActionsInv' /\ KeepsOutcome
<1> USE DEF ActionsInv
<1> DEFINE n == posted.close
<1>1. /\ n # 0 /\ client' = [client EXCEPT ![n] = IF @ = "open" THEN "closing" ELSE @]
      /\ posted' = [posted EXCEPT !.close = 0]
      /\ UNCHANGED <<table, act, hand, current, io, timer, main>>
  BY DEF CloseHandler
<1>2. n \in Clients /\ main # "running" /\ posted'.close = 0 /\ posted'.connect = posted.connect
  BY <1>1 DEF ActionsTypeOK, ClientInv
<1>3. posted' \in [connect : BOOLEAN, close : Clients \cup {0}]
  BY <1>1 DEF ActionsTypeOK
<1>4. CASE client[n] = "open"
  <2>1. client' = [client EXCEPT ![n] = "closing"] /\ Live(n)
    BY <1>1, <1>4 DEF Live
  <2>2. /\ client' \in [Clients -> ClientStates]
        /\ ClientInv' /\ SomeLive' /\ SomeLive
    BY <1>1, <1>2, <2>1, ClientUpdate
  <2>3. ActionsTypeOK'
    BY <1>1, <1>3, <2>2 DEF ActionsTypeOK
  <2>4. ChainInv'
    BY <1>1, <1>2, <2>2 DEF ChainInv, Failing
  <2> QED
    BY <1>1, <2>2, <2>3, <2>4, ActionsKept
<1>5. CASE client[n] # "open"
  <2>1. UNCHANGED client
    BY <1>1, <1>2, <1>5 DEF ActionsTypeOK
  <2>2. ActionsTypeOK'
    BY <1>1, <1>3, <2>1 DEF ActionsTypeOK
  <2>3. ClientInv' /\ ChainInv'
    BY <1>1, <1>2, <2>1 DEF ClientInv, ChainInv, Failing, Live, SomeLive, SomeLeft
  <2> QED
    BY <1>1, <2>2, <2>3, ActionsKept
<1> QED
  BY <1>4, <1>5

LEMMA FailAllSnapshotStep ==
    ASSUME ActionsInv, FailAllSnapshot
    PROVE  ActionsInv' /\ KeepsOutcome
<1> USE DEF ActionsInv
<1>1. /\ io.pc = "snapshot" /\ io' = [pc |-> "failEach", todo |-> table]
      /\ UNCHANGED <<table, act, hand, client, current, posted, timer, main>>
  BY DEF FailAllSnapshot
<1>2. ActionsTypeOK'
  BY <1>1 DEF ActionsTypeOK
<1>3. Failing /\ Failing'
  BY <1>1 DEF Failing
<1>4. ClientInv' /\ ChainInv'
  BY <1>1, <1>3 DEF ClientInv, ChainInv, Live, SomeLive, SomeLeft
<1> QED
  BY <1>1, <1>2, <1>4, ActionsKept

LEMMA FailEachStep ==
    ASSUME ActionsInv, FailEach
    PROVE  ActionsInv' /\ KeepsOutcome
<1> USE DEF ActionsInv
<1>1. PICK e \in io.todo : io' = [io EXCEPT !.todo = @ \ {e}] /\ Take(Io, e, "TransportFailure")
  BY DEF FailEach
<1>2. io.pc = "failEach" /\ UNCHANGED <<act, client, current, posted, timer, main>>
  BY DEF FailEach
<1>3. e \in Actions /\ Io \in Threads /\ "TransportFailure" \in Statuses
  BY DEF ActionsTypeOK, Threads, Statuses
<1>4. act' \in [Actions -> ActionType] /\ KeepsOutcome
  BY <1>2 DEF ActionsTypeOK, KeepsOutcome
<1>5. /\ OwnerInv' /\ table' \subseteq Actions
      /\ hand' \in [Threads -> [acts : SUBSET Actions, status : Statuses]]
  BY <1>1, <1>3, <1>4, TakeFacts
<1>6. io'.pc = "failEach" /\ io' \in [pc : {"idle", "snapshot", "failEach", "stopWriter"}, todo : SUBSET Actions]
  <2> DEFINE todo == io.todo \ {e}
  <2>1. todo \in SUBSET Actions /\ io' = [io EXCEPT !.todo = todo]
    BY <1>1 DEF ActionsTypeOK
  <2> HIDE DEF todo
  <2> QED
    BY <1>2, <2>1 DEF ActionsTypeOK
<1>7. ActionsTypeOK'
  BY <1>2, <1>4, <1>5, <1>6 DEF ActionsTypeOK
<1>8. ClientInv' /\ ChainInv'
  BY <1>2, <1>6 DEF ClientInv, ChainInv, Live, SomeLive, SomeLeft, Failing
<1> QED
  BY <1>4, <1>5, <1>7, <1>8

\* The failing connection hands over to the timer.
LEMMA ScheduleReconnectStep ==
    ASSUME ActionsInv, ScheduleReconnect
    PROVE  ActionsInv' /\ KeepsOutcome
<1> USE DEF ActionsInv
<1>1. /\ io.pc = "failEach" /\ timer' = "armed" /\ io' = [io EXCEPT !.pc = "stopWriter"]
      /\ UNCHANGED <<table, act, hand, client, current, posted, main>>
  BY DEF ScheduleReconnect
<1>2. io'.pc = "stopWriter"
  BY <1>1 DEF ActionsTypeOK
<1>3. ActionsTypeOK'
  BY <1>1 DEF ActionsTypeOK
<1>4. ClientInv' /\ ChainInv'
  BY <1>1, <1>2 DEF ClientInv, ChainInv, Live, SomeLive, SomeLeft, Failing
<1> QED
  BY <1>1, <1>3, <1>4, ActionsKept

LEMMA StopWriterStep ==
    ASSUME ActionsInv, StopWriter
    PROVE  ActionsInv' /\ KeepsOutcome
<1> USE DEF ActionsInv
<1>1. /\ io.pc = "stopWriter" /\ io' = [io EXCEPT !.pc = "idle"] /\ SendsThrow
      /\ UNCHANGED <<table, hand, client, current, posted, timer, main>>
  BY DEF StopWriter
<1>3. act' \in [Actions -> ActionType] /\ KeepsOutcome
  BY <1>1, SendsThrowFacts
<1>4. io'.pc = "idle" /\ ActionsTypeOK'
  BY <1>1, <1>3 DEF ActionsTypeOK
<1>5. OwnerInv'
  BY <1>1, <1>3, OwnerKept
<1>6. ClientInv' /\ ChainInv'
  BY <1>1, <1>4 DEF ClientInv, ChainInv, Live, SomeLive, SomeLeft, Failing
<1> QED
  BY <1>3, <1>4, <1>5, <1>6

LEMMA TimerStep ==
    ASSUME ActionsInv, TimerExpires \/ TimerHandler
    PROVE  ActionsInv' /\ KeepsOutcome
<1> USE DEF ActionsInv
<1>1. UNCHANGED <<table, act, hand, client, current, io, main>>
  BY DEF TimerExpires, TimerHandler
<1>2. CASE TimerExpires
  <2>1. timer = "armed" /\ timer' = "due" /\ UNCHANGED posted
    BY <1>2 DEF TimerExpires
  <2>2. ActionsTypeOK' /\ ClientInv' /\ ChainInv'
    BY <1>1, <2>1 DEF ActionsTypeOK, ClientInv, ChainInv, Live, SomeLive, SomeLeft, Failing
  <2> QED
    BY <1>1, <2>2, ActionsKept
<1>3. CASE TimerHandler
  <2>1. timer = "due" /\ timer' = "off" /\ posted' = [posted EXCEPT !.connect = TRUE]
    BY <1>3 DEF TimerHandler
  <2>2. posted'.connect /\ posted'.close = posted.close
    BY <2>1 DEF ActionsTypeOK
  <2>3. ActionsTypeOK'
    BY <1>1, <2>1 DEF ActionsTypeOK
  <2>4. ClientInv' /\ ChainInv'
    BY <1>1, <2>1, <2>2 DEF ClientInv, ChainInv, Live, SomeLive, SomeLeft, Failing
  <2> QED
    BY <1>1, <2>3, <2>4, ActionsKept
<1> QED
  BY <1>2, <1>3

-----------------------------------------------------------------------------
(* disconnect                                                              *)

LEMMA CancelAllStep ==
    ASSUME ActionsInv, CancelAll
    PROVE  ActionsInv' /\ KeepsOutcome
<1> USE DEF ActionsInv
<1> DEFINE r == [acts |-> table, status |-> "Cancelled"]
<1>1. /\ hand' = [hand EXCEPT ![Main] = r] /\ table' = {} /\ main' = "close"
      /\ UNCHANGED <<act, client, current, io, posted, timer>>
  BY DEF CancelAll
<1>2. r \in [acts : SUBSET Actions, status : Statuses] /\ r.acts = table
  BY DEF ActionsTypeOK, Statuses
<1> HIDE DEF r
<1>3. hand' \in [Threads -> [acts : SUBSET Actions, status : Statuses]] /\ hand'[Main] = r
      /\ \A s \in Threads : s # Main => hand'[s] = hand[s]
  BY <1>1, <1>2 DEF ActionsTypeOK, Threads
<1>4. ActionsTypeOK' /\ KeepsOutcome
  BY <1>1, <1>3 DEF ActionsTypeOK, KeepsOutcome
<1>5. OwnerInv'
  BY <1>1, <1>2, <1>3 DEF OwnerInv, ActionsTypeOK
<1>6. ClientInv' /\ ChainInv'
  BY <1>1 DEF ClientInv, ChainInv, Live, SomeLive, SomeLeft, Failing
<1> QED
  BY <1>4, <1>5, <1>6

LEMMA DisconnectStep ==
    ASSUME ActionsInv, SpawnClose \/ CancelTimer
    PROVE  ActionsInv' /\ KeepsOutcome
<1> USE DEF ActionsInv
<1>1. UNCHANGED <<table, act, hand, client, current, io>>
  BY DEF SpawnClose, CancelTimer
<1>2. CASE SpawnClose
  <2>1. main = "close" /\ posted' = [posted EXCEPT !.close = current] /\ main' = "cancelTimer" /\ UNCHANGED timer
    BY <1>2 DEF SpawnClose
  <2>2. posted'.connect = posted.connect
    BY <2>1 DEF ActionsTypeOK
  <2>3. ActionsTypeOK'
    BY <1>1, <2>1 DEF ActionsTypeOK
  <2>4. ClientInv' /\ ChainInv'
    BY <1>1, <2>1, <2>2 DEF ClientInv, ChainInv, Live, SomeLive, SomeLeft, Failing
  <2> QED
    BY <1>1, <2>3, <2>4, ActionsKept
<1>3. CASE CancelTimer
  <2>1. /\ main = "cancelTimer" /\ timer' = (IF timer = "armed" THEN "off" ELSE timer)
        /\ main' = "done" /\ UNCHANGED posted
    BY <1>3 DEF CancelTimer
  <2>2. ActionsTypeOK'
    BY <1>1, <2>1 DEF ActionsTypeOK
  <2>3. ClientInv' /\ ChainInv'
    BY <1>1, <2>1 DEF ClientInv, ChainInv, Live, SomeLive, SomeLeft, Failing
  <2> QED
    BY <1>1, <2>2, <2>3, ActionsKept
<1> QED
  BY <1>2, <1>3

-----------------------------------------------------------------------------
OutcomeIsFinal ==
    \A e \in Actions : act[e].outcome # "none" =>
          act'[e].outcome = act[e].outcome /\ act'[e].completions = act[e].completions

\* Every step keeps the invariant and the outcomes there are.
THEOREM ActionsNextKeepsInvariant == ActionsInv /\ [ActionsNext]_actionsVars => ActionsInv' /\ OutcomeIsFinal
<1> SUFFICES ASSUME ActionsInv, [ActionsNext]_actionsVars PROVE ActionsInv' /\ OutcomeIsFinal
  OBVIOUS
<1>1. CASE UNCHANGED actionsVars
  <2>1. UNCHANGED <<table, act, hand, client, current, io, posted, timer, main>>
    BY <1>1 DEF actionsVars
  <2>2. ActionsTypeOK'
    BY <2>1 DEF ActionsInv, ActionsTypeOK
  <2> QED
    BY <2>1, <2>2, ActionsKept, ConnectionKept DEF ActionsInv, OutcomeIsFinal
<1>2. \A t \in Threads : FinishAction(t) => ActionsInv' /\ OutcomeIsFinal
  BY FinishActionStep DEF OutcomeIsFinal
<1>3. KeepsOutcome => OutcomeIsFinal
  BY DEF KeepsOutcome, OutcomeIsFinal
<1>4. Io \in Threads /\ Main \in Threads /\ Actions \subseteq Threads
  BY DEF Threads
<1>5. ASSUME NEW e \in Actions,
             \/ Call(e) \/ CallerSteps(e) \/ SendOnStrand(e) \/ SendEnds(e)
             \/ DeadlineExpires(e) \/ DeadlineHandler(e) \/ Response(e)
      PROVE  ActionsInv' /\ OutcomeIsFinal
  BY <1>2, <1>3, <1>4, <1>5, CallStep, ArmStep, FailOwnStep, WaitReturnsStep, SendOnStrandStep,
     SendEndsStep, DeadlineExpiresStep, DeadlineHandlerStep, ResponseStep DEF CallerSteps
<1>6. ASSUME NEW n \in Clients, Connected(n) \/ ConnectionEnds(n) \/ LeavesSilently(n)
      PROVE  ActionsInv' /\ OutcomeIsFinal
  BY <1>3, <1>6, ConnectedStep, ConnectionEndsStep, LeavesSilentlyStep
<1>7. CASE DoConnect \/ TimerExpires \/ TimerHandler \/ CloseHandler
  BY <1>3, <1>7, DoConnectStep, TimerStep, CloseHandlerStep
<1>8. CASE IoInternal
  BY <1>2, <1>3, <1>4, <1>8, FailAllSnapshotStep, FailEachStep, ScheduleReconnectStep, StopWriterStep
     DEF IoInternal
<1>9. CASE CancelAll \/ MainSteps
  BY <1>2, <1>3, <1>4, <1>9, CancelAllStep, DisconnectStep DEF MainSteps
<1> QED
  BY <1>1, <1>5, <1>6, <1>7, <1>8, <1>9 DEF ActionsNext

\* The invariant of the tracker and of the reconnection holds in every behaviour.
THEOREM ActionsInvariantHolds == ActionsSpec => []ActionsInv
BY InitInv, ActionsNextKeepsInvariant, PTL DEF ActionsSpec

\* The types of the tracker, the clients and the threads.
THEOREM ActionsTypeCorrect == ActionsSpec => []ActionsTypeOK
<1>1. ActionsInv => ActionsTypeOK
  BY DEF ActionsInv
<1> QED
  BY <1>1, ActionsInvariantHolds, PTL

\* action_request_tracker.cpp: of the response, the deadline, the broken connection,
\* disconnect() and the failed send, exactly one completes an action, for any number of
\* actions in flight and any number of reconnections.
THEOREM OutcomeDecidedOnce == ActionsSpec => OneOutcome
<1>1. ActionsInv /\ [ActionsNext]_actionsVars => [OutcomeIsFinal]_actionsVars
  BY ActionsNextKeepsInvariant
<1> QED
  BY <1>1, ActionsInvariantHolds, PTL DEF ActionsSpec, OneOutcome, OutcomeIsFinal

\* The number of live clients, under the invariant.
LEMMA LiveClients ==
    ASSUME ActionsInv
    PROVE  Cardinality({n \in Clients : Live(n)}) = IF SomeLive THEN 1 ELSE 0
<1>1. CASE SomeLive
  <2>1. {n \in Clients : Live(n)} = {current}
    BY <1>1 DEF SomeLive, ActionsInv, ClientInv
  <2> QED
    BY <1>1, <2>1, FS_Singleton
<1>2. CASE ~SomeLive
  <2>1. {n \in Clients : Live(n)} = {}
    BY <1>2 DEF SomeLive
  <2> QED
    BY <1>2, <2>1, FS_EmptySet
<1> QED
  BY <1>1, <1>2

\* websocket_connection_manager.cpp: there is never a second live client or a second
\* attempt under way, however connections, failing writes, timers and disconnect()
\* interleave; and until disconnect() there is one, unless a read loop has left a
\* stream that was no longer open without reporting an error.
THEOREM OneReconnectChain == ActionsSpec => []ReconnectChain
<1>1. ActionsInv => ReconnectChain
  <2> SUFFICES ASSUME ActionsInv PROVE ReconnectChain
    OBVIOUS
  <2>1. Cardinality({n \in Clients : Live(n)}) = IF SomeLive THEN 1 ELSE 0
    BY LiveClients
  <2> QED
    BY <2>1 DEF ActionsInv, ChainInv, ReconnectChain, Sources, Failing, SomeLeft
<1> QED
  BY <1>1, ActionsInvariantHolds, PTL

=============================================================================
