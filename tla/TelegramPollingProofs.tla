----------------------- MODULE TelegramPollingProofs -----------------------
(***************************************************************************)
(* Machine-checked proofs about TelegramPolling, for every number of       *)
(* updates and callers, every limit of an answer and every length of a     *)
(* proxy's domain name.                                                    *)
(***************************************************************************)
EXTENDS TelegramPolling, TLAPS

-----------------------------------------------------------------------------
(* The inductive invariant.                                                *)

\* Operations, and those that are no fixed-size read.
PlainNames ==
    {"resolve", "connect", "handshake", "write", "read", "read_headers", "write_CONNECT",
     "read_CONNECT", "proxy_handshake", "leave_TLS", "write_greeting", "read_method",
     "write_auth", "read_auth", "write_request", "read_reply"}
Operation == [op : PlainNames \cup {"read_bytes"}, timed : BOOLEAN, n : Nat]
PlainOp == [op : PlainNames, timed : BOOLEAN, n : {0}]

\* The fixed-size reads a request has to do are at its front, and they ask for
\* exactly what the proxy has sent and nobody has read.
ReadsMatch(todo, unread) ==
    \/ todo = <<>>
    \/ todo \in Seq(PlainOp) /\ unread = 0
    \/ todo # <<>> /\ Head(todo) = TimedRead(unread) /\ Tail(todo) \in Seq(PlainOp)
    \/ /\ todo # <<>> /\ Tail(todo) # <<>>
       /\ Head(todo) = TimedRead(1) /\ Head(Tail(todo)) = TimedRead(unread - 1)
       /\ Tail(Tail(todo)) \in Seq(PlainOp)

Sound(q) ==
    /\ DOMAIN q = {"todo", "unread", "tls", "status"}
    /\ q.todo \in Seq(Operation) /\ q.unread \in Nat
    /\ q.status = "running" => q.todo # <<>>
    /\ ReadsMatch(q.todo, q.unread)

RequestInv ==
    /\ config \in Configs
    /\ DOMAIN poller = {"pc", "request", "batch"} /\ Sound(poller.request)
    /\ DOMAIN calls = Callers
    /\ \A c \in Callers : DOMAIN calls[c] = {"method", "request", "result"} /\ Sound(calls[c].request)

PollTypes ==
    /\ arrived \in Nat /\ arrived <= Updates
    /\ server \subseteq 1..arrived /\ skipped \subseteq 1..arrived
    /\ update_offset \in Nat /\ update_offset <= arrived + 1
    /\ handed \in Seq(1..arrived) /\ poller.batch \in Seq(1..arrived)
    /\ process \in {"down", "up", "stopped"}
    /\ poller.pc \in {"gone", "check", "request", "handing", "delay"}
    /\ \A c \in Callers : calls[c].result \in {"none", "body", "exception", "nullopt"}

\* Updates that a process is done with, and those behind the offset that it is not.
Gone == everHanded \cup skipped
Pending == IF poller.pc = "handing" THEN Range(poller.batch) ELSE {}

\* What the server has dropped a process is done with. What it will drop at the next
\* getUpdates of this process is done with, or about to be handed over before that.
DroppedInv ==
    /\ \A u \in 1..arrived : u \notin server => u \in Gone
    /\ process = "up" => \A u \in 1..arrived : u < update_offset => u \in Gone \cup Pending

\* The offset is past all that this process handed over, in order.
HandedInv ==
    /\ Increasing(handed)
    /\ \A i \in DOMAIN handed : handed[i] < update_offset

\* From the offset on b leaves nothing out.
Complete(b) ==
    /\ \A i \in DOMAIN b : update_offset <= b[i]
    /\ \A i \in DOMAIN b : \A u \in 1..arrived : u <= b[i] => u \in Range(b) \cup Gone

\* The batch at hand is behind the offset while it is handed over, and from the offset
\* on before; it comes after all that was handed over.
BatchInv ==
    LET b == poller.batch
    IN  /\ Increasing(b)
        /\ \A i \in DOMAIN handed, j \in DOMAIN b : handed[i] < b[j]
        /\ IF poller.pc = "handing" THEN \A i \in DOMAIN b : b[i] < update_offset
                                    ELSE Complete(b)

IInv == RequestInv /\ PollTypes /\ DroppedInv /\ HandedInv /\ BatchInv

-----------------------------------------------------------------------------
(* Requests and their operations.                                          *)

LEMMA SeqFacts ==
    ASSUME NEW S, NEW s \in Seq(S), s # <<>>
    PROVE  /\ Head(s) \in S /\ Tail(s) \in Seq(S) /\ Len(s) \in Nat \ {0}
           /\ Len(s) # 1 => Tail(s) # <<>>
<1>1. Head(s) \in S /\ Tail(s) \in Seq(S) /\ Len(s) \in Nat \ {0} /\ Len(Tail(s)) = Len(s) - 1
  OBVIOUS
<1>2. Len(<<>>) = 0
  OBVIOUS
<1>3. Tail(s) = <<>> => Len(s) = 1
  BY <1>1, <1>2
<1> QED
  BY <1>1, <1>3

LEMMA ElementFacts ==
    ASSUME NEW S, NEW T, NEW s \in Seq(S), S \subseteq T
    PROVE  s \in Seq(T) /\ \A i \in DOMAIN s : s[i] \in S
OBVIOUS

LEMMA ConcatFacts ==
    ASSUME NEW S, NEW s \in Seq(S), NEW t \in Seq(S)
    PROVE  s \o t \in Seq(S) /\ Len(s \o t) = Len(s) + Len(t) /\ Len(s) \in Nat /\ Len(t) \in Nat
OBVIOUS

\* What stands behind one or two operations that are put in front.
LEMMA OneInFront ==
    ASSUME NEW S, NEW t \in Seq(S), NEW x, NEW a, a = <<x>> \o t
    PROVE  a # <<>> /\ Head(a) = x /\ Tail(a) = t
<1> DEFINE S2 == S \cup {x}
<1>1. t \in Seq(S2) /\ <<x>> \in Seq(S2)
  OBVIOUS
<1>2. a \in Seq(S2) /\ Len(a) = 1 + Len(t) /\ a[1] = x /\ \A n \in 1..Len(t) : a[n + 1] = t[n]
  BY <1>1
<1> HIDE DEF S2
<1>3. a # <<>> /\ Head(a) = x /\ Tail(a) \in Seq(S2) /\ Len(Tail(a)) = Len(t) /\ Len(t) \in Nat
  BY <1>2
<1>4. \A n \in 1..Len(t) : Tail(a)[n] = t[n]
  BY <1>2, <1>3
<1> QED
  BY <1>1, <1>3, <1>4

LEMMA SameSequence ==
    ASSUME NEW S, NEW a \in Seq(S), NEW b \in Seq(S), Len(a) = Len(b), \A n \in 1..Len(a) : a[n] = b[n]
    PROVE  a = b
OBVIOUS

LEMMA TwoInFront ==
    ASSUME NEW S, NEW t \in Seq(S), NEW x \in S, NEW y \in S
    PROVE  <<x, y>> \o t = <<x>> \o (<<y>> \o t) /\ <<y>> \o t \in Seq(S)
<1> DEFINE a == <<x, y>> \o t
           c == <<y>> \o t
           b == <<x>> \o c
<1>1. a \in Seq(S) /\ Len(a) = 2 + Len(t) /\ a[1] = x /\ a[2] = y /\ \A n \in 1..Len(t) : a[n + 2] = t[n]
  OBVIOUS
<1>2. c \in Seq(S) /\ Len(c) = 1 + Len(t) /\ c[1] = y /\ \A n \in 1..Len(t) : c[n + 1] = t[n]
  OBVIOUS
<1> HIDE DEF c
<1>3. b \in Seq(S) /\ Len(b) = 1 + Len(c) /\ b[1] = x /\ \A n \in 1..Len(c) : b[n + 1] = c[n]
  BY <1>2
<1> HIDE DEF a, b
<1>4. Len(t) \in Nat /\ Len(a) = Len(b)
  BY <1>1, <1>2, <1>3
<1>5. ASSUME NEW n \in 1..Len(a) PROVE a[n] = b[n]
  <2>1. CASE n = 1
    BY <1>1, <1>3, <2>1
  <2>2. CASE n = 2
    <3>1. 1 \in 1..Len(c)
      BY <1>2, <1>4
    <3>2. b[1 + 1] = c[1]
      BY <1>3, <3>1
    <3> QED
      BY <1>1, <1>2, <2>2, <3>2
  <2>3. CASE n > 2
    <3>1. n - 2 \in 1..Len(t) /\ n - 1 \in 1..Len(c) /\ n - 2 + 2 = n /\ n - 2 + 1 = n - 1 /\ n - 1 + 1 = n
      BY <1>1, <1>2, <1>4, <2>3
    <3>2. a[n] = t[n - 2]
      BY <1>1, <3>1
    <3>3. c[n - 1] = t[n - 2]
      BY <1>2, <3>1
    <3>4. b[n] = c[n - 1]
      BY <1>3, <3>1
    <3> QED
      BY <3>2, <3>3, <3>4
  <2> QED
    BY <1>1, <1>4, <2>1, <2>2, <2>3
<1>6. a = b
  BY <1>1, <1>3, <1>4, <1>5, SameSequence
<1> QED
  BY <1>2, <1>6 DEF a, b, c

LEMMA PlainOpIsOp ==
    ASSUME NEW o \in PlainOp
    PROVE  o \in Operation /\ o.op # "read_bytes"
BY DEF PlainOp, Operation, PlainNames

LEMMA PlainIsOp ==
    ASSUME NEW s \in Seq(PlainOp)
    PROVE  s \in Seq(Operation)
BY PlainOpIsOp

LEMMA FixedReads ==
    /\ \A k \in Nat : TimedRead(k) \in Operation
    /\ \A k : TimedRead(k).op = "read_bytes" /\ TimedRead(k).n = k
    /\ \A k : TimedRead(k) \in Operation => k \in Nat
BY DEF TimedRead, Operation, PlainNames

LEMMA PlainOps ==
    ASSUME NEW op \in PlainNames
    PROVE  Timed(op) \in PlainOp /\ Untimed(op) \in PlainOp
BY DEF Timed, Untimed, PlainOp

LEMMA Singletons ==
    ASSUME NEW S, NEW x \in S, NEW y \in S, NEW z \in S, NEW w \in S
    PROVE  <<x>> \in Seq(S) /\ <<x, y>> \in Seq(S) /\ <<x, y, z>> \in Seq(S) /\ <<x, y, z, w>> \in Seq(S)
           /\ <<>> \in Seq(S)
OBVIOUS

\* No request starts with a fixed-size read in it.
LEMMA StepsArePlain ==
    ASSUME NEW c \in Configs, NEW verb \in {"post", "get", "head"}
    PROVE  Steps(c, verb) \in Seq(PlainOp) /\ Steps(c, verb) # <<>>
<1> DEFINE P == Seq(PlainOp)
<1>1. ResolveAndConnect \in P /\ Len(ResolveAndConnect) = 2
  BY PlainOps, Singletons DEF PlainNames, ResolveAndConnect
<1>2. ASSUME NEW tls \in BOOLEAN, NEW read \in {"read", "read_headers"}
      PROVE  Exchange(tls, read) \in P
  <2>1. <<Timed("write"), Timed(read)>> \in P /\ <<Timed("handshake")>> \in P /\ <<>> \in P
    BY PlainOps, Singletons DEF PlainNames
  <2> QED
    BY <2>1, ConcatFacts DEF Exchange
<1>3. ASSUME NEW s \in P
      PROVE  ResolveAndConnect \o s \in P /\ ResolveAndConnect \o s # <<>>
  <2>1. Len(ResolveAndConnect \o s) = 2 + Len(s) /\ Len(s) \in Nat /\ ResolveAndConnect \o s \in P
    BY <1>1, <1>3, ConcatFacts
  <2>2. Len(<<>>) = 0
    OBVIOUS
  <2> QED
    BY <2>1, <2>2
<1>4. c.proxy \in {"none", "http", "https", "socks5"} /\ DirectTls(c) \in BOOLEAN /\ ProxiedTls(c) \in BOOLEAN
  BY PollingAssumption DEF DirectTls, ProxiedTls
<1>5. c.proxy # "none" => connect_through_proxy_async(c) \in P /\ connect_through_proxy_async(c) # <<>>
  <2>1. establish_http_tunnel_async \in P
    BY PlainOps, Singletons DEF PlainNames, establish_http_tunnel_async
  <2>2. <<Timed("proxy_handshake")>> \in P /\ establish_https_tunnel_async \in P
    BY PlainOps, Singletons DEF PlainNames, establish_https_tunnel_async
  <2>3. <<Timed("proxy_handshake")>> \o establish_https_tunnel_async \in P
    BY <2>2, ConcatFacts
  <2>4. establish_socks5_tunnel_async \in P
    BY PlainOps, Singletons DEF PlainNames, establish_socks5_tunnel_async
  <2> HIDE DEF P
  <2> QED
    BY <1>3, <1>4, <2>1, <2>3, <2>4 DEF connect_through_proxy_async
<1>6. ASSUME NEW s \in P, NEW t \in P, s # <<>> PROVE s \o t \in P /\ s \o t # <<>>
  BY <1>6
<1> HIDE DEF P
<1>7. c.proxy = "none" => Steps(c, verb) \in P /\ Steps(c, verb) # <<>>
  BY <1>2, <1>3, <1>4 DEF Steps, HttpClient_post, HttpClient_get, HttpClient_head
<1>8. c.proxy # "none" => Steps(c, verb) \in P /\ Steps(c, verb) # <<>>
  BY <1>2, <1>4, <1>5, <1>6 DEF Steps, ProxyHttpClient_post, ProxyHttpClient_get, ProxyHttpClient_head
<1> QED
  BY <1>7, <1>8 DEF P

LEMMA NewRequestIsSound ==
    ASSUME NEW c \in Configs, NEW verb \in {"post", "get", "head"}
    PROVE  Sound(NewRequest(c, verb))
BY StepsArePlain, PlainIsOp DEF NewRequest, Sound, ReadsMatch

LEMMA NoRequestIsSound == Sound(NoRequest)
BY DEF NoRequest, Sound, ReadsMatch

\* The code after an operation that needs no fixed-size reads, and after one that does.
LEMMA DoneFacts ==
    ASSUME NEW q, Sound(q), q.todo # <<>>
    PROVE  /\ DOMAIN Done(q) = {"todo", "unread", "tls", "status"}
           /\ Done(q).todo = Tail(q.todo) /\ Done(q).unread = q.unread
           /\ Done(q).status = "running" => Tail(q.todo) # <<>>
           /\ Tail(q.todo) \in Seq(Operation)
BY SeqFacts DEF Done, Sound

LEMMA FailedIsSound ==
    ASSUME NEW q, Sound(q)
    PROVE  Sound(Failed(q))
BY DEF Failed, Sound, ReadsMatch

\* A request whose next operation is no fixed-size read.
LEMMA PlainFacts ==
    ASSUME NEW q, Sound(q), q.todo # <<>>, Head(q.todo).op # "read_bytes"
    PROVE  q.todo \in Seq(PlainOp) /\ q.unread = 0 /\ Tail(q.todo) \in Seq(PlainOp)
BY SeqFacts, FixedReads DEF Sound, ReadsMatch

LEMMA DoneIsSound ==
    ASSUME NEW q, Sound(q), q.todo # <<>>, Head(q.todo).op # "read_bytes", NEW tls
    PROVE  Sound(Done(q)) /\ Sound([Done(q) EXCEPT !.tls = tls])
<1>1. /\ DOMAIN Done(q) = {"todo", "unread", "tls", "status"}
      /\ Done(q).todo = Tail(q.todo) /\ Done(q).unread = q.unread
      /\ Done(q).status = "running" => Tail(q.todo) # <<>>
      /\ Tail(q.todo) \in Seq(Operation) /\ Tail(q.todo) \in Seq(PlainOp) /\ q.unread = 0
  BY DoneFacts, PlainFacts
<1> DEFINE d == [Done(q) EXCEPT !.tls = tls]
<1>2. d.todo = Done(q).todo /\ d.unread = Done(q).unread /\ d.status = Done(q).status /\ DOMAIN d = DOMAIN Done(q)
  BY <1>1
<1> HIDE DEF d
<1> QED
  BY <1>1, <1>2 DEF Sound, ReadsMatch, d

\* Fixed-size reads leave exactly what the next ones ask for.
LEMMA ReadIsSound ==
    ASSUME NEW q, Sound(q), q.todo # <<>>, Head(q.todo).op = "read_bytes"
    PROVE  Sound([Done(q) EXCEPT !.unread = @ - Head(q.todo).n])
<1> DEFINE t == Tail(q.todo)
           n == Head(q.todo).n
           d == [Done(q) EXCEPT !.unread = @ - n]
<1>1. /\ DOMAIN Done(q) = {"todo", "unread", "tls", "status"}
      /\ Done(q).todo = t /\ Done(q).unread = q.unread
      /\ Done(q).status = "running" => t # <<>>
      /\ t \in Seq(Operation)
  BY DoneFacts
<1> HIDE DEF n
<1>2. d.todo = t /\ d.unread = q.unread - n /\ d.status = Done(q).status /\ DOMAIN d = DOMAIN Done(q)
  BY <1>1
<1>3. q.unread \in Nat /\ Head(q.todo) \in Operation /\ ReadsMatch(q.todo, q.unread)
  BY SeqFacts DEF Sound
<1>4. q.todo \notin Seq(PlainOp)
  BY SeqFacts, PlainOpIsOp
<1>5. CASE Head(q.todo) = TimedRead(q.unread) /\ t \in Seq(PlainOp)
  <2>1. n = q.unread
    BY <1>5, FixedReads DEF n
  <2> HIDE DEF d, t
  <2> QED
    BY <1>1, <1>2, <1>3, <1>5, <2>1 DEF Sound, ReadsMatch, d, n
<1>6. CASE t # <<>> /\ Head(q.todo) = TimedRead(1) /\ Head(t) = TimedRead(q.unread - 1) /\ Tail(t) \in Seq(PlainOp)
  <2>1. n = 1
    BY <1>6, FixedReads DEF n
  <2>2. Head(t) \in Operation
    BY <1>1, <1>6, SeqFacts
  <2>3. q.unread - 1 \in Nat
    BY <1>6, <2>2, FixedReads
  <2> HIDE DEF d, t
  <2> QED
    BY <1>1, <1>2, <1>3, <1>6, <2>1, <2>3 DEF Sound, ReadsMatch, d, n
<1> QED
  BY <1>3, <1>4, <1>5, <1>6 DEF ReadsMatch

\* The reads of the address match what a SOCKS5 proxy sends, for every kind of
\* address and every length of a domain name.
LEMMA ReplyIsSound ==
    ASSUME NEW q, Sound(q), q.todo # <<>>, Head(q.todo).op = "read_reply",
           NEW answer \in Answers("read_reply")
    PROVE  Sound(AfterReply(q, answer))
<1>1. CASE answer.kind = "refused"
  BY <1>1, FailedIsSound DEF AfterReply
<1>2. CASE answer.kind # "refused"
  <2> DEFINE t == Tail(q.todo)
             ops == AddressReads(answer.kind, answer.bytes - 3)
             d == [Before(q, ops) EXCEPT !.unread = answer.bytes]
  <2>1. AfterReply(q, answer) = d
    BY <1>2 DEF AfterReply
  <2>2. t \in Seq(PlainOp) /\ DOMAIN q = {"todo", "unread", "tls", "status"}
    BY PlainFacts DEF Sound
  <2>3. \/ answer = Address("ipv4", 6) \/ answer = Address("ipv6", 18)
        \/ \E len \in 0..MaxDomain : answer = Address("domain", 1 + len + 2)
    BY <1>2 DEF Answers
  <2>4. /\ answer.bytes \in Nat
        /\ \/ ops = <<TimedRead(answer.bytes)>>
           \/ answer.bytes - 1 \in Nat /\ ops = <<TimedRead(1), TimedRead(answer.bytes - 1)>>
    <3>1. CASE answer = Address("ipv4", 6)
      BY <3>1 DEF Address, AddressReads
    <3>2. CASE answer = Address("ipv6", 18)
      BY <3>2 DEF Address, AddressReads
    <3>3. ASSUME NEW len \in 0..MaxDomain, answer = Address("domain", 1 + len + 2)
          PROVE  answer.bytes \in Nat /\ answer.bytes - 1 \in Nat /\ ops = <<TimedRead(1), TimedRead(answer.bytes - 1)>>
      <4>1. answer.kind = "domain" /\ answer.bytes = len + 3 /\ len \in Nat
        BY <3>3, PollingAssumption DEF Address
      <4>2. answer.bytes - 3 + 2 = answer.bytes - 1 /\ answer.bytes - 1 \in Nat /\ answer.bytes \in Nat
        BY <4>1
      <4> QED
        BY <4>1, <4>2 DEF AddressReads
    <3> QED
      BY <2>3, <3>1, <3>2, <3>3
  <2> HIDE DEF ops, t
  <2>5. /\ DOMAIN d = {"todo", "unread", "tls", "status"}
        /\ d.todo = ops \o t /\ d.unread = answer.bytes
    BY <2>2 DEF Before, t
  <2> HIDE DEF d
  <2>6. \A k \in Nat : TimedRead(k) \in Operation
    BY FixedReads
  <2>7. t \in Seq(Operation) /\ ops \in Seq(Operation)
    <3>1. t \in Seq(Operation)
      BY <2>2, PlainIsOp
    <3>2. TimedRead(answer.bytes) \in Operation /\ TimedRead(1) \in Operation
          /\ (answer.bytes - 1 \in Nat => TimedRead(answer.bytes - 1) \in Operation)
      BY <2>4, <2>6
    <3> QED
      BY <2>4, <3>1, <3>2, Singletons
  <2>8. ops \o t \in Seq(Operation)
    BY <2>7, ConcatFacts
  <2>9. ReadsMatch(ops \o t, answer.bytes) /\ ops \o t # <<>>
    <3>1. CASE ops = <<TimedRead(answer.bytes)>>
      BY <2>2, <3>1, OneInFront DEF ReadsMatch
    <3>2. CASE ops = <<TimedRead(1), TimedRead(answer.bytes - 1)>>
      <4> DEFINE x == TimedRead(1)
                 y == TimedRead(answer.bytes - 1)
                 c == <<y>> \o t
                 z == <<x>> \o c
      <4>1. x \in Operation /\ y \in Operation /\ t \in Seq(Operation)
        BY <2>4, <2>6, <2>7, <3>2, Singletons
      <4> HIDE DEF x, y
      <4>2. c \in Seq(Operation) /\ ops \o t = z
        BY <3>2, <4>1, TwoInFront DEF x, y
      <4>3. c # <<>> /\ Head(c) = y /\ Tail(c) = t
        BY <4>1, OneInFront
      <4> HIDE DEF c
      <4>4. z # <<>> /\ Head(z) = x /\ Tail(z) = c
        BY <4>2, OneInFront
      <4> HIDE DEF z
      <4>5. ReadsMatch(z, answer.bytes)
        BY <2>2, <4>3, <4>4 DEF ReadsMatch, x, y
      <4> QED
        BY <4>2, <4>4, <4>5
    <3> QED
      BY <2>4, <3>1, <3>2
  <2> QED
    BY <2>1, <2>4, <2>5, <2>8, <2>9 DEF Sound
<1> QED
  BY <1>1, <1>2

\* A request stays sound whatever its peer answers.
LEMMA AfterIsSound ==
    ASSUME NEW c, NEW q, Sound(q), q.status = "running", NEW answer \in Answers(Head(q.todo).op)
    PROVE  Sound(After(c, q, answer))
<1> DEFINE op == Head(q.todo).op
<1>1. q.todo # <<>>
  BY DEF Sound
<1>2. CASE op = "read_method"
  <2>1. Sound(Done(q)) /\ Sound(Failed(q))
    BY <1>1, <1>2, DoneIsSound, FailedIsSound
  <2>2. Sound(Before(q, <<Timed("write_auth"), Timed("read_auth")>>))
    <3> DEFINE t == Tail(q.todo)
               ops == <<Timed("write_auth"), Timed("read_auth")>>
               d == Before(q, ops)
    <3>1. t \in Seq(PlainOp) /\ q.unread = 0 /\ DOMAIN q = {"todo", "unread", "tls", "status"}
      BY <1>1, <1>2, PlainFacts DEF Sound
    <3>2. ops \in Seq(PlainOp)
      BY PlainOps, Singletons DEF PlainNames
    <3> HIDE DEF ops, t
    <3>3. ops \o t \in Seq(PlainOp)
      BY <3>1, <3>2, ConcatFacts
    <3>4. ops \o t # <<>>
      <4>1. Len(ops \o t) = 2 + Len(t) /\ Len(t) \in Nat
        BY <3>1, <3>2, ConcatFacts DEF ops
      <4>2. Len(<<>>) = 0
        OBVIOUS
      <4> QED
        BY <4>1, <4>2
    <3>5. DOMAIN d = {"todo", "unread", "tls", "status"} /\ d.todo = ops \o t /\ d.unread = 0
      BY <3>1 DEF Before, t
    <3> HIDE DEF d
    <3>6. Sound(d)
      BY <3>3, <3>4, <3>5, PlainIsOp DEF Sound, ReadsMatch
    <3> QED
      BY <3>6 DEF d, ops
  <2>3. After(c, q, answer) \in {Done(q), Failed(q), Before(q, <<Timed("write_auth"), Timed("read_auth")>>)}
    BY <1>2 DEF After, AfterMethod
  <2> QED
    BY <2>1, <2>2, <2>3
<1>3. CASE op = "read_reply"
  <2>1. After(c, q, answer) = AfterReply(q, answer)
    BY <1>3 DEF After
  <2> QED
    BY <1>1, <1>3, <2>1, ReplyIsSound
<1>4. CASE op = "read_bytes"
  <2>1. After(c, q, answer) = [Done(q) EXCEPT !.unread = @ - Head(q.todo).n]
    BY <1>4 DEF After
  <2> QED
    BY <1>1, <1>4, <2>1, ReadIsSound
<1>5. CASE op \notin {"read_method", "read_reply", "read_bytes"}
  <2>1. \/ After(c, q, answer) = Failed(q)
        \/ After(c, q, answer) = Done(q)
        \/ \E tls : After(c, q, answer) = [Done(q) EXCEPT !.tls = tls]
    <3>1. CASE op \in {"read_CONNECT", "read_auth"} /\ answer.kind = "refused"
      BY <3>1 DEF After
    <3>2. CASE op = "proxy_handshake"
      <4>1. After(c, q, answer) = [Done(q) EXCEPT !.tls = <<"proxy">>]
        BY <3>2 DEF After
      <4> QED
        BY <4>1
    <3>3. CASE op = "leave_TLS"
      <4> DEFINE t == Tail(Done(q).tls)
      <4>1. After(c, q, answer) = [Done(q) EXCEPT !.tls = t]
        BY <3>3 DEF After
      <4> HIDE DEF t
      <4> QED
        BY <4>1
    <3>4. CASE op = "handshake"
      <4> DEFINE t == Append(Done(q).tls, "target")
      <4>1. After(c, q, answer) = [Done(q) EXCEPT !.tls = t]
        BY <3>4 DEF After
      <4> HIDE DEF t
      <4> QED
        BY <4>1
    <3>5. CASE /\ ~(op \in {"read_CONNECT", "read_auth"} /\ answer.kind = "refused")
               /\ op \notin {"proxy_handshake", "leave_TLS", "handshake"}
      BY <1>5, <3>5 DEF After
    <3> QED
      BY <3>1, <3>2, <3>3, <3>4, <3>5
  <2>2. Sound(Failed(q)) /\ Sound(Done(q))
    BY <1>1, <1>5, DoneIsSound, FailedIsSound
  <2>3. ASSUME NEW tls PROVE Sound([Done(q) EXCEPT !.tls = tls])
    BY <1>1, <1>5, DoneIsSound
  <2> QED
    BY <2>1, <2>2, <2>3
<1> QED
  BY <1>2, <1>3, <1>4, <1>5

LEMMA BrokenIsSound ==
    ASSUME NEW q, Sound(q), q.status = "running", NEW d \in Broken(q)
    PROVE  Sound(d)
<1>1. q.todo # <<>>
  BY DEF Sound
<1> QED
  BY <1>1, FailedIsSound, DoneIsSound DEF Broken

-----------------------------------------------------------------------------
(* What most steps leave alone.                                            *)

PollInv == PollTypes /\ DroppedInv /\ HandedInv /\ BatchInv

PollerPcs == {"gone", "check", "request", "handing", "delay"}
Results == {"none", "body", "exception", "nullopt"}

\* The server drops nothing.
KeepsUpdates == UNCHANGED <<server, skipped>>

\* The server drops only what is given up with it.
GivesUp ==
    /\ server' \subseteq server /\ server \ server' \subseteq skipped'
    /\ skipped \subseteq skipped' /\ skipped' \subseteq 1..arrived

\* Nothing is received or handed over. The batch stays, is given up, or dies with the
\* process.
LEMMA PollKept ==
    ASSUME PollInv, GivesUp, UNCHANGED <<arrived, update_offset, handed, everHanded>>,
           \/ poller'.batch = poller.batch /\ poller'.pc = poller.pc
           \/ /\ Pending \subseteq skipped' /\ poller'.pc \in PollerPcs \ {"handing"}
              /\ poller'.batch = <<>> \/ (poller.pc # "handing" /\ poller'.batch = poller.batch)
           \/ process' # "up" /\ poller'.pc = "gone" /\ poller'.batch = <<>>,
           process' \in {process, "stopped"},
           \A c \in Callers : calls'[c].result \in Results
    PROVE  PollInv'
<1>1. <<>> \in Seq(1..arrived) /\ DOMAIN <<>> = {}
  OBVIOUS
<1>2. PollTypes /\ DroppedInv /\ HandedInv /\ BatchInv
  BY DEF PollInv
<1>3. PollTypes'
  BY <1>1, <1>2 DEF PollTypes, GivesUp, PollerPcs, Results
<1>4. Gone \subseteq Gone'
  BY DEF Gone, GivesUp
<1>5. \A u \in 1..arrived' : u \notin server' => u \in Gone'
  BY <1>2, <1>4 DEF DroppedInv, GivesUp, Gone
<1>6. process' = "up" => \A u \in 1..arrived' : u < update_offset' => u \in Gone' \cup Pending'
  <2> SUFFICES ASSUME process' = "up", NEW u \in 1..arrived, u < update_offset
               PROVE  u \in Gone' \cup Pending'
    OBVIOUS
  <2>1. process = "up"
    OBVIOUS
  <2>2. u \in Gone \cup Pending
    BY <1>2, <2>1 DEF DroppedInv
  <2>3. Pending \subseteq Gone' \cup Pending'
    <3>1. CASE poller'.batch = poller.batch /\ poller'.pc = poller.pc
      BY <3>1 DEF Pending, Range
    <3>2. CASE Pending \subseteq skipped'
      BY <3>2 DEF Gone
    <3> QED
      BY <3>1, <3>2
  <2> QED
    BY <1>4, <2>2, <2>3
<1>7. HandedInv'
  BY <1>2 DEF HandedInv, Increasing
<1>8. BatchInv'
  <2>1. CASE poller'.batch = <<>>
    BY <1>1, <2>1 DEF BatchInv, Increasing, Complete
  <2>2. CASE poller'.batch = poller.batch /\ (poller'.pc = "handing" <=> poller.pc = "handing")
    <3>1. Increasing(poller.batch)' /\ (\A i \in DOMAIN handed', j \in DOMAIN poller'.batch : handed'[i] < poller'.batch[j])
      BY <1>2, <2>2 DEF BatchInv, Increasing
    <3>2. CASE poller.pc = "handing"
      BY <1>2, <2>2, <3>1, <3>2 DEF BatchInv
    <3>3. CASE poller.pc # "handing"
      <4>1. Complete(poller.batch)
        BY <1>2, <3>3 DEF BatchInv
      <4>2. Complete(poller.batch)'
        BY <1>4, <2>2, <4>1 DEF Complete, Range
      <4> QED
        BY <2>2, <3>1, <3>3, <4>2 DEF BatchInv
    <3> QED
      BY <3>2, <3>3
  <2> QED
    BY <2>1, <2>2 DEF PollerPcs
<1> QED
  BY <1>3, <1>5, <1>6, <1>7, <1>8 DEF PollInv, DroppedInv

LEMMA KeptIsGivenUp ==
    ASSUME IInv, KeepsUpdates
    PROVE  GivesUp
BY DEF KeepsUpdates, GivesUp, IInv, PollTypes

\* One caller moves on; its request may make the server drop updates.
LEMMA CallStep ==
    ASSUME IInv, NEW c \in Callers, NEW k, calls' = [calls EXCEPT ![c] = k],
           DOMAIN k = {"method", "request", "result"}, Sound(k.request), k.result \in Results, GivesUp,
           UNCHANGED <<config, arrived, process, started, client, poller, handed, everHanded>>
    PROVE  IInv'
<1>1. DOMAIN calls = Callers
  BY DEF IInv, RequestInv
<1>2. calls'[c] = k /\ (\A x \in Callers : x # c => calls'[x] = calls[x]) /\ DOMAIN calls' = Callers
  BY <1>1
<1>3. RequestInv'
  BY <1>2 DEF IInv, RequestInv
<1>4. \A x \in Callers : calls'[x].result \in Results
  BY <1>2 DEF IInv, PollTypes, Results
<1>5. PollInv
  BY DEF IInv, PollInv
<1>6. PollInv'
  BY <1>4, <1>5, PollKept DEF client
<1> QED
  BY <1>3, <1>6 DEF IInv, PollInv

\* The poller moves on, with a sound request.
LEMMA PollerStep ==
    ASSUME IInv, DOMAIN poller' = {"pc", "request", "batch"}, Sound(poller'.request), GivesUp,
           \/ poller'.batch = poller.batch /\ poller'.pc = poller.pc
           \/ /\ Pending \subseteq skipped' /\ poller'.pc \in PollerPcs \ {"handing"}
              /\ poller'.batch = <<>> \/ (poller.pc # "handing" /\ poller'.batch = poller.batch),
           UNCHANGED <<config, arrived, process, update_offset, calls, handed, everHanded>>
    PROVE  IInv'
<1>1. RequestInv'
  BY DEF IInv, RequestInv
<1>2. PollInv /\ \A c \in Callers : calls'[c].result \in Results
  BY DEF IInv, PollInv, PollTypes, Results
<1>3. PollInv'
  BY <1>2, PollKept
<1> QED
  BY <1>1, <1>3 DEF IInv, PollInv

LEMMA NoPollerFacts ==
    ASSUME NEW pc
    PROVE  /\ DOMAIN NoPoller = {"pc", "request", "batch"} /\ NoPoller.pc = "gone"
           /\ NoPoller.request = NoRequest /\ NoPoller.batch = <<>>
           /\ DOMAIN [NoPoller EXCEPT !.pc = pc] = {"pc", "request", "batch"}
           /\ [NoPoller EXCEPT !.pc = pc].pc = pc
           /\ [NoPoller EXCEPT !.pc = pc].request = NoRequest
           /\ [NoPoller EXCEPT !.pc = pc].batch = <<>>
BY DEF NoPoller

-----------------------------------------------------------------------------
(* Updates.                                                                *)

LEMMA UpdateArrivesStep ==
    ASSUME IInv, UpdateArrives
    PROVE  IInv'
<1>1. /\ arrived' = arrived + 1 /\ server' = server \cup {arrived + 1} /\ arrived < Updates
      /\ UNCHANGED <<config, process, update_offset, poller, calls, handed, everHanded, skipped>>
  BY DEF UpdateArrives, client, history
<1>2. RequestInv /\ PollTypes /\ DroppedInv /\ HandedInv /\ BatchInv
  BY DEF IInv
<1>3. /\ arrived \in Nat /\ arrived' \in Nat
      /\ \A u : u \in 1..arrived' <=> (u \in 1..arrived \/ u = arrived + 1)
      /\ arrived + 1 \notin 1..arrived
  BY <1>1, <1>2 DEF PollTypes
<1>4. RequestInv'
  BY <1>1, <1>2 DEF RequestInv
<1>5. PollTypes'
  <2>1. \A s : s \in Seq(1..arrived) => s \in Seq(1..arrived')
    BY <1>3
  <2>2. /\ arrived' <= Updates /\ server' \subseteq 1..arrived' /\ skipped' \subseteq 1..arrived'
        /\ update_offset <= arrived' + 1
    BY <1>1, <1>2, <1>3, PollingAssumption DEF PollTypes
  <2> QED
    BY <1>1, <1>2, <1>3, <2>1, <2>2 DEF PollTypes
<1>6. Gone' = Gone /\ Pending' = Pending
  BY <1>1 DEF Gone, Pending
<1>7. DroppedInv'
  <2>1. ASSUME NEW u \in 1..arrived', u \notin server' PROVE u \in Gone
    BY <1>1, <1>2, <1>3, <2>1 DEF DroppedInv
  <2>2. ASSUME NEW u \in 1..arrived', process = "up", u < update_offset PROVE u \in Gone \cup Pending
    <3>1. u # arrived + 1
      BY <1>2, <1>3, <2>2 DEF PollTypes
    <3> QED
      BY <1>2, <1>3, <2>2, <3>1 DEF DroppedInv
  <2> QED
    BY <1>1, <1>6, <2>1, <2>2 DEF DroppedInv
<1>8. HandedInv'
  BY <1>1, <1>2 DEF HandedInv, Increasing
<1>9. BatchInv'
  <2> DEFINE b == poller.batch
  <2>1. \A i \in DOMAIN b : b[i] \in 1..arrived
    BY <1>2 DEF PollTypes
  <2>2. ASSUME Complete(b), NEW i \in DOMAIN b, NEW u \in 1..arrived', u <= b[i]
        PROVE  u \in Range(b) \cup Gone
    <3>1. u # arrived + 1
      BY <1>3, <2>1, <2>2
    <3> QED
      BY <1>3, <2>2, <3>1 DEF Complete
  <2>3. ASSUME Complete(b) PROVE Complete(b)'
    <3>1. \A i \in DOMAIN b : update_offset <= b[i]
      BY <2>3 DEF Complete
    <3>2. poller' = poller /\ update_offset' = update_offset
      BY <1>1
    <3> QED
      BY <1>6, <2>2, <2>3, <3>1, <3>2 DEF Complete
  <2>4. poller' = poller /\ update_offset' = update_offset /\ handed' = handed
    BY <1>1
  <2> QED
    BY <1>2, <2>3, <2>4 DEF BatchInv, Increasing
<1> QED
  BY <1>4, <1>5, <1>7, <1>8, <1>9 DEF IInv

\* A getUpdates of the poller reaches the server, and perhaps its answer the poller.
LEMMA AnswerStep ==
    ASSUME IInv, DOMAIN poller' = {"pc", "request", "batch"}, Sound(poller'.request),
           process = "up", poller.pc = "request", poller'.pc = "request",
           poller'.batch \in {poller.batch, <<>>} \cup Batches(update_offset),
           server' \in {server, Confirm(update_offset)},
           UNCHANGED <<config, arrived, process, started, client, calls, handed, history>>
    PROVE  IInv'
<1>1. /\ RequestInv /\ PollTypes /\ DroppedInv /\ HandedInv /\ BatchInv
      /\ UNCHANGED <<update_offset, everHanded, skipped>>
  BY DEF IInv, client, history
<1>2. RequestInv'
  BY <1>1 DEF RequestInv
<1>3. Gone' = Gone /\ Pending = {} /\ Pending' = {}
  BY <1>1 DEF Gone, Pending
<1>4. /\ \A u \in 1..arrived : u \notin server \/ u < update_offset => u \in Gone
      /\ Complete(poller.batch)
  BY <1>1, <1>3 DEF DroppedInv, BatchInv
<1> DEFINE b == poller'.batch
<1>5. /\ b \in Seq(1..arrived) /\ Increasing(b) /\ Complete(b)
  <2>1. CASE b = poller.batch
    <3> HIDE DEF b
    <3> QED
      BY <1>1, <1>4, <2>1 DEF PollTypes, BatchInv
  <2>2. CASE b = <<>>
    <3>1. <<>> \in Seq(1..arrived) /\ DOMAIN <<>> = {}
      OBVIOUS
    <3> HIDE DEF b
    <3> QED
      BY <2>2, <3>1 DEF Increasing, Complete
  <2>3. CASE b \in Batches(update_offset)
    <3> DEFINE held == {u \in server : u >= update_offset}
    <3> HIDE DEF b
    <3>1. /\ b \in BoundedSeq(held, Limit) /\ Increasing(b)
          /\ \A u \in held, i \in DOMAIN b : u < b[i] => u \in Range(b)
      BY <2>3 DEF Batches
    <3>2. \E m \in 0..Limit : b \in [1..m -> held]
      BY <3>1 DEF BoundedSeq, SeqOf
    <3>3. b \in Seq(held) /\ (\A i \in DOMAIN b : b[i] \in held)
      BY <3>2, PollingAssumption
    <3>4. held \subseteq 1..arrived /\ \A u \in held : update_offset <= u
      BY <1>1 DEF PollTypes
    <3>5. b \in Seq(1..arrived)
      BY <3>3, <3>4, ElementFacts
    <3>6. ASSUME NEW i \in DOMAIN b, NEW u \in 1..arrived, u <= b[i]
          PROVE  u \in Range(b) \cup Gone
      <4>1. CASE u \in held
        <5>1. CASE u = b[i]
          BY <5>1 DEF Range
        <5>2. CASE u # b[i]
          <6>1. b[i] \in Nat /\ u \in Nat
            BY <3>3, <3>4
          <6>2. u < b[i]
            BY <3>6, <5>2, <6>1
          <6> QED
            BY <3>1, <4>1, <6>2
        <5> QED
          BY <5>1, <5>2
      <4>2. CASE u \notin held
        <5>1. u \notin server \/ u < update_offset
          BY <1>1, <4>2 DEF PollTypes
        <5> QED
          BY <1>4, <5>1
      <4> QED
        BY <4>1, <4>2
    <3> QED
      BY <3>1, <3>3, <3>4, <3>5, <3>6 DEF Complete
  <2> QED
    BY <2>1, <2>2, <2>3
<1> HIDE DEF b
<1>6. BatchInv'
  <2>1. ASSUME NEW i \in DOMAIN handed, NEW j \in DOMAIN b PROVE handed[i] < b[j]
    <3>1. handed[i] \in Nat /\ b[j] \in Nat /\ update_offset \in Nat
      BY <1>1, <1>5, ElementFacts DEF PollTypes
    <3>2. handed[i] < update_offset /\ update_offset <= b[j]
      BY <1>1, <1>5 DEF HandedInv, Complete
    <3> QED
      BY <3>1, <3>2
  <2>2. Complete(poller.batch)'
    BY <1>1, <1>3, <1>5 DEF Complete, b
  <2>3. Increasing(poller'.batch) /\ \A i \in DOMAIN handed', j \in DOMAIN poller'.batch : handed'[i] < poller'.batch[j]
    BY <1>5, <2>1 DEF b
  <2> QED
    BY <2>2, <2>3 DEF BatchInv
<1>7. server' \subseteq server /\ \A u \in server : u \notin server' => u < update_offset
  BY <1>1 DEF Confirm, PollTypes
<1>8. PollTypes'
  BY <1>1, <1>5, <1>7 DEF PollTypes, b
<1>9. DroppedInv' /\ HandedInv'
  BY <1>1, <1>3, <1>4, <1>7 DEF DroppedInv, HandedInv
<1> QED
  BY <1>2, <1>6, <1>8, <1>9 DEF IInv

\* The offset moves past the batch, which is about to be handed over.
LEMMA OffsetStep ==
    ASSUME IInv, process = "up", poller.pc = "request", update_offset' = PastBatch(poller.batch),
           poller' = [NoPoller EXCEPT !.pc = "handing", !.batch = poller.batch],
           UNCHANGED <<config, server, arrived, process, calls, handed, history>>
    PROVE  IInv'
<1> DEFINE b == poller.batch
<1>1. /\ RequestInv /\ PollTypes /\ DroppedInv /\ HandedInv /\ BatchInv
      /\ UNCHANGED <<everHanded, skipped>>
  BY DEF IInv, history
<1>2. /\ DOMAIN poller' = {"pc", "request", "batch"} /\ poller'.pc = "handing"
      /\ poller'.request = NoRequest /\ poller'.batch = b
  BY DEF NoPoller
<1>3. RequestInv'
  BY <1>1, <1>2, NoRequestIsSound DEF RequestInv
<1>4. Gone' = Gone /\ Pending = {} /\ Pending' = Range(b)
  BY <1>1, <1>2 DEF Gone, Pending
<1>5. /\ arrived \in Nat /\ update_offset \in Nat /\ update_offset <= arrived + 1
      /\ b \in Seq(1..arrived) /\ Increasing(b) /\ Complete(b)
  BY <1>1 DEF PollTypes, BatchInv
<1>6. update_offset' = PastBatch(b)
  OBVIOUS
<1> HIDE DEF b
<1>7. /\ update_offset' \in Nat /\ update_offset' <= arrived + 1 /\ update_offset <= update_offset'
      /\ \A i \in DOMAIN b : b[i] < update_offset'
      /\ \A u \in 1..arrived : u < update_offset' => u \in Gone \cup Range(b)
  <2>1. CASE b = <<>>
    <3>1. update_offset' = update_offset /\ DOMAIN b = {}
      BY <1>6, <2>1 DEF PastBatch
    <3> QED
      BY <1>1, <1>4, <1>5, <3>1 DEF DroppedInv
  <2>2. CASE b # <<>>
    <3> DEFINE l == Len(b)
    <3>1. l \in Nat \ {0} /\ DOMAIN b = 1..l /\ l \in DOMAIN b
      BY <1>5, <2>2
    <3>2. b[l] \in 1..arrived
      BY <1>5, <3>1, ElementFacts
    <3>3. update_offset' = b[l] + 1
      BY <1>6, <2>2 DEF PastBatch, Last
    <3>4. \A i \in DOMAIN b : b[i] <= b[l]
      <4> SUFFICES ASSUME NEW i \in DOMAIN b PROVE b[i] <= b[l]
        OBVIOUS
      <4>1. b[i] \in 1..arrived
        BY <1>5, ElementFacts
      <4>2. i < l => b[i] < b[l]
        BY <1>5, <3>1 DEF Increasing
      <4>3. i = l \/ i < l
        BY <3>1
      <4> QED
        BY <3>2, <4>1, <4>2, <4>3
    <3> HIDE DEF l
    <3>5. \A i \in DOMAIN b : b[i] < update_offset'
      <4> SUFFICES ASSUME NEW i \in DOMAIN b PROVE b[i] < update_offset'
        OBVIOUS
      <4>1. b[i] \in 1..arrived /\ b[i] <= b[l]
        BY <1>5, <3>4, ElementFacts
      <4> QED
        BY <3>2, <3>3, <4>1
    <3>6. ASSUME NEW u \in 1..arrived, u < update_offset' PROVE u \in Gone \cup Range(b)
      <4>1. u <= b[l]
        BY <3>2, <3>3, <3>6
      <4> QED
        BY <1>5, <3>1, <4>1 DEF Complete
    <3>7. update_offset <= b[l]
      BY <1>5, <3>1 DEF Complete
    <3> QED
      BY <1>5, <3>2, <3>3, <3>5, <3>6, <3>7
  <2> QED
    BY <2>1, <2>2
<1>8. PollTypes'
  BY <1>1, <1>2, <1>5, <1>7 DEF PollTypes
<1>9. DroppedInv'
  BY <1>1, <1>4, <1>7 DEF DroppedInv
<1>10. HandedInv'
  <2>1. ASSUME NEW i \in DOMAIN handed PROVE handed[i] < update_offset'
    <3>1. handed[i] \in Nat /\ handed[i] < update_offset
      BY <1>1, ElementFacts DEF PollTypes, HandedInv
    <3> QED
      BY <1>5, <1>7, <3>1
  <2> QED
    BY <1>1, <2>1 DEF HandedInv
<1>11. BatchInv'
  BY <1>1, <1>2, <1>5, <1>7 DEF BatchInv, b
<1> QED
  BY <1>3, <1>8, <1>9, <1>10, <1>11 DEF IInv

LEMMA PollAnsweredStep ==
    ASSUME IInv, PollAnswered
    PROVE  IInv'
<1>1. CASE /\ update_offset' = PastBatch(poller.batch)
           /\ poller' = [NoPoller EXCEPT !.pc = "handing", !.batch = poller.batch]
  BY <1>1, OffsetStep DEF PollAnswered
<1>2. CASE poller' = [NoPoller EXCEPT !.pc = "check"] /\ UNCHANGED update_offset
  <2>1. /\ DOMAIN poller' = {"pc", "request", "batch"} /\ poller'.pc = "check"
        /\ poller'.request = NoRequest /\ poller'.batch = <<>>
    BY <1>2, NoPollerFacts
  <2>2. GivesUp /\ UNCHANGED <<config, arrived, process, update_offset, calls, handed, everHanded>>
    BY <1>2, KeptIsGivenUp DEF PollAnswered, history, KeepsUpdates
  <2>3. Pending = {}
    BY DEF Pending, PollAnswered
  <2> QED
    BY <2>1, <2>2, <2>3, NoRequestIsSound, PollerStep DEF PollerPcs
<1> QED
  BY <1>1, <1>2 DEF PollAnswered

\* What is left of a batch without its first update.
LEMMA TailFacts ==
    ASSUME NEW n \in Nat, NEW b \in Seq(1..n), b # <<>>, Increasing(b)
    PROVE  /\ Head(b) = b[1] /\ 1 \in DOMAIN b /\ b[1] \in 1..n
           /\ Tail(b) \in Seq(1..n) /\ Increasing(Tail(b))
           /\ \A i \in DOMAIN Tail(b) : i + 1 \in DOMAIN b /\ Tail(b)[i] = b[i + 1] /\ b[1] < Tail(b)[i]
           /\ Range(b) \subseteq {b[1]} \cup Range(Tail(b))
<1> DEFINE t == Tail(b)
<1>1. /\ Len(b) \in Nat \ {0} /\ DOMAIN b = 1..Len(b) /\ Head(b) = b[1] /\ t \in Seq(1..n)
      /\ Len(t) = Len(b) - 1 /\ DOMAIN t = 1..(Len(b) - 1) /\ \A i \in 1..(Len(b) - 1) : t[i] = b[i + 1]
  OBVIOUS
<1> HIDE DEF t
<1>2. 1 \in DOMAIN b /\ b[1] \in 1..n
  BY <1>1
<1>3. ASSUME NEW i \in DOMAIN t PROVE i + 1 \in DOMAIN b /\ t[i] = b[i + 1] /\ b[1] < t[i]
  <2>1. i + 1 \in DOMAIN b /\ t[i] = b[i + 1] /\ 1 < i + 1
    BY <1>1
  <2> QED
    BY <1>2, <2>1 DEF Increasing
<1>4. Increasing(t)
  <2> SUFFICES ASSUME NEW i \in DOMAIN t, NEW j \in DOMAIN t, i < j PROVE t[i] < t[j]
    BY DEF Increasing
  <2>1. i + 1 \in DOMAIN b /\ j + 1 \in DOMAIN b /\ t[i] = b[i + 1] /\ t[j] = b[j + 1]
    BY <1>3
  <2>2. i + 1 < j + 1
    BY <1>1
  <2> QED
    BY <2>1, <2>2 DEF Increasing
<1>5. ASSUME NEW i \in DOMAIN b PROVE b[i] \in {b[1]} \cup Range(t)
  <2>1. CASE i = 1
    BY <2>1
  <2>2. CASE i # 1
    <3>1. i - 1 \in DOMAIN t /\ i - 1 + 1 = i
      BY <1>1, <2>2
    <3>2. t[i - 1] = b[i]
      BY <1>1, <3>1
    <3> QED
      BY <3>1, <3>2 DEF Range
  <2> QED
    BY <2>1, <2>2
<1> QED
  BY <1>1, <1>2, <1>3, <1>4, <1>5 DEF Range, t

LEMMA HandOverStep ==
    ASSUME IInv, HandOver
    PROVE  IInv'
<1> DEFINE b == poller.batch
           u == Head(poller.batch)
           t == Tail(poller.batch)
<1>1. /\ RequestInv /\ PollTypes /\ DroppedInv /\ HandedInv /\ BatchInv
      /\ process = "up" /\ poller.pc = "handing" /\ b # <<>>
      /\ poller' = [poller EXCEPT !.batch = Tail(@)]
      /\ UNCHANGED <<config, server, arrived, process, update_offset, calls>>
  BY DEF IInv, HandOver, client
<1>2. /\ DOMAIN poller' = {"pc", "request", "batch"} /\ poller'.pc = "handing"
      /\ poller'.request = poller.request /\ poller'.batch = t
  BY <1>1 DEF RequestInv
<1>3. RequestInv'
  BY <1>1, <1>2 DEF RequestInv
<1>4. /\ arrived \in Nat /\ b \in Seq(1..arrived) /\ Increasing(b) /\ update_offset \in Nat
      /\ \A i \in DOMAIN b : b[i] < update_offset
      /\ \A i \in DOMAIN handed, j \in DOMAIN b : handed[i] < b[j]
      /\ handed \in Seq(1..arrived)
  BY <1>1 DEF PollTypes, BatchInv
<1>5. /\ u = b[1] /\ 1 \in DOMAIN b /\ u \in 1..arrived
      /\ t \in Seq(1..arrived) /\ Increasing(t)
      /\ \A i \in DOMAIN t : i + 1 \in DOMAIN b /\ t[i] = b[i + 1] /\ u < t[i]
      /\ Range(b) \subseteq {u} \cup Range(t)
  BY <1>1, <1>4, TailFacts
<1>6. \/ handed' = Append(handed, u) /\ everHanded' = everHanded \cup {u} /\ skipped' = skipped
      \/ handed' = handed /\ everHanded' = everHanded /\ skipped' = skipped \cup {u}
  BY DEF HandOver
<1>7. Pending = Range(b) /\ Pending' = Range(t) /\ Gone' = Gone \cup {u}
  BY <1>1, <1>2, <1>6 DEF Pending, Gone
<1> HIDE DEF b, u, t
<1>8. DroppedInv'
  BY <1>1, <1>5, <1>7 DEF DroppedInv
<1>9. u < update_offset /\ \A i \in DOMAIN t : t[i] < update_offset
  BY <1>4, <1>5
\* All that was handed over so far comes before what is left of the batch.
<1>10. \A i \in DOMAIN handed : handed[i] < u /\ \A j \in DOMAIN t : handed[i] < t[j]
  BY <1>4, <1>5
<1>11. CASE handed' = handed /\ skipped' = skipped \cup {u}
  <2>1. PollTypes'
    BY <1>1, <1>2, <1>5, <1>11 DEF PollTypes
  <2>2. HandedInv'
    BY <1>1, <1>11 DEF HandedInv
  <2>3. BatchInv'
    BY <1>1, <1>2, <1>5, <1>9, <1>10, <1>11 DEF BatchInv
  <2> QED
    BY <1>3, <1>8, <2>1, <2>2, <2>3 DEF IInv
<1>12. CASE handed' = Append(handed, u) /\ skipped' = skipped
  <2> DEFINE g == handed'
             n == Len(handed)
  <2>1. /\ g \in Seq(1..arrived) /\ n \in Nat /\ DOMAIN g = 1..(n + 1) /\ DOMAIN handed = 1..n
        /\ g[n + 1] = u /\ \A i \in 1..n : g[i] = handed[i]
    BY <1>4, <1>5, <1>12
  <2> HIDE DEF g, n
  <2>2. ASSUME NEW i \in DOMAIN g
        PROVE  (i \in DOMAIN handed /\ g[i] = handed[i]) \/ g[i] = u
    BY <2>1
  <2>3. PollTypes'
    BY <1>1, <1>2, <1>5, <1>12, <2>1 DEF PollTypes, g
  <2>4. ASSUME NEW i \in DOMAIN g, NEW j \in DOMAIN g, i < j PROVE g[i] < g[j]
    <3>1. i \in DOMAIN handed /\ g[i] = handed[i]
      BY <2>1, <2>4
    <3>2. CASE j \in DOMAIN handed /\ g[j] = handed[j]
      BY <1>1, <2>4, <3>1, <3>2 DEF HandedInv, Increasing
    <3>3. CASE g[j] = u
      BY <1>10, <3>1, <3>3
    <3> QED
      BY <2>2, <3>2, <3>3
  <2>5. HandedInv'
    <3>1. \A i \in DOMAIN g : g[i] < update_offset
      BY <1>1, <1>9, <2>2 DEF HandedInv
    <3> QED
      BY <1>1, <2>4, <3>1 DEF HandedInv, Increasing, g
  <2>6. \A i \in DOMAIN g, j \in DOMAIN t : g[i] < t[j]
    BY <1>5, <1>10, <2>2
  <2>7. BatchInv'
    BY <1>1, <1>2, <1>5, <1>9, <2>6 DEF BatchInv, g
  <2> QED
    BY <1>3, <1>8, <2>3, <2>5, <2>7 DEF IInv
<1> QED
  BY <1>6, <1>11, <1>12

\* The rest of the batch is given up, or there is none.
LEMMA HandingEndsStep ==
    ASSUME IInv, HandOverFails \/ HandOverEnds
    PROVE  IInv'
<1>1. /\ PollTypes /\ poller.pc = "handing" /\ poller' = [NoPoller EXCEPT !.pc = "check"]
      /\ UNCHANGED <<config, server, arrived, process, update_offset, calls, handed, everHanded>>
  BY DEF IInv, HandOverFails, HandOverEnds, client, history
<1>2. /\ DOMAIN poller' = {"pc", "request", "batch"} /\ poller'.pc = "check"
      /\ poller'.request = NoRequest /\ poller'.batch = <<>>
  BY <1>1, NoPollerFacts
<1>3. Pending = Range(poller.batch) /\ Range(poller.batch) \subseteq 1..arrived
  BY <1>1, ElementFacts DEF Pending, Range, PollTypes
<1>4. GivesUp /\ Pending \subseteq skipped'
  <2>1. CASE HandOverFails
    BY <1>1, <1>3, <2>1 DEF GivesUp, HandOverFails, PollTypes
  <2>2. CASE HandOverEnds
    <3>1. Range(<<>>) = {}
      BY DEF Range
    <3>2. poller.batch = <<>> /\ UNCHANGED <<server, skipped>>
      BY <2>2 DEF HandOverEnds, history
    <3> QED
      BY <1>3, <3>1, <3>2, KeptIsGivenUp DEF KeepsUpdates
  <2> QED
    BY <2>1, <2>2
<1> QED
  BY <1>1, <1>2, <1>4, NoRequestIsSound, PollerStep DEF PollerPcs

-----------------------------------------------------------------------------
(* The process and the poller.                                             *)

LEMMA StartStep ==
    ASSUME IInv, Start
    PROVE  IInv'
<1>1. /\ process' = "up" /\ update_offset' = 0 /\ handed' = <<>>
      /\ poller' = [NoPoller EXCEPT !.pc = "check"]
      /\ calls' = [c \in Callers |-> Idle]
      /\ UNCHANGED <<config, server, arrived, everHanded, skipped>>
      /\ PollTypes /\ DroppedInv /\ config \in Configs
  BY DEF Start, IInv, RequestInv, history
<1>2. /\ DOMAIN poller' = {"pc", "request", "batch"} /\ poller'.pc = "check"
      /\ poller'.request = NoRequest /\ poller'.batch = <<>>
  BY <1>1, NoPollerFacts
<1>3. DOMAIN Idle = {"method", "request", "result"} /\ Idle.request = NoRequest /\ Idle.result = "none"
  BY DEF Idle
<1>4. RequestInv'
  BY <1>1, <1>2, <1>3, NoRequestIsSound DEF RequestInv
<1>5. <<>> \in Seq(1..arrived) /\ DOMAIN <<>> = {}
  OBVIOUS
<1>6. PollTypes'
  <2>1. \A c \in Callers : calls'[c].result \in {"none", "body", "exception", "nullopt"}
    BY <1>1, <1>3
  <2>2. 0 \in Nat /\ 0 <= arrived + 1
    BY <1>1 DEF PollTypes
  <2> QED
    BY <1>1, <1>2, <1>5, <2>1, <2>2 DEF PollTypes
<1>7. DroppedInv'
  <2>1. Gone' = Gone /\ \A u \in 1..arrived : ~(u < 0)
    BY <1>1 DEF Gone
  <2> QED
    BY <1>1, <2>1 DEF DroppedInv
<1>8. HandedInv' /\ BatchInv'
  BY <1>1, <1>2, <1>5 DEF HandedInv, BatchInv, Complete, Increasing
<1> QED
  BY <1>4, <1>6, <1>7, <1>8 DEF IInv

\* What the process had in hand is still with the server.
LEMMA ProcessEndsStep ==
    ASSUME IInv, ProcessEnds
    PROVE  IInv'
<1>1. /\ process' = "stopped" /\ poller' = NoPoller /\ calls' = [c \in Callers |-> Idle]
      /\ KeepsUpdates /\ UNCHANGED <<config, arrived, update_offset, handed, everHanded>>
  BY DEF ProcessEnds, client, history, KeepsUpdates
<1>2. DOMAIN Idle = {"method", "request", "result"} /\ Idle.request = NoRequest /\ Idle.result = "none"
  BY DEF Idle
<1>3. RequestInv'
  BY <1>1, <1>2, NoPollerFacts, NoRequestIsSound DEF RequestInv, IInv
<1>4. PollInv /\ GivesUp
  BY <1>1, KeptIsGivenUp DEF IInv, PollInv
<1>5. \A c \in Callers : calls'[c].result \in Results
  BY <1>1, <1>2 DEF Results
<1>6. PollInv'
  BY <1>1, <1>4, <1>5, NoPollerFacts, PollKept
<1> QED
  BY <1>3, <1>6 DEF IInv, PollInv

LEMMA PollerRestsStep ==
    ASSUME IInv, StopPolling \/ PollFailed \/ PollDelayEnds
    PROVE  IInv'
<1>1. /\ DOMAIN poller = {"pc", "request", "batch"} /\ Sound(poller.request)
      /\ poller.pc \in PollerPcs /\ KeepsUpdates
      /\ UNCHANGED <<config, arrived, process, update_offset, calls, handed, everHanded>>
  BY DEF IInv, RequestInv, PollTypes, StopPolling, PollFailed, PollDelayEnds, client, history,
         KeepsUpdates, PollerPcs
<1>2. GivesUp
  BY <1>1, KeptIsGivenUp
<1>3. CASE poller' = poller
  BY <1>1, <1>2, <1>3, PollerStep
<1>4. CASE poller.pc \in {"request", "delay"} /\ (poller' = NoPoller \/ poller' = [NoPoller EXCEPT !.pc = "delay"])
  <2>1. Pending = {}
    BY <1>4 DEF Pending
  <2>2. /\ DOMAIN poller' = {"pc", "request", "batch"} /\ poller'.pc \in {"gone", "delay"}
        /\ poller'.request = NoRequest /\ poller'.batch = <<>>
    BY <1>4, NoPollerFacts
  <2> QED
    BY <1>1, <1>2, <2>1, <2>2, NoRequestIsSound, PollerStep DEF PollerPcs
<1>5. CASE poller.pc = "delay" /\ poller' = [poller EXCEPT !.pc = "check"]
  <2>1. DOMAIN poller' = {"pc", "request", "batch"} /\ poller'.pc = "check" /\ poller'.request = poller.request
        /\ poller'.batch = poller.batch
    BY <1>1, <1>5
  <2>2. Pending = {}
    BY <1>5 DEF Pending
  <2> QED
    BY <1>1, <1>2, <1>5, <2>1, <2>2, PollerStep DEF PollerPcs
<1> QED
  BY <1>3, <1>4, <1>5 DEF StopPolling, PollFailed, PollDelayEnds

LEMMA PollBeginsStep ==
    ASSUME IInv, PollBegins
    PROVE  IInv'
<1>1. /\ DOMAIN poller = {"pc", "request", "batch"} /\ config \in Configs /\ KeepsUpdates
      /\ poller.pc = "check" /\ Pending = {}
      /\ UNCHANGED <<config, arrived, process, update_offset, calls, handed, everHanded>>
  BY DEF IInv, RequestInv, PollBegins, client, history, KeepsUpdates, Pending
<1>2. GivesUp
  BY <1>1, KeptIsGivenUp
<1>3. CASE is_polling
  <2> DEFINE r == NewRequest(config, "post")
  <2>1. Sound(r) /\ poller' = [poller EXCEPT !.pc = "request", !.request = r]
    BY <1>1, <1>3, NewRequestIsSound DEF PollBegins
  <2> HIDE DEF r
  <2>2. DOMAIN poller' = {"pc", "request", "batch"} /\ poller'.pc = "request" /\ poller'.request = r
        /\ poller'.batch = poller.batch
    BY <1>1, <2>1
  <2> QED
    BY <1>1, <1>2, <2>1, <2>2, PollerStep DEF PollerPcs
<1>4. CASE ~is_polling
  <2>1. poller' = NoPoller
    BY <1>4 DEF PollBegins
  <2> QED
    BY <1>1, <1>2, <2>1, NoPollerFacts, NoRequestIsSound, PollerStep DEF PollerPcs
<1> QED
  BY <1>3, <1>4

LEMMA PollIoStep ==
    ASSUME IInv, PollIo
    PROVE  IInv'
<1> DEFINE q == poller.request
           op == Head(poller.request.todo).op
<1>1. /\ DOMAIN poller = {"pc", "request", "batch"} /\ Sound(q) /\ q.status = "running"
      /\ poller.pc = "request" /\ process = "up"
      /\ UNCHANGED <<config, arrived, process, started, client, calls, handed, history>>
  BY DEF IInv, RequestInv, PollIo
<1>2. PICK answer \in Answers(op), batch \in IF op = "read" THEN Batches(update_offset) ELSE {<<>>} :
         /\ poller' = [poller EXCEPT !.request = After(config, @, answer), !.batch = batch]
         /\ server' = IF op = "write" THEN Confirm(update_offset) ELSE server
  BY DEF PollIo
<1> DEFINE a == After(config, q, answer)
<1>3. Sound(a) /\ poller' = [poller EXCEPT !.request = a, !.batch = batch]
  BY <1>1, <1>2, AfterIsSound
<1> HIDE DEF a
<1>4. DOMAIN poller' = {"pc", "request", "batch"} /\ poller'.pc = "request" /\ poller'.request = a
      /\ poller'.batch = batch
  BY <1>1, <1>3
<1>5. batch \in {<<>>} \cup Batches(update_offset) /\ server' \in {server, Confirm(update_offset)}
  BY <1>2
<1> QED
  BY <1>1, <1>3, <1>4, <1>5, AnswerStep

LEMMA PollIoFailsStep ==
    ASSUME IInv, PollIoFails
    PROVE  IInv'
<1>1. /\ DOMAIN poller = {"pc", "request", "batch"} /\ Sound(poller.request)
      /\ poller.pc = "request" /\ process = "up"
      /\ UNCHANGED <<config, arrived, process, started, client, calls, handed, history>>
      /\ server' \in {server, Confirm(update_offset)}
  BY DEF IInv, RequestInv, PollIoFails
<1> DEFINE a == Failed(poller.request)
<1>2. Sound(a) /\ poller' = [poller EXCEPT !.request = a]
  BY <1>1, FailedIsSound DEF PollIoFails
<1> HIDE DEF a
<1>3. DOMAIN poller' = {"pc", "request", "batch"} /\ poller'.pc = "request" /\ poller'.request = a
      /\ poller'.batch = poller.batch
  BY <1>1, <1>2
<1> QED
  BY <1>1, <1>2, <1>3, AnswerStep

-----------------------------------------------------------------------------
(* Actions and files.                                                      *)

LEMMA CallBeginsStep ==
    ASSUME IInv, NEW c \in Callers, NEW method \in Methods, Call(c, method)
    PROVE  IInv'
<1>1. /\ config \in Configs /\ GivesUp
      /\ UNCHANGED <<config, arrived, process, started, client, poller, handed, everHanded>>
  BY KeptIsGivenUp DEF IInv, RequestInv, Call, history, KeepsUpdates
<1>2. ASSUME NEW result \in {"body", "exception"},
             calls' = [calls EXCEPT ![c] = [Idle EXCEPT !.method = method, !.result = result]]
      PROVE  IInv'
  <2> DEFINE k == [Idle EXCEPT !.method = method, !.result = result]
  <2>1. DOMAIN k = {"method", "request", "result"} /\ k.request = NoRequest /\ k.result = result
    BY DEF Idle
  <2> HIDE DEF k
  <2> QED
    BY <1>1, <1>2, <2>1, NoRequestIsSound, CallStep DEF k, Results
<1>3. CASE /\ method \notin LocalMethods
           /\ calls' = [calls EXCEPT ![c] = [method |-> method, result |-> "none",
                                             request |-> NewRequest(config, MethodVerb(method))]]
  <2> DEFINE r == NewRequest(config, MethodVerb(method))
             k == [method |-> method, result |-> "none", request |-> r]
  <2>1. MethodVerb(method) \in {"post", "get", "head"}
    BY DEF MethodVerb
  <2>2. Sound(r)
    BY <1>1, <2>1, NewRequestIsSound
  <2> HIDE DEF r
  <2>3. DOMAIN k = {"method", "request", "result"} /\ k.request = r /\ k.result = "none"
    OBVIOUS
  <2> HIDE DEF k
  <2> QED
    BY <1>1, <1>3, <2>2, <2>3, CallStep DEF k, r, Results
<1> QED
  BY <1>2, <1>3 DEF Call

\* The request of a call becomes r.
LEMMA CallRequestStep ==
    ASSUME IInv, NEW c \in Callers, NEW r, Sound(r), calls' = [calls EXCEPT ![c].request = r], GivesUp,
           UNCHANGED <<config, arrived, process, started, client, poller, handed, everHanded>>
    PROVE  IInv'
<1> DEFINE k == [calls[c] EXCEPT !.request = r]
<1>1. DOMAIN calls = Callers /\ DOMAIN calls[c] = {"method", "request", "result"}
      /\ calls[c].result \in Results
  BY DEF IInv, RequestInv, PollTypes, Results
<1>2. calls' = [calls EXCEPT ![c] = k]
  BY <1>1
<1>3. DOMAIN k = {"method", "request", "result"} /\ k.request = r /\ k.result = calls[c].result
  BY <1>1
<1> HIDE DEF k
<1> QED
  BY <1>1, <1>2, <1>3, CallStep

LEMMA CallIoStep ==
    ASSUME IInv, NEW c \in Callers, CallIo(c) \/ CallIoFails(c)
    PROVE  IInv'
<1> DEFINE q == calls[c].request
<1>1. /\ Sound(q) /\ q.status = "running"
      /\ UNCHANGED <<config, arrived, process, started, client, poller, handed, everHanded>>
      /\ CallReaches(c) \/ KeepsUpdates
  BY DEF IInv, RequestInv, CallIo, CallIoFails, KeepsUpdates
<1>4. GivesUp
  <2>1. CASE KeepsUpdates
    BY <2>1, KeptIsGivenUp
  <2>2. CASE CallReaches(c)
    <3>1. PICK offset \in 0..(arrived + 1) :
             server' = Confirm(offset) /\ skipped' = skipped \cup (server \ Confirm(offset))
      BY <2>2 DEF CallReaches
    <3> QED
      BY <3>1 DEF GivesUp, Confirm, IInv, PollTypes
  <2> QED
    BY <1>1, <2>1, <2>2
<1>2. CASE CallIo(c)
  <2>1. PICK answer \in Answers(Head(q.todo).op) : calls' = [calls EXCEPT ![c].request = After(config, @, answer)]
    BY <1>2 DEF CallIo
  <2> DEFINE a == After(config, q, answer)
  <2>2. Sound(a) /\ calls' = [calls EXCEPT ![c].request = a]
    BY <1>1, <2>1, AfterIsSound
  <2> HIDE DEF a
  <2> QED
    BY <1>1, <1>4, <2>2, CallRequestStep
<1>3. CASE CallIoFails(c)
  <2>1. PICK d \in Broken(q) : calls' = [calls EXCEPT ![c].request = d]
    BY <1>3 DEF CallIoFails
  <2> QED
    BY <1>1, <1>4, <2>1, BrokenIsSound, CallRequestStep
<1> QED
  BY <1>2, <1>3

LEMMA CallReturnsStep ==
    ASSUME IInv, NEW c \in Callers, CallReturns(c)
    PROVE  IInv'
<1>1. PICK result \in {"body", "nullopt", "exception"} : calls' = [calls EXCEPT ![c].result = result]
  BY DEF CallReturns
<1> DEFINE k == [calls[c] EXCEPT !.result = result]
<1>2. DOMAIN calls = Callers /\ DOMAIN calls[c] = {"method", "request", "result"} /\ Sound(calls[c].request)
  BY DEF IInv, RequestInv
<1>3. calls' = [calls EXCEPT ![c] = k]
  BY <1>1, <1>2
<1>4. DOMAIN k = {"method", "request", "result"} /\ k.request = calls[c].request /\ k.result = result
  BY <1>2
<1>5. GivesUp /\ UNCHANGED <<config, arrived, process, started, client, poller, handed, everHanded>>
  BY KeptIsGivenUp DEF CallReturns, history, KeepsUpdates
<1> HIDE DEF k
<1> QED
  BY <1>2, <1>3, <1>4, <1>5, CallStep DEF CallReturns, Results

-----------------------------------------------------------------------------
(* The theorems.                                                           *)

LEMMA InitEstablishes == Init => IInv
<1> SUFFICES ASSUME Init PROVE IInv
  OBVIOUS
<1>1. <<>> \in Seq(1..0) /\ DOMAIN <<>> = {}
  OBVIOUS
<1>2. DOMAIN Idle = {"method", "request", "result"} /\ Idle.request = NoRequest /\ Idle.result = "none"
  BY DEF Idle
<1>3. RequestInv
  BY <1>2, NoPollerFacts, NoRequestIsSound DEF Init, RequestInv
<1>4. PollTypes
  <2>1. arrived = 0 /\ server = {} /\ update_offset = 0 /\ handed = <<>> /\ process = "down"
        /\ skipped = {} /\ poller.batch = <<>> /\ poller.pc = "gone"
    BY NoPollerFacts DEF Init
  <2>2. \A c \in Callers : calls[c].result = "none"
    BY <1>2 DEF Init
  <2>3. 0 <= Updates /\ 0 <= 0 + 1
    BY PollingAssumption
  <2> QED
    BY <1>1, <2>1, <2>2, <2>3 DEF PollTypes
<1>5. DroppedInv /\ HandedInv /\ BatchInv
  BY <1>1, NoPollerFacts DEF Init, DroppedInv, HandedInv, BatchInv, Complete, Increasing
<1> QED
  BY <1>3, <1>4, <1>5 DEF IInv

\* The inductive step: every step of the server, the process, the poller and the
\* callers keeps the invariant.
THEOREM NextKeepsInvariant == IInv /\ [Next]_vars => IInv'
<1> SUFFICES ASSUME IInv, [Next]_vars PROVE IInv'
  OBVIOUS
<1>1. CASE UpdateArrives
  BY <1>1, UpdateArrivesStep
<1>2. CASE Start \/ StopPolling \/ ProcessEnds
  BY <1>2, StartStep, ProcessEndsStep, PollerRestsStep
<1>3. CASE Polling
  BY <1>3, PollBeginsStep, PollIoStep, PollIoFailsStep, PollAnsweredStep, PollerRestsStep, HandOverStep,
     HandingEndsStep DEF Polling
<1>4. CASE \E c \in Callers : \/ \E method \in Methods : Call(c, method)
                              \/ CallIo(c) \/ CallIoFails(c) \/ CallReturns(c)
  BY <1>4, CallBeginsStep, CallIoStep, CallReturnsStep
<1>5. CASE UNCHANGED vars
  <2>1. /\ DOMAIN poller' = {"pc", "request", "batch"} /\ Sound(poller'.request) /\ KeepsUpdates
        /\ UNCHANGED <<config, arrived, process, update_offset, poller, calls, handed, everHanded>>
    BY <1>5 DEF vars, client, history, IInv, RequestInv, KeepsUpdates
  <2> QED
    BY <2>1, KeptIsGivenUp, PollerStep
<1> QED
  BY <1>1, <1>2, <1>3, <1>4, <1>5 DEF Next

\* The inductive invariant holds in every behaviour of the bot and its server.
THEOREM InvariantHolds == Spec => []IInv
BY InitEstablishes, NextKeepsInvariant, PTL DEF Spec

\* The types of the state: the offset never runs ahead of the updates there are.
THEOREM TypeCorrect == Spec => []TypeOK
<1>1. ASSUME IInv PROVE TypeOK
  <2>1. arrived \in Nat /\ arrived <= Updates /\ Updates \in Nat
    BY <1>1, PollingAssumption DEF IInv, PollTypes
  <2>2. 1..arrived \subseteq 1..Updates
    BY <2>1
  <2>3. update_offset \in 0..(Updates + 1)
    BY <1>1, <2>1 DEF IInv, PollTypes
  <2>4. handed \in Seq(1..Updates) /\ skipped \subseteq 1..Updates
    BY <1>1, <2>2, ElementFacts DEF IInv, PollTypes
  <2> QED
    BY <1>1, <2>2, <2>3, <2>4 DEF TypeOK, IInv, PollTypes, RequestInv
<1> QED
  BY <1>1, InvariantHolds, PTL

\* The server drops an update only when a process has handed it over or given it up
\* (it did not parse, an exception in the hand-over loop left it behind, or a caller
\* asked past it): no lost request or answer and no crash, between the move of the
\* offset and the hand-over neither, loses one. Within one run of the process none is
\* handed over twice or out of order. For any number of updates, limit of an answer
\* and number of starts.
THEOREM DeliveredOnce == Spec => []UpdatesHandedOnce
<1>1. ASSUME IInv PROVE UpdatesHandedOnce
  <2>1. (1..arrived) \ server \subseteq everHanded \cup skipped
    BY <1>1 DEF IInv, DroppedInv, Gone
  <2>2. ASSUME NEW i \in 1..(Len(handed) - 1) PROVE handed[i] < handed[i + 1]
    <3>1. handed \in Seq(1..arrived) /\ Increasing(handed)
      BY <1>1 DEF IInv, PollTypes, HandedInv
    <3>2. Len(handed) \in Nat /\ DOMAIN handed = 1..Len(handed)
      BY <3>1
    <3>3. i \in DOMAIN handed /\ i + 1 \in DOMAIN handed /\ i < i + 1
      BY <3>2
    <3> QED
      BY <3>1, <3>3 DEF Increasing
  <2> QED
    BY <2>1, <2>2 DEF UpdatesHandedOnce
<1> QED
  BY <1>1, InvariantHolds, PTL

\* When a tunnel is open, all of the proxy's answer has been read, whatever address
\* and however long a domain name it was sent.
THEOREM TunnelsAreClean == Spec => []TunnelIsClean
<1>1. ASSUME IInv PROVE TunnelIsClean
  <2>1. ASSUME NEW q, Sound(q), q.todo # <<>>, Head(q.todo).op \in {"handshake", "write", "read"}
        PROVE  q.unread = 0
    BY <2>1, PlainFacts
  <2>2. Sound(poller.request) /\ \A c \in Callers : Sound(calls[c].request)
    BY <1>1 DEF IInv, RequestInv
  <2> QED
    BY <2>1, <2>2 DEF TunnelIsClean
<1> QED
  BY <1>1, InvariantHolds, PTL
=============================================================================
