--------------------------- MODULE HttpTransport ---------------------------
(***************************************************************************)
(* One HTTP request of a bot as the sequence of its I/O operations:        *)
(* HttpClient (src/network/http_client.cpp), ProxyHttpClient               *)
(* (proxy_http_client.cpp) and the tunnels through a proxy                 *)
(* (proxy_tunnel.cpp). Every request opens a connection of its own.        *)
(*                                                                         *)
(* An operation is [op, timed, n]: timed says that expires_after was       *)
(* called for it, n is the number of bytes a fixed-size read asks for.     *)
(* A request is                                                            *)
(*   todo    the operations still to do;                                   *)
(*   unread  bytes of the proxy's last answer that are not read yet;       *)
(*   tls     the TLS sessions the client writes through, outermost first;  *)
(*   status  "running", "response" or "error" (an exception).              *)
(* A configuration c is [proxy, auth, port443, use_ssl].                   *)
(***************************************************************************)
EXTENDS Integers, Sequences, SequencesExt

CONSTANT MaxDomain      \* longest domain name a SOCKS5 proxy answers with

Timed(op) == [op |-> op, timed |-> TRUE, n |-> 0]
Untimed(op) == [op |-> op, timed |-> FALSE, n |-> 0]
TimedRead(bytes) == [op |-> "read_bytes", timed |-> TRUE, n |-> bytes]

\* The direct client uses TLS for port 443 or use_ssl, the proxy client for port 443.
DirectTls(c) == c.port443 \/ c.use_ssl
ProxiedTls(c) == c.port443

\* The exchange with the target; every operation has a deadline of its own.
Exchange(tls, read) ==
    (IF tls THEN <<Timed("handshake")>> ELSE <<>>) \o <<Timed("write"), Timed(read)>>

\* Only connect and what follows it has a deadline: the resolver has none.
ResolveAndConnect == <<Untimed("resolve"), Timed("connect")>>

HttpClient_post(c) == ResolveAndConnect \o Exchange(DirectTls(c), "read")
HttpClient_get(c)  == ResolveAndConnect \o Exchange(DirectTls(c), "read")
\* HEAD takes a response that ends early.
HttpClient_head(c) == ResolveAndConnect \o Exchange(DirectTls(c), "read_headers")

(***************************************************************************)
(* Tunnels. What a proxy answers decides how a SOCKS5 tunnel goes on.      *)
(***************************************************************************)
establish_http_tunnel_async == <<Timed("write_CONNECT"), Timed("read_CONNECT")>>

\* The CONNECT exchange runs inside a TLS session with the proxy; the stream that
\* is returned is the layer below it.
establish_https_tunnel_async ==
    <<Timed("write_CONNECT"), Timed("read_CONNECT"), Untimed("leave_TLS")>>

establish_socks5_tunnel_async ==
    <<Timed("write_greeting"), Timed("read_method"), Timed("write_request"), Timed("read_reply")>>

connect_through_proxy_async(c) ==
    ResolveAndConnect \o
    CASE c.proxy = "http"   -> establish_http_tunnel_async
      [] c.proxy = "https"  -> <<Timed("proxy_handshake")>> \o establish_https_tunnel_async
      [] c.proxy = "socks5" -> establish_socks5_tunnel_async

ProxyHttpClient_post(c) == connect_through_proxy_async(c) \o Exchange(ProxiedTls(c), "read")
ProxyHttpClient_get(c)  == connect_through_proxy_async(c) \o Exchange(ProxiedTls(c), "read")
ProxyHttpClient_head(c) ==
    connect_through_proxy_async(c) \o Exchange(ProxiedTls(c), "read_headers")

Steps(c, verb) ==
    CASE c.proxy = "none" /\ verb = "post" -> HttpClient_post(c)
      [] c.proxy = "none" /\ verb = "get"  -> HttpClient_get(c)
      [] c.proxy = "none" /\ verb = "head" -> HttpClient_head(c)
      [] c.proxy # "none" /\ verb = "post" -> ProxyHttpClient_post(c)
      [] c.proxy # "none" /\ verb = "get"  -> ProxyHttpClient_get(c)
      [] c.proxy # "none" /\ verb = "head" -> ProxyHttpClient_head(c)

NewRequest(c, verb) ==
    [todo |-> Steps(c, verb), unread |-> 0, tls |-> <<>>, status |-> "running"]

(***************************************************************************)
(* The peers: proxies that follow their protocol, and a target that        *)
(* answers what reaches it through the sessions it expects.                *)
(***************************************************************************)
Ok == [kind |-> "ok"]
Address(kind, bytes) == [kind |-> kind, bytes |-> bytes]

\* The answers to the operation that is next. A response to CONNECT without a length
\* is read until the proxy closes the connection, so it is no answer.
Answers(op) ==
    CASE op = "read_CONNECT" -> {Ok, [kind |-> "refused"]}
      [] op = "read_method"  -> {Ok, [kind |-> "password"], [kind |-> "unacceptable"]}
      [] op = "read_auth"    -> {Ok, [kind |-> "refused"]}
      [] op = "read_reply"   -> {Address("ipv4", 6), Address("ipv6", 18), [kind |-> "refused"]}
                                  \cup {Address("domain", 1 + len + 2) : len \in 0..MaxDomain}
      [] OTHER               -> {Ok}

\* The sessions in which the peer understands what the client writes: the proxy
\* before the tunnel is open; afterwards what the proxy relays out of its session
\* and the target expects.
Expected(c, op) ==
    LET outer == IF c.proxy = "https" /\ op \notin {"resolve", "connect", "proxy_handshake"}
                 THEN <<"proxy">> ELSE <<>>
        inner == IF op \in {"write", "read", "read_headers"}
                    /\ (c.port443 \/ c.use_ssl) THEN <<"target">> ELSE <<>>
    IN outer \o inner

\* The bytes of a fixed-size read have to be there.
Completes(c, q) ==
    /\ q.tls = Expected(c, Head(q.todo).op) \/ Head(q.todo).op = "leave_TLS"
    /\ Head(q.todo).op = "read_bytes" => Head(q.todo).n <= q.unread

(***************************************************************************)
(* The code after an operation.                                            *)
(***************************************************************************)
Failed(q) == [q EXCEPT !.status = "error", !.todo = <<>>]

Done(q) ==
    [q EXCEPT !.todo = Tail(@), !.status = IF Len(q.todo) = 1 THEN "response" ELSE @]

Before(q, ops) == [q EXCEPT !.todo = ops \o Tail(@)]

\* Mutant: the port behind a domain name is not read.
AddressReadsNoPort(kind, len) ==
    CASE kind = "ipv4"   -> <<TimedRead(6)>>
      [] kind = "ipv6"   -> <<TimedRead(18)>>
      [] kind = "domain" -> <<TimedRead(1)>> \o
                            IF len > 0 THEN <<TimedRead(len)>> ELSE <<>>

\* How many bytes follow the reply; a domain name is preceded by its length.
AddressReads(kind, len) ==
    CASE kind = "ipv4"   -> <<TimedRead(6)>>
      [] kind = "ipv6"   -> <<TimedRead(18)>>
      [] kind = "domain" -> <<TimedRead(1), TimedRead(len + 2)>>

AfterMethod(c, q, answer) ==
    CASE answer.kind = "ok" -> Done(q)
      [] answer.kind = "password" /\ c.auth -> Before(q, <<Timed("write_auth"), Timed("read_auth")>>)
      [] OTHER -> Failed(q)

AfterReply(q, answer) ==
    IF answer.kind = "refused" THEN Failed(q)
    ELSE [Before(q, AddressReads(answer.kind, answer.bytes - 3)) EXCEPT !.unread = answer.bytes]

\* The request after its next operation has been answered.
After(c, q, answer) ==
    CASE Head(q.todo).op = "read_method" -> AfterMethod(c, q, answer)
      [] Head(q.todo).op = "read_reply"  -> AfterReply(q, answer)
      [] Head(q.todo).op = "read_bytes"  -> [Done(q) EXCEPT !.unread = @ - Head(q.todo).n]
      [] Head(q.todo).op \in {"read_CONNECT", "read_auth"} /\ answer.kind = "refused" -> Failed(q)
      [] Head(q.todo).op = "proxy_handshake" -> [Done(q) EXCEPT !.tls = <<"proxy">>]
      [] Head(q.todo).op = "leave_TLS"   -> [Done(q) EXCEPT !.tls = Tail(@)]
      [] Head(q.todo).op = "handshake"   -> [Done(q) EXCEPT !.tls = Append(@, "target")]
      [] OTHER -> Done(q)

\* An operation that ends even if the peer is silent: one with a deadline, and the
\* resolver of the system.
WillEnd(q) == q.todo # <<>> /\ (Head(q.todo).timed \/ Head(q.todo).op \in {"resolve", "leave_TLS"})

\* An error of the operation, or its deadline: an exception, unless HEAD has a
\* response that only ended early.
Broken(q) ==
    {Failed(q)} \cup IF Head(q.todo).op = "read_headers" THEN {Done(q)} ELSE {}
=============================================================================
