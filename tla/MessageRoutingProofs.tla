------------------------ MODULE MessageRoutingProofs ------------------------
(***************************************************************************)
(* Machine-checked proofs about MessageRouting, for every set of root      *)
(* messages, every table of commands, all pipelines and all actors.        *)
(***************************************************************************)
EXTENDS MessageRouting, TLAPS

-----------------------------------------------------------------------------
(* The inductive invariant.                                                *)

IsSeq(s) == s \in Seq(Range(s))

FrameOK(f) ==
    /\ {"kind", "todo", "failures"} \subseteq DOMAIN f
    /\ f.kind \in {"route", "command", "terminal"}
    /\ f.kind = "route" => {"pipe", "stage"} \subseteq DOMAIN f
    /\ f.kind = "command" =>
          {"key", "decided", "code", "completions"} \subseteq DOMAIN f /\ f.decided \in BOOLEAN

\* Only the bottom of a stack is no route.
StackOK(s) ==
    /\ IsSeq(s)
    /\ \A i \in DOMAIN s : FrameOK(s[i]) /\ (i > 1 => s[i].kind = "route")

ResultOK(result) ==
    /\ "answered" \in DOMAIN result /\ result.answered \in BOOLEAN
    /\ result.answered => {"ok", "emits"} \subseteq DOMAIN result /\ result.ok \in BOOLEAN

\* A task awaits a stage or, with a timer and before anything else, its command.
AwaitOK(x) ==
    x.await # NoCall =>
        /\ DOMAIN x.await = {"on", "box", "timed", "result"}
        /\ x.await.on
        /\ x.await.timed \in BOOLEAN
        /\ ResultOK(x.await.result)
        /\ x.stack # <<>> /\ x.calls # 0
        /\ x.await.timed =>
              /\ Len(x.stack) = 1 /\ x.calls = 1
              /\ x.stack[1].kind = "command" /\ ~x.stack[1].decided
              /\ x.stack[1].code = "" /\ x.stack[1].todo = <<>>
        /\ ~x.await.timed => x.stack[Len(x.stack)].kind # "command"

TaskOK(x) ==
    /\ DOMAIN x = {"root", "stack", "await", "calls"}
    /\ x.root \in Roots
    /\ x.calls \in Nat
    /\ StackOK(x.stack)
    /\ AwaitOK(x)

TasksInv == IsSeq(tasks) /\ \A t \in DOMAIN tasks : TaskOK(tasks[t])

\* A message went on as the answer to its command, or the fallback, says.
SettledRight(m) ==
    /\ m.sourceRuns = IF \A k \in m.scope : GoesOn(m, k) THEN 1 ELSE 0
    /\ m.scope # {} /\ m.code = "" =>
          Len(m.said) = 1 /\ m.said \notin {<<"malformed">>, <<"mismatch">>}

\* What is known of a root message by itself.
RootOK(m) ==
    /\ DOMAIN m = {"input", "state", "code", "sourceRuns", "failures", "failed", "emitted", "scope", "said"}
    /\ m.state \in {"new", "ignored", "routing", "done"}
    /\ m.sourceRuns \in {0, 1} /\ m.emitted \in Nat
    /\ m.state \in {"new", "ignored"} => /\ m.code = "" /\ m.sourceRuns = 0 /\ m.failed = {} /\ m.emitted = 0
                                         /\ m.scope = {} /\ m.said = <<>>
    /\ m.code = "command_timeout" => m.emitted = 0
    /\ m.state = "done" =>
          /\ m.failed \subseteq m.failures
          /\ m.code # "" => CommandFailure(m.code) \in m.failures
          /\ SettledRight(m)

RootInv == DOMAIN root = Roots /\ \A r \in Roots : RootOK(root[r])

\* A task that is the route of its root.
IsRoute(x) == x.stack # <<>> /\ x.stack[1].kind # "terminal"

\* How far the command at the bottom of a route is settled.
SettledSoFar(x, m) ==
    LET b == x.stack[1]
    IN  /\ b.kind = "route" => m.sourceRuns = 1 /\ m.scope = {} /\ m.code # "command_timeout"
        /\ b.kind = "command" =>
              /\ b.key \in RouteOf(m.input).scopes
              /\ m.scope = {b.key} /\ m.said = b.completions
              /\ ~b.decided => m.sourceRuns = 0 /\ m.code = ""
              /\ b.decided =>
                    /\ m.code = b.code /\ b.todo = <<>>
                    /\ b.code # "" => CommandFailure(b.code) \in b.failures
                    /\ SettledRight(m)
              /\ b.code = "command_timeout" => b.todo = <<>> /\ m.emitted = 0
              /\ x.await # NoCall /\ x.await.timed => m.emitted = 0

\* A failure of the route is in one of its frames.
InFrames(x, failed) == \A e \in failed : \E i \in DOMAIN x.stack : e \in x.stack[i].failures

LinkOK(x, m) == m.state = "routing" /\ InFrames(x, m.failed) /\ SettledSoFar(x, m)

\* A root message is routed by one task.
RouteInv ==
    /\ \A t \in DOMAIN tasks : IsRoute(tasks[t]) => LinkOK(tasks[t], root[tasks[t].root])
    /\ \A t, u \in DOMAIN tasks :
          IsRoute(tasks[t]) /\ IsRoute(tasks[u]) /\ tasks[t].root = tasks[u].root => t = u

EntryOK(e) ==
    /\ DOMAIN e = {"task", "call", "hung"}
    /\ e.task \in DOMAIN tasks
    /\ e.call \in Nat /\ e.call <= tasks[e.task].calls
    /\ e.hung \in BOOLEAN

Awaited(e) == tasks[e.task].await # NoCall /\ e.call = tasks[e.task].calls

\* A call is in one place, which its task knows as long as it has no answer.
MailInv ==
    /\ \A box \in DOMAIN mail : IsSeq(mail[box]) /\ mail[box] # <<>>
    /\ \A box \in DOMAIN mail : \A i \in DOMAIN mail[box] : EntryOK(mail[box][i])
    /\ \A b, c \in DOMAIN mail : \A i \in DOMAIN mail[b], j \in DOMAIN mail[c] :
          mail[b][i].task = mail[c][j].task /\ mail[b][i].call = mail[c][j].call => b = c /\ i = j
    /\ \A box \in DOMAIN mail : \A i \in DOMAIN mail[box] :
          Awaited(mail[box][i]) =>
              /\ tasks[mail[box][i].task].await.box = box
              /\ ~tasks[mail[box][i].task].await.result.answered

IInv == TasksInv /\ RootInv /\ RouteInv /\ MailInv /\ CallsHaveWaiters /\ stopped \in BOOLEAN

-----------------------------------------------------------------------------
(* Sequences and stacks.                                                   *)

LEMMA SeqShape ==
    ASSUME NEW s, IsSeq(s)
    PROVE  /\ Len(s) \in Nat /\ DOMAIN s = 1..Len(s)
           /\ s # <<>> <=> Len(s) >= 1
           /\ Last(s) = s[Len(s)]
BY DEF IsSeq, Last

LEMMA SeqFromValues ==
    ASSUME NEW z, NEW S, z \in Seq(S)
    PROVE  IsSeq(z)
<1>1. \A i \in DOMAIN z : z[i] \in Range(z)
  BY DEF Range
<1> QED
  BY <1>1 DEF IsSeq

LEMMA SeqSet ==
    ASSUME NEW s, IsSeq(s), NEW n \in DOMAIN s, NEW x, NEW z, z = [s EXCEPT ![n] = x]
    PROVE  /\ IsSeq(z) /\ Len(z) = Len(s) /\ DOMAIN z = DOMAIN s
           /\ z[n] = x /\ \A i \in DOMAIN s : i # n => z[i] = s[i]
<1> DEFINE S == Range(s) \cup {x}
<1>1. s \in Seq(S)
  BY DEF IsSeq
<1>2. z \in Seq(S) /\ Len(z) = Len(s) /\ DOMAIN z = DOMAIN s
  BY <1>1
<1> HIDE DEF S
<1>4. IsSeq(z)
  BY <1>2, SeqFromValues
<1> QED
  BY <1>1, <1>2, <1>4

LEMMA SeqAppend ==
    ASSUME NEW s, IsSeq(s), NEW x
    PROVE  LET z == Append(s, x)
           IN /\ IsSeq(z) /\ Len(z) = Len(s) + 1 /\ DOMAIN z = 1..(Len(s) + 1) /\ z # <<>>
              /\ z[Len(s) + 1] = x /\ \A i \in DOMAIN s : z[i] = s[i]
<1> DEFINE z == Append(s, x)
<1> DEFINE S == Range(s) \cup {x}
<1>1. s \in Seq(S) /\ x \in S
  BY DEF IsSeq
<1> HIDE DEF S
<1>2. z \in Seq(S) /\ Len(z) = Len(s) + 1 /\ DOMAIN z = 1..(Len(s) + 1) /\ Len(s) \in Nat
      /\ z[Len(s) + 1] = x /\ \A i \in DOMAIN s : z[i] = s[i]
  BY <1>1
<1>4. IsSeq(z)
  BY <1>2, SeqFromValues
<1>5. z # <<>>
  BY <1>2
<1> QED
  BY <1>2, <1>4, <1>5

LEMMA SeqOne ==
    ASSUME NEW x, NEW z, z = <<x>>
    PROVE  IsSeq(z) /\ Len(z) = 1 /\ DOMAIN z = 1..1 /\ z[1] = x /\ z # <<>>
<1>1. z \in Seq({x}) /\ Len(z) = 1 /\ z[1] = x
  OBVIOUS
<1>2. Range(z) = {x}
  BY <1>1 DEF Range
<1> QED
  BY <1>1, <1>2 DEF IsSeq

\* z is s without its k-th element.
Without(s, k, z) ==
    /\ IsSeq(z) /\ Len(z) = Len(s) - 1
    /\ \A i \in 1..(Len(s) - 1) : z[i] = IF i < k THEN s[i] ELSE s[i + 1]

LEMMA SeqTail ==
    ASSUME NEW s, IsSeq(s), s # <<>>
    PROVE  Without(s, 1, Tail(s)) /\ Head(s) = s[1] /\ 1 \in DOMAIN s
<1>1. /\ Tail(s) \in Seq(Range(s)) /\ Len(Tail(s)) = Len(s) - 1 /\ Len(s) \in Nat \ {0}
      /\ Head(s) = s[1]
      /\ \A i \in 1..(Len(s) - 1) : Tail(s)[i] = s[i + 1]
      /\ DOMAIN s = 1..Len(s)
  BY DEF IsSeq
<1>2. IsSeq(Tail(s))
  BY <1>1, SeqFromValues
<1> QED
  BY <1>1, <1>2 DEF Without

LEMMA ConcatFacts ==
    ASSUME NEW S, NEW s \in Seq(S), NEW t \in Seq(S)
    PROVE  s \o t \in Seq(S) /\ Len(s \o t) = Len(s) + Len(t)
OBVIOUS

LEMMA SeqRemoveAt ==
    ASSUME NEW s, IsSeq(s), NEW k \in DOMAIN s
    PROVE  Without(s, k, RemoveAt(s, k))
<1> DEFINE S == Range(s)
           a == SubSeq(s, 1, k - 1)
           b == SubSeq(s, k + 1, Len(s))
<1>1. s \in Seq(S) /\ Len(s) \in Nat /\ DOMAIN s = 1..Len(s) /\ k \in Nat \ {0} /\ k <= Len(s)
  BY DEF IsSeq
<1> HIDE DEF S
<1>2. a \in Seq(S) /\ Len(a) = k - 1 /\ \A i \in 1..(k - 1) : a[i] = s[i]
  BY <1>1
<1>3. b \in Seq(S) /\ Len(b) = Len(s) - k /\ \A i \in 1..(Len(s) - k) : b[i] = s[i + k]
  BY <1>1
<1> HIDE DEF a, b
<1>4. a \o b \in Seq(S) /\ Len(a \o b) = Len(s) - 1
  <2>1. a \o b \in Seq(S) /\ Len(a \o b) = Len(a) + Len(b)
    BY <1>2, <1>3, ConcatFacts
  <2> QED
    BY <1>1, <1>2, <1>3, <2>1
<1>5. \A i \in 1..(Len(s) - 1) : (a \o b)[i] = IF i < k THEN s[i] ELSE s[i + 1]
  <2> TAKE i \in 1..(Len(s) - 1)
  <2>1. CASE i < k
    <3>1. i \in 1..Len(a)
      BY <1>1, <1>2, <2>1
    <3> QED
      BY <1>1, <1>2, <1>3, <2>1, <3>1
  <2>2. CASE ~(i < k)
    <3> DEFINE j == i - (k - 1)
    <3>1. j \in 1..Len(b) /\ j + k = i + 1 /\ i \notin 1..Len(a)
      BY <1>1, <1>2, <1>3, <2>2
    <3>2. (a \o b)[i] = b[j]
      BY <1>1, <1>2, <1>3, <2>2, <3>1
    <3> QED
      BY <1>1, <1>3, <2>2, <3>1, <3>2
  <2> QED
    BY <2>1, <2>2
<1>6. IsSeq(a \o b)
  BY <1>4, SeqFromValues
<1>7. RemoveAt(s, k) = a \o b
  BY DEF RemoveAt, a, b
<1> QED
  BY <1>4, <1>5, <1>6, <1>7 DEF Without

-----------------------------------------------------------------------------
(* Steps of tasks and roots.                                               *)

\* A step replaces task t by x, and may add terminal stages that have not started.
TaskSet(t, x) ==
    /\ IsSeq(tasks') /\ DOMAIN tasks \subseteq DOMAIN tasks'
    /\ tasks'[t] = x
    /\ \A u \in DOMAIN tasks : u # t => tasks'[u] = tasks[u]
    /\ \A u \in DOMAIN tasks' \ DOMAIN tasks : TaskOK(tasks'[u]) /\ ~IsRoute(tasks'[u])

\* A step replaces what is known of root r by m.
RootSet(r, m) ==
    /\ DOMAIN root' = Roots /\ root'[r] = m
    /\ \A q \in Roots : q # r => root'[q] = root[q]

LEMMA TaskStep ==
    ASSUME TasksInv, RootInv, RouteInv, NEW t \in DOMAIN tasks, NEW x, NEW m,
           TaskOK(x), x.root = tasks[t].root, TaskSet(t, x),
           RootSet(x.root, m), RootOK(m),
           IsRoute(x) => IsRoute(tasks[t]) /\ LinkOK(x, m),
           ~IsRoute(tasks[t]) => m = root[x.root]
    PROVE  TasksInv' /\ RootInv' /\ RouteInv'
<1>1. TasksInv'
  BY DEF TasksInv, TaskSet
<1>2. RootInv'
  BY DEF RootInv, RootSet
<1>3. \A u \in DOMAIN tasks' : IsRoute(tasks'[u]) =>
         u \in DOMAIN tasks /\ IsRoute(tasks[u]) /\ tasks'[u].root = tasks[u].root
  BY DEF TaskSet
<1>4. \A u \in DOMAIN tasks : u # t /\ IsRoute(tasks[u]) => root'[tasks[u].root] = root[tasks[u].root]
  <2> TAKE u \in DOMAIN tasks
  <2> HAVE u # t /\ IsRoute(tasks[u])
  <2>1. tasks[u].root \in Roots
    BY DEF TasksInv, TaskOK
  <2>2. CASE tasks[u].root = x.root
    <3>1. ~IsRoute(tasks[t])
      BY <2>2 DEF RouteInv
    <3> QED
      BY <2>2, <3>1 DEF RootSet
  <2> QED
    BY <2>1, <2>2 DEF RootSet
<1>5. \A u \in DOMAIN tasks' : IsRoute(tasks'[u]) => LinkOK(tasks'[u], root'[tasks'[u].root])
  <2> TAKE u \in DOMAIN tasks'
  <2> HAVE IsRoute(tasks'[u])
  <2>1. CASE u = t
    BY <2>1 DEF TaskSet, RootSet
  <2>2. CASE u # t
    <3>1. u \in DOMAIN tasks /\ IsRoute(tasks[u]) /\ tasks'[u] = tasks[u]
      BY <1>3, <2>2 DEF TaskSet
    <3> QED
      BY <1>4, <2>2, <3>1 DEF RouteInv
  <2> QED
    BY <2>1, <2>2
<1>6. \A u, v \in DOMAIN tasks' :
         IsRoute(tasks'[u]) /\ IsRoute(tasks'[v]) /\ tasks'[u].root = tasks'[v].root => u = v
  BY <1>3 DEF RouteInv
<1> QED
  BY <1>1, <1>2, <1>5, <1>6 DEF RouteInv

\* A root message gets its task.
LEMMA StartStep ==
    ASSUME TasksInv, RootInv, RouteInv, NEW r \in Roots, root[r].state = "new", NEW x, NEW m,
           TaskOK(x), x.root = r, tasks' = Append(tasks, x), RootSet(r, m), RootOK(m), LinkOK(x, m)
    PROVE  TasksInv' /\ RootInv' /\ RouteInv'
<1>1. /\ IsSeq(tasks') /\ DOMAIN tasks' = 1..(Len(tasks) + 1) /\ tasks'[Len(tasks) + 1] = x
      /\ \A u \in DOMAIN tasks : tasks'[u] = tasks[u]
      /\ Len(tasks) \in Nat /\ DOMAIN tasks = 1..Len(tasks)
  <2>1. IsSeq(tasks)
    BY DEF TasksInv
  <2>2. Len(tasks) \in Nat /\ DOMAIN tasks = 1..Len(tasks)
    BY <2>1, SeqShape
  <2> QED
    BY <2>1, <2>2, SeqAppend
<1>2. \A u \in DOMAIN tasks' : u = Len(tasks) + 1 \/ u \in DOMAIN tasks
  BY <1>1
<1>3. \A u \in DOMAIN tasks : IsRoute(tasks[u]) => tasks[u].root # r /\ tasks[u].root \in Roots
  BY DEF RouteInv, LinkOK, TasksInv, TaskOK
<1>4. TasksInv'
  BY <1>1, <1>2 DEF TasksInv
<1>5. RootInv'
  BY DEF RootInv, RootSet
<1>6. \A u \in DOMAIN tasks' : IsRoute(tasks'[u]) => LinkOK(tasks'[u], root'[tasks'[u].root])
  BY <1>1, <1>2, <1>3 DEF RouteInv, RootSet
<1>7. \A u, v \in DOMAIN tasks' :
         IsRoute(tasks'[u]) /\ IsRoute(tasks'[v]) /\ tasks'[u].root = tasks'[v].root => u = v
  BY <1>1, <1>2, <1>3 DEF RouteInv
<1> QED
  BY <1>4, <1>5, <1>6, <1>7 DEF RouteInv

-----------------------------------------------------------------------------
(* Steps of mailboxes.                                                     *)

\* What mailboxes know of a task, its await apart, stays.
SameCalls(t) ==
    /\ t \in DOMAIN tasks'
    /\ tasks'[t].root = tasks[t].root /\ tasks'[t].calls = tasks[t].calls

InputsKept == \A r \in Roots : root'[r].input = root[r].input

\* An entry keeps somebody who waits for it, or stays the rest of a command.
Waits(e, i) ==
    \/ Awaited(e)
    \/ i = 1 /\ ~e.hung /\ e.call = 1 /\ RouteOf(root[tasks[e.task].root].input).scopes # {}

LEMMA WaitersAre ==
    CallsHaveWaiters <=> \A box \in DOMAIN mail : \A i \in DOMAIN mail[box] : Waits(mail[box][i], i)
<1>1. \A box \in DOMAIN mail : \A i \in DOMAIN mail[box] :
         LET t == mail[box][i].task
         IN (\/ tasks[t].await # NoCall /\ mail[box][i].call = tasks[t].calls
             \/ /\ i = 1 /\ ~mail[box][i].hung
                /\ mail[box][i].call = 1
                /\ RouteOf(root[tasks[t].root].input).scopes # {})
            <=> Waits(mail[box][i], i)
  BY DEF Waits, Awaited
<1> QED
  BY <1>1, Zenon DEF CallsHaveWaiters

LEMMA WaitersAreAfter ==
    CallsHaveWaiters' <=> \A box \in DOMAIN mail' : \A i \in DOMAIN mail'[box] : Waits(mail[box][i], i)'
<1>1. \A box \in DOMAIN mail' : \A i \in DOMAIN mail'[box] :
         LET t == mail'[box][i].task
         IN (\/ tasks'[t].await # NoCall /\ mail'[box][i].call = tasks'[t].calls
             \/ /\ i = 1 /\ ~mail'[box][i].hung
                /\ mail'[box][i].call = 1
                /\ RouteOf(root'[tasks'[t].root].input).scopes # {})
            <=> Waits(mail[box][i], i)'
  BY DEF Waits, Awaited
<1> QED
  BY <1>1, Zenon DEF CallsHaveWaiters

\* Mailboxes stay, and awaits too, except one that has its answer.
LEMMA MailKept ==
    ASSUME TasksInv, MailInv, CallsHaveWaiters, UNCHANGED mail, InputsKept,
           \A t \in DOMAIN tasks : SameCalls(t) /\
               (\/ tasks'[t].await = tasks[t].await
                \/ tasks[t].await # NoCall /\ tasks[t].await.result.answered)
    PROVE  MailInv' /\ CallsHaveWaiters'
<1>1. \A box \in DOMAIN mail : \A i \in DOMAIN mail[box] :
         \A e : e = mail[box][i] =>
            /\ EntryOK(e) /\ EntryOK(e)'
            /\ Awaited(e)' <=> Awaited(e)
            /\ Awaited(e) => tasks'[e.task].await = tasks[e.task].await
                             /\ tasks[e.task].await.box = box /\ ~tasks[e.task].await.result.answered
            /\ Waits(e, i)'
  <2> SUFFICES ASSUME NEW box \in DOMAIN mail, NEW i \in DOMAIN mail[box], NEW e, e = mail[box][i]
               PROVE  /\ EntryOK(e) /\ EntryOK(e)'
                      /\ Awaited(e)' <=> Awaited(e)
                      /\ Awaited(e) => tasks'[e.task].await = tasks[e.task].await
                             /\ tasks[e.task].await.box = box /\ ~tasks[e.task].await.result.answered
                      /\ Waits(e, i)'
    BY Zenon
  <2>1. EntryOK(e) /\ e.task \in DOMAIN tasks
    BY DEF MailInv, EntryOK
  <2>2. Awaited(e) => ~tasks[e.task].await.result.answered /\ tasks[e.task].await.box = box
    BY DEF MailInv
  <2>3. EntryOK(e)' /\ SameCalls(e.task)
    BY <2>1 DEF EntryOK, SameCalls
  <2>4. (Awaited(e)' <=> Awaited(e)) /\ (Awaited(e) => tasks'[e.task].await = tasks[e.task].await)
    BY <2>1, <2>2, <2>3 DEF Awaited, SameCalls
  <2>5. Waits(e, i)
    BY WaitersAre
  <2>6. root'[tasks'[e.task].root].input = root[tasks[e.task].root].input
    BY <2>1, <2>3 DEF SameCalls, InputsKept, TasksInv, TaskOK
  <2>7. Waits(e, i)'
    BY <2>4, <2>5, <2>6 DEF Waits
  <2> QED
    BY <2>1, <2>2, <2>3, <2>4, <2>7
<1>2. MailInv'
  BY <1>1 DEF MailInv
<1>3. \A box \in DOMAIN mail' : \A i \in DOMAIN mail'[box] : Waits(mail[box][i], i)'
  BY <1>1 DEF Waits, Awaited
<1> QED
  BY <1>2, <1>3, WaitersAreAfter

\* An entry leaves its mailbox.
LEMMA MailRemoved ==
    ASSUME TasksInv, MailInv, CallsHaveWaiters, InputsKept,
           NEW box \in DOMAIN mail, NEW k \in DOMAIN mail[box], NEW q, Without(mail[box], k, q),
           mail' = SetMail(box, q),
           \A t \in DOMAIN tasks : SameCalls(t) /\
               (\/ tasks'[t].await = tasks[t].await
                \/ mail[box][k].task = t /\ mail[box][k].call = tasks[t].calls)
    PROVE  MailInv' /\ CallsHaveWaiters'
<1> DEFINE n == Len(mail[box])
<1>0. n \in Nat \ {0} /\ DOMAIN mail[box] = 1..n /\ k \in 1..n
  BY SeqShape DEF MailInv
<1>1. IsSeq(q) /\ DOMAIN q = 1..(n - 1) /\ \A i \in DOMAIN q : q[i] = IF i < k THEN mail[box][i] ELSE mail[box][i + 1]
  BY <1>0, SeqShape DEF Without
<1> HIDE DEF n
<1>2. /\ \A b \in DOMAIN mail' : b \in DOMAIN mail /\ (b # box => mail'[b] = mail[b])
      /\ box \in DOMAIN mail' => mail'[box] = q /\ q # <<>>
  <2>1. CASE q = <<>>
    <3>1. DOMAIN mail' = DOMAIN mail \ {box} /\ \A b \in DOMAIN mail : b # box => mail'[b] = mail[b]
      BY <2>1 DEF SetMail, Restrict
    <3> QED
      BY <3>1
  <2>2. CASE q # <<>>
    <3>1. /\ DOMAIN mail' = DOMAIN mail \cup {box} /\ mail'[box] = q
          /\ \A b \in DOMAIN mail : b # box => mail'[b] = mail[b]
      BY <2>2 DEF SetMail, Restrict
    <3> QED
      BY <2>2, <3>1
  <2> QED
    BY <2>1, <2>2
\* Where an entry was before the step.
<1> DEFINE Old(b, i) == IF b = box /\ i >= k THEN i + 1 ELSE i
<1>3. \A b \in DOMAIN mail' : \A i \in DOMAIN mail'[b] :
         /\ b \in DOMAIN mail /\ Old(b, i) \in DOMAIN mail[b] /\ mail'[b][i] = mail[b][Old(b, i)]
         /\ ~(b = box /\ Old(b, i) = k)
         /\ Old(b, i) = 1 => i = 1
  <2> SUFFICES ASSUME NEW b \in DOMAIN mail', NEW i \in DOMAIN mail'[b]
               PROVE  /\ b \in DOMAIN mail /\ Old(b, i) \in DOMAIN mail[b] /\ mail'[b][i] = mail[b][Old(b, i)]
                      /\ ~(b = box /\ Old(b, i) = k)
                      /\ Old(b, i) = 1 => i = 1
    OBVIOUS
  <2>1. CASE b # box
    BY <1>2, <2>1
  <2>2. CASE b = box
    BY <1>0, <1>1, <1>2, <2>2
  <2> QED
    BY <2>1, <2>2
<1>4. \A b \in DOMAIN mail' : \A i, j \in DOMAIN mail'[b] : Old(b, i) = Old(b, j) => i = j
  <2> SUFFICES ASSUME NEW b \in DOMAIN mail', NEW i \in DOMAIN mail'[b], NEW j \in DOMAIN mail'[b],
                      Old(b, i) = Old(b, j)
               PROVE  i = j
    OBVIOUS
  <2>1. CASE b # box
    BY <2>1
  <2>2. CASE b = box
    <3>1. i \in Nat /\ j \in Nat /\ k \in Nat
      BY <1>0, <1>1, <1>2, <2>2
    <3> QED
      BY <2>2, <3>1
  <2> QED
    BY <2>1, <2>2
<1> HIDE DEF Old
<1>5. \A b \in DOMAIN mail : \A i \in DOMAIN mail[b] : \A e : e = mail[b][i] /\ ~(b = box /\ i = k) =>
         /\ EntryOK(e) /\ EntryOK(e)'
         /\ e.call = tasks[e.task].calls => tasks'[e.task].await = tasks[e.task].await
         /\ Awaited(e)' <=> Awaited(e)
         /\ Awaited(e) => tasks[e.task].await.box = b /\ ~tasks[e.task].await.result.answered
         /\ \A j : (i = 1 => j = 1) => Waits(e, j)'
  <2> TAKE b \in DOMAIN mail
  <2> TAKE i \in DOMAIN mail[b]
  <2> TAKE e
  <2> HAVE e = mail[b][i] /\ ~(b = box /\ i = k)
  <2>1. EntryOK(e) /\ e.task \in DOMAIN tasks /\ SameCalls(e.task)
    BY DEF MailInv, EntryOK
  <2>2. EntryOK(e)'
    BY <2>1 DEF EntryOK, SameCalls
  <2>3. e.call = tasks[e.task].calls => tasks'[e.task].await = tasks[e.task].await
    <3>1. ~(mail[box][k].task = e.task /\ mail[box][k].call = e.call)
      BY DEF MailInv
    <3> QED
      BY <2>1, <3>1
  <2>4. Awaited(e)' <=> Awaited(e)
    BY <2>1, <2>3 DEF Awaited, SameCalls
  <2>5. Awaited(e) => tasks[e.task].await.box = b /\ ~tasks[e.task].await.result.answered
    BY DEF MailInv
  <2>6. Waits(e, i)
    BY WaitersAre
  <2>7. root'[tasks'[e.task].root].input = root[tasks[e.task].root].input
    BY <2>1 DEF SameCalls, InputsKept, TasksInv, TaskOK
  <2>8. \A j : (i = 1 => j = 1) => Waits(e, j)'
    BY <2>4, <2>6, <2>7 DEF Waits
  <2> QED
    BY <2>1, <2>2, <2>3, <2>4, <2>5, <2>8
<1>6. MailInv'
  <2>1. \A b \in DOMAIN mail' : IsSeq(mail'[b]) /\ mail'[b] # <<>>
    BY <1>1, <1>2 DEF MailInv
  <2>2. \A b \in DOMAIN mail' : \A i \in DOMAIN mail'[b] : EntryOK(mail[b][i])'
    BY <1>3, <1>5 DEF EntryOK
  <2>3. \A b, c \in DOMAIN mail' : \A i \in DOMAIN mail'[b], j \in DOMAIN mail'[c] :
           mail'[b][i].task = mail'[c][j].task /\ mail'[b][i].call = mail'[c][j].call => b = c /\ i = j
    <3> SUFFICES ASSUME NEW b \in DOMAIN mail', NEW c \in DOMAIN mail', NEW i \in DOMAIN mail'[b],
                        NEW j \in DOMAIN mail'[c],
                        mail'[b][i].task = mail'[c][j].task, mail'[b][i].call = mail'[c][j].call
                 PROVE  b = c /\ i = j
      OBVIOUS
    <3>1. b = c /\ Old(b, i) = Old(c, j)
      BY <1>3 DEF MailInv
    <3> QED
      BY <1>4, <3>1
  <2>4. \A b \in DOMAIN mail' : \A i \in DOMAIN mail'[b] :
           Awaited(mail[b][i])' =>
              /\ tasks'[mail'[b][i].task].await.box = b
              /\ ~tasks'[mail'[b][i].task].await.result.answered
    <3> SUFFICES ASSUME NEW b \in DOMAIN mail', NEW i \in DOMAIN mail'[b], NEW e, e = mail'[b][i], Awaited(e)'
                 PROVE  tasks'[e.task].await.box = b /\ ~tasks'[e.task].await.result.answered
      BY DEF Awaited
    <3>1. Awaited(e) /\ tasks[e.task].await.box = b /\ ~tasks[e.task].await.result.answered
      BY <1>3, <1>5
    <3>2. tasks'[e.task].await = tasks[e.task].await
      BY <1>3, <1>5, <3>1 DEF Awaited
    <3> QED
      BY <3>1, <3>2
  <2> QED
    BY <2>1, <2>2, <2>3, <2>4 DEF MailInv
<1>7. \A b \in DOMAIN mail' : \A i \in DOMAIN mail'[b] : Waits(mail[b][i], i)'
  <2> SUFFICES ASSUME NEW b \in DOMAIN mail', NEW i \in DOMAIN mail'[b], NEW e, e = mail'[b][i]
               PROVE  Waits(e, i)'
    BY DEF Waits, Awaited
  <2> QED
    BY <1>3, <1>5
<1> QED
  BY <1>6, <1>7, WaitersAreAfter

\* A command gives up waiting and its invocation, which runs, stays until it returns.
LEMMA MailAbandoned ==
    ASSUME TasksInv, MailInv, CallsHaveWaiters, UNCHANGED mail, InputsKept,
           NEW t \in DOMAIN tasks, RouteOf(root[tasks[t].root].input).scopes # {}, tasks'[t].await = NoCall,
           \A b \in DOMAIN mail : \A i \in DOMAIN mail[b] :
               mail[b][i].task = t /\ Awaited(mail[b][i]) => i = 1 /\ ~mail[b][i].hung /\ mail[b][i].call = 1,
           \A u \in DOMAIN tasks : SameCalls(u) /\ (u # t => tasks'[u].await = tasks[u].await)
    PROVE  MailInv' /\ CallsHaveWaiters'
<1>1. \A b \in DOMAIN mail : \A i \in DOMAIN mail[b] : \A e : e = mail[b][i] =>
         /\ EntryOK(e)'
         /\ Awaited(e)' <=> Awaited(e) /\ e.task # t
         /\ e.task # t => tasks'[e.task].await = tasks[e.task].await
         /\ Waits(e, i)'
  <2> TAKE b \in DOMAIN mail
  <2> TAKE i \in DOMAIN mail[b]
  <2> TAKE e
  <2> HAVE e = mail[b][i]
  <2>1. EntryOK(e) /\ e.task \in DOMAIN tasks /\ SameCalls(e.task)
    BY DEF MailInv, EntryOK
  <2>2. EntryOK(e)'
    BY <2>1 DEF EntryOK, SameCalls
  <2>3. Awaited(e)' <=> Awaited(e) /\ e.task # t
    BY <2>1 DEF Awaited, SameCalls
  <2>4. Waits(e, i)
    BY WaitersAre
  <2>5. root'[tasks'[e.task].root].input = root[tasks[e.task].root].input
    BY <2>1 DEF SameCalls, InputsKept, TasksInv, TaskOK
  <2>6. Waits(e, i)'
    BY <2>3, <2>4, <2>5 DEF Waits
  <2> QED
    BY <2>1, <2>2, <2>3, <2>6
<1>2. MailInv'
  BY <1>1 DEF MailInv
<1>3. \A box \in DOMAIN mail' : \A i \in DOMAIN mail'[box] : Waits(mail[box][i], i)'
  BY <1>1 DEF Waits, Awaited
<1> QED
  BY <1>2, <1>3, WaitersAreAfter

PostedMail(box, t, c) ==
    mail' = IF stopped THEN mail
            ELSE SetMail(box, Append(MailOf(box), [task |-> t, call |-> c, hung |-> FALSE]))

\* Task t, new or not waiting, enqueues its next call, which a stopped scheduler refuses.
LEMMA MailPosted ==
    ASSUME TasksInv, MailInv, CallsHaveWaiters, InputsKept, stopped \in BOOLEAN,
           NEW t \in DOMAIN tasks', NEW box, NEW c \in Nat,
           tasks'[t].calls = c,
           tasks'[t].await # NoCall,
           tasks'[t].await.box = box, tasks'[t].await.result.answered = stopped,
           t \in DOMAIN tasks =>
               tasks[t].await = NoCall /\ c = tasks[t].calls + 1 /\ tasks'[t].root = tasks[t].root,
           \A u \in DOMAIN tasks : u # t => SameCalls(u) /\ tasks'[u].await = tasks[u].await,
           DOMAIN tasks \subseteq DOMAIN tasks',
           PostedMail(box, t, c)
    PROVE  MailInv' /\ CallsHaveWaiters'
<1> DEFINE new == [task |-> t, call |-> c, hung |-> FALSE]
<1>1. \A b \in DOMAIN mail : \A i \in DOMAIN mail[b] : \A e : e = mail[b][i] =>
         /\ EntryOK(e)'
         /\ ~(e.task = t /\ e.call = c)
         /\ Awaited(e)' <=> Awaited(e)
         /\ Awaited(e) => tasks'[e.task].await = tasks[e.task].await
         /\ Waits(e, i)'
  <2> TAKE b \in DOMAIN mail
  <2> TAKE i \in DOMAIN mail[b]
  <2> TAKE e
  <2> HAVE e = mail[b][i]
  <2>1. EntryOK(e) /\ e.task \in DOMAIN tasks
    BY DEF MailInv, EntryOK
  <2>2. tasks[e.task].calls \in Nat /\ tasks[e.task].root \in Roots
    BY <2>1 DEF TasksInv, TaskOK
  <2>3. EntryOK(e)' /\ ~(e.task = t /\ e.call = c)
    BY <2>1, <2>2 DEF EntryOK, SameCalls
  <2>4. (Awaited(e)' <=> Awaited(e)) /\ (Awaited(e) => tasks'[e.task].await = tasks[e.task].await)
    BY <2>1, <2>3 DEF Awaited, SameCalls
  <2>5. Waits(e, i)
    BY WaitersAre
  <2>6. root'[tasks'[e.task].root].input = root[tasks[e.task].root].input
    BY <2>1, <2>2 DEF SameCalls, InputsKept
  <2>7. Waits(e, i)'
    BY <2>4, <2>5, <2>6 DEF Waits
  <2> QED
    BY <2>3, <2>4, <2>7
<1>2. CASE stopped
  <2>0. mail' = mail
    BY <1>2 DEF PostedMail
  <2>1. MailInv'
    BY <1>1, <2>0 DEF MailInv
  <2>2. \A b \in DOMAIN mail' : \A i \in DOMAIN mail'[b] : Waits(mail[b][i], i)'
    BY <1>1, <2>0 DEF Waits, Awaited
  <2> QED
    BY <2>1, <2>2, WaitersAreAfter
<1>3. CASE ~stopped
  <2> DEFINE old == MailOf(box)
             q == Append(old, new)
  <2>1. IsSeq(old) /\ DOMAIN old = 1..Len(old) /\ Len(old) \in Nat
    <3>1. CASE box \in DOMAIN mail
      BY <3>1, SeqShape DEF MailOf, MailInv
    <3>2. CASE box \notin DOMAIN mail
      <4>1. IsSeq(<<>>) /\ Len(<<>>) = 0 /\ DOMAIN <<>> = 1..0
        BY DEF IsSeq
      <4> QED
        BY <3>2, <4>1 DEF MailOf
    <3> QED
      BY <3>1, <3>2
  <2> HIDE DEF old
  <2>2. /\ IsSeq(q) /\ DOMAIN q = 1..(Len(old) + 1) /\ q # <<>>
        /\ q[Len(old) + 1] = new /\ \A i \in DOMAIN old : q[i] = old[i]
    BY <2>1, SeqAppend
  <2>3. mail' = SetMail(box, q)
    BY <1>3 DEF old, PostedMail
  <2> HIDE DEF q, new
  <2>4. /\ DOMAIN mail' = DOMAIN mail \cup {box} /\ mail'[box] = q
        /\ \A b \in DOMAIN mail : b # box => mail'[b] = mail[b]
    BY <2>2, <2>3 DEF SetMail, Restrict
  <2>5. DOMAIN old # {} => box \in DOMAIN mail /\ old = mail[box]
    <3>1. box \notin DOMAIN mail => DOMAIN old = {}
      BY DEF MailOf, old
    <3> QED
      BY <3>1 DEF MailOf, old
  <2>6. \A b \in DOMAIN mail' : \A i \in DOMAIN mail'[b] :
           \/ b = box /\ i = Len(old) + 1 /\ mail'[b][i] = new
           \/ b \in DOMAIN mail /\ i \in DOMAIN mail[b] /\ mail'[b][i] = mail[b][i] /\ (b = box => i # Len(old) + 1)
    <3> SUFFICES ASSUME NEW b \in DOMAIN mail', NEW i \in DOMAIN mail'[b]
                 PROVE  \/ b = box /\ i = Len(old) + 1 /\ mail'[b][i] = new
                        \/ b \in DOMAIN mail /\ i \in DOMAIN mail[b] /\ mail'[b][i] = mail[b][i] /\ (b = box => i # Len(old) + 1)
      OBVIOUS
    <3>1. CASE b # box
      BY <2>4, <3>1
    <3>2. CASE b = box
      <4>1. i \in 1..(Len(old) + 1)
        BY <2>2, <2>4, <3>2
      <4>2. CASE i = Len(old) + 1
        BY <2>2, <2>4, <3>2, <4>2
      <4>3. CASE i \in DOMAIN old
        BY <2>1, <2>2, <2>4, <2>5, <3>2, <4>3
      <4> QED
        BY <2>1, <4>1, <4>2, <4>3
    <3> QED
      BY <3>1, <3>2
  <2>7. new.task = t /\ new.call = c /\ EntryOK(new)' /\ Awaited(new)'
    BY DEF new, EntryOK, Awaited
  <2>8. MailInv'
    <3>1. \A b \in DOMAIN mail' : IsSeq(mail'[b]) /\ mail'[b] # <<>>
      BY <2>2, <2>4 DEF MailInv
    <3>2. \A b \in DOMAIN mail' : \A i \in DOMAIN mail'[b] : EntryOK(mail[b][i])'
      BY <1>1, <2>6, <2>7 DEF EntryOK
    <3>3. \A b, d \in DOMAIN mail' : \A i \in DOMAIN mail'[b], j \in DOMAIN mail'[d] :
             mail'[b][i].task = mail'[d][j].task /\ mail'[b][i].call = mail'[d][j].call => b = d /\ i = j
      BY <1>1, <2>6, <2>7 DEF MailInv
    <3>4. \A b \in DOMAIN mail' : \A i \in DOMAIN mail'[b] :
             Awaited(mail[b][i])' =>
                /\ tasks'[mail'[b][i].task].await.box = b
                /\ ~tasks'[mail'[b][i].task].await.result.answered
      <4> SUFFICES ASSUME NEW b \in DOMAIN mail', NEW i \in DOMAIN mail'[b], NEW e, e = mail'[b][i], Awaited(e)'
                   PROVE  tasks'[e.task].await.box = b /\ ~tasks'[e.task].await.result.answered
        BY DEF Awaited
      <4>1. CASE e = new /\ b = box
        BY <1>3, <2>7, <4>1
      <4>2. CASE b \in DOMAIN mail /\ i \in DOMAIN mail[b] /\ e = mail[b][i]
        <5>1. Awaited(e) /\ tasks'[e.task].await = tasks[e.task].await
          BY <1>1, <4>2
        <5> QED
          BY <4>2, <5>1 DEF MailInv
      <4> QED
        BY <2>6, <4>1, <4>2
    <3> QED
      BY <3>1, <3>2, <3>3, <3>4 DEF MailInv
  <2>9. \A b \in DOMAIN mail' : \A i \in DOMAIN mail'[b] : Waits(mail[b][i], i)'
    <3> SUFFICES ASSUME NEW b \in DOMAIN mail', NEW i \in DOMAIN mail'[b], NEW e, e = mail'[b][i]
                 PROVE  Waits(e, i)'
      BY DEF Waits, Awaited
    <3>1. CASE e = new
      BY <2>7, <3>1 DEF Waits
    <3>2. CASE b \in DOMAIN mail /\ i \in DOMAIN mail[b] /\ e = mail[b][i]
      BY <1>1, <3>2
    <3> QED
      BY <2>6, <3>1, <3>2
  <2> QED
    BY <2>8, <2>9, WaitersAreAfter
<1> QED
  BY <1>2, <1>3

-----------------------------------------------------------------------------
(* Stacks, frames and fields.                                              *)

LEMMA TopFacts ==
    ASSUME TasksInv, NEW t \in DOMAIN tasks, Live(t)
    PROVE  LET s == tasks[t].stack
           IN /\ TaskOK(tasks[t]) /\ StackOK(s) /\ IsSeq(s) /\ Len(s) \in Nat \ {0} /\ DOMAIN s = 1..Len(s)
              /\ Top(t) = s[Len(s)] /\ FrameOK(Top(t)) /\ Head(s) = s[1]
              /\ Top(t).kind # "route" => Len(s) = 1
<1>1. TaskOK(tasks[t]) /\ StackOK(tasks[t].stack) /\ IsSeq(tasks[t].stack) /\ tasks[t].stack # <<>>
  BY DEF TasksInv, TaskOK, StackOK, Live
<1>2. Len(tasks[t].stack) \in Nat \ {0} /\ DOMAIN tasks[t].stack = 1..Len(tasks[t].stack)
  BY <1>1, SeqShape
<1>3. Top(t) = tasks[t].stack[Len(tasks[t].stack)]
  BY DEF Top, Last
<1>4. FrameOK(Top(t)) /\ (Top(t).kind # "route" => Len(tasks[t].stack) = 1)
  <2> DEFINE n == Len(tasks[t].stack)
  <2>0. \A k \in Nat \ {0} : k \in 1..k /\ (k = 1 \/ k > 1)
    OBVIOUS
  <2>1. n \in DOMAIN tasks[t].stack /\ (n = 1 \/ n > 1) /\ Top(t) = tasks[t].stack[n]
    BY <1>2, <1>3, <2>0, Zenon
  <2> HIDE DEF n
  <2>2. FrameOK(tasks[t].stack[n]) /\ (n > 1 => tasks[t].stack[n].kind = "route")
    BY <1>1, <2>1 DEF StackOK
  <2> QED
    BY <2>1, <2>2 DEF n
<1>5. Head(tasks[t].stack) = tasks[t].stack[1]
  BY <1>1, SeqTail
<1> QED
  BY <1>1, <1>2, <1>3, <1>4, <1>5

LEMMA TopSet ==
    ASSUME NEW s, StackOK(s), Len(s) \in Nat \ {0}, NEW g, FrameOK(g), g.kind = s[Len(s)].kind
    PROVE  LET z == [s EXCEPT ![Len(s)] = g]
           IN /\ StackOK(z) /\ Len(z) = Len(s) /\ DOMAIN z = DOMAIN s /\ z # <<>>
              /\ z[Len(s)] = g /\ \A i \in DOMAIN s : i # Len(s) => z[i] = s[i]
<1> DEFINE z == [s EXCEPT ![Len(s)] = g]
<1>1. IsSeq(s) /\ DOMAIN s = 1..Len(s) /\ Len(s) \in DOMAIN s
  BY SeqShape DEF StackOK
<1>2. /\ IsSeq(z) /\ Len(z) = Len(s) /\ DOMAIN z = DOMAIN s
      /\ z[Len(s)] = g /\ \A i \in DOMAIN s : i # Len(s) => z[i] = s[i]
  BY <1>1, SeqSet
<1> HIDE DEF z
<1>3. StackOK(z)
  BY <1>1, <1>2 DEF StackOK
<1>4. z # <<>>
  BY <1>2, SeqShape
<1> QED
  BY <1>2, <1>3, <1>4 DEF z

LEMMA Push ==
    ASSUME NEW s, StackOK(s), Len(s) \in Nat \ {0}, NEW g, FrameOK(g), g.kind = "route"
    PROVE  LET z == Append(s, g)
           IN /\ StackOK(z) /\ Len(z) = Len(s) + 1 /\ DOMAIN z = 1..(Len(s) + 1) /\ z # <<>>
              /\ z[Len(s) + 1] = g /\ \A i \in DOMAIN s : z[i] = s[i]
<1> DEFINE z == Append(s, g)
<1>1. /\ IsSeq(z) /\ Len(z) = Len(s) + 1 /\ DOMAIN z = 1..(Len(s) + 1) /\ z # <<>>
      /\ z[Len(s) + 1] = g /\ \A i \in DOMAIN s : z[i] = s[i] /\ DOMAIN s = 1..Len(s)
  BY SeqAppend, SeqShape DEF StackOK
<1> HIDE DEF z
<1>2. StackOK(z)
  BY <1>1 DEF StackOK
<1> QED
  BY <1>1, <1>2 DEF z

LEMMA OneFrame ==
    ASSUME NEW g, FrameOK(g)
    PROVE  /\ StackOK(<<g>>) /\ Len(<<g>>) = 1 /\ DOMAIN <<g>> = 1..1 /\ <<g>> # <<>>
           /\ <<g>>[1] = g
<1>1. IsSeq(<<g>>) /\ Len(<<g>>) = 1 /\ DOMAIN <<g>> = 1..1 /\ <<g>>[1] = g /\ <<g>> # <<>>
  BY SeqOne
<1> QED
  BY <1>1 DEF StackOK

LEMMA EmptyStack == StackOK(<<>>)
BY DEF StackOK, IsSeq

\* A step that replaces task t, given by its fields.
Fields4(x, r, s, a, c) ==
    DOMAIN x = {"root", "stack", "await", "calls"} /\ x.root = r /\ x.stack = s /\ x.await = a /\ x.calls = c

LEMMA TaskReplaced ==
    ASSUME TasksInv, NEW t \in DOMAIN tasks, NEW x, tasks' = [tasks EXCEPT ![t] = x]
    PROVE  TaskSet(t, tasks'[t]) /\ tasks'[t] = x
<1>1. /\ IsSeq(tasks') /\ DOMAIN tasks' = DOMAIN tasks /\ tasks'[t] = x
      /\ \A u \in DOMAIN tasks : u # t => tasks'[u] = tasks[u]
  <2>1. IsSeq(tasks)
    BY DEF TasksInv
  <2> QED
    BY <2>1, SeqSet
<1> QED
  BY <1>1 DEF TaskSet

LEMMA StackReplaced ==
    ASSUME TasksInv, NEW t \in DOMAIN tasks, NEW z, tasks' = [tasks EXCEPT ![t].stack = z]
    PROVE  /\ TaskSet(t, tasks'[t])
           /\ Fields4(tasks'[t], tasks[t].root, z, tasks[t].await, tasks[t].calls)
<1> DEFINE x == [tasks[t] EXCEPT !.stack = z]
<1>1. Fields4(x, tasks[t].root, z, tasks[t].await, tasks[t].calls)
  BY DEF Fields4, TasksInv, TaskOK
<1>2. tasks' = [tasks EXCEPT ![t] = x]
  OBVIOUS
<1> HIDE DEF x
<1> QED
  BY <1>1, <1>2, TaskReplaced

LEMMA StackAwaitReplaced ==
    ASSUME TasksInv, NEW t \in DOMAIN tasks, NEW z, NEW a,
           tasks' = [tasks EXCEPT ![t].await = a, ![t].stack = z]
    PROVE  TaskSet(t, tasks'[t]) /\ Fields4(tasks'[t], tasks[t].root, z, a, tasks[t].calls)
<1> DEFINE x == [tasks[t] EXCEPT !.await = a, !.stack = z]
<1>1. Fields4(x, tasks[t].root, z, a, tasks[t].calls)
  BY DEF Fields4, TasksInv, TaskOK
<1>2. tasks' = [tasks EXCEPT ![t] = x]
  OBVIOUS
<1> HIDE DEF x
<1> QED
  BY <1>1, <1>2, TaskReplaced

LEMMA CallReplaced ==
    ASSUME TasksInv, NEW t \in DOMAIN tasks, NEW z, NEW c, NEW a,
           tasks' = [tasks EXCEPT ![t].stack = z, ![t].calls = c, ![t].await = a]
    PROVE  TaskSet(t, tasks'[t]) /\ Fields4(tasks'[t], tasks[t].root, z, a, c)
<1> DEFINE x == [tasks[t] EXCEPT !.stack = z, !.calls = c, !.await = a]
<1>1. Fields4(x, tasks[t].root, z, a, c)
  BY DEF Fields4, TasksInv, TaskOK
<1>2. tasks' = [tasks EXCEPT ![t] = x]
  OBVIOUS
<1> HIDE DEF x
<1> QED
  BY <1>1, <1>2, TaskReplaced

-----------------------------------------------------------------------------
(* Steps of a route.                                                       *)

\* The judgement depends on four fields.
LEMMA SameJudgement ==
    ASSUME NEW m, NEW n, SettledRight(m), n.sourceRuns = m.sourceRuns, n.scope = m.scope,
           n.said = m.said, n.code = m.code
    PROVE  SettledRight(n)
<1>1. \A k \in m.scope : GoesOn(n, k) <=> GoesOn(m, k)
  BY DEF GoesOn
<1> QED
  BY <1>1 DEF SettledRight

\* At most a failure that is in the frame g is noted for the root of t.
NotedAtMost(t, g) ==
    \/ root' = root
    \/ \E e \in g.failures :
          root' = IF IsTerminalTask(t) THEN root
                  ELSE [root EXCEPT ![tasks[t].root].failed = @ \cup {e}]

\* What a step may do to the record of a root, failures apart.
SameButFailed(m, n) ==
    /\ DOMAIN n = DOMAIN m
    /\ \A f \in DOMAIN m : f # "failed" => n[f] = m[f]

LEMMA NotedFacts ==
    ASSUME TasksInv, RootInv, RouteInv, NEW t \in DOMAIN tasks, Live(t), NEW g, NotedAtMost(t, g)
    PROVE  LET r == tasks[t].root
           IN /\ RootSet(r, root'[r]) /\ InputsKept
              /\ SameButFailed(root[r], root'[r]) /\ RootOK(root'[r])
              /\ root'[r].failed \subseteq root[r].failed \cup g.failures
              /\ ~IsRoute(tasks[t]) => root'[r] = root[r]
<1> DEFINE r == tasks[t].root
<1>1. r \in Roots /\ DOMAIN root = Roots /\ RootOK(root[r])
  BY DEF TasksInv, TaskOK, RootInv
<1>2. IsRoute(tasks[t]) <=> ~IsTerminalTask(t)
  BY TopFacts DEF IsRoute, IsTerminalTask, Live
<1>3. IsRoute(tasks[t]) => root[r].state = "routing"
  BY DEF RouteInv, LinkOK
<1>4. CASE root' = root
  BY <1>1, <1>4 DEF RootSet, InputsKept, SameButFailed
<1>5. CASE root' # root
  <2>1. PICK e \in g.failures : root' = [root EXCEPT ![r].failed = @ \cup {e}] /\ ~IsTerminalTask(t)
    BY <1>5 DEF NotedAtMost
  <2> DEFINE m == [root[r] EXCEPT !.failed = @ \cup {e}]
  <2>2. root' = [root EXCEPT ![r] = m]
    BY <2>1
  <2>3. SameButFailed(root[r], m) /\ m.failed = root[r].failed \cup {e}
    BY <1>1 DEF SameButFailed, RootOK
  <2> HIDE DEF m
  <2>4. RootOK(m) /\ m.input = root[r].input
    BY <1>1, <1>2, <1>3, <2>1, <2>3 DEF RootOK, SameButFailed
  <2>5. RootSet(r, m) /\ InputsKept /\ root'[r] = m
    BY <1>1, <2>2, <2>4 DEF RootSet, InputsKept
  <2> QED
    BY <1>2, <2>1, <2>3, <2>4, <2>5
<1> QED
  BY <1>4, <1>5

\* The bottom frame stays in the stack, or is a route, and no failure is lost.
LEMMA LinkKept ==
    ASSUME NEW x, NEW y, NEW m, NEW n, IsRoute(x), LinkOK(x, m), SameButFailed(m, n), RootOK(m),
           IsRoute(y), y.stack[1].kind = x.stack[1].kind,
           x.stack[1].kind = "command" => y.stack[1].key = x.stack[1].key
                                        /\ y.stack[1].decided = x.stack[1].decided
                                        /\ y.stack[1].code = x.stack[1].code
                                        /\ y.stack[1].todo = x.stack[1].todo
                                        /\ y.stack[1].completions = x.stack[1].completions
                                        /\ x.stack[1].failures \subseteq y.stack[1].failures,
           y.await # NoCall => ~y.await.timed,
           InFrames(y, n.failed)
    PROVE  LinkOK(y, n)
<1>1. /\ n.state = m.state /\ n.input = m.input /\ n.code = m.code /\ n.sourceRuns = m.sourceRuns
      /\ n.emitted = m.emitted /\ n.scope = m.scope /\ n.said = m.said
  BY DEF SameButFailed, RootOK
<1>2. SettledRight(m) => SettledRight(n)
  BY <1>1, SameJudgement
<1>3. SettledSoFar(y, n)
  BY <1>1, <1>2 DEF LinkOK, SettledSoFar
<1> QED
  BY <1>1, <1>3 DEF LinkOK

\* The top frame, a route, becomes g.
LEMMA RouteTopStep ==
    ASSUME TasksInv, RootInv, RouteInv, NEW t \in DOMAIN tasks, Live(t), Top(t).kind = "route",
           NEW g, FrameOK(g), g.kind = "route", Top(t).failures \subseteq g.failures,
           NEW a, NEW c \in Nat, TaskSet(t, tasks'[t]),
           Fields4(tasks'[t], tasks[t].root, WithTop(t, g), a, c), AwaitOK(tasks'[t]),
           a # NoCall => ~a.timed,
           NotedAtMost(t, g)
    PROVE  TasksInv' /\ RootInv' /\ RouteInv' /\ InputsKept
<1> DEFINE s == tasks[t].stack
           x == tasks'[t]
           z == [s EXCEPT ![Len(s)] = g]
           m == root'[tasks[t].root]
<1>1. /\ TaskOK(tasks[t]) /\ StackOK(s) /\ IsSeq(s) /\ Len(s) \in Nat \ {0} /\ DOMAIN s = 1..Len(s)
      /\ Top(t) = s[Len(s)] /\ FrameOK(Top(t))
  BY TopFacts
<1>2. /\ StackOK(z) /\ Len(z) = Len(s) /\ DOMAIN z = DOMAIN s /\ z # <<>>
      /\ z[Len(s)] = g /\ \A i \in DOMAIN s : i # Len(s) => z[i] = s[i]
  BY <1>1, TopSet
<1>3. WithTop(t, g) = z
  BY DEF WithTop
<1>4. DOMAIN x = {"root", "stack", "await", "calls"} /\ x.root = tasks[t].root /\ x.stack = z
      /\ x.await = a /\ x.calls = c
  BY <1>3 DEF Fields4
<1>5. TaskOK(x)
  BY <1>1, <1>2, <1>4 DEF TaskOK
<1>6. /\ RootSet(x.root, m) /\ InputsKept /\ SameButFailed(root[x.root], m) /\ RootOK(m)
      /\ m.failed \subseteq root[x.root].failed \cup g.failures
      /\ ~IsRoute(tasks[t]) => m = root[x.root]
  BY <1>4, NotedFacts
<1> HIDE DEF z, m, x
<1>7. z[1].kind = s[1].kind /\ (s[1].kind = "command" => z[1] = s[1]) /\ s # <<>>
  <2>1. 1 \in DOMAIN s
    BY <1>1
  <2>2. CASE Len(s) = 1
    BY <1>1, <1>2, <2>2, SeqShape
  <2>3. CASE Len(s) # 1
    BY <1>1, <1>2, <2>1, <2>3, SeqShape
  <2> QED
    BY <2>2, <2>3
<1>8. IsRoute(x) => IsRoute(tasks[t]) /\ LinkOK(x, m)
  <2> HAVE IsRoute(x)
  <2>1. IsRoute(tasks[t])
    BY <1>4, <1>7 DEF IsRoute
  <2>2. LinkOK(tasks[t], root[x.root]) /\ RootOK(root[x.root])
    BY <1>1, <1>4, <2>1 DEF RouteInv, RootInv, TaskOK
  <2>3. \A e : (\E i \in DOMAIN s : e \in s[i].failures) => \E i \in DOMAIN z : e \in z[i].failures
    BY <1>1, <1>2
  <2>4. Len(s) \in DOMAIN z /\ \A e \in g.failures : \E i \in DOMAIN z : e \in z[i].failures
    BY <1>1, <1>2
  <2>5. InFrames(x, m.failed)
    BY <1>4, <1>6, <2>2, <2>3, <2>4 DEF InFrames, LinkOK
  <2>6. LinkOK(x, m)
    BY <1>4, <1>6, <1>7, <2>1, <2>2, <2>5, LinkKept
  <2> QED
    BY <2>1, <2>6
<1> QED
  BY <1>4, <1>5, <1>6, <1>8, TaskStep DEF x

\* A step of task t that does not enqueue and gives no await up without an answer.
LEMMA QuietMail ==
    ASSUME TasksInv, MailInv, CallsHaveWaiters, UNCHANGED mail, InputsKept, NEW t \in DOMAIN tasks,
           NEW z, NEW a, TaskSet(t, tasks'[t]), Fields4(tasks'[t], tasks[t].root, z, a, tasks[t].calls),
           a = tasks[t].await \/ (tasks[t].await # NoCall /\ tasks[t].await.result.answered)
    PROVE  MailInv' /\ CallsHaveWaiters'
<1>1. \A u \in DOMAIN tasks : SameCalls(u) /\
               (\/ tasks'[u].await = tasks[u].await
                \/ tasks[u].await # NoCall /\ tasks[u].await.result.answered)
  BY DEF TaskSet, Fields4, SameCalls
<1> QED
  BY <1>1, MailKept

\* The steps of a route that only move its top frame.
LEMMA RouteMoves ==
    ASSUME IInv, NEW t \in DOMAIN tasks, Live(t), Top(t).kind = "route", tasks[t].await = NoCall,
           NEW g, FrameOK(g), g.kind = "route", Top(t).failures \subseteq g.failures,
           tasks' = [tasks EXCEPT ![t].stack = WithTop(t, g)],
           NotedAtMost(t, g), UNCHANGED <<mail, flags>>
    PROVE  IInv'
<1>1. /\ TaskSet(t, tasks'[t])
      /\ Fields4(tasks'[t], tasks[t].root, WithTop(t, g), NoCall, tasks[t].calls)
  BY StackReplaced DEF IInv
<1>2. tasks[t].calls \in Nat
  BY DEF IInv, TasksInv, TaskOK
<1>3. AwaitOK(tasks'[t])
  BY <1>1 DEF AwaitOK, Fields4
<1>4. TasksInv' /\ RootInv' /\ RouteInv' /\ InputsKept
  BY <1>1, <1>2, <1>3, RouteTopStep DEF IInv
<1>5. MailInv' /\ CallsHaveWaiters'
  BY <1>1, <1>4, QuietMail DEF IInv
<1> QED
  BY <1>4, <1>5 DEF IInv, flags

LEMMA FrameMoves ==
    ASSUME NEW f, FrameOK(f), f.kind = "route", NEW s
    PROVE  /\ FrameOK(Finished(f, s)) /\ Finished(f, s).kind = "route" /\ Finished(f, s).failures = f.failures
           /\ FrameOK(Entered(f, s)) /\ Entered(f, s).kind = "route" /\ Entered(f, s).failures = f.failures
BY DEF Finished, Entered, FrameOK

LEMMA FrameFails ==
    ASSUME NEW f, FrameOK(f), f.kind = "route", NEW s
    PROVE  /\ FrameOK(WithFailure(f, s)) /\ WithFailure(f, s).kind = "route"
           /\ WithFailure(f, s).failures = f.failures \cup {StageFailure(f.pipe, s)}
BY DEF WithFailure, FrameOK

LEMMA FinishStageStep ==
    ASSUME IInv, NEW t \in DOMAIN tasks, FinishStage(t)
    PROVE  IInv'
<1> DEFINE g == Finished(Top(t), Top(t).stage)
<1>1. FrameOK(Top(t)) /\ Live(t) /\ Top(t).kind = "route" /\ tasks[t].await = NoCall
  BY TopFacts DEF FinishStage, IInv
<1>2. FrameOK(g) /\ g.kind = "route" /\ Top(t).failures \subseteq g.failures
  BY <1>1, FrameMoves
<1>3. tasks' = [tasks EXCEPT ![t].stack = WithTop(t, g)] /\ UNCHANGED <<mail, flags>> /\ root' = root
  BY DEF FinishStage
<1> HIDE DEF g
<1> QED
  BY <1>1, <1>2, <1>3, RouteMoves DEF NotedAtMost

LEMMA NextPassStep ==
    ASSUME IInv, NEW t \in DOMAIN tasks, NextPass(t)
    PROVE  IInv'
<1> DEFINE f == Top(t)
           g == IF AtPipeline(f) /\ ~f.lastPass
                THEN [f EXCEPT !.lastPass = TRUE, !.from = 1]
                ELSE [f EXCEPT !.pipe = @ + 1, !.lastPass = FALSE, !.from = 1, !.done = {},
                               !.avail = SubSeq(@, 1, 1)]
<1>1. FrameOK(f) /\ Live(t) /\ f.kind = "route" /\ tasks[t].await = NoCall
  BY TopFacts DEF NextPass, Scanning, IInv
<1>2. FrameOK(g) /\ g.kind = "route" /\ f.failures \subseteq g.failures
  BY <1>1 DEF FrameOK
<1>3. tasks' = [tasks EXCEPT ![t].stack = WithTop(t, g)] /\ UNCHANGED <<mail, flags>> /\ root' = root
  BY DEF NextPass
<1> HIDE DEF g
<1> QED
  BY <1>1, <1>2, <1>3, RouteMoves DEF NotedAtMost

LEMMA RefuseStageStep ==
    ASSUME IInv, NEW t \in DOMAIN tasks, RefuseStage(t)
    PROVE  IInv'
<1> DEFINE f == Top(t)
           s == NextStage(f)
           h == Finished(f, s)
           g == WithFailure(h, s)
<1>1. FrameOK(f) /\ Live(t) /\ f.kind = "route" /\ tasks[t].await = NoCall
  BY TopFacts DEF RefuseStage, AtStage, Scanning, IInv
<1>2. FrameOK(h) /\ h.kind = "route" /\ h.failures = f.failures
  BY <1>1, FrameMoves
<1>3. tasks' = [tasks EXCEPT ![t].stack = WithTop(t, g)] /\ UNCHANGED <<mail, flags>>
      /\ root' = NoteFailed(t, f.pipe, s)
  BY DEF RefuseStage
<1>4. h.pipe = f.pipe
  BY <1>1 DEF Finished, FrameOK
<1> HIDE DEF h, s, f
<1>5. FrameOK(g) /\ g.kind = "route" /\ f.failures \subseteq g.failures /\ StageFailure(f.pipe, s) \in g.failures
  BY <1>2, <1>4, FrameFails
<1> HIDE DEF g
<1>6. NotedAtMost(t, g)
  BY <1>3, <1>5 DEF NotedAtMost, NoteFailed
<1> QED
  BY <1>1, <1>3, <1>5, <1>6, RouteMoves DEF f

LEMMA UnknownActorStep ==
    ASSUME IInv, NEW t \in DOMAIN tasks, UnknownActor(t)
    PROVE  IInv'
<1> DEFINE f == Top(t)
           s == NextStage(f)
           h == Entered(f, s)
           e == WithFailure(h, s)
           g == [e EXCEPT !.todo = <<ActorFailed>>]
<1>1. FrameOK(f) /\ Live(t) /\ f.kind = "route" /\ tasks[t].await = NoCall
  BY TopFacts DEF UnknownActor, AtStage, Scanning, IInv
<1>2. FrameOK(h) /\ h.kind = "route" /\ h.failures = f.failures
  BY <1>1, FrameMoves
<1>3. tasks' = [tasks EXCEPT ![t].stack = WithTop(t, g)] /\ UNCHANGED <<mail, flags>>
      /\ root' = NoteFailed(t, f.pipe, s)
  BY DEF UnknownActor
<1>4. h.pipe = f.pipe
  BY <1>1 DEF Entered, FrameOK
<1> HIDE DEF h, s, f
<1>5. FrameOK(e) /\ e.kind = "route" /\ e.failures = h.failures \cup {StageFailure(h.pipe, s)}
  BY <1>2, FrameFails
<1> HIDE DEF e
<1>6. FrameOK(g) /\ g.kind = "route" /\ f.failures \subseteq g.failures /\ StageFailure(f.pipe, s) \in g.failures
  BY <1>2, <1>4, <1>5 DEF FrameOK
<1> HIDE DEF g
<1>7. NotedAtMost(t, g)
  BY <1>3, <1>6 DEF NotedAtMost, NoteFailed
<1> QED
  BY <1>1, <1>3, <1>6, <1>7, RouteMoves DEF f

\* A terminal stage that was posted: a task that is no route and has called nobody.
LEMMA PostedTask ==
    ASSUME NEW r \in Roots, NEW p, NEW s, NEW route
    PROVE  LET x == Task(r, <<TerminalFrame(p, s, route)>>)
           IN TaskOK(x) /\ ~IsRoute(x)
<1> DEFINE g == TerminalFrame(p, s, route)
           x == Task(r, <<g>>)
<1>1. FrameOK(g) /\ g.kind = "terminal"
  BY DEF TerminalFrame, FrameOK
<1> HIDE DEF g
<1>2. StackOK(<<g>>) /\ <<g>>[1] = g
  BY <1>1, OneFrame
<1>3. DOMAIN x = {"root", "stack", "await", "calls"} /\ x.root = r /\ x.stack = <<g>>
      /\ x.await = NoCall /\ x.calls = 0
  BY DEF Task
<1> HIDE DEF x
<1>4. TaskOK(x) /\ ~IsRoute(x)
  BY <1>1, <1>2, <1>3 DEF TaskOK, AwaitOK, IsRoute
<1> QED
  BY <1>4 DEF x, g

LEMMA PostTerminalStep ==
    ASSUME IInv, NEW t \in DOMAIN tasks, PostTerminal(t)
    PROVE  IInv'
<1> DEFINE f == Top(t)
           s == NextStage(f)
           g == Finished(f, s)
           back == [tasks EXCEPT ![t].stack = WithTop(t, g)]
           x == Task(tasks[t].root, <<TerminalFrame(f.pipe, s, StageRoute(f, s))>>)
<1>1. FrameOK(f) /\ Live(t) /\ f.kind = "route" /\ tasks[t].await = NoCall
  BY TopFacts DEF PostTerminal, AtStage, Scanning, IInv
<1>2. FrameOK(g) /\ g.kind = "route" /\ f.failures \subseteq g.failures
  BY <1>1, FrameMoves
<1>3. (tasks' = back \/ tasks' = Append(back, x)) /\ UNCHANGED <<mail, flags>> /\ root' = root
  BY DEF PostTerminal
<1>4. tasks[t].root \in Roots /\ tasks[t].calls \in Nat
  BY DEF IInv, TasksInv, TaskOK
<1>5. TaskOK(x) /\ ~IsRoute(x)
  BY <1>4, PostedTask
<1> HIDE DEF x, g, s, f
<1>6. CASE tasks' = back
  BY <1>1, <1>2, <1>3, <1>6, RouteMoves DEF NotedAtMost, f
<1>7. CASE tasks' = Append(back, x)
  <2> DEFINE y == [tasks[t] EXCEPT !.stack = WithTop(t, g)]
  <2>1. back = [tasks EXCEPT ![t] = y]
    OBVIOUS
  <2>2. Fields4(y, tasks[t].root, WithTop(t, g), NoCall, tasks[t].calls)
    BY <1>1 DEF Fields4, IInv, TasksInv, TaskOK
  <2> HIDE DEF y
  <2>3. IsSeq(tasks)
    BY DEF IInv, TasksInv
  <2>4. /\ IsSeq(back) /\ Len(back) = Len(tasks) /\ DOMAIN back = DOMAIN tasks /\ back[t] = y
        /\ \A u \in DOMAIN tasks : u # t => back[u] = tasks[u]
    BY <2>1, <2>3, SeqSet
  <2> HIDE DEF back
  <2>5. /\ IsSeq(tasks') /\ DOMAIN tasks' = 1..(Len(back) + 1)
        /\ tasks'[Len(back) + 1] = x /\ \A u \in DOMAIN back : tasks'[u] = back[u]
    BY <1>7, <2>4, SeqAppend
  <2>6. DOMAIN back = 1..Len(back) /\ Len(back) \in Nat
    BY <2>4, SeqShape
  <2>7. TaskSet(t, tasks'[t]) /\ tasks'[t] = y
    BY <1>5, <2>4, <2>5, <2>6 DEF TaskSet
  <2>8. AwaitOK(tasks'[t]) /\ Fields4(tasks'[t], tasks[t].root, WithTop(t, g), NoCall, tasks[t].calls)
    BY <2>2, <2>7 DEF AwaitOK, Fields4
  <2>9. TasksInv' /\ RootInv' /\ RouteInv' /\ InputsKept
    BY <1>1, <1>2, <1>3, <1>4, <2>7, <2>8, RouteTopStep DEF IInv, f, NotedAtMost
  <2>10. MailInv' /\ CallsHaveWaiters'
    BY <1>1, <1>3, <2>7, <2>8, <2>9, QuietMail DEF IInv
  <2> QED
    BY <1>3, <2>9, <2>10 DEF IInv, flags
<1> QED
  BY <1>3, <1>6, <1>7

\* What AwaitCall makes.
LEMMA AwaitCallFacts ==
    ASSUME stopped \in BOOLEAN, NEW box, NEW timed \in BOOLEAN
    PROVE  LET a == AwaitCall(box, timed)
           IN /\ a # NoCall /\ DOMAIN a = {"on", "box", "timed", "result"} /\ a.on /\ a.box = box
              /\ a.timed = timed /\ ResultOK(a.result) /\ a.result.answered = stopped
<1> DEFINE q == IF stopped THEN Result(FALSE, <<>>) ELSE NoResult
           a == AwaitCall(box, timed)
<1>1. ResultOK(q) /\ q.answered = stopped
  BY DEF Result, NoResult, ResultOK
<1> HIDE DEF q
<1>2. a = [on |-> TRUE, box |-> box, timed |-> timed, result |-> q]
  BY DEF AwaitCall, q
<1>3. DOMAIN a = {"on", "box", "timed", "result"} /\ a.on = TRUE /\ a.box = box /\ a.timed = timed /\ a.result = q
  BY <1>2
<1> HIDE DEF a
<1>4. a # NoCall
  BY <1>3 DEF NoCall
<1> QED
  BY <1>1, <1>3, <1>4 DEF a

LEMMA CallStageStep ==
    ASSUME IInv, NEW t \in DOMAIN tasks, CallStage(t)
    PROVE  IInv'
<1> DEFINE f == Top(t)
           s == NextStage(f)
           g == Entered(f, s)
           box == StageBox(t, StageActor(f, s))
           a == AwaitCall(box, FALSE)
           c == tasks[t].calls + 1
<1>1. FrameOK(f) /\ Live(t) /\ f.kind = "route" /\ tasks[t].await = NoCall
  BY TopFacts DEF CallStage, AtStage, Scanning, IInv
<1>2. FrameOK(g) /\ g.kind = "route" /\ f.failures \subseteq g.failures
  BY <1>1, FrameMoves
<1>3. /\ tasks' = [tasks EXCEPT ![t].stack = WithTop(t, g), ![t].calls = c, ![t].await = a]
      /\ EnqueueCall(t, box) /\ UNCHANGED flags /\ root' = root
  BY DEF CallStage
<1>4. tasks[t].root \in Roots /\ tasks[t].calls \in Nat /\ c \in Nat \ {0} /\ stopped \in BOOLEAN
  BY DEF IInv, TasksInv, TaskOK
<1>5. /\ a # NoCall /\ DOMAIN a = {"on", "box", "timed", "result"} /\ a.on /\ a.box = box
      /\ ~a.timed /\ ResultOK(a.result) /\ a.result.answered = stopped
  BY <1>4, AwaitCallFacts
<1>6. PostedMail(box, t, c)
  BY <1>3 DEF EnqueueCall, PostedMail
<1> HIDE DEF g, s, f, box, a, c
<1>7. TaskSet(t, tasks'[t]) /\ Fields4(tasks'[t], tasks[t].root, WithTop(t, g), a, c)
  BY <1>3, CallReplaced DEF IInv
<1>8. AwaitOK(tasks'[t])
  <2> DEFINE z == tasks[t].stack
             y == WithTop(t, g)
  <2>1. StackOK(z) /\ Len(z) \in Nat \ {0} /\ z[Len(z)] = f
    BY <1>1, TopFacts DEF IInv, f
  <2>2. y # <<>> /\ Len(y) = Len(z) /\ y[Len(z)] = g
    BY <1>1, <1>2, <2>1, TopSet DEF WithTop
  <2> HIDE DEF y, z
  <2>3. tasks'[t].await = a /\ tasks'[t].stack = y /\ tasks'[t].calls # 0
    BY <1>4, <1>7 DEF Fields4, y
  <2>4. a.timed \in BOOLEAN
    BY <1>5, AwaitCallFacts, <1>4 DEF a
  <2> QED
    BY <1>2, <1>5, <2>2, <2>3, <2>4 DEF AwaitOK
<1>9. TasksInv' /\ RootInv' /\ RouteInv' /\ InputsKept
  BY <1>1, <1>2, <1>3, <1>4, <1>5, <1>7, <1>8, RouteTopStep DEF IInv, f, NotedAtMost
<1>10. MailInv' /\ CallsHaveWaiters'
  <2>1. t \in DOMAIN tasks' /\ DOMAIN tasks \subseteq DOMAIN tasks'
    BY <1>7 DEF TaskSet
  <2>2. tasks'[t].calls = c /\ tasks'[t].await = a /\ tasks'[t].root = tasks[t].root
    BY <1>7 DEF Fields4
  <2>3. \A u \in DOMAIN tasks : u # t => SameCalls(u) /\ tasks'[u].await = tasks[u].await
    BY <1>7 DEF TaskSet, SameCalls
  <2>4. c = tasks[t].calls + 1
    BY DEF c
  <2> QED
    BY <1>1, <1>4, <1>5, <1>6, <1>9, <2>1, <2>2, <2>3, <2>4, MailPosted DEF IInv
<1> QED
  BY <1>3, <1>9, <1>10 DEF IInv, flags

-----------------------------------------------------------------------------
(* Terminal stages.                                                        *)

LEMMA TerminalTop ==
    ASSUME TasksInv, NEW t \in DOMAIN tasks, Live(t), Top(t).kind = "terminal"
    PROVE  ~IsRoute(tasks[t]) /\ Len(tasks[t].stack) = 1 /\ tasks[t].stack[1] = Top(t)
BY TopFacts DEF IsRoute

\* A step of a task that is no route leaves the roots alone.
LEMMA TerminalStep ==
    ASSUME TasksInv, RootInv, RouteInv, NEW t \in DOMAIN tasks, ~IsRoute(tasks[t]), root' = root,
           TaskSet(t, tasks'[t]), TaskOK(tasks'[t]), ~IsRoute(tasks'[t]), tasks'[t].root = tasks[t].root
    PROVE  TasksInv' /\ RootInv' /\ RouteInv' /\ InputsKept
<1>1. tasks[t].root \in Roots /\ RootOK(root[tasks[t].root]) /\ DOMAIN root = Roots
  BY DEF TasksInv, TaskOK, RootInv
<1>2. RootSet(tasks[t].root, root[tasks[t].root]) /\ InputsKept
  BY <1>1 DEF RootSet, InputsKept
<1> QED
  BY <1>1, <1>2, TaskStep

LEMMA StartTerminalStep ==
    ASSUME IInv, NEW t \in DOMAIN tasks, StartTerminal(t)
    PROVE  IInv'
<1> DEFINE box == StageBox(t, StageActor(Top(t), Top(t).stage))
           a == AwaitCall(box, FALSE)
           s == tasks[t].stack
<1>1. Live(t) /\ Top(t).kind = "terminal" /\ tasks[t].calls = 0 /\ TaskOK(tasks[t])
  BY DEF StartTerminal, IInv, TasksInv
<1>2. ~IsRoute(tasks[t]) /\ Len(s) = 1 /\ s[1] = Top(t) /\ s # <<>>
  BY <1>1, TerminalTop DEF IInv, Live
<1>3. tasks[t].await = NoCall /\ tasks[t].root \in Roots /\ StackOK(s)
  BY <1>1 DEF TaskOK, AwaitOK
<1>4. tasks' = [tasks EXCEPT ![t].calls = 1, ![t].await = a] /\ EnqueueCall(t, box) /\ UNCHANGED flags
      /\ root' = root
  BY DEF StartTerminal
<1>5. /\ a # NoCall /\ DOMAIN a = {"on", "box", "timed", "result"} /\ a.on /\ a.box = box
      /\ a.timed = FALSE /\ ResultOK(a.result) /\ a.result.answered = stopped
  BY AwaitCallFacts DEF IInv
<1>6. PostedMail(box, t, 1)
  BY <1>1, <1>4 DEF EnqueueCall, PostedMail
<1> HIDE DEF a, box
<1>7. TaskSet(t, tasks'[t]) /\ Fields4(tasks'[t], tasks[t].root, s, a, 1)
  <2> DEFINE x == [tasks[t] EXCEPT !.calls = 1, !.await = a]
  <2>1. Fields4(x, tasks[t].root, s, a, 1)
    BY <1>1 DEF Fields4, TaskOK
  <2>2. tasks' = [tasks EXCEPT ![t] = x]
    BY <1>4
  <2> HIDE DEF x
  <2> QED
    BY <2>1, <2>2, TaskReplaced DEF IInv
<1> HIDE DEF s
<1>8. TaskOK(tasks'[t]) /\ ~IsRoute(tasks'[t]) /\ tasks'[t].root = tasks[t].root
  <2>0. tasks'[t].await = a /\ tasks'[t].stack = s /\ tasks'[t].calls # 0 /\ s[Len(s)].kind = "terminal"
        /\ s # <<>>
    BY <1>1, <1>2, <1>7 DEF Fields4
  <2>1. AwaitOK(tasks'[t])
    BY <1>5, <2>0 DEF AwaitOK
  <2> QED
    BY <1>1, <1>2, <1>3, <1>7, <2>1 DEF TaskOK, Fields4, IsRoute, s
<1>9. TasksInv' /\ RootInv' /\ RouteInv' /\ InputsKept
  BY <1>2, <1>4, <1>7, <1>8, TerminalStep DEF IInv
<1>10. MailInv' /\ CallsHaveWaiters'
  <2>1. t \in DOMAIN tasks' /\ DOMAIN tasks \subseteq DOMAIN tasks'
    BY <1>7 DEF TaskSet
  <2>2. tasks'[t].calls = 1 /\ tasks'[t].await = a /\ tasks'[t].root = tasks[t].root
    BY <1>7 DEF Fields4
  <2>3. \A u \in DOMAIN tasks : u # t => SameCalls(u) /\ tasks'[u].await = tasks[u].await
    BY <1>7 DEF TaskSet, SameCalls
  <2>4. 1 = tasks[t].calls + 1
    BY <1>1
  <2> QED
    BY <1>3, <1>5, <1>6, <1>9, <2>1, <2>2, <2>3, <2>4, MailPosted DEF IInv
<1> QED
  BY <1>4, <1>9, <1>10 DEF IInv, flags

LEMMA TerminalEndsStep ==
    ASSUME IInv, NEW t \in DOMAIN tasks, TerminalEnds(t)
    PROVE  IInv'
<1>1. /\ Live(t) /\ Top(t).kind = "terminal" /\ tasks[t].await = NoCall /\ TaskOK(tasks[t])
      /\ tasks' = [tasks EXCEPT ![t].stack = <<>>] /\ UNCHANGED <<mail, flags>> /\ root' = root
  BY DEF TerminalEnds, IInv, TasksInv
<1>2. ~IsRoute(tasks[t])
  BY <1>1, TerminalTop DEF IInv
<1>3. TaskSet(t, tasks'[t]) /\ Fields4(tasks'[t], tasks[t].root, <<>>, NoCall, tasks[t].calls)
  BY <1>1, StackReplaced DEF IInv
<1>4. TaskOK(tasks'[t]) /\ ~IsRoute(tasks'[t]) /\ tasks'[t].root = tasks[t].root
  BY <1>1, <1>3, EmptyStack DEF TaskOK, Fields4, AwaitOK, IsRoute
<1>5. TasksInv' /\ RootInv' /\ RouteInv' /\ InputsKept
  BY <1>1, <1>2, <1>3, <1>4, TerminalStep DEF IInv
<1>6. MailInv' /\ CallsHaveWaiters'
  BY <1>1, <1>3, <1>5, QuietMail DEF IInv
<1> QED
  BY <1>1, <1>5, <1>6 DEF IInv, flags

-----------------------------------------------------------------------------
(* Answers and deadlines.                                                  *)

\* What the answer to a command may change in the record of its root.
SameButSaid(m, n) ==
    /\ DOMAIN n = DOMAIN m
    /\ \A f \in DOMAIN m : f # "said" => n[f] = m[f]

LEMMA SaidFacts ==
    ASSUME RootInv, NEW r \in Roots, NEW said, root' = [root EXCEPT ![r].said = said]
    PROVE  /\ RootSet(r, root'[r]) /\ SameButSaid(root[r], root'[r]) /\ root'[r].said = said
<1> DEFINE m == [root[r] EXCEPT !.said = said]
<1>1. DOMAIN root = Roots /\ RootOK(root[r]) /\ root' = [root EXCEPT ![r] = m]
  BY DEF RootInv
<1>2. SameButSaid(root[r], m) /\ m.said = said
  BY <1>1 DEF SameButSaid, RootOK
<1> HIDE DEF m
<1> QED
  BY <1>1, <1>2 DEF RootSet

\* The command of a route has an answer or gave up: its frame becomes g.
LEMMA CommandTopStep ==
    ASSUME TasksInv, RootInv, RouteInv, NEW t \in DOMAIN tasks, Live(t), Top(t).kind = "command",
           tasks[t].await # NoCall, NEW g, FrameOK(g), g.kind = "command", g.key = Top(t).key,
           ~g.decided, Top(t).failures \subseteq g.failures,
           g.code = "command_timeout" => g.todo = <<>>,
           TaskSet(t, tasks'[t]),
           Fields4(tasks'[t], tasks[t].root, WithTop(t, g), NoCall, tasks[t].calls),
           NEW m, RootSet(tasks[t].root, m), SameButSaid(root[tasks[t].root], m), m.said = g.completions
    PROVE  TasksInv' /\ RootInv' /\ RouteInv' /\ InputsKept
<1> DEFINE s == tasks[t].stack
           x == tasks'[t]
           z == [s EXCEPT ![Len(s)] = g]
           o == root[tasks[t].root]
<1>1. /\ TaskOK(tasks[t]) /\ StackOK(s) /\ IsSeq(s) /\ Len(s) = 1 /\ DOMAIN s = 1..1
      /\ Top(t) = s[1] /\ FrameOK(Top(t)) /\ s # <<>>
  BY TopFacts DEF Live
<1>2. /\ StackOK(z) /\ Len(z) = 1 /\ DOMAIN z = 1..1 /\ z # <<>> /\ z[1] = g
  BY <1>1, TopSet
<1>3. WithTop(t, g) = z
  BY DEF WithTop
<1>4. DOMAIN x = {"root", "stack", "await", "calls"} /\ x.root = tasks[t].root /\ x.stack = z
      /\ x.await = NoCall /\ x.calls = tasks[t].calls
  BY <1>3 DEF Fields4
<1> HIDE DEF z, x
<1>5. TaskOK(x)
  BY <1>1, <1>2, <1>4 DEF TaskOK, AwaitOK
<1>6. tasks[t].root \in Roots /\ RootOK(o) /\ DOMAIN root = Roots
  BY <1>1 DEF TaskOK, RootInv
<1>7. /\ DOMAIN m = DOMAIN o /\ m.input = o.input /\ m.state = o.state /\ m.code = o.code
      /\ m.sourceRuns = o.sourceRuns /\ m.failed = o.failed /\ m.emitted = o.emitted /\ m.scope = o.scope
  BY <1>6 DEF SameButSaid, RootOK
<1>8. IsRoute(tasks[t]) /\ LinkOK(tasks[t], o)
  BY <1>1 DEF IsRoute, RouteInv
<1>9. tasks[t].await.timed /\ ~s[1].decided
  BY <1>1 DEF TaskOK, AwaitOK
<1>10. /\ o.sourceRuns = 0 /\ o.code = "" /\ o.emitted = 0 /\ s[1].key \in RouteOf(o.input).scopes
       /\ o.state = "routing" /\ o.scope = {s[1].key}
  BY <1>1, <1>8, <1>9 DEF LinkOK, SettledSoFar
<1>11. SettledSoFar(x, m)
  BY <1>1, <1>2, <1>4, <1>7, <1>10 DEF SettledSoFar
<1>12. InFrames(x, m.failed)
  BY <1>1, <1>2, <1>4, <1>7, <1>8 DEF InFrames, LinkOK
<1>13. LinkOK(x, m) /\ RootOK(m)
  BY <1>6, <1>7, <1>10, <1>11, <1>12 DEF LinkOK, RootOK
<1>14. InputsKept
  BY <1>7 DEF RootSet, InputsKept
<1> QED
  BY <1>4, <1>5, <1>6, <1>8, <1>13, <1>14, TaskStep DEF x

LEMMA OutcomeFacts ==
    ASSUME NEW f, FrameOK(f), NEW result, result.ok \in BOOLEAN
    PROVE  LET g == Outcome(f, result)
           IN /\ FrameOK(g) /\ g.kind = f.kind /\ f.failures \subseteq g.failures
              /\ f.kind = "command" => g.key = f.key /\ g.decided = f.decided /\ g.code # "command_timeout"
                                     /\ g.completions = Said(result)
              /\ f.kind = "route" /\ ~result.ok => StageFailure(f.pipe, f.stage) \in g.failures
<1>1. CASE f.kind = "command"
  <2> DEFINE a == SelectSeq(result.emits, LAMBDA m : m \notin Completions)
             b == Said(result)
             c == IF result.ok THEN "" ELSE "command_actor_failure"
             g == [f EXCEPT !.todo = a, !.completions = b, !.code = c]
  <2>1. Outcome(f, result) = g
    BY <1>1 DEF Outcome
  <2>2. c # "command_timeout"
    OBVIOUS
  <2> HIDE DEF a, b, c
  <2>3. FrameOK(g) /\ g.kind = f.kind /\ g.failures = f.failures /\ g.key = f.key /\ g.decided = f.decided /\ g.code = c
        /\ g.completions = b
    BY <1>1 DEF FrameOK
  <2> HIDE DEF g
  <2> QED
    BY <1>1, <2>1, <2>2, <2>3 DEF b
<1>2. CASE f.kind # "command"
  <2> DEFINE a == (IF result.ok THEN <<>> ELSE <<ActorFailed>>) \o result.emits
             b == IF result.ok \/ f.kind = "terminal" THEN f.failures
                  ELSE f.failures \cup {StageFailure(f.pipe, f.stage)}
             g == [f EXCEPT !.todo = a, !.failures = b]
  <2>1. Outcome(f, result) = g
    BY <1>2 DEF Outcome
  <2>2. f.failures \subseteq b /\ (f.kind = "route" /\ ~result.ok => StageFailure(f.pipe, f.stage) \in b)
    OBVIOUS
  <2> HIDE DEF a, b
  <2>3. FrameOK(g) /\ g.kind = f.kind /\ g.failures = b
    BY <1>2 DEF FrameOK
  <2> HIDE DEF g
  <2> QED
    BY <1>2, <2>1, <2>2, <2>3
<1> QED
  BY <1>1, <1>2

LEMMA ResumeStep ==
    ASSUME IInv, NEW t \in DOMAIN tasks, Resume(t)
    PROVE  IInv'
<1> DEFINE result == tasks[t].await.result
           f == Top(t)
           g == Outcome(f, result)
<1>1. Live(t) /\ tasks[t].await # NoCall /\ result.answered
  BY DEF Resume
<1>2. TaskOK(tasks[t]) /\ FrameOK(f) /\ tasks[t].calls \in Nat /\ tasks[t].root \in Roots
  BY <1>1, TopFacts DEF IInv, TaskOK
<1>3. result.ok \in BOOLEAN
  BY <1>1, <1>2 DEF TaskOK, AwaitOK, ResultOK
<1>4. /\ tasks' = [tasks EXCEPT ![t].await = NoCall, ![t].stack = WithTop(t, g)]
      /\ root' = CASE f.kind = "route" /\ ~result.ok -> NoteFailed(t, f.pipe, f.stage)
                   [] f.kind = "command" -> [root EXCEPT ![tasks[t].root].said = Said(result)]
                   [] OTHER -> root
      /\ UNCHANGED <<mail, flags>>
  BY DEF Resume
<1>5. /\ FrameOK(g) /\ g.kind = f.kind /\ f.failures \subseteq g.failures
      /\ f.kind = "command" => g.key = f.key /\ g.decided = f.decided /\ g.code # "command_timeout"
                             /\ g.completions = Said(result)
      /\ f.kind = "route" /\ ~result.ok => StageFailure(f.pipe, f.stage) \in g.failures
  BY <1>2, <1>3, OutcomeFacts
<1> HIDE DEF g
<1>6. TaskSet(t, tasks'[t]) /\ Fields4(tasks'[t], tasks[t].root, WithTop(t, g), NoCall, tasks[t].calls)
  BY <1>4, StackAwaitReplaced DEF IInv
<1>7. AwaitOK(tasks'[t])
  BY <1>6 DEF Fields4, AwaitOK
<1>8. TasksInv' /\ RootInv' /\ RouteInv' /\ InputsKept
  <2>1. CASE f.kind = "route"
    <3>1. NotedAtMost(t, g)
      BY <1>4, <1>5, <2>1 DEF NotedAtMost, NoteFailed
    <3> QED
      BY <1>1, <1>2, <1>5, <1>6, <1>7, <2>1, <3>1, RouteTopStep DEF IInv
  <2>2. CASE f.kind = "terminal"
    <3>1. ~IsRoute(tasks[t]) /\ Len(tasks[t].stack) = 1 /\ tasks[t].stack[1] = f
      BY <1>1, <2>2, TerminalTop DEF IInv
    <3> DEFINE z == WithTop(t, g)
    <3>2. StackOK(z) /\ z[1] = g
      <4>1. StackOK(tasks[t].stack)
        BY <1>2 DEF TaskOK
      <4> QED
        BY <1>5, <3>1, <4>1, TopSet DEF WithTop
    <3> HIDE DEF z
    <3>3. TaskOK(tasks'[t]) /\ ~IsRoute(tasks'[t]) /\ tasks'[t].root = tasks[t].root
      BY <1>2, <1>5, <1>6, <1>7, <2>2, <3>2 DEF TaskOK, Fields4, IsRoute, z
    <3> QED
      BY <1>4, <1>6, <2>2, <3>1, <3>3, TerminalStep DEF IInv
  <2>3. CASE f.kind = "command"
    <3>1. ~f.decided
      BY <1>1, <1>2, <2>3, TopFacts DEF IInv, TaskOK, AwaitOK
    <3>2. root' = [root EXCEPT ![tasks[t].root].said = Said(result)]
      BY <1>4, <2>3
    <3> DEFINE m == root'[tasks[t].root]
    <3>3. RootSet(tasks[t].root, m) /\ SameButSaid(root[tasks[t].root], m) /\ m.said = Said(result)
      BY <1>2, <3>2, SaidFacts DEF IInv
    <3> HIDE DEF m
    <3> QED
      BY <1>1, <1>5, <1>6, <2>3, <3>1, <3>3, CommandTopStep DEF IInv
  <2> QED
    BY <1>2, <2>1, <2>2, <2>3 DEF FrameOK
<1>9. MailInv' /\ CallsHaveWaiters'
  BY <1>1, <1>4, <1>6, <1>8, QuietMail DEF IInv
<1> QED
  BY <1>4, <1>8, <1>9 DEF IInv, flags

\* What a deadline may do to the mailboxes.
LEMMA CancelledFacts ==
    ASSUME MailInv, NEW t \in DOMAIN tasks, tasks[t].await # NoCall, mail' \in CancelledMail(t)
    PROVE  \/ /\ mail' = mail
              /\ \A b \in DOMAIN mail : \A i \in DOMAIN mail[b] :
                    mail[b][i].task = t /\ Awaited(mail[b][i]) => i = 1 /\ ~mail[b][i].hung
           \/ \E b \in DOMAIN mail : \E k \in DOMAIN mail[b] :
                 /\ mail[b][k].task = t /\ mail[b][k].call = tasks[t].calls
                 /\ mail' = SetMail(b, RemoveAt(mail[b], k))
<1> DEFINE box == tasks[t].await.box
           q == MailOf(box)
           mine == {i \in DOMAIN q : q[i].task = t /\ q[i].call = tasks[t].calls}
<1>1. \A b \in DOMAIN mail : \A i \in DOMAIN mail[b] :
         mail[b][i].task = t /\ Awaited(mail[b][i]) => b = box /\ i \in mine
  BY DEF MailInv, Awaited, MailOf
<1>2. mine # {} => box \in DOMAIN mail /\ q = mail[box]
  <2>1. box \notin DOMAIN mail => DOMAIN q = {}
    BY DEF MailOf
  <2> QED
    BY <2>1 DEF MailOf
<1>3. \A i, j \in mine : i = j
  BY <1>2 DEF MailInv
<1>4. \A k \in mine : mine = {k} /\ Min(mine) = k
  <2> TAKE k \in mine
  <2>1. mine = {k}
    BY <1>3
  <2>2. k \in Int
    <3>1. DOMAIN mail[box] = 1..Len(mail[box]) /\ Len(mail[box]) \in Nat
      BY <1>2, SeqShape DEF MailInv
    <3> QED
      BY <1>2, <3>1
  <2> HIDE DEF mine
  <2>3. Min({k}) = k
    BY <2>2 DEF Min
  <2> QED
    BY <2>1, <2>3
<1>5. CASE mail' = mail /\ (mine = {} \/ (mine = {1} /\ ~q[1].hung))
  BY <1>1, <1>2, <1>5
<1>6. CASE mine # {} /\ mail' = SetMail(box, RemoveAt(q, Min(mine)))
  <2>1. PICK k \in mine : TRUE
    BY <1>6
  <2>2. mail' = SetMail(box, RemoveAt(mail[box], k)) /\ box \in DOMAIN mail /\ k \in DOMAIN mail[box]
        /\ mail[box][k].task = t /\ mail[box][k].call = tasks[t].calls
    BY <1>2, <1>4, <1>6, <2>1
  <2> QED
    BY <2>2
<1>7. \/ mail' = mail /\ (mine = {} \/ (mine = {1} /\ ~q[1].hung))
      \/ mine # {} /\ mail' = SetMail(box, RemoveAt(q, Min(mine)))
  <2> DEFINE removed == SetMail(box, RemoveAt(q, Min(mine)))
  <2>1. mail' \in IF mine = {} THEN {mail}
                  ELSE IF mine = {1} /\ ~q[1].hung THEN {mail, removed} ELSE {removed}
    BY DEF CancelledMail
  <2> HIDE DEF mine, removed, q
  <2> QED
    BY <2>1 DEF removed
<1> QED
  BY <1>5, <1>6, <1>7

LEMMA TimeoutStep ==
    ASSUME IInv, NEW t \in DOMAIN tasks, Timeout(t)
    PROVE  IInv'
<1> DEFINE f == Top(t)
           g == [f EXCEPT !.code = "command_timeout"]
<1>1. Live(t) /\ tasks[t].await # NoCall /\ tasks[t].await.timed
  BY DEF Timeout
<1>2. TaskOK(tasks[t]) /\ FrameOK(f) /\ tasks[t].calls = 1 /\ tasks[t].root \in Roots
      /\ f.kind = "command" /\ ~f.decided /\ f.todo = <<>> /\ f = tasks[t].stack[1]
  BY <1>1, TopFacts DEF IInv, TaskOK, AwaitOK
<1>3. /\ tasks' = [tasks EXCEPT ![t].await = NoCall, ![t].stack = WithTop(t, g)]
      /\ root' = root /\ mail' \in CancelledMail(t) /\ UNCHANGED flags
  BY DEF Timeout
<1>4. /\ FrameOK(g) /\ g.kind = "command" /\ g.failures = f.failures /\ g.key = f.key /\ ~g.decided
      /\ g.todo = <<>> /\ g.completions = f.completions
  BY <1>2 DEF FrameOK
<1> HIDE DEF g
<1>5. TaskSet(t, tasks'[t]) /\ Fields4(tasks'[t], tasks[t].root, WithTop(t, g), NoCall, tasks[t].calls)
  BY <1>3, StackAwaitReplaced DEF IInv
<1>6. TasksInv' /\ RootInv' /\ RouteInv' /\ InputsKept
  <2> DEFINE m == root[tasks[t].root]
  <2>1. IsRoute(tasks[t])
    BY <1>1, <1>2 DEF IsRoute, Live
  <2>2. RootSet(tasks[t].root, m) /\ SameButSaid(m, m) /\ m.said = g.completions
    BY <1>2, <1>3, <1>4, <2>1 DEF IInv, RootInv, RootSet, SameButSaid, RouteInv, LinkOK, SettledSoFar
  <2> QED
    BY <1>1, <1>2, <1>4, <1>5, <2>2, CommandTopStep DEF IInv
<1>7. f.key \in RouteOf(root[tasks[t].root].input).scopes
  <2>1. IsRoute(tasks[t])
    BY <1>1, <1>2 DEF IsRoute, Live
  <2> QED
    BY <1>2, <2>1 DEF IInv, RouteInv, LinkOK, SettledSoFar
<1>8. \A u \in DOMAIN tasks : SameCalls(u) /\ (u # t => tasks'[u].await = tasks[u].await)
  BY <1>5 DEF TaskSet, Fields4, SameCalls
<1>9. tasks'[t].await = NoCall
  BY <1>5 DEF Fields4
<1>10. CASE \E b \in DOMAIN mail : \E k \in DOMAIN mail[b] :
                 /\ mail[b][k].task = t /\ mail[b][k].call = tasks[t].calls
                 /\ mail' = SetMail(b, RemoveAt(mail[b], k))
  <2>1. PICK b \in DOMAIN mail : \E k \in DOMAIN mail[b] :
                 /\ mail[b][k].task = t /\ mail[b][k].call = tasks[t].calls
                 /\ mail' = SetMail(b, RemoveAt(mail[b], k))
    BY <1>10
  <2>2. PICK k \in DOMAIN mail[b] :
                 /\ mail[b][k].task = t /\ mail[b][k].call = tasks[t].calls
                 /\ mail' = SetMail(b, RemoveAt(mail[b], k))
    BY <2>1
  <2>3. Without(mail[b], k, RemoveAt(mail[b], k))
    BY SeqRemoveAt DEF IInv, MailInv
  <2>4. MailInv' /\ CallsHaveWaiters'
    BY <1>6, <1>8, <2>2, <2>3, MailRemoved DEF IInv
  <2> QED
    BY <1>3, <1>6, <2>4 DEF IInv, flags
<1>11. CASE /\ mail' = mail
            /\ \A b \in DOMAIN mail : \A i \in DOMAIN mail[b] :
                   mail[b][i].task = t /\ Awaited(mail[b][i]) => i = 1 /\ ~mail[b][i].hung
  <2>1. \A b \in DOMAIN mail : \A i \in DOMAIN mail[b] :
               mail[b][i].task = t /\ Awaited(mail[b][i]) => i = 1 /\ ~mail[b][i].hung /\ mail[b][i].call = 1
    BY <1>2, <1>11 DEF Awaited
  <2>2. MailInv' /\ CallsHaveWaiters'
    BY <1>6, <1>7, <1>8, <1>9, <1>11, <2>1, MailAbandoned DEF IInv
  <2> QED
    BY <1>3, <1>6, <2>2 DEF IInv, flags
<1> QED
  BY <1>1, <1>3, <1>10, <1>11, CancelledFacts DEF IInv

LEMMA ResultsFacts ==
    ASSUME NEW box, NEW result \in Results(box)
    PROVE  ResultOK(result)
<1>1. \A ok \in BOOLEAN : \A emits : ResultOK(Result(ok, emits))
  BY DEF Result, ResultOK
<1>2. CASE stopped
  <2>1. result = Result(FALSE, <<>>)
    BY <1>2 DEF Results
  <2> QED
    BY <1>1, <2>1
<1>3. CASE ~stopped
  <2>1. result \in {Result(ok, emits) : ok \in BOOLEAN, emits \in Emissions[box.actor]}
    BY <1>3 DEF Results
  <2> QED
    BY <1>1, <2>1
<1> QED
  BY <1>2, <1>3

LEMMA AnswerStep ==
    ASSUME IInv, NEW box \in DOMAIN mail, Answer(box)
    PROVE  IInv'
<1> DEFINE e == Head(mail[box])
           t == e.task
<1>1. Without(mail[box], 1, Tail(mail[box])) /\ e = mail[box][1] /\ 1 \in DOMAIN mail[box]
  BY SeqTail DEF IInv, MailInv
<1>2. EntryOK(e) /\ t \in DOMAIN tasks
  BY <1>1 DEF IInv, MailInv, EntryOK
<1>3. PICK result \in Results(box) :
         tasks' = IF Awaited(e) THEN [tasks EXCEPT ![t].await.result = result] ELSE tasks
  BY DEF Answer, Awaited
<1>4. mail' = SetMail(box, Tail(mail[box])) /\ UNCHANGED flags /\ root' = root
  BY DEF Answer
<1>5. InputsKept
  BY <1>4 DEF InputsKept
<1>6. CASE ~Awaited(e)
  <2>1. tasks' = tasks
    BY <1>3, <1>6
  <2>2. TasksInv' /\ RootInv' /\ RouteInv'
    BY <1>4, <2>1 DEF IInv, TasksInv, RootInv, RouteInv
  <2>3. \A u \in DOMAIN tasks : SameCalls(u) /\ tasks'[u].await = tasks[u].await
    BY <2>1 DEF SameCalls
  <2>4. MailInv' /\ CallsHaveWaiters'
    BY <1>1, <1>4, <1>5, <2>3, MailRemoved DEF IInv
  <2> QED
    BY <1>4, <2>2, <2>4 DEF IInv, flags
<1>7. CASE Awaited(e)
  <2> DEFINE a == [tasks[t].await EXCEPT !.result = result]
             x == [tasks[t] EXCEPT !.await = a]
  <2>1. TaskOK(tasks[t]) /\ tasks[t].await # NoCall
    BY <1>2, <1>7 DEF IInv, TasksInv, Awaited
  <2>2. /\ DOMAIN a = {"on", "box", "timed", "result"} /\ a.on /\ a.timed = tasks[t].await.timed
        /\ a.result = result
    BY <2>1 DEF TaskOK, AwaitOK
  <2>3. a # NoCall
    <3>1. "box" \in DOMAIN a /\ "box" \notin DOMAIN NoCall
      BY <2>2 DEF NoCall
    <3> QED
      BY <3>1
  <2>4. ResultOK(result)
    BY ResultsFacts
  <2>5. tasks' = [tasks EXCEPT ![t] = x]
    BY <1>3, <1>7
  <2> HIDE DEF a
  <2>6. Fields4(x, tasks[t].root, tasks[t].stack, a, tasks[t].calls)
    BY <2>1 DEF Fields4, TaskOK
  <2> HIDE DEF x
  <2>7. TaskSet(t, tasks'[t]) /\ Fields4(tasks'[t], tasks[t].root, tasks[t].stack, a, tasks[t].calls)
    BY <1>2, <2>5, <2>6, TaskReplaced DEF IInv
  <2>8. AwaitOK(tasks'[t])
    BY <2>1, <2>2, <2>3, <2>4, <2>7 DEF Fields4, TaskOK, AwaitOK
  <2>9. TaskOK(tasks'[t]) /\ tasks'[t].root = tasks[t].root
    BY <2>1, <2>7, <2>8 DEF Fields4, TaskOK
  <2>10. DOMAIN root = Roots /\ tasks[t].root \in Roots /\ RootOK(root[tasks[t].root])
    BY <2>1 DEF IInv, RootInv, TaskOK
  <2>11. RootSet(tasks[t].root, root[tasks[t].root])
    BY <1>4, <2>10 DEF RootSet
  <2>12. IsRoute(tasks'[t]) => IsRoute(tasks[t]) /\ LinkOK(tasks'[t], root[tasks[t].root])
    <3> HAVE IsRoute(tasks'[t])
    <3>1. IsRoute(tasks[t])
      BY <2>7 DEF Fields4, IsRoute
    <3>2. LinkOK(tasks[t], root[tasks[t].root])
      BY <1>2, <3>1 DEF IInv, RouteInv
    <3> QED
      BY <2>1, <2>2, <2>7, <3>1, <3>2 DEF Fields4, LinkOK, InFrames, SettledSoFar
  <2>13. TasksInv' /\ RootInv' /\ RouteInv'
    BY <1>2, <2>7, <2>9, <2>10, <2>11, <2>12, TaskStep DEF IInv
  <2>14. \A u \in DOMAIN tasks : SameCalls(u) /\
               (\/ tasks'[u].await = tasks[u].await
                \/ mail[box][1].task = u /\ mail[box][1].call = tasks[u].calls)
    BY <1>1, <1>7, <2>7 DEF TaskSet, Fields4, SameCalls, Awaited
  <2>15. MailInv' /\ CallsHaveWaiters'
    BY <1>1, <1>4, <1>5, <2>14, MailRemoved DEF IInv
  <2> QED
    BY <1>4, <2>13, <2>15 DEF IInv, flags
<1> QED
  BY <1>6, <1>7

LEMMA HangStep ==
    ASSUME IInv, NEW box \in DOMAIN mail, Hang(box)
    PROVE  IInv'
<1> DEFINE e == [mail[box][1] EXCEPT !.hung = TRUE]
           q == [mail[box] EXCEPT ![1] = e]
<1>1. IsSeq(mail[box]) /\ mail[box] # <<>> /\ Head(mail[box]) = mail[box][1] /\ 1 \in DOMAIN mail[box]
  BY SeqTail DEF IInv, MailInv
<1>2. mail' = [mail EXCEPT ![box] = q]
  BY DEF Hang
<1>3. tasks' = tasks /\ root' = root /\ UNCHANGED flags /\ Awaited(mail[box][1])
  BY <1>1 DEF Hang, Awaited
<1>4. EntryOK(mail[box][1])
  BY <1>1 DEF IInv, MailInv
<1>5. /\ DOMAIN e = {"task", "call", "hung"} /\ e.task = mail[box][1].task /\ e.call = mail[box][1].call
      /\ e.hung = TRUE
  BY <1>4 DEF EntryOK
<1> HIDE DEF e
<1>6. /\ IsSeq(q) /\ DOMAIN q = DOMAIN mail[box] /\ q[1] = e /\ q # <<>>
      /\ \A i \in DOMAIN mail[box] : i # 1 => q[i] = mail[box][i]
  BY <1>1, SeqSet
<1> HIDE DEF q
<1>7. DOMAIN mail' = DOMAIN mail /\ mail'[box] = q /\ \A b \in DOMAIN mail : b # box => mail'[b] = mail[b]
  BY <1>2
<1>8. \A b \in DOMAIN mail' : \A i \in DOMAIN mail'[b] :
         /\ b \in DOMAIN mail /\ i \in DOMAIN mail[b]
         /\ mail'[b][i].task = mail[b][i].task /\ mail'[b][i].call = mail[b][i].call
         /\ (b = box /\ i = 1 /\ mail'[b][i] = e) \/ mail'[b][i] = mail[b][i]
  BY <1>5, <1>6, <1>7
<1>9. TasksInv' /\ RootInv' /\ RouteInv'
  BY <1>3 DEF IInv, TasksInv, RootInv, RouteInv
<1>10. EntryOK(e)
  BY <1>4, <1>5 DEF EntryOK
<1>11. Awaited(e)
  BY <1>3, <1>5 DEF Awaited
<1>12. \A b \in DOMAIN mail' : IsSeq(mail'[b]) /\ mail'[b] # <<>>
  BY <1>6, <1>7 DEF IInv, MailInv
<1>13. \A b \in DOMAIN mail' : \A i \in DOMAIN mail'[b] : EntryOK(mail[b][i])'
  <2> SUFFICES ASSUME NEW b \in DOMAIN mail', NEW i \in DOMAIN mail'[b], NEW d, d = mail'[b][i]
               PROVE  EntryOK(d)'
    BY DEF EntryOK
  <2>1. EntryOK(d)
    BY <1>8, <1>10 DEF IInv, MailInv
  <2> QED
    BY <1>3, <2>1 DEF EntryOK
<1>14. \A b, c \in DOMAIN mail' : \A i \in DOMAIN mail'[b], j \in DOMAIN mail'[c] :
          mail'[b][i].task = mail'[c][j].task /\ mail'[b][i].call = mail'[c][j].call => b = c /\ i = j
  BY <1>8 DEF IInv, MailInv
<1>15. \A b \in DOMAIN mail' : \A i \in DOMAIN mail'[b] :
          Awaited(mail[b][i])' =>
             /\ tasks'[mail'[b][i].task].await.box = b
             /\ ~tasks'[mail'[b][i].task].await.result.answered
  <2> SUFFICES ASSUME NEW b \in DOMAIN mail', NEW i \in DOMAIN mail'[b], NEW d, d = mail'[b][i], Awaited(d)'
               PROVE  tasks'[d.task].await.box = b /\ ~tasks'[d.task].await.result.answered
    BY DEF Awaited
  <2>1. Awaited(mail[b][i]) /\ d.task = mail[b][i].task
    BY <1>3, <1>8 DEF Awaited
  <2> QED
    BY <1>3, <1>8, <2>1 DEF IInv, MailInv
<1>16. MailInv'
  BY <1>12, <1>13, <1>14, <1>15 DEF MailInv
<1>17. \A b \in DOMAIN mail' : \A i \in DOMAIN mail'[b] : Waits(mail[b][i], i)'
  <2> SUFFICES ASSUME NEW b \in DOMAIN mail', NEW i \in DOMAIN mail'[b], NEW d, d = mail'[b][i]
               PROVE  Waits(d, i)'
    BY DEF Waits, Awaited
  <2>1. Waits(d, i)
    BY <1>8, <1>11, WaitersAre DEF IInv, Waits
  <2> QED
    BY <1>3, <2>1 DEF Waits, Awaited
<1>18. CallsHaveWaiters'
  BY <1>17, WaitersAreAfter
<1> QED
  BY <1>3, <1>9, <1>16, <1>18 DEF IInv, flags

-----------------------------------------------------------------------------
(* Nested routes.                                                          *)

LEMMA NestedStack ==
    ASSUME TasksInv, NEW t \in DOMAIN tasks, Live(t), NEW g, FrameOK(g), g.kind = Top(t).kind,
           Top(t).failures \subseteq g.failures, NEW h, FrameOK(h), h.kind = "route"
    PROVE  LET s == tasks[t].stack
               z == Append(WithTop(t, g), h)
           IN /\ StackOK(z) /\ z # <<>> /\ z[1].kind = s[1].kind
              /\ Len(s) = 1 => z[1] = g
              /\ Len(s) # 1 => z[1] = s[1]
              /\ \A e : (\E i \in DOMAIN s : e \in s[i].failures) => \E i \in DOMAIN z : e \in z[i].failures
<1> DEFINE s == tasks[t].stack
           y == [s EXCEPT ![Len(s)] = g]
           z == Append(y, h)
<1>1. StackOK(s) /\ Len(s) \in Nat \ {0} /\ DOMAIN s = 1..Len(s) /\ Top(t) = s[Len(s)]
  BY TopFacts
<1>2. /\ StackOK(y) /\ Len(y) = Len(s) /\ DOMAIN y = DOMAIN s
      /\ y[Len(s)] = g /\ \A i \in DOMAIN s : i # Len(s) => y[i] = s[i]
  BY <1>1, TopSet
<1>3. WithTop(t, g) = y
  BY DEF WithTop
<1> HIDE DEF y
<1>4. /\ StackOK(z) /\ Len(z) = Len(y) + 1 /\ DOMAIN z = 1..(Len(y) + 1) /\ z # <<>>
      /\ \A i \in DOMAIN y : z[i] = y[i]
  BY <1>1, <1>2, Push
<1> HIDE DEF z
<1>5. 1 \in DOMAIN s /\ \A i \in DOMAIN s : i \in DOMAIN z /\ z[i] = y[i]
  BY <1>1, <1>2, <1>4
<1> HIDE DEF s
<1>6. z[1].kind = s[1].kind /\ (Len(s) = 1 => z[1] = g) /\ (Len(s) # 1 => z[1] = s[1])
  BY <1>1, <1>2, <1>5
<1>7. \A e : (\E i \in DOMAIN s : e \in s[i].failures) => \E i \in DOMAIN z : e \in z[i].failures
  BY <1>1, <1>2, <1>5
<1> QED
  BY <1>3, <1>4, <1>6, <1>7 DEF s, z

LEMMA NewRouteFrame ==
    ASSUME NEW type, NEW route
    PROVE  FrameOK(RouteFrame(type, route)) /\ RouteFrame(type, route).kind = "route"
           /\ RouteFrame(type, route).failures = {}
BY DEF RouteFrame, FrameOK

LEMMA NatSuccessor == \A k \in Nat : k + 1 \in Nat
OBVIOUS

LEMMA NatSum == \A k \in {0, 1} : 0 + k = k
OBVIOUS

\* One more message of the command of r is routed.
LEMMA EmittedFacts ==
    ASSUME RootInv, NEW r \in Roots, root' = [root EXCEPT ![r].emitted = @ + 1], root[r].code = "",
           root[r].state = "routing"
    PROVE  LET m == root'[r]
           IN /\ RootSet(r, m) /\ InputsKept /\ RootOK(m) /\ m.state = root[r].state
              /\ m.input = root[r].input /\ m.code = root[r].code /\ m.sourceRuns = root[r].sourceRuns
              /\ m.failed = root[r].failed /\ m.scope = root[r].scope /\ m.said = root[r].said
<1> DEFINE n == root[r].emitted + 1
           m == [root[r] EXCEPT !.emitted = n]
<1>1. root' = [root EXCEPT ![r] = m]
  OBVIOUS
<1>2. RootOK(root[r]) /\ DOMAIN root = Roots /\ n \in Nat
  <2>1. RootOK(root[r]) /\ DOMAIN root = Roots
    BY DEF RootInv
  <2>2. root[r].emitted \in Nat
    BY <2>1 DEF RootOK
  <2> QED
    BY <2>1, <2>2, NatSuccessor, Zenon
<1> HIDE DEF n
<1>3. /\ DOMAIN m = DOMAIN root[r] /\ m.emitted \in Nat /\ m.state = root[r].state
      /\ m.input = root[r].input /\ m.code = root[r].code /\ m.sourceRuns = root[r].sourceRuns
      /\ m.failed = root[r].failed /\ m.scope = root[r].scope /\ m.said = root[r].said
  BY <1>2 DEF RootOK
<1> HIDE DEF m
<1>4. RootOK(m)
  BY <1>2, <1>3 DEF RootOK
<1>5. root'[r] = m /\ RootSet(r, m) /\ InputsKept
  BY <1>1, <1>2, <1>3 DEF RootSet, InputsKept
<1> QED
  BY <1>3, <1>4, <1>5

LEMMA RouteNextStep ==
    ASSUME IInv, NEW t \in DOMAIN tasks, RouteNext(t)
    PROVE  IInv'
<1> DEFINE f == Top(t)
           type == Head(f.todo)
           route == CASE f.kind = "route"    -> f.sroute
                      [] f.kind = "terminal" -> f.route
                      [] f.kind = "command"  -> <<>>
           g == IF f.kind = "route"
                THEN [f EXCEPT !.todo = Tail(@),
                               !.avail = Append(@, [type |-> type, route |-> route])]
                ELSE [f EXCEPT !.todo = Tail(@)]
           h == RouteFrame(type, route)
           z == Append(WithTop(t, g), h)
           s == tasks[t].stack
           r == tasks[t].root
<1>1. Live(t) /\ tasks[t].await = NoCall /\ f.todo # <<>>
  BY DEF RouteNext
<1>2. /\ tasks' = [tasks EXCEPT ![t].stack = z]
      /\ root' = IF f.kind = "command" THEN [root EXCEPT ![r].emitted = @ + 1] ELSE root
      /\ UNCHANGED <<mail, flags>>
  BY DEF RouteNext
<1> HIDE DEF type, route
<1>3. /\ TaskOK(tasks[t]) /\ StackOK(s) /\ FrameOK(f)
      /\ f.kind # "route" => Len(s) = 1
      /\ f = s[Len(s)] /\ r \in Roots /\ tasks[t].calls \in Nat
  BY <1>1, TopFacts DEF IInv, TaskOK
<1>4. /\ FrameOK(g) /\ g.kind = f.kind /\ g.failures = f.failures
      /\ f.kind = "command" => g.key = f.key /\ g.decided = f.decided /\ g.code = f.code
                             /\ g.completions = f.completions
  BY <1>3 DEF FrameOK
<1>5. FrameOK(h) /\ h.kind = "route"
  BY NewRouteFrame
<1> HIDE DEF g, h
<1>6. /\ StackOK(z) /\ z # <<>> /\ z[1].kind = s[1].kind
      /\ Len(s) = 1 => z[1] = g
      /\ Len(s) # 1 => z[1] = s[1]
      /\ \A e : (\E i \in DOMAIN s : e \in s[i].failures) => \E i \in DOMAIN z : e \in z[i].failures
  BY <1>1, <1>4, <1>5, NestedStack DEF IInv
<1> HIDE DEF z
<1>7. TaskSet(t, tasks'[t]) /\ Fields4(tasks'[t], r, z, NoCall, tasks[t].calls)
  BY <1>1, <1>2, StackReplaced DEF IInv
<1>8. TaskOK(tasks'[t]) /\ tasks'[t].root = r /\ tasks'[t].stack = z /\ tasks'[t].await = NoCall
  BY <1>3, <1>6, <1>7 DEF TaskOK, Fields4, AwaitOK
<1>9. s # <<>> /\ (IsRoute(tasks'[t]) <=> IsRoute(tasks[t]))
  BY <1>1, <1>6, <1>8 DEF IsRoute, Live
<1>10. RootOK(root[r]) /\ DOMAIN root = Roots
  BY <1>3 DEF IInv, RootInv
<1>11. IsRoute(tasks[t]) => LinkOK(tasks[t], root[r])
  BY DEF IInv, RouteInv
<1>12. CASE f.kind = "command"
  <2> DEFINE m == root'[r]
  <2>1. IsRoute(tasks[t]) /\ s[1] = f /\ Len(s) = 1 /\ z[1] = g
    BY <1>3, <1>6, <1>9, <1>12 DEF IsRoute
  <2>2. /\ root[r].state = "routing" /\ ~f.decided /\ f.code # "command_timeout"
        /\ root[r].code = "" /\ root[r].sourceRuns = 0
        /\ root[r].scope = {f.key} /\ root[r].said = f.completions
        /\ f.key \in RouteOf(root[r].input).scopes /\ InFrames(tasks[t], root[r].failed)
    BY <1>1, <1>3, <1>11, <1>12, <2>1 DEF LinkOK, SettledSoFar, FrameOK
  <2>3. /\ RootSet(r, m) /\ InputsKept /\ RootOK(m) /\ m.state = root[r].state
        /\ m.input = root[r].input /\ m.code = root[r].code /\ m.sourceRuns = root[r].sourceRuns
        /\ m.failed = root[r].failed /\ m.scope = root[r].scope /\ m.said = root[r].said
    BY <1>2, <1>3, <1>12, <2>2, EmittedFacts DEF IInv
  <2> HIDE DEF m
  <2>4. InFrames(tasks'[t], m.failed)
    BY <1>6, <1>8, <2>2, <2>3 DEF InFrames
  <2>5. SettledSoFar(tasks'[t], m)
    BY <1>4, <1>8, <1>12, <2>1, <2>2, <2>3 DEF SettledSoFar
  <2>6. LinkOK(tasks'[t], m)
    BY <2>2, <2>3, <2>4, <2>5 DEF LinkOK
  <2>7. TasksInv' /\ RootInv' /\ RouteInv'
    BY <1>7, <1>8, <2>1, <2>3, <2>6, TaskStep DEF IInv
  <2>8. MailInv' /\ CallsHaveWaiters'
    BY <1>1, <1>2, <1>7, <2>3, QuietMail DEF IInv
  <2> QED
    BY <1>2, <2>7, <2>8 DEF IInv, flags
<1>13. CASE f.kind # "command"
  <2>1. root' = root
    BY <1>2, <1>13
  <2>2. RootSet(r, root[r]) /\ InputsKept /\ SameButFailed(root[r], root[r])
    BY <1>10, <2>1 DEF RootSet, InputsKept, SameButFailed
  <2>3. s[1].kind = "command" => z[1] = s[1]
    BY <1>3, <1>6, <1>13
  <2>4. IsRoute(tasks'[t]) => IsRoute(tasks[t]) /\ LinkOK(tasks'[t], root[r])
    <3> HAVE IsRoute(tasks'[t])
    <3>1. IsRoute(tasks[t]) /\ LinkOK(tasks[t], root[r])
      BY <1>9, <1>11
    <3>2. InFrames(tasks'[t], root[r].failed)
      BY <1>6, <1>8, <3>1 DEF InFrames, LinkOK
    <3> QED
      BY <1>6, <1>8, <1>9, <1>10, <2>2, <2>3, <3>1, <3>2, LinkKept
  <2>5. TasksInv' /\ RootInv' /\ RouteInv'
    BY <1>7, <1>8, <1>10, <2>2, <2>4, TaskStep DEF IInv
  <2>6. MailInv' /\ CallsHaveWaiters'
    BY <1>1, <1>2, <1>7, <2>2, QuietMail DEF IInv
  <2> QED
    BY <1>2, <2>5, <2>6 DEF IInv, flags
<1> QED
  BY <1>12, <1>13

-----------------------------------------------------------------------------
(* The ends of routes and commands.                                        *)

LEMMA PoppedStack ==
    ASSUME NEW s, StackOK(s), NEW n \in Nat \ {0}, Len(s) = n + 1
    PROVE  LET y == Front(s)
           IN /\ StackOK(y) /\ Len(y) = n /\ DOMAIN y = 1..n /\ \A i \in 1..n : y[i] = s[i]
<1> DEFINE y == SubSeq(s, 1, Len(s) - 1)
<1>1. s \in Seq(Range(s)) /\ IsSeq(s)
  BY DEF StackOK, IsSeq
<1>2. y \in Seq(Range(s)) /\ Len(y) = n /\ DOMAIN y = 1..n /\ \A i \in 1..n : y[i] = s[i] /\ i \in DOMAIN s
  BY <1>1
<1>3. Front(s) = y
  BY DEF Front
<1> HIDE DEF y
<1>4. IsSeq(y)
  BY <1>2, SeqFromValues
<1>5. StackOK(y)
  BY <1>2, <1>4 DEF StackOK
<1> QED
  BY <1>2, <1>3, <1>5

LEMMA MergeFacts ==
    ASSUME NEW f, FrameOK(f), NEW failures
    PROVE  LET g == Merge(f, failures)
           IN /\ FrameOK(g) /\ g.kind = f.kind /\ f.failures \subseteq g.failures
              /\ f.kind # "terminal" => failures \subseteq g.failures
              /\ f.kind = "command" => /\ g.key = f.key /\ g.decided = f.decided /\ g.code = f.code
                                       /\ g.todo = f.todo /\ g.completions = f.completions
<1>1. CASE f.kind = "terminal"
  BY <1>1 DEF Merge
<1>2. CASE f.kind # "terminal"
  <2> DEFINE u == f.failures \cup failures
             g == [f EXCEPT !.failures = u]
  <2>1. Merge(f, failures) = g /\ f.failures \subseteq u /\ failures \subseteq u
    BY <1>2 DEF Merge
  <2> HIDE DEF u
  <2>2. FrameOK(g) /\ g.kind = f.kind /\ g.failures = u
    BY DEF FrameOK
  <2>3. f.kind = "command" => g.key = f.key /\ g.decided = f.decided /\ g.code = f.code /\ g.todo = f.todo
                         /\ g.completions = f.completions
    BY DEF FrameOK
  <2> HIDE DEF g
  <2> QED
    BY <2>1, <2>2, <2>3
<1> QED
  BY <1>1, <1>2

\* A route returns to the frame below it.
LEMMA NestedReturn ==
    ASSUME IInv, NEW t \in DOMAIN tasks, Live(t), tasks[t].await = NoCall, Top(t).kind = "route",
           Len(tasks[t].stack) > 1, UNCHANGED <<mail, flags, root>>,
           tasks' = [tasks EXCEPT ![t].stack =
                       [Front(tasks[t].stack) EXCEPT ![Len(tasks[t].stack) - 1] = Merge(@, Top(t).failures)]]
    PROVE  IInv'
<1> DEFINE s == tasks[t].stack
           n == Len(s) - 1
           y == Front(s)
           g == Merge(y[n], Top(t).failures)
           z == [y EXCEPT ![n] = g]
           r == tasks[t].root
<1>1. /\ TaskOK(tasks[t]) /\ StackOK(s) /\ IsSeq(s) /\ Len(s) \in Nat /\ DOMAIN s = 1..Len(s)
      /\ Top(t) = s[Len(s)] /\ r \in Roots /\ tasks[t].calls \in Nat /\ s # <<>>
  BY TopFacts DEF IInv, TaskOK, Live
<1>2. n \in Nat \ {0} /\ Len(s) = n + 1
  BY <1>1
<1>3. tasks' = [tasks EXCEPT ![t].stack = z] /\ root' = root
  OBVIOUS
<1> HIDE DEF n
<1>4. /\ StackOK(y) /\ Len(y) = n /\ DOMAIN y = 1..n /\ \A i \in 1..n : y[i] = s[i]
  BY <1>1, <1>2, PoppedStack
<1> HIDE DEF y
<1>5. n \in 1..n /\ 1 \in 1..n /\ (n = 1 \/ n > 1)
  BY <1>2
<1>6. FrameOK(y[n]) /\ (n > 1 => y[n].kind = "route")
  BY <1>4, <1>5 DEF StackOK
<1>7. /\ FrameOK(g) /\ g.kind = y[n].kind /\ y[n].failures \subseteq g.failures
      /\ y[n].kind # "terminal" => Top(t).failures \subseteq g.failures
      /\ y[n].kind = "command" => /\ g.key = y[n].key /\ g.decided = y[n].decided /\ g.code = y[n].code
                                  /\ g.todo = y[n].todo /\ g.completions = y[n].completions
  BY <1>6, MergeFacts
<1> HIDE DEF g
<1>8. /\ StackOK(z) /\ DOMAIN z = 1..n /\ z # <<>> /\ z[n] = g /\ \A i \in 1..n : i # n => z[i] = y[i]
  <2>1. /\ StackOK([y EXCEPT ![Len(y)] = g]) /\ [y EXCEPT ![Len(y)] = g] # <<>>
        /\ DOMAIN [y EXCEPT ![Len(y)] = g] = DOMAIN y /\ [y EXCEPT ![Len(y)] = g][Len(y)] = g
        /\ \A i \in DOMAIN y : i # Len(y) => [y EXCEPT ![Len(y)] = g][i] = y[i]
    BY <1>2, <1>4, <1>7, TopSet
  <2> QED
    BY <1>4, <2>1, Zenon
<1> HIDE DEF z
<1>9. TaskSet(t, tasks'[t]) /\ Fields4(tasks'[t], r, z, NoCall, tasks[t].calls)
  BY <1>3, StackReplaced DEF IInv
<1>10. TaskOK(tasks'[t]) /\ tasks'[t].root = r /\ tasks'[t].stack = z /\ tasks'[t].await = NoCall
  BY <1>1, <1>8, <1>9 DEF TaskOK, Fields4, AwaitOK
<1>11. RootOK(root[r]) /\ DOMAIN root = Roots
  BY <1>1 DEF IInv, RootInv
<1>12. RootSet(r, root[r]) /\ InputsKept /\ SameButFailed(root[r], root[r])
  BY <1>3, <1>11 DEF RootSet, InputsKept, SameButFailed
<1>13. /\ z[1].kind = s[1].kind
       /\ s[1].kind = "command" => /\ z[1].key = s[1].key /\ z[1].decided = s[1].decided
                                   /\ z[1].code = s[1].code /\ z[1].todo = s[1].todo
                                   /\ z[1].completions = s[1].completions
                                   /\ s[1].failures \subseteq z[1].failures
  <2>1. CASE n = 1
    BY <1>4, <1>5, <1>7, <1>8, <2>1
  <2>2. CASE n # 1
    BY <1>4, <1>5, <1>8, <2>2
  <2> QED
    BY <2>1, <2>2
<1>14. IsRoute(tasks'[t]) => IsRoute(tasks[t]) /\ LinkOK(tasks'[t], root[r])
  <2> HAVE IsRoute(tasks'[t])
  <2>1. IsRoute(tasks[t])
    BY <1>1, <1>10, <1>13 DEF IsRoute
  <2>2. LinkOK(tasks[t], root[r])
    BY <2>1 DEF IInv, RouteInv
  <2>3. y[n].kind # "terminal"
    BY <1>4, <1>5, <1>6, <2>1 DEF IsRoute
  <2>4. \A e : (\E i \in DOMAIN s : e \in s[i].failures) => \E i \in DOMAIN z : e \in z[i].failures
    <3> SUFFICES ASSUME NEW e, NEW i \in DOMAIN s, e \in s[i].failures
                 PROVE  \E j \in 1..n : e \in z[j].failures
      BY <1>8
    <3>1. CASE i = Len(s)
      BY <1>1, <1>5, <1>7, <1>8, <2>3, <3>1
    <3>2. CASE i # Len(s)
      <4>1. i \in 1..n
        BY <1>1, <1>2, <3>2
      <4> QED
        BY <1>4, <1>7, <1>8, <4>1
    <3> QED
      BY <3>1, <3>2
  <2>5. InFrames(tasks'[t], root[r].failed)
    BY <1>10, <2>2, <2>4 DEF InFrames, LinkOK
  <2> QED
    BY <1>10, <1>11, <1>12, <1>13, <2>1, <2>2, <2>5, LinkKept
<1>15. TasksInv' /\ RootInv' /\ RouteInv'
  BY <1>9, <1>10, <1>11, <1>12, <1>14, TaskStep DEF IInv
<1>16. MailInv' /\ CallsHaveWaiters'
  BY <1>9, <1>12, QuietMail DEF IInv
<1> QED
  BY <1>15, <1>16 DEF IInv, flags

\* Root r has its result.
LEMMA DoneFacts ==
    ASSUME RootInv, NEW r \in Roots, NEW failures, root[r].state = "routing",
           root' = [root EXCEPT ![r].state = "done", ![r].failures = failures],
           root[r].failed \subseteq failures,
           root[r].code # "" => CommandFailure(root[r].code) \in failures,
           SettledRight(root[r])
    PROVE  RootSet(r, root'[r]) /\ InputsKept /\ RootOK(root'[r])
<1> DEFINE m == [root[r] EXCEPT !.state = "done", !.failures = failures]
<1>1. root' = [root EXCEPT ![r] = m]
  OBVIOUS
<1>2. RootOK(root[r]) /\ DOMAIN root = Roots
  BY DEF RootInv
<1>3. /\ DOMAIN m = DOMAIN root[r] /\ m.emitted = root[r].emitted /\ m.state = "done"
      /\ m.input = root[r].input /\ m.code = root[r].code /\ m.sourceRuns = root[r].sourceRuns
      /\ m.failed = root[r].failed /\ m.failures = failures
      /\ m.scope = root[r].scope /\ m.said = root[r].said
  BY <1>2 DEF RootOK
<1> HIDE DEF m
<1>4. RootOK(m)
  <2>1. SettledRight(m)
    BY <1>3, SameJudgement
  <2> QED
    BY <1>2, <1>3, <2>1 DEF RootOK
<1>5. root'[r] = m /\ RootSet(r, m) /\ InputsKept
  BY <1>1, <1>2, <1>3 DEF RootSet, InputsKept
<1> QED
  BY <1>4, <1>5

\* The task of a route ends, and its root has its result.
LEMMA RouteEnds ==
    ASSUME IInv, NEW t \in DOMAIN tasks, Live(t), tasks[t].await = NoCall, IsRoute(tasks[t]),
           tasks' = [tasks EXCEPT ![t].stack = <<>>], UNCHANGED <<mail, flags>>,
           RootSet(tasks[t].root, root'[tasks[t].root]), InputsKept, RootOK(root'[tasks[t].root])
    PROVE  IInv'
<1>1. TaskSet(t, tasks'[t]) /\ Fields4(tasks'[t], tasks[t].root, <<>>, NoCall, tasks[t].calls)
  BY StackReplaced DEF IInv
<1>2. TaskOK(tasks[t])
  BY DEF IInv, TasksInv
<1>3. TaskOK(tasks'[t]) /\ ~IsRoute(tasks'[t]) /\ tasks'[t].root = tasks[t].root
  BY <1>1, <1>2, EmptyStack DEF TaskOK, Fields4, AwaitOK, IsRoute
<1>4. TasksInv' /\ RootInv' /\ RouteInv'
  BY <1>1, <1>3, TaskStep DEF IInv
<1>5. MailInv' /\ CallsHaveWaiters'
  BY <1>1, QuietMail DEF IInv
<1> QED
  BY <1>4, <1>5 DEF IInv, flags

LEMMA ReturnStep ==
    ASSUME IInv, NEW t \in DOMAIN tasks, Return(t)
    PROVE  IInv'
<1> DEFINE s == tasks[t].stack
           r == tasks[t].root
           failures == Top(t).failures
<1>1. Live(t) /\ Top(t).kind = "route" /\ tasks[t].await = NoCall
  BY DEF Return, Scanning
<1>2. /\ TaskOK(tasks[t]) /\ Len(s) \in Nat \ {0} /\ DOMAIN s = 1..Len(s) /\ Top(t) = s[Len(s)] /\ r \in Roots
      /\ s # <<>>
  BY <1>1, TopFacts DEF IInv, TaskOK, Live
<1>3. CASE Len(s) > 1
  <2>1. /\ tasks' = [tasks EXCEPT ![t].stack = [Front(s) EXCEPT ![Len(s) - 1] = Merge(@, failures)]]
        /\ UNCHANGED <<mail, flags, root>>
    BY <1>3 DEF Return
  <2> QED
    BY <1>1, <1>3, <2>1, NestedReturn
<1>4. CASE Len(s) = 1
  <2> DEFINE all == failures \cup IF root[r].code = "" THEN {} ELSE {CommandFailure(root[r].code)}
  <2>1. /\ tasks' = [tasks EXCEPT ![t].stack = <<>>] /\ UNCHANGED <<mail, flags>>
        /\ root' = [root EXCEPT ![r].state = "done", ![r].failures = all]
    <3>1. ~(Len(s) > 1)
      BY <1>4
    <3> HIDE DEF all
    <3> QED
      BY <3>1 DEF Return, all
  <2>2. IsRoute(tasks[t])
    BY <1>1, <1>2, <1>4 DEF IsRoute
  <2>3. LinkOK(tasks[t], root[r])
    BY <2>2 DEF IInv, RouteInv
  <2>4. root[r].state = "routing" /\ root[r].sourceRuns = 1 /\ root[r].scope = {} /\ root[r].failed \subseteq failures
    <3>1. s[1] = Top(t) /\ \A i \in DOMAIN s : i = 1
      BY <1>2, <1>4
    <3>2. root[r].state = "routing" /\ root[r].sourceRuns = 1 /\ root[r].scope = {}
      BY <1>1, <2>3, <3>1 DEF LinkOK, SettledSoFar
    <3>3. root[r].failed \subseteq failures
      BY <2>3, <3>1 DEF LinkOK, InFrames
    <3> QED
      BY <3>2, <3>3
  <2>5. root[r].failed \subseteq all /\ (root[r].code # "" => CommandFailure(root[r].code) \in all)
    BY <2>4
  <2> HIDE DEF all
  <2>6. RootSet(r, root'[r]) /\ InputsKept /\ RootOK(root'[r])
    <3>1. SettledRight(root[r]) /\ RootInv
      BY <2>4 DEF IInv, SettledRight
    <3> QED
      BY <1>2, <2>1, <2>4, <2>5, <3>1, DoneFacts
  <2> QED
    BY <1>1, <2>1, <2>2, <2>6, RouteEnds
<1>5. \A k \in Nat \ {0} : k = 1 \/ k > 1
  OBVIOUS
<1> QED
  BY <1>2, <1>3, <1>4, <1>5, Zenon

LEMMA CommandReturnsStep ==
    ASSUME IInv, NEW t \in DOMAIN tasks, CommandReturns(t)
    PROVE  IInv'
<1> DEFINE s == tasks[t].stack
           r == tasks[t].root
           f == Top(t)
<1>1. Live(t) /\ f.kind = "command" /\ f.decided
  BY DEF CommandReturns
<1>2. TaskOK(tasks[t]) /\ Len(s) = 1 /\ DOMAIN s = 1..1 /\ f = s[1] /\ r \in Roots /\ s # <<>>
  BY <1>1, TopFacts DEF IInv, TaskOK, Live
<1>3. tasks[t].await = NoCall
  BY <1>1, <1>2 DEF TaskOK, AwaitOK
<1>4. IsRoute(tasks[t])
  BY <1>1, <1>2 DEF IsRoute
<1>5. LinkOK(tasks[t], root[r])
  BY <1>4 DEF IInv, RouteInv
<1>6. /\ root[r].state = "routing" /\ root[r].failed \subseteq f.failures
      /\ root[r].code # "" => CommandFailure(root[r].code) \in f.failures
      /\ SettledRight(root[r])
  <2>1. \A i \in DOMAIN s : i = 1
    BY <1>2
  <2>2. root[r].state = "routing" /\ root[r].failed \subseteq f.failures
    BY <1>2, <1>5, <2>1 DEF LinkOK, InFrames
  <2>3. /\ root[r].code = f.code /\ (f.code # "" => CommandFailure(f.code) \in f.failures)
        /\ SettledRight(root[r])
    BY <1>1, <1>2, <1>5 DEF LinkOK, SettledSoFar
  <2> QED
    BY <2>2, <2>3
<1>7. /\ tasks' = [tasks EXCEPT ![t].stack = <<>>] /\ UNCHANGED <<mail, flags>>
      /\ root' = [root EXCEPT ![r].state = "done", ![r].failures = f.failures]
  BY DEF CommandReturns
<1>8. RootSet(r, root'[r]) /\ InputsKept /\ RootOK(root'[r])
  BY <1>2, <1>6, <1>7, DoneFacts DEF IInv
<1> QED
  BY <1>1, <1>3, <1>4, <1>7, <1>8, RouteEnds

-----------------------------------------------------------------------------
(* Commands.                                                               *)

\* The root of a command that is settled with a code, and routed on or not.
LEMMA SettledFacts ==
    ASSUME RootInv, NEW r \in Roots, NEW code, NEW n \in {0, 1}, root[r].state = "routing",
           root[r].sourceRuns = 0, code = "command_timeout" => root[r].emitted = 0,
           root' = [root EXCEPT ![r].code = code, ![r].sourceRuns = @ + n]
    PROVE  LET m == root'[r]
           IN /\ RootSet(r, m) /\ InputsKept /\ RootOK(m) /\ m.state = "routing" /\ m.input = root[r].input
              /\ m.code = code /\ m.sourceRuns = n /\ m.emitted = root[r].emitted /\ m.failed = root[r].failed
              /\ m.scope = root[r].scope /\ m.said = root[r].said
<1> DEFINE k == root[r].sourceRuns + n
           m == [root[r] EXCEPT !.code = code, !.sourceRuns = k]
<1>1. root' = [root EXCEPT ![r] = m]
  OBVIOUS
<1>2. RootOK(root[r]) /\ DOMAIN root = Roots
  BY DEF RootInv
<1>3. k = n
  BY NatSum, Zenon
<1> HIDE DEF k
<1>4. /\ DOMAIN m = DOMAIN root[r] /\ m.emitted = root[r].emitted /\ m.state = root[r].state
      /\ m.input = root[r].input /\ m.code = code /\ m.sourceRuns = n
      /\ m.failed = root[r].failed /\ m.scope = root[r].scope /\ m.said = root[r].said
  BY <1>2, <1>3 DEF RootOK
<1> HIDE DEF m
<1>5. RootOK(m)
  BY <1>2, <1>4 DEF RootOK
<1>6. root'[r] = m /\ RootSet(r, m) /\ InputsKept
  BY <1>1, <1>2, <1>4 DEF RootSet, InputsKept
<1> QED
  BY <1>4, <1>5, <1>6

LEMMA DecideStep ==
    ASSUME IInv, NEW t \in DOMAIN tasks, Decide(t)
    PROVE  IInv'
<1> DEFINE s == tasks[t].stack
           f == Top(t)
           r == tasks[t].root
           code == CompletionCode(f)
           on == Propagates(f, code)
           g == [f EXCEPT !.decided = TRUE, !.code = code,
                          !.failures = IF code = "" THEN @ ELSE @ \cup {CommandFailure(code)}]
           h == RouteFrame(root[r].input.type, <<>>)
           z == IF on THEN Append(WithTop(t, g), h) ELSE WithTop(t, g)
           n == IF on THEN 1 ELSE 0
<1>1. Live(t) /\ tasks[t].await = NoCall /\ f.kind = "command" /\ ~f.decided /\ f.todo = <<>>
  BY DEF Decide
<1>2. /\ tasks' = [tasks EXCEPT ![t].stack = z] /\ UNCHANGED <<mail, flags>>
      /\ root' = [root EXCEPT ![r].code = code, ![r].sourceRuns = @ + n]
  BY DEF Decide
<1>3. /\ TaskOK(tasks[t]) /\ StackOK(s) /\ FrameOK(f) /\ Len(s) = 1 /\ DOMAIN s = 1..1 /\ f = s[1]
      /\ r \in Roots /\ tasks[t].calls \in Nat /\ s # <<>>
  BY <1>1, TopFacts DEF IInv, TaskOK, Live
<1>4. IsRoute(tasks[t])
  BY <1>1, <1>3 DEF IsRoute
<1>5. LinkOK(tasks[t], root[r])
  BY <1>4 DEF IInv, RouteInv
<1>6. /\ root[r].state = "routing" /\ root[r].sourceRuns = 0 /\ f.key \in RouteOf(root[r].input).scopes
      /\ f.code = "command_timeout" => root[r].emitted = 0
      /\ root[r].scope = {f.key} /\ root[r].said = f.completions
  BY <1>1, <1>3, <1>5 DEF LinkOK, SettledSoFar
<1>7. code = "command_timeout" => f.code = "command_timeout"
  BY DEF CompletionCode
<1>8. /\ on <=> IF code = "" THEN f.completions = <<"continue">> ELSE Table.routes[f.key].fallback = "continue"
      /\ code = "" => Len(f.completions) = 1 /\ f.completions \notin {<<"malformed">>, <<"mismatch">>}
  BY DEF Propagates, CompletionCode
<1> HIDE DEF code, on
<1>9. /\ FrameOK(g) /\ g.kind = "command" /\ g.key = f.key /\ g.decided = TRUE /\ g.code = code
      /\ g.todo = <<>> /\ g.completions = f.completions /\ f.failures \subseteq g.failures
      /\ code # "" => CommandFailure(code) \in g.failures
  <2> DEFINE all == IF code = "" THEN f.failures ELSE f.failures \cup {CommandFailure(code)}
  <2>1. f.failures \subseteq all /\ (code # "" => CommandFailure(code) \in all)
    OBVIOUS
  <2>2. g = [f EXCEPT !.decided = TRUE, !.code = code, !.failures = all]
    OBVIOUS
  <2> HIDE DEF all, g
  <2>3. FrameOK(g) /\ g.kind = "command" /\ g.key = f.key /\ g.decided = TRUE /\ g.code = code
        /\ g.todo = <<>> /\ g.completions = f.completions /\ g.failures = all
    BY <1>1, <1>3, <2>2 DEF FrameOK
  <2> QED
    BY <2>1, <2>3
<1>10. FrameOK(h) /\ h.kind = "route"
  BY NewRouteFrame
<1> HIDE DEF g, h
<1>11. /\ StackOK(z) /\ z # <<>> /\ z[1] = g
       /\ \A e : (\E i \in DOMAIN s : e \in s[i].failures) => \E i \in DOMAIN z : e \in z[i].failures
  <2>1. CASE on
    <3> DEFINE y == Append(WithTop(t, g), h)
    <3>1. TasksInv /\ g.kind = Top(t).kind
      BY <1>1, <1>9 DEF IInv
    <3>2. /\ StackOK(y) /\ y # <<>> /\ (Len(s) = 1 => y[1] = g)
          /\ \A e : (\E i \in DOMAIN s : e \in s[i].failures) => \E i \in DOMAIN y : e \in y[i].failures
      BY <1>1, <1>9, <1>10, <3>1, NestedStack
    <3>3. z = y
      BY <2>1
    <3> HIDE DEF z, y
    <3> QED
      BY <1>3, <3>2, <3>3
  <2>2. CASE ~on
    <3> DEFINE y == [s EXCEPT ![Len(s)] = g]
    <3>1. g.kind = s[Len(s)].kind /\ Len(s) \in Nat \ {0}
      <4>1. 1 \in Nat \ {0}
        OBVIOUS
      <4> QED
        BY <1>1, <1>3, <1>9, <4>1, Zenon
    <3>2. StackOK(y) /\ y # <<>> /\ y[Len(s)] = g /\ DOMAIN y = DOMAIN s
      <4>1. StackOK(s) /\ FrameOK(g)
        BY <1>3, <1>9
      <4> HIDE DEF s
      <4> QED
        BY <3>1, <4>1, TopSet
    <3>3. z = y
      BY <2>2 DEF WithTop
    <3> HIDE DEF z, y
    <3>4. y[1] = g /\ \A i \in DOMAIN s : i = 1 /\ i \in DOMAIN y
      BY <1>3, <3>2
    <3>5. \A e : (\E i \in DOMAIN s : e \in s[i].failures) => \E i \in DOMAIN y : e \in y[i].failures
      BY <1>3, <1>9, <3>4
    <3> QED
      BY <3>2, <3>3, <3>4, <3>5
  <2> QED
    BY <2>1, <2>2
<1> HIDE DEF z
<1>12. TaskSet(t, tasks'[t]) /\ Fields4(tasks'[t], r, z, NoCall, tasks[t].calls)
  BY <1>1, <1>2, StackReplaced DEF IInv
<1>13. TaskOK(tasks'[t]) /\ tasks'[t].root = r /\ tasks'[t].stack = z /\ tasks'[t].await = NoCall
  BY <1>3, <1>11, <1>12 DEF TaskOK, Fields4, AwaitOK
<1>14. n \in {0, 1}
  OBVIOUS
<1>15. n = IF on THEN 1 ELSE 0
  OBVIOUS
<1> HIDE DEF n
<1> DEFINE m == root'[r]
<1>16. /\ RootSet(r, m) /\ InputsKept /\ RootOK(m) /\ m.state = "routing" /\ m.input = root[r].input
       /\ m.code = code /\ m.sourceRuns = n /\ m.emitted = root[r].emitted /\ m.failed = root[r].failed
       /\ m.scope = root[r].scope /\ m.said = root[r].said
  <2>1. RootInv /\ (code = "command_timeout" => root[r].emitted = 0)
    BY <1>6, <1>7 DEF IInv
  <2> QED
    BY <1>2, <1>3, <1>6, <1>14, <2>1, SettledFacts
<1> HIDE DEF m
<1>17. InFrames(tasks'[t], m.failed)
  BY <1>5, <1>11, <1>13, <1>16 DEF InFrames, LinkOK
<1>18. SettledSoFar(tasks'[t], m)
  <2>1. SettledRight(m)
    <3>1. \A k \in m.scope : GoesOn(m, k) <=> on
      BY <1>6, <1>8, <1>16 DEF GoesOn
    <3>2. f.key \in m.scope
      BY <1>6, <1>16
    <3>3. m.sourceRuns = IF \A k \in m.scope : GoesOn(m, k) THEN 1 ELSE 0
      BY <1>16, <1>15, <3>1, <3>2
    <3>4. code = "" => Len(m.said) = 1 /\ m.said \notin {<<"malformed">>, <<"mismatch">>}
      BY <1>6, <1>8, <1>16
    <3> QED
      BY <1>16, <3>3, <3>4 DEF SettledRight
  <2>2. code = "command_timeout" => m.emitted = 0
    BY <1>6, <1>7, <1>16
  <2> QED
    BY <1>6, <1>9, <1>11, <1>13, <1>16, <2>1, <2>2 DEF SettledSoFar
<1>19. LinkOK(tasks'[t], m)
  BY <1>16, <1>17, <1>18 DEF LinkOK
<1>20. TasksInv' /\ RootInv' /\ RouteInv'
  BY <1>4, <1>12, <1>13, <1>16, <1>19, TaskStep DEF IInv
<1>21. MailInv' /\ CallsHaveWaiters'
  BY <1>1, <1>2, <1>12, <1>16, QuietMail DEF IInv
<1> QED
  BY <1>2, <1>20, <1>21 DEF IInv, flags

-----------------------------------------------------------------------------
(* Root messages come in.                                                  *)

\* What Append leaves of the tasks that are there.
LEMMA TaskAdded ==
    ASSUME TasksInv, NEW x, tasks' = Append(tasks, x)
    PROVE  LET t == Len(tasks) + 1
           IN /\ t \in DOMAIN tasks' /\ t \notin DOMAIN tasks /\ tasks'[t] = x
              /\ DOMAIN tasks \subseteq DOMAIN tasks'
              /\ \A u \in DOMAIN tasks : SameCalls(u) /\ tasks'[u].await = tasks[u].await
<1>1. IsSeq(tasks)
  BY DEF TasksInv
<1>2. Len(tasks) \in Nat /\ DOMAIN tasks = 1..Len(tasks)
  BY <1>1, SeqShape
<1>3. /\ DOMAIN tasks' = 1..(Len(tasks) + 1)
      /\ tasks'[Len(tasks) + 1] = x /\ \A u \in DOMAIN tasks : tasks'[u] = tasks[u]
  BY <1>1, SeqAppend
<1>4. DOMAIN tasks \subseteq DOMAIN tasks' /\ Len(tasks) + 1 \in DOMAIN tasks' /\ Len(tasks) + 1 \notin DOMAIN tasks
  BY <1>2, <1>3
<1> QED
  BY <1>3, <1>4 DEF SameCalls

LEMMA StartPlainStep ==
    ASSUME IInv, NEW r \in Roots, root[r].state = "new", NEW code, code # "command_timeout",
           StartPlain(r, code), UNCHANGED flags
    PROVE  IInv'
<1> DEFINE h == RouteFrame(root[r].input.type, <<>>)
           x == Task(r, <<h>>)
           n == root[r].sourceRuns + 1
           m == [root[r] EXCEPT !.state = "routing", !.sourceRuns = n, !.code = code]
<1>1. tasks' = Append(tasks, x) /\ root' = [root EXCEPT ![r] = m] /\ mail' = mail
  BY DEF StartPlain
<1>2. FrameOK(h) /\ h.kind = "route" /\ h.failures = {}
  BY NewRouteFrame
<1> HIDE DEF h
<1>3. StackOK(<<h>>) /\ <<h>>[1] = h /\ <<h>> # <<>>
  BY <1>2, OneFrame
<1>4. DOMAIN x = {"root", "stack", "await", "calls"} /\ x.root = r /\ x.stack = <<h>>
      /\ x.await = NoCall /\ x.calls = 0
  BY DEF Task
<1> HIDE DEF x
<1>5. TaskOK(x) /\ IsRoute(x)
  BY <1>2, <1>3, <1>4 DEF TaskOK, AwaitOK, IsRoute
<1>6. RootOK(root[r]) /\ DOMAIN root = Roots
  BY DEF IInv, RootInv
<1>7. root[r].sourceRuns = 0 /\ root[r].failed = {} /\ root[r].emitted = 0 /\ root[r].scope = {}
  BY <1>6 DEF RootOK
<1>8. n = 1
  BY <1>7
<1> HIDE DEF n
<1>9. /\ DOMAIN m = DOMAIN root[r] /\ m.input = root[r].input /\ m.state = "routing" /\ m.code = code
      /\ m.sourceRuns = 1 /\ m.failed = {} /\ m.emitted = 0 /\ m.scope = {}
  BY <1>6, <1>7, <1>8 DEF RootOK
<1> HIDE DEF m
<1>10. RootOK(m) /\ RootSet(r, m) /\ InputsKept
  BY <1>1, <1>6, <1>9 DEF RootOK, RootSet, InputsKept
<1>11. LinkOK(x, m)
  BY <1>2, <1>3, <1>4, <1>9 DEF LinkOK, InFrames, SettledSoFar
<1>12. TasksInv' /\ RootInv' /\ RouteInv'
  BY <1>1, <1>4, <1>5, <1>10, <1>11, StartStep DEF IInv
<1>13. \A u \in DOMAIN tasks : SameCalls(u) /\ tasks'[u].await = tasks[u].await
  BY <1>1, TaskAdded DEF IInv
<1>14. MailInv' /\ CallsHaveWaiters'
  BY <1>1, <1>10, <1>13, MailKept DEF IInv
<1> QED
  BY <1>12, <1>14 DEF IInv, flags

LEMMA StartCommandStep ==
    ASSUME IInv, NEW r \in Roots, root[r].state = "new", NEW k \in RouteOf(root[r].input).scopes,
           StartCommand(r, k), UNCHANGED flags
    PROVE  IInv'
<1> DEFINE actor == Table.routes[k].actor
           box == [actor |-> actor, key |-> CommandKey(actor, root[r].input.fields)]
           t == Len(tasks) + 1
           h == CommandFrame(k)
           a == AwaitCall(box, TRUE)
           x == [Task(r, <<h>>) EXCEPT !.await = a, !.calls = 1]
           m == [root[r] EXCEPT !.state = "routing", !.scope = {k}]
<1>1. tasks' = Append(tasks, x) /\ root' = [root EXCEPT ![r] = m] /\ PostedMail(box, t, 1)
  BY DEF StartCommand, PostedMail
<1> HIDE DEF actor, box
<1>2. /\ FrameOK(h) /\ h.kind = "command" /\ h.key = k /\ ~h.decided /\ h.code = "" /\ h.todo = <<>>
      /\ h.completions = <<>>
  BY DEF CommandFrame, FrameOK
<1> HIDE DEF h
<1>3. StackOK(<<h>>) /\ <<h>>[1] = h /\ <<h>> # <<>> /\ Len(<<h>>) = 1
  BY <1>2, OneFrame
<1>4. /\ a # NoCall /\ DOMAIN a = {"on", "box", "timed", "result"} /\ a.on /\ a.box = box
      /\ a.timed = TRUE /\ ResultOK(a.result) /\ a.result.answered = stopped
  BY AwaitCallFacts DEF IInv
<1> HIDE DEF a
<1>5. DOMAIN x = {"root", "stack", "await", "calls"} /\ x.root = r /\ x.stack = <<h>>
      /\ x.await = a /\ x.calls = 1
  BY DEF Task
<1> HIDE DEF x
<1>6. TaskOK(x) /\ IsRoute(x)
  <2> DEFINE s == <<h>>
  <2>1. /\ x.await = a /\ x.stack = s /\ x.calls = 1 /\ x.root = r
        /\ DOMAIN x = {"root", "stack", "await", "calls"}
        /\ StackOK(s) /\ s[1] = h /\ s # <<>> /\ Len(s) = 1
    BY <1>3, <1>5
  <2> HIDE DEF s
  <2>2. a.timed \in BOOLEAN /\ 1 # 0 /\ 1 \in Nat
    <3>1. 1 # 0 /\ 1 \in Nat
      OBVIOUS
    <3> QED
      BY <1>4, <3>1, Zenon
  <2>3. AwaitOK(x)
    BY <1>2, <1>4, <2>1, <2>2, Zenon DEF AwaitOK
  <2>4. TaskOK(x)
    BY <2>1, <2>2, <2>3, Zenon DEF TaskOK
  <2>5. IsRoute(x)
    BY <1>2, <2>1 DEF IsRoute
  <2> QED
    BY <2>4, <2>5
<1>7. RootOK(root[r]) /\ DOMAIN root = Roots
  BY DEF IInv, RootInv
<1>8. /\ DOMAIN m = DOMAIN root[r] /\ m.input = root[r].input /\ m.state = "routing" /\ m.code = ""
      /\ m.sourceRuns = 0 /\ m.failed = {} /\ m.emitted = 0 /\ m.scope = {k} /\ m.said = <<>>
  BY <1>7 DEF RootOK
<1> HIDE DEF m
<1>9. RootOK(m) /\ RootSet(r, m) /\ InputsKept
  BY <1>1, <1>7, <1>8 DEF RootOK, RootSet, InputsKept
<1>10. LinkOK(x, m)
  BY <1>2, <1>3, <1>5, <1>8 DEF LinkOK, InFrames, SettledSoFar
<1>11. TasksInv' /\ RootInv' /\ RouteInv'
  BY <1>1, <1>5, <1>6, <1>9, <1>10, StartStep DEF IInv
<1>12. /\ t \in DOMAIN tasks' /\ t \notin DOMAIN tasks /\ tasks'[t] = x
       /\ DOMAIN tasks \subseteq DOMAIN tasks'
       /\ \A u \in DOMAIN tasks : SameCalls(u) /\ tasks'[u].await = tasks[u].await
  BY <1>1, TaskAdded DEF IInv
<1> HIDE DEF t
<1>13. MailInv' /\ CallsHaveWaiters'
  <2>1. tasks'[t].calls = 1 /\ tasks'[t].await = a /\ 1 \in Nat
    BY <1>5, <1>12
  <2> QED
    BY <1>1, <1>4, <1>9, <1>12, <2>1, MailPosted DEF IInv
<1> QED
  BY <1>11, <1>13 DEF IInv, flags

LEMMA IgnoreStep ==
    ASSUME IInv, NEW r \in Roots, root[r].state = "new", Ignore(r), UNCHANGED flags
    PROVE  IInv'
<1> DEFINE m == [root[r] EXCEPT !.state = "ignored"]
<1>1. tasks' = tasks /\ root' = [root EXCEPT ![r] = m] /\ mail' = mail
  BY DEF Ignore
<1>2. RootOK(root[r]) /\ DOMAIN root = Roots
  BY DEF IInv, RootInv
<1>3. /\ DOMAIN m = DOMAIN root[r] /\ m.input = root[r].input /\ m.state = "ignored" /\ m.code = ""
      /\ m.sourceRuns = 0 /\ m.failed = {} /\ m.emitted = 0 /\ m.scope = {} /\ m.said = <<>>
  BY <1>2 DEF RootOK
<1> HIDE DEF m
<1>4. RootOK(m) /\ RootSet(r, m) /\ InputsKept
  BY <1>1, <1>2, <1>3 DEF RootOK, RootSet, InputsKept
<1>5. \A u \in DOMAIN tasks : IsRoute(tasks[u]) => tasks[u].root # r /\ tasks[u].root \in Roots
  BY DEF IInv, RouteInv, LinkOK, TasksInv, TaskOK
<1>6. TasksInv'
  BY <1>1 DEF IInv, TasksInv
<1>7. RootInv'
  BY <1>4 DEF IInv, RootInv, RootSet
<1>8. RouteInv'
  BY <1>1, <1>4, <1>5 DEF IInv, RouteInv, RootSet
<1>9. \A u \in DOMAIN tasks : SameCalls(u) /\ tasks'[u].await = tasks[u].await
  BY <1>1 DEF SameCalls
<1>10. MailInv' /\ CallsHaveWaiters'
  BY <1>1, <1>4, <1>9, MailKept DEF IInv
<1> QED
  BY <1>6, <1>7, <1>8, <1>10 DEF IInv, flags

LEMMA ProcessStep ==
    ASSUME IInv, NEW r \in Roots, Process(r)
    PROVE  IInv'
<1> DEFINE route == Detected(root[r].input)
<1>1. root[r].state = "new" /\ UNCHANGED flags
  BY DEF Process
<1>2. \/ Ignore(r) \/ StartPlain(r, "") \/ StartPlain(r, "command_match_ambiguous")
      \/ \E k \in route.scopes : StartCommand(r, k)
  BY DEF Process
<1>3. route.scopes \subseteq RouteOf(root[r].input).scopes
  <2>1. Unrouted.scopes = {}
    BY DEF Unrouted
  <2> QED
    BY <2>1 DEF Detected
<1> HIDE DEF route
<1>4. CASE Ignore(r)
  BY <1>1, <1>4, IgnoreStep
<1>5. CASE StartPlain(r, "")
  BY <1>1, <1>5, StartPlainStep
<1>6. CASE StartPlain(r, "command_match_ambiguous")
  BY <1>1, <1>6, StartPlainStep
<1>7. CASE \E k \in route.scopes : StartCommand(r, k)
  BY <1>1, <1>3, <1>7, StartCommandStep
<1> QED
  BY <1>2, <1>4, <1>5, <1>6, <1>7

-----------------------------------------------------------------------------
(* The invariant.                                                          *)

\* Nothing that the routes depend on changes.
LEMMA QuietStep ==
    ASSUME IInv, UNCHANGED <<tasks, mail, root>>, stopped' \in BOOLEAN
    PROVE  IInv'
<1>1. TasksInv' /\ RootInv' /\ RouteInv' /\ InputsKept
  BY DEF IInv, TasksInv, RootInv, RouteInv, InputsKept
<1>2. \A u \in DOMAIN tasks : SameCalls(u) /\ tasks'[u].await = tasks[u].await
  BY DEF SameCalls
<1>3. MailInv' /\ CallsHaveWaiters'
  BY <1>1, <1>2, MailKept DEF IInv
<1> QED
  BY <1>1, <1>3 DEF IInv

\* A root message that has not been processed.
FreshRoot(e) ==
    [input |-> e, state |-> "new", code |-> "", sourceRuns |-> 0,
     failures |-> {}, failed |-> {}, emitted |-> 0, scope |-> {}, said |-> <<>>]

LEMMA FreshRootOK ==
    ASSUME NEW e
    PROVE  RootOK(FreshRoot(e))
<1> DEFINE m == FreshRoot(e)
<1>1. DOMAIN m = {"input", "state", "code", "sourceRuns", "failures", "failed", "emitted", "scope", "said"}
  BY DEF FreshRoot
<1>2. m.state = "new" /\ m.code = "" /\ m.sourceRuns = 0 /\ m.failed = {} /\ m.emitted = 0
      /\ m.scope = {} /\ m.said = <<>>
  BY DEF FreshRoot
<1> HIDE DEF m
<1>3. m.sourceRuns \in {0, 1} /\ m.emitted \in Nat
  <2>1. 0 \in {0, 1} /\ 0 \in Nat
    OBVIOUS
  <2> QED
    BY <1>2, <2>1, Zenon
<1>4. m.state # "done"
  BY <1>2
<1>5. m.code # "command_timeout"
  BY <1>2
<1> QED
  BY <1>1, <1>2, <1>3, <1>4, <1>5, Zenon DEF RootOK, m

LEMMA InitInv == Init => IInv
<1> SUFFICES ASSUME Init PROVE IInv
  OBVIOUS
<1>1. tasks = <<>> /\ DOMAIN mail = {} /\ stopped = FALSE
  BY DEF Init
<1>2. IsSeq(tasks) /\ DOMAIN tasks = {}
  BY <1>1 DEF IsSeq
<1>3. PICK received \in [Roots -> Received] :
         root = [r \in Roots |-> [input |-> Envelope(received[r]), state |-> "new", code |-> "", sourceRuns |-> 0,
                                  failures |-> {}, failed |-> {}, emitted |-> 0, scope |-> {}, said |-> <<>>]]
  BY DEF Init
<1>4. DOMAIN root = Roots /\ \A r \in Roots :
         root[r] = [input |-> Envelope(received[r]), state |-> "new", code |-> "", sourceRuns |-> 0,
                    failures |-> {}, failed |-> {}, emitted |-> 0, scope |-> {}, said |-> <<>>]
  BY <1>3
<1>5. RootInv
  <2> SUFFICES ASSUME NEW r \in Roots PROVE RootOK(root[r])
    BY <1>4 DEF RootInv
  <2>1. root[r] = FreshRoot(Envelope(received[r]))
    BY <1>4 DEF FreshRoot
  <2> QED
    BY <2>1, FreshRootOK
<1>6. TasksInv /\ RouteInv
  BY <1>2 DEF TasksInv, RouteInv
<1>7. MailInv /\ CallsHaveWaiters
  BY <1>1 DEF MailInv, CallsHaveWaiters
<1> QED
  BY <1>1, <1>5, <1>6, <1>7 DEF IInv

LEMMA NextKeepsInvariant == IInv /\ [Next]_vars => IInv'
<1> SUFFICES ASSUME IInv, [Next]_vars PROVE IInv'
  OBVIOUS
<1>1. ASSUME NEW r \in Roots, Process(r) PROVE IInv'
  BY <1>1, ProcessStep
<1>2. ASSUME NEW t \in DOMAIN tasks, Work(t) PROVE IInv'
  <2>1. CASE Resume(t)
    BY <2>1, ResumeStep
  <2>2. CASE Decide(t)
    BY <2>2, DecideStep
  <2>3. CASE RouteNext(t)
    BY <2>3, RouteNextStep
  <2>4. CASE FinishStage(t)
    BY <2>4, FinishStageStep
  <2>5. CASE RefuseStage(t)
    BY <2>5, RefuseStageStep
  <2>6. CASE UnknownActor(t)
    BY <2>6, UnknownActorStep
  <2>7. CASE PostTerminal(t)
    BY <2>7, PostTerminalStep
  <2>8. CASE CallStage(t)
    BY <2>8, CallStageStep
  <2>9. CASE NextPass(t)
    BY <2>9, NextPassStep
  <2>10. CASE Return(t)
    BY <2>10, ReturnStep
  <2>11. CASE CommandReturns(t)
    BY <2>11, CommandReturnsStep
  <2>12. CASE StartTerminal(t)
    BY <2>12, StartTerminalStep
  <2>13. CASE TerminalEnds(t)
    BY <2>13, TerminalEndsStep
  <2> QED
    BY <1>2, <2>1, <2>2, <2>3, <2>4, <2>5, <2>6, <2>7, <2>8, <2>9, <2>10, <2>11, <2>12, <2>13 DEF Work
<1>3. ASSUME NEW t \in DOMAIN tasks, Timeout(t) PROVE IInv'
  BY <1>3, TimeoutStep
<1>4. ASSUME NEW box \in DOMAIN mail, Answer(box) PROVE IInv'
  BY <1>4, AnswerStep
<1>5. ASSUME NEW box \in DOMAIN mail, Hang(box) PROVE IInv'
  BY <1>5, HangStep
<1>6. CASE ShutdownCoordinator \/ CloseTerminal \/ StopScheduler \/ UNCHANGED vars
  <2>1. UNCHANGED <<tasks, mail, root>>
    BY <1>6 DEF ShutdownCoordinator, CloseTerminal, StopScheduler, vars
  <2>2. stopped' \in BOOLEAN
    BY <1>6 DEF ShutdownCoordinator, CloseTerminal, StopScheduler, vars, IInv
  <2> QED
    BY <2>1, <2>2, QuietStep
<1> QED
  BY <1>1, <1>2, <1>3, <1>4, <1>5, <1>6 DEF Next

LEMMA InvariantHolds == Spec => []IInv
<1>1. Init => IInv
  BY InitInv
<1>2. IInv /\ [Next]_vars => IInv'
  BY NextKeepsInvariant
<1> QED
  BY <1>1, <1>2, PTL DEF Spec

-----------------------------------------------------------------------------
(* The theorems.                                                           *)

\* Whatever the pipelines, the nesting of the routes and the actors: a stage that
\* fails, is refused or has no actor anywhere in the routing of a root message is
\* among the failures of the result that process returns to the ingress
\* (merge_result of the orchestrator at each level).
THEOREM FailuresReachIngress == Spec => []FailuresAreReported
<1>1. IInv => FailuresAreReported
  BY DEF IInv, RootInv, RootOK, FailuresAreReported
<1> QED
  BY <1>1, InvariantHolds, PTL

\* Whatever the table of commands and however answers, deadlines and a shutdown
\* interleave: process of the coordinator hands a message to the pipelines at most
\* once, and exactly when the one valid completion of its actor or, for a command that
\* failed, the fallback of its route says so; it reports the code of a failed command,
\* and routes nothing of an answer that came after the deadline.
THEOREM SettledOnce == Spec => []CommandSettledOnce
<1>1. IInv => CommandSettledOnce
  <2> SUFFICES ASSUME IInv, NEW r \in Roots
               PROVE  /\ root[r].sourceRuns <= 1
                      /\ root[r].code # "" /\ root[r].state = "done" =>
                            CommandFailure(root[r].code) \in root[r].failures
                      /\ root[r].code = "command_timeout" => root[r].emitted = 0
                      /\ root[r].state = "done" =>
                            root[r].sourceRuns = IF \A k \in root[r].scope : GoesOn(root[r], k) THEN 1 ELSE 0
                      /\ root[r].state = "done" /\ root[r].scope # {} /\ root[r].code = "" =>
                            Len(root[r].said) = 1 /\ root[r].said \notin {<<"malformed">>, <<"mismatch">>}
    BY DEF CommandSettledOnce
  <2>1. RootOK(root[r])
    BY DEF IInv, RootInv
  <2>2. root[r].sourceRuns \in {0, 1}
    BY <2>1 DEF RootOK
  <2>3. \A n \in {0, 1} : n <= 1
    OBVIOUS
  <2>4. root[r].sourceRuns <= 1
    BY <2>2, <2>3, Zenon
  <2>5. /\ root[r].code # "" /\ root[r].state = "done" =>
              CommandFailure(root[r].code) \in root[r].failures
        /\ root[r].code = "command_timeout" => root[r].emitted = 0
        /\ root[r].state = "done" => SettledRight(root[r])
    BY <2>1 DEF RootOK
  <2>6. /\ root[r].state = "done" =>
              root[r].sourceRuns = IF \A k \in root[r].scope : GoesOn(root[r], k) THEN 1 ELSE 0
        /\ root[r].state = "done" /\ root[r].scope # {} /\ root[r].code = "" =>
              Len(root[r].said) = 1 /\ root[r].said \notin {<<"malformed">>, <<"mismatch">>}
    BY <2>5 DEF SettledRight
  <2> QED
    BY <2>4, <2>5, <2>6
<1> QED
  BY <1>1, InvariantHolds, PTL

\* Every invocation in a mailbox has a coroutine that awaits it, the running one
\* of a command that timed out excepted, in every interleaving of enqueue, answer,
\* cancel and shutdown.
THEOREM CallsAreAwaited == Spec => []CallsHaveWaiters
<1>1. IInv => CallsHaveWaiters
  BY DEF IInv
<1> QED
  BY <1>1, InvariantHolds, PTL
=============================================================================
