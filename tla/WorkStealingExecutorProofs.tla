--------------------- MODULE WorkStealingExecutorProofs ---------------------
(***************************************************************************)
(* Machine-checked proofs about WorkStealingExecutor, for every set of     *)
(* workers, callers and closures: what a shutdown leaves behind, and that  *)
(* the executor implements WorkPool.                                       *)
(***************************************************************************)
EXTENDS WorkStealingExecutor, FiniteSetTheorems, SequenceTheorems, TLAPS

-----------------------------------------------------------------------------
(* The inductive invariant.                                                *)

Busy    == {"push", "notify", "run", "ran"}
Leaving == {"exitRunnable", "exitActive", "exitWoken", "exited"}
\* A worker at one of these takes nothing any more unless it is sent back.
Gone    == {"exitActive", "exited", "unborn"}

RunningWorkers == {w \in Workers : Running(w)}

\* Who holds an item, who may be inside enqueue, and who may be leaving.
ThreadInv ==
    /\ \A t \in Threads : th[t].pc \in Busy => th[t].item \in Works
    /\ \A c \in Callers : /\ th[c].pc \in {"idle", "push", "notify"}
                          /\ th[c].pc # "idle" => flags.started
    /\ \A w \in Workers : /\ th[w].pc \in Leaving => flags.shutdown
                          /\ flags.started => th[w].pc # "unborn"

\* The counters are what they count.
CountInv ==
    /\ IsFiniteSet(RunningWorkers)
    /\ active = Cardinality(RunningWorkers)
    /\ IsFiniteSet(Slots)
    /\ runnable = Cardinality(Slots) + closing.removed

\* A cancelling executor fills no queue that it has cleared.
ClearedInv ==
    flags.cancelling =>
        \A q \in Queues : \/ closing.pc = "clear" /\ q \in closing.left
                          \/ queue[q] = <<>> /\ ~Locked(q)

\* Somebody will look at an item that did not come too late.
WatchedInv ==
    \A q \in Queues : \A n \in DOMAIN queue[q] :
        queue[q][n] \in late \/ \E w \in Workers : th[w].pc \notin Gone

ClosingInv ==
    /\ flags.cancelling => closing.pc \in {"clear", "notifyAll", "join", "done"}
    /\ closing.pc # "clear" => closing.removed = 0
    /\ flags.joined => closing.pc = "done" /\ AllExited

\* The inductive invariant.
IInv ==
    /\ TypeOK
    /\ ThreadInv
    /\ CountInv
    /\ ClearedInv
    /\ WatchedInv
    /\ ClosingInv

-----------------------------------------------------------------------------
(* Counting the places in the queues.  All facts are about functions f and *)
(* g from Queues to sequences, so that they serve for queue and queue'.    *)

\* The places of f that hold a member of Y.
Held(f, Y) == {s \in UNION {{q} \X DOMAIN f[q] : q \in Queues} : f[s[1]][s[2]] \in Y}

LEMMA HeldIs ==
    ASSUME NEW f \in [Queues -> Seq(Works)], NEW Y, NEW s
    PROVE  s \in Held(f, Y) <=> \E q \in Queues : \E n \in 1..Len(f[q]) :
                                   s = <<q, n>> /\ f[q][n] \in Y
<1>1. \A q \in Queues : DOMAIN f[q] = 1..Len(f[q])
  OBVIOUS
<1> QED BY <1>1 DEF Held

LEMMA HeldPlaces ==
    /\ TypeOK => Slots = Held(queue, Works)
    /\ \A x \in Works : QueuedCount(x) = Cardinality(Held(queue, {x}))
    /\ TypeOK' => Slots' = Held(queue', Works)
    /\ \A x \in Works : QueuedCount(x)' = Cardinality(Held(queue', {x}))
<1>1. \A f \in [Queues -> Seq(Works)] :
         UNION {{q} \X DOMAIN f[q] : q \in Queues} = Held(f, Works)
  <2> TAKE f \in [Queues -> Seq(Works)]
  <2> \A q \in Queues : f[q] \in Seq(Works)
    OBVIOUS
  <2> \A q \in Queues : \A n \in DOMAIN f[q] : f[q][n] \in Works
    OBVIOUS
  <2> QED BY DEF Held
<1>2. \A f : \A x : {s \in UNION {{q} \X DOMAIN f[q] : q \in Queues} : f[s[1]][s[2]] = x}
                     = Held(f, {x})
  BY DEF Held
<1> QED BY <1>1, <1>2 DEF TypeOK, Slots, QueuedCount

\* Whatever is held is finite when the places are.
LEMMA HeldFinite ==
    ASSUME NEW f \in [Queues -> Seq(Works)], NEW Y \in SUBSET Works, IsFiniteSet(Held(f, Works))
    PROVE  IsFiniteSet(Held(f, Y)) /\ Cardinality(Held(f, Y)) \in Nat
<1>1. Held(f, Y) \in SUBSET Held(f, Works)
  BY DEF Held
<1> QED BY <1>1, FS_Subset, FS_CardinalityType

\* g is f with x appended to queue q.
Appended(f, g, q, x) ==
    /\ f \in [Queues -> Seq(Works)] /\ q \in Queues /\ x \in Works
    /\ g \in [Queues -> Seq(Works)] /\ \A r \in Queues : r # q => g[r] = f[r]
    /\ Len(g[q]) = Len(f[q]) + 1
    /\ g[q][Len(f[q]) + 1] = x
    /\ \A n \in 1..Len(f[q]) : g[q][n] = f[q][n]

\* Append adds one place.
LEMMA HeldAppend ==
    ASSUME NEW f, NEW g, NEW q, NEW x, Appended(f, g, q, x),
           NEW Y \in SUBSET Works, IsFiniteSet(Held(f, Works))
    PROVE  /\ IsFiniteSet(Held(g, Y))
           /\ Cardinality(Held(g, Y)) =
                  IF x \in Y THEN Cardinality(Held(f, Y)) + 1 ELSE Cardinality(Held(f, Y))
<1> DEFINE p == <<q, Len(f[q]) + 1>>
<1> f \in [Queues -> Seq(Works)] /\ q \in Queues /\ x \in Works
  BY DEF Appended
<1>1. g \in [Queues -> Seq(Works)] /\ \A r \in Queues : r # q => g[r] = f[r]
  BY DEF Appended
<1>2. /\ Len(f[q]) \in Nat
      /\ Len(g[q]) = Len(f[q]) + 1
      /\ g[q][Len(f[q]) + 1] = x
      /\ \A n \in 1..Len(f[q]) : g[q][n] = f[q][n]
  BY DEF Appended
<1>3. p \notin Held(f, Y)
  <2>1. SUFFICES ASSUME p \in Held(f, Y) PROVE FALSE
    OBVIOUS
  <2>2. PICK r \in Queues, n \in Nat : n \in 1..Len(f[r]) /\ p = <<r, n>>
    BY <2>1, HeldIs
  <2> QED BY <1>2, <2>2
<1>4. Held(g, Y) = IF x \in Y THEN Held(f, Y) \cup {p} ELSE Held(f, Y)
  <2>1. ASSUME NEW s \in Held(g, Y) PROVE s \in Held(f, Y) \/ (s = p /\ x \in Y)
    <3>1. PICK r \in Queues, n \in Nat : n \in 1..Len(g[r]) /\ s = <<r, n>> /\ g[r][n] \in Y
      BY <1>1, <2>1, HeldIs
    <3>2. CASE r # q
      BY <3>1, <3>2, <1>1, HeldIs
    <3>3. CASE r = q /\ n = Len(f[q]) + 1
      BY <3>1, <3>3, <1>2
    <3>4. CASE r = q /\ n # Len(f[q]) + 1
      <4>1. n \in 1..Len(f[q])
        BY <3>1, <3>4, <1>2
      <4> QED BY <4>1, <3>1, <3>4, <1>2, HeldIs
    <3> QED BY <3>2, <3>3, <3>4
  <2>2. ASSUME NEW s \in Held(f, Y) PROVE s \in Held(g, Y)
    <3>1. PICK r \in Queues, n \in Nat : n \in 1..Len(f[r]) /\ s = <<r, n>> /\ f[r][n] \in Y
      BY <2>2, HeldIs
    <3>2. n \in 1..Len(g[r]) /\ g[r][n] \in Y
      <4>1. CASE r # q
        BY <3>1, <4>1, <1>1
      <4>2. CASE r = q
        BY <3>1, <4>2, <1>2
      <4> QED BY <4>1, <4>2
    <3> QED BY <3>1, <3>2, <1>1, HeldIs
  <2>3. x \in Y => p \in Held(g, Y)
    <3>1. Len(f[q]) + 1 \in 1..Len(g[q])
      BY <1>2
    <3> QED BY <3>1, <1>1, <1>2, HeldIs
  <2> QED BY <2>1, <2>2, <2>3
<1>5. IsFiniteSet(Held(f, Y)) /\ Cardinality(Held(f, Y)) \in Nat
  BY HeldFinite
<1>6. IsFiniteSet(Held(f, Y) \cup {p}) /\ Cardinality(Held(f, Y) \cup {p}) = Cardinality(Held(f, Y)) + 1
  BY <1>3, <1>5, FS_AddElement
<1>7. /\ IsFiniteSet(Held(g, Y))
      /\ Cardinality(Held(g, Y)) =
            IF x \in Y THEN Cardinality(Held(f, Y)) + 1 ELSE Cardinality(Held(f, Y))
  <2> HIDE DEF p
  <2> QED BY <1>4, <1>5, <1>6
<1> QED BY <1>7

\* Taking the last item removes one place.
LEMMA HeldFront ==
    ASSUME NEW f \in [Queues -> Seq(Works)], NEW q \in Queues, f[q] # <<>>,
           NEW Y \in SUBSET Works, IsFiniteSet(Held(f, Works))
    PROVE  LET g == [f EXCEPT ![q] = Front(f[q])]
           IN  /\ g \in [Queues -> Seq(Works)]
               /\ Last(f[q]) \in Works
               /\ IsFiniteSet(Held(g, Y))
               /\ Cardinality(Held(f, Y)) =
                      IF Last(f[q]) \in Y THEN Cardinality(Held(g, Y)) + 1 ELSE Cardinality(Held(g, Y))
<1> DEFINE g == [f EXCEPT ![q] = Front(f[q])]
           p == <<q, Len(f[q])>>
<1>0. Len(f[q]) \in Nat \ {0} /\ f[q] \in Seq(Works)
  OBVIOUS
<1>1. /\ Front(f[q]) \in Seq(Works)
      /\ Len(Front(f[q])) = Len(f[q]) - 1
      /\ \A n \in 1..(Len(f[q]) - 1) : Front(f[q])[n] = f[q][n]
      /\ Last(f[q]) = f[q][Len(f[q])] /\ Last(f[q]) \in Works
  <2>1. \A s \in Seq(Works) : Len(s) # 0 =>
           /\ SubSeq(s, 1, Len(s) - 1) \in Seq(Works)
           /\ Len(SubSeq(s, 1, Len(s) - 1)) = Len(s) - 1
           /\ \A n \in 1..(Len(s) - 1) : SubSeq(s, 1, Len(s) - 1)[n] = s[n]
    <3> TAKE s \in Seq(Works)
    <3> HAVE Len(s) # 0
    <3>1. Len(s) \in Nat /\ \A n \in 1..Len(s) : s[n] \in Works
      OBVIOUS
    <3> DEFINE k == Len(s) - 1
    <3>2. k \in Nat /\ 1 \in Int /\ k \in Int /\ \A i \in 1..k : s[i] \in Works
      BY <3>1
    <3> HIDE DEF k
    <3>3. /\ SubSeq(s, 1, k) \in Seq(Works)
          /\ Len(SubSeq(s, 1, k)) = IF 1 <= k THEN k - 1 + 1 ELSE 0
          /\ \A i \in 1..(k - 1 + 1) : SubSeq(s, 1, k)[i] = s[1 + i - 1]
      BY <3>2, SubSeqProperties
    <3>4. /\ Len(SubSeq(s, 1, k)) = k
          /\ \A i \in 1..k : SubSeq(s, 1, k)[i] = s[i]
      BY <3>2, <3>3
    <3> QED BY <3>3, <3>4 DEF k
  <2> QED BY <1>0, <2>1 DEF Front, Last
<1>2. /\ g \in [Queues -> Seq(Works)] /\ \A r \in Queues : r # q => g[r] = f[r]
      /\ g[q] = Front(f[q])
  BY <1>1
<1>3. Held(g, Y) = Held(f, Y) \ {p}
  <2> HIDE DEF g
  <2>1. ASSUME NEW s \in Held(g, Y) PROVE s \in Held(f, Y) /\ s # p
    <3>1. PICK r \in Queues, n \in Nat : n \in 1..Len(g[r]) /\ s = <<r, n>> /\ g[r][n] \in Y
      BY <1>2, <2>1, HeldIs
    <3>2. n \in 1..Len(f[r]) /\ f[r][n] = g[r][n] /\ <<r, n>> # p
      BY <3>1, <1>0, <1>1, <1>2
    <3> QED BY <3>1, <3>2, HeldIs
  <2>2. ASSUME NEW s \in Held(f, Y), s # p PROVE s \in Held(g, Y)
    <3>1. PICK r \in Queues, n \in Nat : n \in 1..Len(f[r]) /\ s = <<r, n>> /\ f[r][n] \in Y
      BY <2>2, HeldIs
    <3>2. n \in 1..Len(g[r]) /\ g[r][n] \in Y
      BY <3>1, <2>2, <1>0, <1>1, <1>2
    <3> QED BY <3>1, <3>2, <1>2, HeldIs
  <2> QED BY <2>1, <2>2
<1>4. p \in Held(f, Y) <=> Last(f[q]) \in Y
  <2>1. Len(f[q]) \in 1..Len(f[q])
    BY <1>0
  <2> QED BY <2>1, <1>1, HeldIs
<1>5. IsFiniteSet(Held(f, Y)) /\ Cardinality(Held(f, Y)) \in Nat
  BY HeldFinite
<1> HIDE DEF g, p
<1>6. /\ IsFiniteSet(Held(g, Y))
      /\ Cardinality(Held(g, Y)) =
            IF p \in Held(f, Y) THEN Cardinality(Held(f, Y)) - 1 ELSE Cardinality(Held(f, Y))
  <2>1. \A S : IsFiniteSet(S) =>
           /\ IsFiniteSet(S \ {p})
           /\ Cardinality(S \ {p}) = IF p \in S THEN Cardinality(S) - 1 ELSE Cardinality(S)
    BY FS_RemoveElement
  <2> QED BY <1>3, <1>5, <2>1
<1>7. Cardinality(Held(f, Y)) =
         IF Last(f[q]) \in Y THEN Cardinality(Held(g, Y)) + 1 ELSE Cardinality(Held(g, Y))
  BY <1>4, <1>5, <1>6
<1> QED BY <1>1, <1>2, <1>6, <1>7 DEF g

\* Taking the first item shifts the others and removes one place.
LEMMA HeldTail ==
    ASSUME NEW f \in [Queues -> Seq(Works)], NEW q \in Queues, f[q] # <<>>,
           NEW Y \in SUBSET Works, IsFiniteSet(Held(f, Works))
    PROVE  LET g == [f EXCEPT ![q] = Tail(f[q])]
           IN  /\ g \in [Queues -> Seq(Works)]
               /\ Head(f[q]) \in Works
               /\ IsFiniteSet(Held(g, Y))
               /\ Cardinality(Held(f, Y)) =
                      IF Head(f[q]) \in Y THEN Cardinality(Held(g, Y)) + 1 ELSE Cardinality(Held(g, Y))
<1> DEFINE g == [f EXCEPT ![q] = Tail(f[q])]
           p == <<q, 1>>
           S == Held(f, Y) \ {p}
           T == Held(g, Y)
           m == [s \in S |-> IF s[1] = q THEN <<q, s[2] - 1>> ELSE s]
<1>0. Len(f[q]) \in Nat \ {0} /\ f[q] \in Seq(Works)
  OBVIOUS
<1>1. /\ Tail(f[q]) \in Seq(Works)
      /\ Len(Tail(f[q])) = Len(f[q]) - 1
      /\ \A n \in 1..(Len(f[q]) - 1) : Tail(f[q])[n] = f[q][n + 1]
      /\ Head(f[q]) = f[q][1] /\ Head(f[q]) \in Works
  BY <1>0
<1>2. /\ g \in [Queues -> Seq(Works)] /\ \A r \in Queues : r # q => g[r] = f[r]
      /\ g[q] = Tail(f[q])
  BY <1>1
<1> HIDE DEF g
<1>3. ASSUME NEW s \in S
      PROVE  \E r \in Queues : \E n \in 1..Len(f[r]) :
                 /\ s = <<r, n>> /\ s[1] = r /\ s[2] = n /\ f[r][n] \in Y
                 /\ r = q => n # 1
  <2>1. PICK r \in Queues, n \in Nat : n \in 1..Len(f[r]) /\ s = <<r, n>> /\ f[r][n] \in Y
    BY HeldIs
  <2> QED BY <2>1
<1>4. ASSUME NEW s \in S PROVE m[s] \in T
  <2>1. PICK r \in Queues, n \in Nat :
            /\ n \in 1..Len(f[r])
            /\ s = <<r, n>> /\ s[1] = r /\ s[2] = n /\ f[r][n] \in Y
            /\ r = q => n # 1
    BY <1>3
  <2>2. CASE r # q
    <3>1. m[s] = <<r, n>> /\ n \in 1..Len(g[r]) /\ g[r][n] \in Y
      BY <2>1, <2>2, <1>2
    <3> QED BY <3>1, <1>2, HeldIs
  <2>3. CASE r = q
    <3>1. m[s] = <<q, n - 1>>
      BY <2>1, <2>3
    <3>2. n - 1 \in 1..Len(g[q]) /\ g[q][n - 1] = f[q][n]
      BY <2>1, <2>3, <1>0, <1>1, <1>2
    <3>3. <<q, n - 1>> \in Held(g, Y)
      <4>1. g[q][n - 1] \in Y
        BY <3>2, <2>1, <2>3
      <4> DEFINE i == n - 1
      <4>2. i \in 1..Len(g[q]) /\ g[q][i] \in Y
        BY <3>2, <4>1
      <4> HIDE DEF i
      <4>3. <<q, i>> \in Held(g, Y)
        BY <4>2, <1>2, HeldIs
      <4> QED BY <4>3 DEF i
    <3> QED BY <3>1, <3>3
  <2> QED BY <2>2, <2>3
<1>5. ASSUME NEW s \in S, NEW t \in S, m[s] = m[t] PROVE s = t
  <2>1. PICK r \in Queues, n \in Nat :
            /\ n \in 1..Len(f[r])
            /\ s = <<r, n>> /\ s[1] = r /\ s[2] = n /\ f[r][n] \in Y
            /\ r = q => n # 1
    BY <1>3
  <2>2. PICK k \in Queues, i \in Nat :
            /\ i \in 1..Len(f[k])
            /\ t = <<k, i>> /\ t[1] = k /\ t[2] = i /\ f[k][i] \in Y
            /\ k = q => i # 1
    BY <1>3
  <2>3. n \in Int /\ i \in Int
    BY <2>1, <2>2
  <2>4. m[s] = (IF r = q THEN <<q, n - 1>> ELSE <<r, n>>) /\ m[t] = (IF k = q THEN <<q, i - 1>> ELSE <<k, i>>)
    BY <2>1, <2>2
  <2>5. r = k /\ n = i
    BY <2>3, <2>4, <1>5
  <2> QED BY <2>1, <2>2, <2>5
<1>6. ASSUME NEW t \in T PROVE \E s \in S : m[s] = t
  <2>1. PICK r \in Queues, n \in Nat : n \in 1..Len(g[r]) /\ t = <<r, n>> /\ g[r][n] \in Y
    BY <1>2, HeldIs
  <2>2. CASE r # q
    <3>1. t \in S /\ t[1] = r
      BY <2>1, <2>2, <1>2, HeldIs
    <3> QED BY <3>1, <2>2
  <2>3. CASE r = q
    <3>1. n + 1 \in 1..Len(f[q]) /\ f[q][n + 1] \in Y /\ n + 1 # 1 /\ (n + 1) - 1 = n
      BY <2>1, <2>3, <1>0, <1>1, <1>2
    <3>2. <<q, n + 1>> \in S
      BY <3>1, HeldIs
    <3>3. m[<<q, n + 1>>] = t
      BY <3>1, <3>2, <2>1, <2>3
    <3> QED BY <3>2, <3>3
  <2> QED BY <2>2, <2>3
<1>7. p \in Held(f, Y) <=> Head(f[q]) \in Y
  <2>1. 1 \in 1..Len(f[q])
    BY <1>0
  <2> QED BY <2>1, <1>1, HeldIs
<1>8. IsFiniteSet(Held(f, Y)) /\ Cardinality(Held(f, Y)) \in Nat
  BY HeldFinite
<1>9. /\ IsFiniteSet(S)
      /\ Cardinality(S) = IF p \in Held(f, Y) THEN Cardinality(Held(f, Y)) - 1 ELSE Cardinality(Held(f, Y))
  BY <1>8, FS_RemoveElement
<1>10. ExistsBijection(S, T)
  <2>0. m \in [S -> T]
    BY <1>4
  <2> HIDE DEF S, T, m
  <2>1. m \in Bijection(S, T)
    BY <2>0, <1>5, <1>6 DEF Bijection, Injection, Surjection, IsInjective
  <2> QED BY <2>1 DEF ExistsBijection
<1>11. IsFiniteSet(T) /\ Cardinality(T) = Cardinality(S)
  BY <1>9, <1>10, FS_Bijection
<1>12. Cardinality(Held(f, Y)) =
          IF Head(f[q]) \in Y THEN Cardinality(T) + 1 ELSE Cardinality(T)
  BY <1>7, <1>8, <1>9, <1>11
<1> QED BY <1>1, <1>2, <1>11, <1>12 DEF g

\* Clearing a queue removes as many places as the queue is long.
LEMMA HeldClear ==
    ASSUME NEW f \in [Queues -> Seq(Works)], NEW q \in Queues, IsFiniteSet(Held(f, Works))
    PROVE  LET g == [f EXCEPT ![q] = <<>>]
           IN  /\ g \in [Queues -> Seq(Works)]
               /\ IsFiniteSet(Held(g, Works))
               /\ Cardinality(Held(f, Works)) = Cardinality(Held(g, Works)) + Len(f[q])
               /\ \A Y \in SUBSET Works : Cardinality(Held(g, Y)) \in 0..Cardinality(Held(f, Y))
<1> DEFINE g == [f EXCEPT ![q] = <<>>]
           C == {q} \X (1..Len(f[q]))
<1>1. /\ g \in [Queues -> Seq(Works)] /\ \A r \in Queues : r # q => g[r] = f[r]
      /\ g[q] = <<>> /\ Len(g[q]) = 0
      /\ Len(f[q]) \in Nat /\ f[q] \in Seq(Works)
  OBVIOUS
<1> HIDE DEF g
<1>2. ASSUME NEW Y PROVE Held(g, Y) = Held(f, Y) \ C
  <2>1. ASSUME NEW s \in Held(g, Y) PROVE s \in Held(f, Y) /\ s \notin C
    <3>1. PICK r \in Queues, n \in Nat : n \in 1..Len(g[r]) /\ s = <<r, n>> /\ g[r][n] \in Y
      BY <1>1, HeldIs
    <3>2. r # q
      BY <3>1, <1>1
    <3>3. s \notin C
      BY <3>1, <3>2
    <3> QED BY <3>1, <3>2, <3>3, <1>1, HeldIs
  <2>2. ASSUME NEW s \in Held(f, Y), s \notin C PROVE s \in Held(g, Y)
    <3>1. PICK r \in Queues, n \in Nat : n \in 1..Len(f[r]) /\ s = <<r, n>> /\ f[r][n] \in Y
      BY HeldIs
    <3>2. r # q
      BY <3>1, <2>2
    <3>3. n \in 1..Len(g[r]) /\ g[r][n] \in Y
      BY <3>1, <3>2, <1>1
    <3> QED BY <3>1, <3>3, <1>1, HeldIs
  <2> QED BY <2>1, <2>2
<1>3. C \subseteq Held(f, Works)
  <2>1. \A n \in 1..Len(f[q]) : f[q][n] \in Works
    BY <1>1
  <2> QED BY <2>1, HeldIs
<1>4. IsFiniteSet(C) /\ Cardinality(C) = Len(f[q])
  <2>1. IsFiniteSet(1..Len(f[q])) /\ Cardinality(1..Len(f[q])) = Len(f[q])
    <3>1. 1 \in Int /\ Len(f[q]) \in Int
      BY <1>1
    <3>2. IsFiniteSet(1..Len(f[q])) /\ Cardinality(1..Len(f[q])) = IF 1 > Len(f[q]) THEN 0 ELSE Len(f[q]) - 1 + 1
      BY <3>1, FS_Interval
    <3> QED BY <3>2, <1>1
  <2>2. IsFiniteSet({q}) /\ Cardinality({q}) = 1
    BY FS_Singleton
  <2>3. IsFiniteSet(C) /\ Cardinality(C) = 1 * Len(f[q])
    BY <2>1, <2>2, FS_Product
  <2> QED BY <2>3, <1>1
<1>5. /\ IsFiniteSet(Held(g, Works))
      /\ Cardinality(Held(f, Works)) = Cardinality(Held(g, Works)) + Len(f[q])
  <2>1. Held(f, Works) \cap C = C
    BY <1>3
  <2>2. Held(g, Works) = Held(f, Works) \ C
    BY <1>2
  <2> HIDE DEF C
  <2>3. /\ IsFiniteSet(Held(f, Works) \ C)
        /\ Cardinality(Held(f, Works) \ C) = Cardinality(Held(f, Works)) - Cardinality(Held(f, Works) \cap C)
    BY FS_Difference
  <2>4. Cardinality(Held(f, Works)) \in Nat
    BY FS_CardinalityType
  <2>5. Cardinality(Held(g, Works)) = Cardinality(Held(f, Works)) - Len(f[q])
    BY <2>1, <2>2, <2>3, <1>4
  <2> HIDE DEF g
  <2> QED BY <2>2, <2>3, <2>4, <2>5, <1>1
<1>6. ASSUME NEW Y \in SUBSET Works PROVE Cardinality(Held(g, Y)) \in 0..Cardinality(Held(f, Y))
  <2>1. IsFiniteSet(Held(f, Y)) /\ Cardinality(Held(f, Y)) \in Nat
    BY HeldFinite
  <2>2. Held(g, Y) \in SUBSET Held(f, Y)
    BY <1>2
  <2>3. IsFiniteSet(Held(g, Y)) /\ Cardinality(Held(g, Y)) <= Cardinality(Held(f, Y))
    BY <2>1, <2>2, FS_Subset
  <2>4. Cardinality(Held(g, Y)) \in Nat
    BY <2>3, FS_CardinalityType
  <2> QED BY <2>1, <2>3, <2>4
<1> QED BY <1>1, <1>5, <1>6 DEF g

-----------------------------------------------------------------------------
(* Steps that only move threads.                                           *)

\* A step of the executor seen from the pool.
PoolStep == [Pool!Next]_(Pool!vars)

\* What a step that leaves queues, counters and flags alone may do to thread t.
Calm(t) ==
    /\ th'[t].pc \in Busy => th'[t].item \in Works
    /\ t \in Workers =>
        /\ th'[t].pc \in Busy <=> th[t].pc \in Busy
        /\ th[t].pc \in Busy => th'[t].item = th[t].item
        /\ th'[t].pc \in Leaving => flags.shutdown
        /\ th'[t].pc \in Gone => th[t].pc \in Gone \/ runnable = 0
        /\ th'[t].pc = "unborn" => th[t].pc = "unborn"
        /\ th[t].pc \in {"exited", "unborn"} => th'[t].pc = th[t].pc
    /\ t \in Callers =>
        /\ th'[t].pc \in {"idle", "push", "notify"}
        /\ th'[t].pc # "idle" => flags.started
    /\ th'[t].pc = "push" => \/ ~flags.cancelling
                             \/ th[t].pc = "push" /\ th'[t].target = th[t].target

LEMMA NothingWaits ==
    ASSUME TypeOK, CountInv, runnable = 0
    PROVE  closing.removed = 0 /\ \A q \in Queues : queue[q] = <<>>
<1>1. Cardinality(Slots) \in Nat /\ closing.removed \in Nat
  BY FS_CardinalityType DEF CountInv, TypeOK
<1>2. Cardinality(Slots) = 0 /\ closing.removed = 0
  BY <1>1 DEF CountInv
<1>3. Slots = {}
  BY <1>2, FS_EmptySet DEF CountInv
<1>4. ASSUME NEW q \in Queues, queue[q] # <<>> PROVE FALSE
  <2>1. queue[q] \in Seq(Works)
    BY DEF TypeOK
  <2>2. 1 \in DOMAIN queue[q]
    BY <2>1, <1>4
  <2>3. <<q, 1>> \in Slots
    BY <2>2 DEF Slots
  <2> QED BY <2>3, <1>3
<1> QED BY <1>2, <1>4

LEMMA CalmStep ==
    ASSUME IInv, UNCHANGED <<flags, queue, runnable, active, history>>,
           \/ UNCHANGED closing
           \/ closing.pc = "notifyAll" /\ closing' = [closing EXCEPT !.pc = "join"],
           th' \in [Threads -> ThreadType], \A t \in Threads : Calm(t)
    PROVE  IInv' /\ PoolStep
<1> USE DEF IInv
<1>c. /\ closing' \in [pc : {"none", "cancel", "clear", "notifyAll", "join", "done"},
                       left : SUBSET Queues, removed : Nat]
      /\ closing'.removed = closing.removed /\ closing'.left = closing.left
      /\ \/ closing'.pc = closing.pc
         \/ closing.pc = "notifyAll" /\ closing'.pc = "join"
  BY DEF TypeOK
<1>0. Workers \subseteq Threads /\ Callers \subseteq Threads
  BY DEF Threads
<1>1. TypeOK'
  BY <1>c DEF TypeOK, history
<1>2. ThreadInv'
  <2>1. \A w \in Workers : flags.started => th'[w].pc # "unborn"
    BY <1>0 DEF ThreadInv, Calm
  <2> QED BY <2>1, <1>0 DEF ThreadInv, Calm
<1>3. \A w \in Workers : Running(w)' <=> Running(w)
  BY <1>0 DEF Running, Calm, Busy
<1>4. CountInv'
  <2>1. RunningWorkers' = RunningWorkers
    BY <1>3 DEF RunningWorkers
  <2>2. Slots' = Slots
    BY DEF Slots
  <2> QED BY <1>c, <2>1, <2>2 DEF CountInv
<1>5. ClearedInv'
  <2>1. flags.cancelling => \A q \in Queues : Locked(q)' => Locked(q)
    BY DEF Locked, Calm
  <2> QED BY <1>c, <2>1 DEF ClearedInv
<1>6. WatchedInv'
  <2>1. CASE runnable = 0
    <3>1. \A q \in Queues : queue[q] = <<>>
      BY <2>1, NothingWaits
    <3>2. \A q \in Queues : DOMAIN queue[q] = {}
      BY <3>1
    <3> QED BY <3>2 DEF WatchedInv
  <2>2. CASE runnable # 0
    <3>1. \A w \in Workers : th[w].pc \notin Gone => th'[w].pc \notin Gone
      BY <2>2, <1>0 DEF Calm
    <3> QED BY <3>1 DEF WatchedInv, history
  <2> QED BY <2>1, <2>2
<1>7. ClosingInv'
  <2>1. AllExited => AllExited'
    BY <1>0 DEF AllExited, Calm
  <2> QED BY <1>c, <2>1 DEF ClosingInv
<1>8. UNCHANGED Pool!vars
  <2>1. \A x \in Works : QueuedCount(x)' = QueuedCount(x)
    BY DEF QueuedCount, Slots
  <2>2. \A w \in Workers : (IF Running(w) THEN th[w].item ELSE None)' = IF Running(w) THEN th[w].item ELSE None
    BY <1>0, <1>3 DEF Running, Calm, Busy
  <2> QED BY <2>1, <2>2 DEF Pool!vars, history
<1> QED BY <1>1, <1>2, <1>4, <1>5, <1>6, <1>7, <1>8 DEF PoolStep

\* The others are calm when one thread moves.
LEMMA OneThread ==
    ASSUME IInv, UNCHANGED <<flags, queue, runnable, active, closing, history>>,
           NEW t \in Threads, NEW r \in ThreadType, th' = [th EXCEPT ![t] = r],
           Calm(t)
    PROVE  IInv' /\ PoolStep
<1>1. th' \in [Threads -> ThreadType]
  BY DEF IInv, TypeOK
<1>2. ASSUME NEW u \in Threads, u # t PROVE Calm(u)
  <2>1. th'[u] = th[u]
    BY <1>2 DEF IInv, TypeOK
  <2> QED BY <2>1 DEF Calm, IInv, ThreadInv
<1> QED BY <1>1, <1>2, CalmStep

\* A worker that holds no item goes on.
LEMMA GotoStep ==
    ASSUME IInv, NEW w \in Workers, NEW pc \in PcSet, Goto(w, pc),
           th[w].pc \notin Busy, th[w].pc \notin {"exited", "unborn"},
           pc \notin Busy, pc # "unborn",
           pc \in Leaving => flags.shutdown,
           pc \in Gone => th[w].pc \in Gone \/ runnable = 0
    PROVE  IInv' /\ PoolStep
<1>0. w \in Threads /\ w \notin Callers
  BY ExecutorAssumption DEF Threads
<1> DEFINE r == At(th[w], pc)
<1>1. r \in ThreadType /\ r.pc = pc
  <2>1. th[w] \in ThreadType
    BY <1>0 DEF IInv, TypeOK
  <2>2. Injector \in Queues /\ 0 \in Nat /\ {} \in SUBSET Workers
    BY DEF Queues
  <2> QED BY <2>1, <2>2 DEF At, NewThread, ThreadType
<1>2. th' = [th EXCEPT ![w] = r]
  BY <1>0 DEF Goto, IInv, TypeOK
<1>3. th'[w] = r
  BY <1>0, <1>2 DEF IInv, TypeOK
<1> HIDE DEF r
<1>4. Calm(w)
  BY <1>0, <1>1, <1>3 DEF Calm, Busy
<1> QED BY <1>0, <1>1, <1>2, <1>4, OneThread DEF Goto

\* What a notification does to the threads.
LEMMA NotifyFacts ==
    ASSUME NEW f \in [Threads -> ThreadType], NEW g, g \in NotifyOne(f) \/ g = NotifyAll(f)
    PROVE  /\ g \in [Threads -> ThreadType]
           /\ \A t \in Threads : /\ g[t].item = f[t].item /\ g[t].target = f[t].target
                                 /\ g[t].pc = f[t].pc \/ (f[t].pc = "asleep" /\ g[t].pc = "woken")
<1> DEFINE moved == EpochMoved(f)
<1>1. /\ moved \in [Threads -> ThreadType]
      /\ \A t \in Threads : moved[t].pc = f[t].pc /\ moved[t].item = f[t].item /\ moved[t].target = f[t].target
  <2>1. ASSUME NEW t \in Threads
        PROVE  /\ [f[t] EXCEPT !.stale = @ \/ Watching(f[t])] \in ThreadType
               /\ [f[t] EXCEPT !.stale = @ \/ Watching(f[t])].pc = f[t].pc
               /\ [f[t] EXCEPT !.stale = @ \/ Watching(f[t])].item = f[t].item
               /\ [f[t] EXCEPT !.stale = @ \/ Watching(f[t])].target = f[t].target
    <3>1. f[t] \in ThreadType
      OBVIOUS
    <3> DEFINE b == f[t].stale \/ Watching(f[t])
    <3>2. b \in BOOLEAN
      OBVIOUS
    <3>3. [f[t] EXCEPT !.stale = @ \/ Watching(f[t])] = [f[t] EXCEPT !.stale = b]
      BY <3>1 DEF ThreadType
    <3> HIDE DEF b
    <3> QED BY <3>1, <3>2, <3>3 DEF ThreadType
  <2> QED BY <2>1 DEF EpochMoved
<1>2. ASSUME NEW r \in ThreadType
      PROVE  /\ [r EXCEPT !.pc = "woken"] \in ThreadType
             /\ [r EXCEPT !.pc = "woken"].pc = "woken"
             /\ [r EXCEPT !.pc = "woken"].item = r.item
             /\ [r EXCEPT !.pc = "woken"].target = r.target
  BY DEF ThreadType, PcSet
<1>3. CASE g = NotifyAll(f)
  <2> g = [t \in Threads |-> IF f[t].pc = "asleep" THEN [moved[t] EXCEPT !.pc = "woken"] ELSE moved[t]]
    BY <1>3 DEF NotifyAll
  <2> HIDE DEF moved
  <2> QED BY <1>1, <1>2
<1>4. CASE g \in NotifyOne(f)
  <2>1. CASE g = moved
    <3> HIDE DEF moved
    <3> QED BY <2>1, <1>1
  <2>2. CASE \E w \in Workers : f[w].pc = "asleep" /\ g = [moved EXCEPT ![w].pc = "woken"]
    <3>1. PICK w \in Workers : f[w].pc = "asleep" /\ g = [moved EXCEPT ![w].pc = "woken"]
      BY <2>2
    <3> DEFINE r == [moved[w] EXCEPT !.pc = "woken"]
    <3> w \in Threads
      BY DEF Threads
    <3> HIDE DEF moved
    <3>2. g = [moved EXCEPT ![w] = r]
      BY <3>1
    <3>3. r \in ThreadType /\ r.pc = "woken" /\ r.item = f[w].item /\ r.target = f[w].target
      BY <1>1, <1>2
    <3> HIDE DEF r
    <3> QED BY <3>1, <3>2, <3>3, <1>1
  <2> QED BY <1>4, <2>1, <2>2 DEF NotifyOne
<1> QED BY <1>3, <1>4

LEMMA AdmitStep ==
    ASSUME IInv, NEW t \in Threads, NEW x \in Works, NEW q \in Queues, NEW internal \in BOOLEAN,
           Admit(t, x, q, internal),
           t \in Workers => th[t].pc = "run" /\ x = th[t].item,
           t \in Callers => flags.started
    PROVE  IInv' /\ PoolStep
<1> DEFINE r == [th[t] EXCEPT !.pc = "push", !.item = x, !.target = q, !.internal = internal]
<1>0. th[t] \in ThreadType
  BY DEF IInv, TypeOK
<1>1. r \in ThreadType /\ r.pc = "push" /\ r.item = x
  BY <1>0 DEF ThreadType, PcSet
<1>2. th' = [th EXCEPT ![t] = r]
  BY <1>0 DEF Admit, IInv, TypeOK, ThreadType
<1>3. th'[t] = r
  BY <1>2 DEF IInv, TypeOK
<1> HIDE DEF r
<1>4. Calm(t)
  BY <1>1, <1>3 DEF Calm, Busy, Gone, Leaving, Admit, Refused
<1> QED BY <1>1, <1>2, <1>4, OneThread DEF Admit

LEMMA SubmitStep ==
    ASSUME IInv, NEW c \in Callers, NEW x \in Works, NEW q \in Queues, NEW internal \in BOOLEAN,
           Submit(c, x, q, internal)
    PROVE  IInv' /\ PoolStep
<1>1. c \in Threads /\ c \notin Workers
  BY ExecutorAssumption DEF Threads
<1> QED BY <1>1, AdmitStep DEF Submit

LEMMA RescheduleStep ==
    ASSUME IInv, NEW w \in Workers, NEW q \in Queues, Reschedule(w, q)
    PROVE  IInv' /\ PoolStep
<1>1. w \in Threads /\ w \notin Callers
  BY ExecutorAssumption DEF Threads
<1>2. th[w].item \in Works
  BY <1>1 DEF Reschedule, IInv, ThreadInv, Busy
<1> QED BY <1>1, <1>2, AdmitStep DEF Reschedule

LEMMA RefusedStep ==
    ASSUME IInv, NEW w \in Workers, RescheduleRefused(w)
    PROVE  IInv' /\ PoolStep
<1>0. w \in Threads /\ w \notin Callers /\ th[w] \in ThreadType
  BY ExecutorAssumption DEF Threads, IInv, TypeOK
<1> DEFINE r == [th[w] EXCEPT !.pc = "ran"]
<1>1. r \in ThreadType /\ r.pc = "ran" /\ r.item = th[w].item
  BY <1>0 DEF ThreadType, PcSet
<1>2. th' = [th EXCEPT ![w] = r] /\ th'[w] = r
  BY <1>0 DEF RescheduleRefused, IInv, TypeOK
<1> HIDE DEF r
<1>3. Calm(w)
  BY <1>0, <1>1, <1>2 DEF Calm, Busy, Gone, Leaving, RescheduleRefused, IInv, ThreadInv
<1> QED BY <1>0, <1>1, <1>2, <1>3, OneThread DEF RescheduleRefused

\* A thread that is at most woken is calm.
LEMMA Undisturbed ==
    ASSUME IInv, NEW u \in Threads,
           th'[u].item = th[u].item, th'[u].target = th[u].target,
           th'[u].pc = th[u].pc \/ (th[u].pc = "asleep" /\ th'[u].pc = "woken")
    PROVE  Calm(u)
<1>1. CASE th'[u].pc = th[u].pc
  BY <1>1 DEF Calm, IInv, ThreadInv
<1>2. CASE th[u].pc = "asleep" /\ th'[u].pc = "woken"
  <2>1. u \notin Callers
    BY <1>2 DEF IInv, ThreadInv
  <2> QED BY <1>2, <2>1 DEF Calm, Busy, Gone, Leaving
<1> QED BY <1>1, <1>2

LEMMA EnqueueNotifyStep ==
    ASSUME IInv, NEW t \in Threads, EnqueueNotify(t)
    PROVE  IInv' /\ PoolStep
<1> DEFINE r == [th[t] EXCEPT !.pc = IF t \in Workers THEN "ran" ELSE "idle",
                              !.item = IF t \in Workers THEN @ ELSE None,
                              !.internal = FALSE, !.previous = 0, !.target = Injector]
           back == [th EXCEPT ![t].pc = IF t \in Workers THEN "ran" ELSE "idle",
                              ![t].item = IF t \in Workers THEN @ ELSE None,
                              ![t].internal = FALSE, ![t].previous = 0,
                              ![t].target = Injector]
<1>0. th[t] \in ThreadType /\ th \in [Threads -> ThreadType] /\ th[t].pc = "notify"
  BY DEF IInv, TypeOK, EnqueueNotify
<1>1. /\ r \in ThreadType
      /\ r.pc = IF t \in Workers THEN "ran" ELSE "idle"
      /\ t \in Workers => r.item = th[t].item
  <2>1. Injector \in Queues
    BY DEF Queues
  <2> QED BY <1>0, <2>1 DEF ThreadType, PcSet
<1>2. back = [th EXCEPT ![t] = r]
  BY <1>0 DEF ThreadType
<1>3. th' \in IF WakesPeer(t) THEN NotifyOne(back) ELSE {back}
  BY DEF EnqueueNotify
<1> HIDE DEF r, back
<1>4. /\ back \in [Threads -> ThreadType] /\ back[t] = r
      /\ \A u \in Threads : u # t => back[u] = th[u]
  BY <1>0, <1>1, <1>2
<1>5. /\ th' \in [Threads -> ThreadType]
      /\ \A u \in Threads : /\ th'[u].item = back[u].item /\ th'[u].target = back[u].target
                            /\ th'[u].pc = back[u].pc \/ (back[u].pc = "asleep" /\ th'[u].pc = "woken")
  BY <1>3, <1>4, NotifyFacts
<1>6. ASSUME NEW u \in Threads PROVE Calm(u)
  <2>1. CASE u = t
    <3>1. t \in Workers => th'[t].pc = "ran" /\ th'[t].item = th[t].item
      BY <1>1, <1>4, <1>5
    <3>2. t \notin Workers => th'[t].pc = "idle"
      BY <1>1, <1>4, <1>5
    <3>3. th[t].item \in Works
      BY <1>0 DEF IInv, ThreadInv, Busy
    <3>4. t \in Callers => t \notin Workers
      BY ExecutorAssumption
    <3>5. CASE t \in Workers
      BY <2>1, <3>1, <3>3, <3>4, <3>5, <1>0 DEF Calm, Busy, Gone, Leaving
    <3>6. CASE t \notin Workers
      BY <2>1, <3>2, <3>6 DEF Calm, Busy
    <3> QED BY <3>5, <3>6
  <2>2. CASE u # t
    <3>1. th'[u].item = th[u].item /\ th'[u].target = th[u].target
      BY <2>2, <1>4, <1>5
    <3>2. th'[u].pc = th[u].pc \/ (th[u].pc = "asleep" /\ th'[u].pc = "woken")
      BY <2>2, <1>4, <1>5
    <3> QED BY <3>1, <3>2, Undisturbed
  <2> QED BY <2>1, <2>2
<1> QED BY <1>5, <1>6, CalmStep DEF EnqueueNotify

LEMMA LastRunnableStep ==
    ASSUME IInv, NEW w \in Workers, LastRunnable(w)
    PROVE  IInv' /\ PoolStep
<1> DEFINE r  == [th[w] EXCEPT !.pc = "local"]
           on == [th EXCEPT ![w].pc = "local"]
<1>0. /\ w \in Threads /\ w \notin Callers /\ th[w] \in ThreadType
      /\ th \in [Threads -> ThreadType] /\ th[w].pc = "lastRunnable"
  BY ExecutorAssumption DEF Threads, IInv, TypeOK, LastRunnable
<1>1. r \in ThreadType /\ r.pc = "local"
  BY <1>0 DEF ThreadType, PcSet
<1>2. on = [th EXCEPT ![w] = r]
  BY <1>0 DEF ThreadType
<1>3. th' = IF runnable = 0 THEN NotifyAll(on) ELSE on
  BY DEF LastRunnable
<1> HIDE DEF r, on
<1>4. /\ on \in [Threads -> ThreadType] /\ on[w] = r
      /\ \A u \in Threads : u # w => on[u] = th[u]
  BY <1>0, <1>1, <1>2
<1>5. /\ th' \in [Threads -> ThreadType]
      /\ \A u \in Threads : /\ th'[u].item = on[u].item /\ th'[u].target = on[u].target
                            /\ th'[u].pc = on[u].pc \/ (on[u].pc = "asleep" /\ th'[u].pc = "woken")
  <2>1. CASE th' = on
    BY <2>1, <1>4
  <2>2. CASE th' = NotifyAll(on)
    BY <2>2, <1>4, NotifyFacts
  <2> QED BY <2>1, <2>2, <1>3
<1>6. ASSUME NEW u \in Threads, u # w PROVE Calm(u)
  BY <1>6, <1>4, <1>5, Undisturbed
<1>7. Calm(w)
  <2>1. th'[w].pc = "local"
    BY <1>0, <1>1, <1>4, <1>5
  <2> QED BY <2>1, <1>0 DEF Calm, Busy, Gone, Leaving
<1> QED BY <1>5, <1>6, <1>7, CalmStep DEF LastRunnable

\* A worker that holds no item gets a new record.
LEMMA WorkerMoves ==
    ASSUME IInv, UNCHANGED <<flags, queue, runnable, active, closing, history>>,
           NEW w \in Workers, NEW r \in ThreadType, th' = [th EXCEPT ![w] = r],
           th[w].pc \notin Busy, th[w].pc \notin {"exited", "unborn"},
           r.pc \notin Busy, r.pc \notin Gone, r.pc \in Leaving => flags.shutdown
    PROVE  IInv' /\ PoolStep
<1>0. w \in Threads /\ w \notin Callers
  BY ExecutorAssumption DEF Threads
<1>1. th'[w] = r
  BY <1>0 DEF IInv, TypeOK
<1>2. Calm(w)
  BY <1>0, <1>1 DEF Calm, Busy, Gone
<1> QED BY <1>0, <1>2, OneThread

LEMMA ProbeStep ==
    ASSUME IInv, NEW w \in Workers, Probe(w)
    PROVE  IInv' /\ PoolStep
<1> DEFINE p == IF runnable = 0 THEN "epoch" ELSE "steal"
           v == IF runnable = 0 THEN {} ELSE Workers \ {w}
           r == [th[w] EXCEPT !.pc = p, !.victims = v]
<1>0. w \in Threads /\ th[w] \in ThreadType /\ th[w].pc = "probe"
  BY DEF Threads, IInv, TypeOK, Probe
<1>1. p \in {"epoch", "steal"} /\ p \in PcSet /\ v \in SUBSET Workers
  BY DEF PcSet
<1>2. th' = [th EXCEPT ![w] = r]
  BY <1>0 DEF Probe, IInv, TypeOK, ThreadType
<1> HIDE DEF p, v
<1>3. r \in ThreadType /\ r.pc = p
  BY <1>0, <1>1 DEF ThreadType
<1> HIDE DEF r
<1> QED BY <1>0, <1>1, <1>2, <1>3, WorkerMoves DEF Probe, Busy, Gone, Leaving

LEMMA EmptyVictimStep ==
    ASSUME IInv, NEW w \in Workers, NEW v \in Workers, TrySteal(w, v), queue[v] = <<>>
    PROVE  IInv' /\ PoolStep
<1> DEFINE r == [th[w] EXCEPT !.victims = @ \ {v}]
<1>0. w \in Threads /\ th[w] \in ThreadType /\ th[w].pc = "steal"
  BY DEF Threads, IInv, TypeOK, TrySteal
<1>1. th' = [th EXCEPT ![w] = r]
  BY <1>0 DEF TrySteal, IInv, TypeOK, ThreadType
<1>2. r \in ThreadType /\ r.pc = "steal"
  BY <1>0 DEF ThreadType
<1> HIDE DEF r
<1> QED BY <1>0, <1>1, <1>2, WorkerMoves DEF TrySteal, Busy, Gone, Leaving

LEMMA LoadEpochStep ==
    ASSUME IInv, NEW w \in Workers, LoadEpoch(w)
    PROVE  IInv' /\ PoolStep
<1> DEFINE r == [th[w] EXCEPT !.pc = "recheck", !.stale = FALSE, !.woken = FALSE]
<1>0. w \in Threads /\ th[w] \in ThreadType /\ th[w].pc = "epoch"
  BY DEF Threads, IInv, TypeOK, LoadEpoch
<1>1. th' = [th EXCEPT ![w] = r]
  BY <1>0 DEF LoadEpoch, IInv, TypeOK, ThreadType
<1>2. r \in ThreadType /\ r.pc = "recheck"
  BY <1>0 DEF ThreadType, PcSet
<1> HIDE DEF r
<1> QED BY <1>0, <1>1, <1>2, WorkerMoves DEF LoadEpoch, Busy, Gone, Leaving

LEMMA ExitFlagsStep ==
    ASSUME IInv, NEW w \in Workers, ExitFlags(w)
    PROVE  IInv' /\ PoolStep
<1> DEFINE p == IF flags.shutdown THEN "exitRunnable" ELSE Stays(w)
           b == flags.cancelling
           r == [th[w] EXCEPT !.pc = p, !.cancelSeen = b]
<1>0. w \in Threads /\ th[w] \in ThreadType /\ th[w].pc = "exitFlags"
  BY DEF Threads, IInv, TypeOK, ExitFlags
<1>1. /\ p \in {"exitRunnable", "local", "yield"} /\ p \in PcSet /\ b \in BOOLEAN
      /\ p = "exitRunnable" => flags.shutdown
  BY DEF PcSet, Stays, IInv, TypeOK
<1>2. th' = [th EXCEPT ![w] = r]
  BY <1>0 DEF ExitFlags, IInv, TypeOK, ThreadType
<1> HIDE DEF p, b
<1>3. r \in ThreadType /\ r.pc = p
  BY <1>0, <1>1 DEF ThreadType
<1> HIDE DEF r
<1>4. r.pc \notin Busy /\ r.pc \notin Gone /\ (r.pc \in Leaving => flags.shutdown)
  BY <1>1, <1>3 DEF Busy, Gone, Leaving
<1> QED BY <1>0, <1>2, <1>3, <1>4, WorkerMoves DEF ExitFlags, Busy

LEMMA YieldStep ==
    ASSUME IInv, NEW w \in Workers, Yield(w)
    PROVE  IInv' /\ PoolStep
<1> DEFINE n == th[w].yields + 1
           r == IF th[w].yields < IdleYieldLimit
                THEN At([th[w] EXCEPT !.yields = n], "local")
                ELSE [th[w] EXCEPT !.pc = "wait", !.yields = 0]
<1>0. w \in Threads /\ th[w] \in ThreadType /\ th[w].pc = "yield"
  BY DEF Threads, IInv, TypeOK, Yield
<1>1. n \in Nat
  BY <1>0 DEF ThreadType
<1>2. th' = [th EXCEPT ![w] = r]
  BY DEF Yield
<1> HIDE DEF n
<1>3. r \in ThreadType /\ r.pc \in {"local", "wait"}
  <2>1. Injector \in Queues /\ 0 \in Nat /\ {} \in SUBSET Workers
    BY DEF Queues
  <2> QED BY <1>0, <1>1, <2>1 DEF ThreadType, PcSet, At, NewThread
<1> HIDE DEF r
<1>4. r.pc \notin Busy /\ r.pc \notin Gone /\ r.pc \notin Leaving
  BY <1>3 DEF Busy, Gone, Leaving
<1> QED BY <1>0, <1>2, <1>3, <1>4, WorkerMoves DEF Yield, Busy

LEMMA WokenStep ==
    ASSUME IInv, NEW w \in Workers, Woken(w)
    PROVE  IInv' /\ PoolStep
<1> DEFINE r == [th[w] EXCEPT !.pc = "exitFlags", !.woken = TRUE]
<1>0. w \in Threads /\ th[w] \in ThreadType /\ th[w].pc = "woken"
  BY DEF Threads, IInv, TypeOK, Woken
<1>1. th' = [th EXCEPT ![w] = r]
  BY <1>0 DEF Woken, IInv, TypeOK, ThreadType
<1>2. r \in ThreadType /\ r.pc = "exitFlags"
  BY <1>0 DEF ThreadType, PcSet
<1> HIDE DEF r
<1> QED BY <1>0, <1>1, <1>2, WorkerMoves DEF Woken, Busy, Gone, Leaving

\* The steps of an idle worker that only choose where to go on.
LEMMA IdleGoto ==
    ASSUME IInv, NEW w \in Workers,
           \/ StealFails(w) \/ LastActive(w) \/ Recheck(w) \/ Wait(w)
           \/ ExitRunnable(w) \/ ExitActive(w) \/ ExitWoken(w)
    PROVE  IInv' /\ PoolStep
<1>1. CASE StealFails(w)
  BY <1>1, GotoStep DEF StealFails, PcSet, Busy, Gone, Leaving
<1>2. CASE LastActive(w)
  BY <1>2, GotoStep DEF LastActive, PcSet, Busy, Gone, Leaving
<1>3. CASE Recheck(w)
  BY <1>3, GotoStep DEF Recheck, PcSet, Busy, Gone, Leaving
<1>4. CASE Wait(w)
  BY <1>4, GotoStep DEF Wait, PcSet, Busy, Gone, Leaving
<1>5. CASE ExitRunnable(w) \/ ExitActive(w) \/ ExitWoken(w)
  <2> DEFINE a == IF runnable > 0 THEN Stays(w)
                  ELSE IF th[w].cancelSeen THEN Leaves(w) ELSE "exitActive"
             b == IF active = 0 THEN Leaves(w) ELSE Stays(w)
             c == IF runnable = 0 THEN "exited" ELSE "local"
  <2>1. flags.shutdown /\ runnable \in Nat
    BY <1>5 DEF IInv, ThreadInv, TypeOK, Leaving, ExitRunnable, ExitActive, ExitWoken
  <2>2. /\ Stays(w) \in {"local", "yield"}
        /\ Leaves(w) \in {"exitWoken", "exited"}
    BY DEF Stays, Leaves
  <2>3. CASE ExitRunnable(w)
    <3>1. Goto(w, a) /\ th[w].pc = "exitRunnable"
      BY <2>3 DEF ExitRunnable
    <3>2. a \in PcSet /\ a \notin Busy /\ a # "unborn" /\ (a \in Gone => runnable = 0)
      BY <2>1, <2>2 DEF PcSet, Busy, Gone
    <3> HIDE DEF a
    <3> QED BY <2>1, <3>1, <3>2, GotoStep DEF Busy
  <2>4. CASE ExitActive(w)
    <3>1. Goto(w, b) /\ th[w].pc = "exitActive"
      BY <2>4 DEF ExitActive
    <3>2. b \in PcSet /\ b \notin Busy /\ b # "unborn"
      BY <2>2 DEF PcSet, Busy
    <3> HIDE DEF b
    <3> QED BY <2>1, <3>1, <3>2, GotoStep DEF Busy, Gone
  <2>5. CASE ExitWoken(w)
    <3>1. Goto(w, c) /\ th[w].pc = "exitWoken"
      BY <2>5 DEF ExitWoken
    <3>2. c \in PcSet /\ c \notin Busy /\ c # "unborn" /\ (c \in Gone => runnable = 0)
      BY DEF PcSet, Busy, Gone
    <3> HIDE DEF c
    <3> QED BY <2>1, <3>1, <3>2, GotoStep DEF Busy
  <2> QED BY <1>5, <2>3, <2>4, <2>5
<1> QED BY <1>1, <1>2, <1>3, <1>4, <1>5

-----------------------------------------------------------------------------
(* Steps that move items.                                                  *)

LEMMA EnqueuePushStep ==
    ASSUME IInv, NEW t \in Threads, EnqueuePush(t)
    PROVE  IInv' /\ PoolStep
<1> DEFINE x == th[t].item
           q == th[t].target
           r == [th[t] EXCEPT !.pc = "notify", !.previous = runnable]
<1>0. /\ th[t] \in ThreadType /\ th \in [Threads -> ThreadType] /\ th[t].pc = "push"
      /\ queue \in [Queues -> Seq(Works)] /\ Workers \subseteq Threads /\ Callers \subseteq Threads
  BY DEF IInv, TypeOK, EnqueuePush, Threads
<1>1. x \in Works /\ q \in Queues
  BY <1>0 DEF IInv, ThreadInv, Busy, ThreadType
<1>2. r \in ThreadType /\ r.pc = "notify" /\ r.item = x /\ th' = [th EXCEPT ![t] = r]
  <2>1. runnable \in Nat
    BY DEF IInv, TypeOK
  <2>2. th' = [th EXCEPT ![t] = r]
    BY <1>0 DEF EnqueuePush, ThreadType
  <2> QED BY <1>0, <2>1, <2>2 DEF ThreadType, PcSet
<1>3. /\ queue' = [queue EXCEPT ![q] = Append(queue[q], x)]
      /\ runnable' = runnable + 1
      /\ runs' = [runs EXCEPT ![x] = @ + 1]
      /\ late' = IF flags.shutdown /\ t \notin Workers THEN late \cup {x} ELSE late
      /\ UNCHANGED <<flags, active, closing, executed>>
  BY <1>0, <1>1 DEF EnqueuePush
<1>4. Locked(q)
  BY <1>0 DEF Locked
<1> HIDE DEF r
<1>5. /\ th' \in [Threads -> ThreadType] /\ th'[t] = r
      /\ \A u \in Threads : u # t => th'[u] = th[u]
  BY <1>0, <1>2
<1>6. IsFiniteSet(Held(queue, Works)) /\ Slots = Held(queue, Works)
  BY HeldPlaces DEF IInv, CountInv
<1>7. /\ queue' \in [Queues -> Seq(Works)]
      /\ \A Y \in SUBSET Works :
            /\ IsFiniteSet(Held(queue', Y))
            /\ Cardinality(Held(queue', Y)) =
                  IF x \in Y THEN Cardinality(Held(queue, Y)) + 1 ELSE Cardinality(Held(queue, Y))
  <2> DEFINE old == queue[q]
             new == queue'[q]
  <2>1. /\ queue' \in [Queues -> Seq(Works)] /\ \A p \in Queues : p # q => queue'[p] = queue[p]
        /\ new = Append(old, x) /\ old \in Seq(Works)
    BY <1>0, <1>1, <1>3
  <2> HIDE DEF x, q, old, new
  <2>2. /\ Len(new) = Len(old) + 1 /\ new[Len(old) + 1] = x
        /\ \A n \in 1..Len(old) : new[n] = old[n]
    BY <1>1, <2>1
  <2>3. /\ Len(queue'[q]) = Len(queue[q]) + 1 /\ queue'[q][Len(queue[q]) + 1] = x
        /\ \A n \in 1..Len(queue[q]) : queue'[q][n] = queue[q][n]
    BY <2>2 DEF old, new
  <2>4. ASSUME NEW Y \in SUBSET Works
        PROVE  /\ IsFiniteSet(Held(queue', Y))
               /\ Cardinality(Held(queue', Y)) =
                     IF x \in Y THEN Cardinality(Held(queue, Y)) + 1 ELSE Cardinality(Held(queue, Y))
    <3>1. Appended(queue, queue', q, x)
      BY <1>0, <1>1, <2>1, <2>3 DEF Appended
    <3> QED BY <1>6, <3>1, HeldAppend
  <2> QED BY <2>1, <2>4
<1>8. TypeOK'
  <2>1. runnable' \in Nat /\ runs' \in [Works -> Nat] /\ late' \subseteq Works
    BY <1>1, <1>3 DEF IInv, TypeOK
  <2> QED BY <2>1, <1>3, <1>5, <1>7 DEF IInv, TypeOK
<1>9. ThreadInv'
  BY <1>0, <1>1, <1>2, <1>3, <1>5 DEF IInv, ThreadInv, Busy, Leaving
<1>10. \A w \in Workers : /\ Running(w)' <=> Running(w)
                          /\ Running(w) => th'[w].item = th[w].item
  BY <1>0, <1>2, <1>5 DEF Running
<1>11. CountInv'
  <2>1. RunningWorkers' = RunningWorkers
    BY <1>10 DEF RunningWorkers
  <2>2. Slots' = Held(queue', Works)
    BY <1>8, HeldPlaces
  <2>3. Cardinality(Slots') = Cardinality(Slots) + 1 /\ IsFiniteSet(Slots')
    BY <1>1, <1>6, <1>7, <2>2
  <2>4. Cardinality(Slots) \in Nat /\ closing.removed \in Nat
    BY <1>6, FS_CardinalityType DEF IInv, TypeOK
  <2>5. runnable = Cardinality(Slots) + closing.removed
    BY DEF IInv, CountInv
  <2>6. runnable' = Cardinality(Slots') + closing.removed
    BY <1>3, <2>3, <2>4, <2>5
  <2> QED BY <2>1, <2>3, <2>6, <1>3 DEF IInv, CountInv
<1>12. ClearedInv'
  <2>1. \A p \in Queues : Locked(p)' => Locked(p)
    BY <1>2, <1>5 DEF Locked
  <2>2. \A p \in Queues : p # q => queue'[p] = queue[p]
    BY <1>0, <1>3
  <2> QED BY <1>1, <1>3, <1>4, <2>1, <2>2 DEF IInv, ClearedInv
<1>13. WatchedInv'
  <2>1. \A w \in Workers : th[w].pc \notin Gone => th'[w].pc \notin Gone
    BY <1>0, <1>2, <1>5 DEF Gone
  <2>2. x \in late' \/ \E w \in Workers : th'[w].pc \notin Gone
    <3>1. CASE t \in Workers
      BY <3>1, <1>2, <1>5 DEF Gone
    <3>2. CASE t \notin Workers /\ flags.shutdown
      BY <3>2, <1>3
    <3>3. CASE t \notin Workers /\ ~flags.shutdown
      <4>1. t \in Callers
        BY <3>3 DEF Threads
      <4>2. PICK w \in Workers : TRUE
        BY ExecutorAssumption
      <4>3. th'[w] = th[w]
        BY <1>0, <1>5, <3>3
      <4>4. flags.started
        BY <1>0, <4>1 DEF IInv, ThreadInv
      <4>5. th[w].pc \notin Gone
        BY <3>3, <4>4 DEF IInv, ThreadInv, Gone, Leaving
      <4> QED BY <4>3, <4>5
    <3> QED BY <3>1, <3>2, <3>3
  <2>3. ASSUME NEW p \in Queues, NEW n \in DOMAIN queue'[p]
        PROVE  queue'[p][n] = x \/ (n \in DOMAIN queue[p] /\ queue'[p][n] = queue[p][n])
    <3>1. CASE p # q
      BY <1>0, <1>3, <3>1
    <3>2. CASE p = q
      <4> DEFINE old == queue[q]
      <4>1. old \in Seq(Works) /\ queue'[p] = Append(old, x)
        BY <1>0, <1>1, <1>3, <3>2
      <4> HIDE DEF old
      <4>2. /\ DOMAIN queue'[p] = 1..(Len(old) + 1) /\ DOMAIN old = 1..Len(old) /\ Len(old) \in Nat
            /\ queue'[p][Len(old) + 1] = x
            /\ \A m \in 1..Len(old) : queue'[p][m] = old[m]
        BY <4>1, <1>1
      <4>3. n = Len(old) + 1 \/ n \in 1..Len(old)
        BY <4>2
      <4> QED BY <4>2, <4>3, <3>2 DEF old
    <3> QED BY <3>1, <3>2
  <2>4. late \subseteq late'
    BY <1>3
  <2> HIDE DEF x
  <2> QED BY <2>1, <2>2, <2>3, <2>4 DEF IInv, WatchedInv
<1>14. ClosingInv'
  <2>1. AllExited => AllExited'
    BY <1>0, <1>5 DEF AllExited
  <2> QED BY <2>1, <1>3 DEF IInv, ClosingInv
<1>15. Pool!Accept(x)
  <2>1. \A y \in Works : QueuedCount(y)' = IF y = x THEN QueuedCount(y) + 1 ELSE QueuedCount(y)
    <3> TAKE y \in Works
    <3>1. {y} \in SUBSET Works /\ (x \in {y} <=> x = y)
      OBVIOUS
    <3>2. QueuedCount(y)' = Cardinality(Held(queue', {y})) /\ QueuedCount(y) = Cardinality(Held(queue, {y}))
      BY HeldPlaces
    <3> QED BY <3>1, <3>2, <1>7
  <2>2. \A w \in Workers : (IF Running(w) THEN th[w].item ELSE None)' = IF Running(w) THEN th[w].item ELSE None
    BY <1>10
  <2> HIDE DEF x
  <2> QED BY <2>1, <2>2, <1>1, <1>3 DEF Pool!Accept
<1> HIDE DEF x
<1>16. PoolStep
  BY <1>1, <1>15 DEF PoolStep, Pool!Next
<1> QED BY <1>8, <1>9, <1>11, <1>12, <1>13, <1>14, <1>16 DEF IInv

\* A worker takes an item x out of queue q: nothing but one place of x goes.
LEMMA ClaimStep ==
    ASSUME IInv, NEW w \in Workers, NEW q \in Queues, NEW rest, NEW x \in Works,
           Claim(w, q, rest, x), th[w].pc \in {"local", "injector", "steal"}, queue[q] # <<>>,
           queue' \in [Queues -> Seq(Works)],
           \A Y \in SUBSET Works :
              /\ IsFiniteSet(Held(queue', Y))
              /\ Cardinality(Held(queue, Y)) =
                    IF x \in Y THEN Cardinality(Held(queue', Y)) + 1 ELSE Cardinality(Held(queue', Y))
    PROVE  IInv' /\ PoolStep
<1> DEFINE r == [NewThread EXCEPT !.pc = "run", !.item = x]
<1>0. /\ w \in Threads /\ w \notin Callers /\ th \in [Threads -> ThreadType]
      /\ Workers \subseteq Threads /\ Callers \subseteq Threads
      /\ queue \in [Queues -> Seq(Works)]
  BY ExecutorAssumption DEF IInv, TypeOK, Threads
<1>1. /\ queue' = [queue EXCEPT ![q] = rest]
      /\ active' = active + 1
      /\ runnable' = runnable - 1
      /\ th' = [th EXCEPT ![w] = r]
      /\ late' = late \ {x}
      /\ UNCHANGED <<flags, closing, runs, executed>>
  BY DEF Claim
<1>2. r \in ThreadType /\ r.pc = "run" /\ r.item = x
  <2>1. Injector \in Queues /\ 0 \in Nat /\ {} \in SUBSET Workers
    BY DEF Queues
  <2> QED BY <2>1 DEF NewThread, ThreadType, PcSet
<1> HIDE DEF r
<1>3. /\ th' \in [Threads -> ThreadType] /\ th'[w] = r
      /\ \A u \in Threads : u # w => th'[u] = th[u]
  BY <1>0, <1>1, <1>2
<1>4. /\ Slots = Held(queue, Works) /\ IsFiniteSet(Slots)
      /\ runnable = Cardinality(Slots) + closing.removed
  BY HeldPlaces DEF IInv, CountInv
<1>5. /\ IsFiniteSet(Held(queue', Works)) /\ Cardinality(Held(queue', Works)) \in Nat
      /\ Cardinality(Slots) = Cardinality(Held(queue', Works)) + 1
      /\ closing.removed \in Nat
  BY <1>4, FS_CardinalityType DEF IInv, TypeOK
<1>6. runnable' = Cardinality(Held(queue', Works)) + closing.removed /\ runnable' \in Nat
  <2> DEFINE n == Cardinality(Held(queue', Works))
             m == closing.removed
  <2>1. n \in Nat /\ m \in Nat /\ runnable' = runnable - 1 /\ runnable = (n + 1) + m
    BY <1>1, <1>4, <1>5
  <2> HIDE DEF n, m
  <2>2. runnable' = n + m /\ runnable' \in Nat
    BY <2>1
  <2> QED BY <2>2 DEF n, m
<1>7. TypeOK'
  <2>1. active' \in Nat /\ late' \subseteq Works
    BY <1>1 DEF IInv, TypeOK
  <2> QED BY <1>1, <1>3, <1>6, <2>1 DEF IInv, TypeOK
<1>8. ThreadInv'
  BY <1>0, <1>1, <1>2, <1>3 DEF IInv, ThreadInv, Busy, Leaving
<1>9. /\ Running(w)' /\ ~Running(w)
      /\ \A v \in Workers : v # w => (Running(v)' <=> Running(v)) /\ th'[v] = th[v]
  BY <1>0, <1>2, <1>3 DEF Running
<1>10. CountInv'
  <2>1. RunningWorkers' = RunningWorkers \cup {w} /\ w \notin RunningWorkers
    BY <1>9 DEF RunningWorkers
  <2>2. IsFiniteSet(RunningWorkers) /\ active = Cardinality(RunningWorkers)
    BY DEF IInv, CountInv
  <2>3. IsFiniteSet(RunningWorkers') /\ active' = Cardinality(RunningWorkers')
    BY <1>1, <2>1, <2>2, FS_AddElement
  <2>4. Slots' = Held(queue', Works)
    BY <1>7, HeldPlaces
  <2> QED BY <1>1, <1>5, <1>6, <2>3, <2>4 DEF CountInv
<1>11. ClearedInv'
  <2>1. \A p \in Queues : Locked(p)' => Locked(p)
    BY <1>2, <1>3 DEF Locked
  <2>2. \A p \in Queues : p # q => queue'[p] = queue[p]
    BY <1>0, <1>1
  <2> QED BY <1>1, <2>1, <2>2 DEF IInv, ClearedInv
<1>12. WatchedInv'
  <2>1. th'[w].pc \notin Gone
    BY <1>2, <1>3 DEF Gone
  <2> QED BY <2>1 DEF WatchedInv
<1>13. ClosingInv'
  <2>1. ~AllExited
    BY DEF AllExited
  <2> QED BY <1>1, <2>1 DEF IInv, ClosingInv
<1>14. Pool!Take(w, x)
  <2>1. \A y \in Works : /\ QueuedCount(y) = IF y = x THEN QueuedCount(y)' + 1 ELSE QueuedCount(y)'
                         /\ QueuedCount(y)' \in Nat
    <3> TAKE y \in Works
    <3>1. {y} \in SUBSET Works /\ (x \in {y} <=> x = y)
      OBVIOUS
    <3>2. QueuedCount(y)' = Cardinality(Held(queue', {y})) /\ QueuedCount(y) = Cardinality(Held(queue, {y}))
      BY HeldPlaces
    <3>3. QueuedCount(y)' \in Nat
      BY <3>1, <3>2, FS_CardinalityType
    <3> QED BY <3>1, <3>2, <3>3
  <2>2. \A y \in Works : QueuedCount(y)' = IF y = x THEN QueuedCount(y) - 1 ELSE QueuedCount(y)
    BY <2>1
  <2>3. QueuedCount(x) > 0
    BY <2>1
  <2>4. \A v \in Workers : (IF Running(v) THEN th[v].item ELSE None)'
                           = IF v = w THEN x ELSE IF Running(v) THEN th[v].item ELSE None
    BY <1>2, <1>3, <1>9
  <2>5. UNCHANGED executed
    BY <1>1
  <2> HIDE DEF r
  <2> QED BY <2>2, <2>3, <2>4, <2>5, <1>9 DEF Pool!Take
<1>15. PoolStep
  BY <1>14 DEF PoolStep, Pool!Next
<1> QED BY <1>7, <1>8, <1>10, <1>11, <1>12, <1>13, <1>15 DEF IInv

LEMMA TakeBackStep ==
    ASSUME IInv, NEW w \in Workers, TryPopLocal(w)
    PROVE  IInv' /\ PoolStep
<1>0. th[w].pc = "local" /\ w \in Queues /\ queue \in [Queues -> Seq(Works)]
  BY DEF TryPopLocal, Queues, IInv, TypeOK
<1>1. CASE queue[w] = <<>>
  BY <1>0, <1>1, GotoStep DEF TryPopLocal, PcSet, Busy, Gone, Leaving
<1>2. CASE queue[w] # <<>>
  <2>1. Claim(w, w, Front(queue[w]), Last(queue[w]))
    BY <1>2 DEF TryPopLocal
  <2>2. queue' = [queue EXCEPT ![w] = Front(queue[w])]
    BY <2>1 DEF Claim
  <2>3. IsFiniteSet(Held(queue, Works))
    BY HeldPlaces DEF IInv, CountInv
  <2>4. /\ queue' \in [Queues -> Seq(Works)] /\ Last(queue[w]) \in Works
        /\ \A Y \in SUBSET Works :
              /\ IsFiniteSet(Held(queue', Y))
              /\ Cardinality(Held(queue, Y)) =
                    IF Last(queue[w]) \in Y THEN Cardinality(Held(queue', Y)) + 1
                                            ELSE Cardinality(Held(queue', Y))
    BY <1>0, <1>2, <2>2, <2>3, HeldFront
  <2> QED BY <1>0, <1>2, <2>1, <2>4, ClaimStep
<1> QED BY <1>1, <1>2

\* The injector and the thieves take the first item.
LEMMA TakeFrontStep ==
    ASSUME IInv, NEW w \in Workers, NEW q \in Queues, queue[q] # <<>>,
           Claim(w, q, Tail(queue[q]), Head(queue[q])), th[w].pc \in {"local", "injector", "steal"}
    PROVE  IInv' /\ PoolStep
<1>1. queue' = [queue EXCEPT ![q] = Tail(queue[q])] /\ queue \in [Queues -> Seq(Works)]
  BY DEF Claim, IInv, TypeOK
<1>2. IsFiniteSet(Held(queue, Works))
  BY HeldPlaces DEF IInv, CountInv
<1>3. /\ queue' \in [Queues -> Seq(Works)] /\ Head(queue[q]) \in Works
      /\ \A Y \in SUBSET Works :
            /\ IsFiniteSet(Held(queue', Y))
            /\ Cardinality(Held(queue, Y)) =
                  IF Head(queue[q]) \in Y THEN Cardinality(Held(queue', Y)) + 1
                                          ELSE Cardinality(Held(queue', Y))
  BY <1>1, <1>2, HeldTail
<1> QED BY <1>3, ClaimStep

LEMMA TakeInjectorStep ==
    ASSUME IInv, NEW w \in Workers, TryPopInjector(w)
    PROVE  IInv' /\ PoolStep
<1>0. th[w].pc = "injector" /\ Injector \in Queues
  BY DEF TryPopInjector, Queues
<1>1. CASE queue[Injector] = <<>>
  BY <1>0, <1>1, GotoStep DEF TryPopInjector, PcSet, Busy, Gone, Leaving
<1>2. CASE queue[Injector] # <<>>
  BY <1>0, <1>2, TakeFrontStep DEF TryPopInjector
<1> QED BY <1>1, <1>2

LEMMA StealStep ==
    ASSUME IInv, NEW w \in Workers, NEW v \in Workers, TrySteal(w, v)
    PROVE  IInv' /\ PoolStep
<1>1. CASE queue[v] = <<>>
  BY <1>1, EmptyVictimStep
<1>2. CASE queue[v] # <<>>
  BY <1>2, TakeFrontStep DEF TrySteal, StolenFrom, Queues
<1> QED BY <1>1, <1>2

LEMMA FinishStep ==
    ASSUME IInv, NEW w \in Workers, Finish(w)
    PROVE  IInv' /\ PoolStep
<1> DEFINE x == th[w].item
           p == IF active = 1 THEN "lastActive" ELSE "local"
           r == [NewThread EXCEPT !.pc = p]
<1>0. /\ w \in Threads /\ w \notin Callers /\ th \in [Threads -> ThreadType]
      /\ Workers \subseteq Threads /\ Callers \subseteq Threads
      /\ th[w].pc \in {"run", "ran"}
  BY ExecutorAssumption DEF IInv, TypeOK, Threads, Finish
<1>1. x \in Works /\ x # None
  BY <1>0, ExecutorAssumption DEF IInv, ThreadInv, Busy
<1>2. /\ active' = active - 1
      /\ executed' = [executed EXCEPT ![x] = @ + 1]
      /\ th' = [th EXCEPT ![w] = r]
      /\ UNCHANGED <<flags, queue, runnable, closing, runs, late>>
  BY DEF Finish
<1>3. p \in {"lastActive", "local"} /\ p \in PcSet
  BY DEF PcSet
<1> HIDE DEF p
<1>4. r \in ThreadType /\ r.pc = p
  <2>1. Injector \in Queues /\ 0 \in Nat /\ {} \in SUBSET Workers
    BY DEF Queues
  <2> QED BY <1>3, <2>1 DEF NewThread, ThreadType
<1> HIDE DEF r
<1>5. /\ th' \in [Threads -> ThreadType] /\ th'[w] = r
      /\ \A u \in Threads : u # w => th'[u] = th[u]
  BY <1>0, <1>2, <1>4
<1>6. /\ ~Running(w)' /\ Running(w)
      /\ \A v \in Workers : v # w => (Running(v)' <=> Running(v)) /\ th'[v] = th[v]
  BY <1>0, <1>3, <1>4, <1>5 DEF Running
<1>7. IsFiniteSet(RunningWorkers') /\ active' = Cardinality(RunningWorkers') /\ active' \in Nat
  <2>1. RunningWorkers' = RunningWorkers \ {w} /\ w \in RunningWorkers
    BY <1>6 DEF RunningWorkers
  <2>2. IsFiniteSet(RunningWorkers) /\ active = Cardinality(RunningWorkers)
    BY DEF IInv, CountInv
  <2>3. IsFiniteSet(RunningWorkers') /\ Cardinality(RunningWorkers') = Cardinality(RunningWorkers) - 1
    BY <2>1, <2>2, FS_RemoveElement
  <2> QED BY <1>2, <2>2, <2>3, FS_CardinalityType
<1>8. TypeOK'
  <2>1. executed' \in [Works -> Nat]
    BY <1>1, <1>2 DEF IInv, TypeOK
  <2> QED BY <1>2, <1>5, <1>7, <2>1 DEF IInv, TypeOK
<1>9. ThreadInv'
  BY <1>0, <1>2, <1>3, <1>4, <1>5 DEF IInv, ThreadInv, Busy, Leaving
<1>10. CountInv'
  <2>1. Slots' = Slots
    BY <1>2 DEF Slots
  <2> QED BY <2>1, <1>2, <1>7 DEF IInv, CountInv
<1>11. ClearedInv'
  <2>1. \A q \in Queues : Locked(q)' => Locked(q)
    BY <1>3, <1>4, <1>5 DEF Locked
  <2> QED BY <1>2, <2>1 DEF IInv, ClearedInv
<1>12. WatchedInv'
  <2>1. th'[w].pc \notin Gone
    BY <1>3, <1>4, <1>5 DEF Gone
  <2> QED BY <2>1 DEF WatchedInv
<1>13. ClosingInv'
  <2>1. ~AllExited
    BY <1>0 DEF AllExited
  <2> QED BY <1>2, <2>1 DEF IInv, ClosingInv
<1>14. Pool!Finish(w)
  <2>1. \A y \in Works : QueuedCount(y)' = QueuedCount(y)
    BY <1>2 DEF QueuedCount, Slots
  <2>2. \A v \in Workers : (IF Running(v) THEN th[v].item ELSE None)'
                           = IF v = w THEN None ELSE IF Running(v) THEN th[v].item ELSE None
    BY <1>6
  <2>3. (IF Running(w) THEN th[w].item ELSE None) = x
    BY <1>6
  <2> HIDE DEF x
  <2> QED BY <1>1, <1>2, <2>1, <2>2, <2>3 DEF Pool!Finish
<1>15. PoolStep
  BY <1>14 DEF PoolStep, Pool!Next
<1> QED BY <1>8, <1>9, <1>10, <1>11, <1>12, <1>13, <1>15 DEF IInv

-----------------------------------------------------------------------------
(* Start and shutdown.                                                     *)

\* Nothing changes for the pool when queues, threads and executed stay.
LEMMA PoolStutters ==
    ASSUME UNCHANGED <<queue, th, executed>>
    PROVE  PoolStep /\ Slots' = Slots /\ RunningWorkers' = RunningWorkers
<1>1. \A x \in Works : QueuedCount(x)' = QueuedCount(x)
  BY DEF QueuedCount, Slots
<1>2. \A w \in Workers : Running(w)' = Running(w)
  BY DEF Running
<1>3. UNCHANGED Pool!vars
  BY <1>1, <1>2 DEF Pool!vars
<1> QED BY <1>2, <1>3 DEF PoolStep, Slots, RunningWorkers

LEMMA StartThreadStep ==
    ASSUME IInv, NEW w \in Workers, StartThread(w)
    PROVE  IInv' /\ PoolStep
<1> DEFINE b == \A v \in Workers \ {w} : th[v].pc # "unborn"
           r == [th[w] EXCEPT !.pc = "local"]
<1>0. /\ w \in Threads /\ w \notin Callers /\ th \in [Threads -> ThreadType]
      /\ th[w] \in ThreadType /\ th[w].pc = "unborn"
      /\ Workers \subseteq Threads /\ Callers \subseteq Threads
  BY ExecutorAssumption DEF IInv, TypeOK, Threads, StartThread
<1>1. /\ flags' = [flags EXCEPT !.started = b] /\ ~flags.started /\ closing.pc = "none"
      /\ UNCHANGED <<queue, runnable, active, closing, runs, executed, late>>
      /\ b \in BOOLEAN
  BY DEF StartThread, history
<1>2. th' = [th EXCEPT ![w] = r] /\ r \in ThreadType /\ r.pc = "local"
  BY <1>0 DEF StartThread, ThreadType, PcSet
<1>3. b => \A v \in Workers : v # w => th[v].pc # "unborn"
  OBVIOUS
<1> HIDE DEF b, r
<1>4. /\ th' \in [Threads -> ThreadType] /\ th'[w] = r
      /\ \A u \in Threads : u # w => th'[u] = th[u]
  BY <1>0, <1>2
<1>5. /\ flags' \in [accepting : BOOLEAN, shutdown : BOOLEAN, cancelling : BOOLEAN,
                     joined : BOOLEAN, started : BOOLEAN]
      /\ flags'.shutdown = flags.shutdown /\ flags'.cancelling = flags.cancelling
      /\ flags'.joined = flags.joined /\ flags'.started = b
  BY <1>1 DEF IInv, TypeOK
<1>6. TypeOK'
  BY <1>1, <1>4, <1>5 DEF IInv, TypeOK
<1>7. ThreadInv'
  <2>1. \A c \in Callers : th'[c] = th[c] /\ th[c].pc = "idle"
    BY <1>0, <1>1, <1>4 DEF IInv, ThreadInv
  <2>2. \A t \in Threads : th'[t].pc \in Busy => th'[t].item \in Works
    BY <1>2, <1>4 DEF IInv, ThreadInv, Busy
  <2>3. \A v \in Workers : (th'[v].pc \in Leaving => flags'.shutdown) /\ (b => th'[v].pc # "unborn")
    BY <1>0, <1>2, <1>3, <1>4, <1>5 DEF IInv, ThreadInv, Leaving
  <2> QED BY <2>1, <2>2, <2>3, <1>5 DEF ThreadInv
<1>8. \A v \in Workers : /\ Running(v)' <=> Running(v)
                         /\ Running(v) => th'[v].item = th[v].item
  BY <1>0, <1>2, <1>4 DEF Running
<1>9. CountInv'
  <2>1. RunningWorkers' = RunningWorkers /\ Slots' = Slots
    BY <1>1, <1>8 DEF RunningWorkers, Slots
  <2> QED BY <2>1, <1>1 DEF IInv, CountInv
<1>10. ClearedInv'
  BY <1>1, <1>5 DEF IInv, ClearedInv, ClosingInv
<1>11. WatchedInv'
  <2>1. th'[w].pc \notin Gone
    BY <1>2, <1>4 DEF Gone
  <2> QED BY <2>1 DEF WatchedInv
<1>12. ClosingInv'
  BY <1>1, <1>5 DEF IInv, ClosingInv
<1>13. PoolStep
  <2>1. \A x \in Works : QueuedCount(x)' = QueuedCount(x)
    BY <1>1 DEF QueuedCount, Slots
  <2>2. \A v \in Workers : (IF Running(v) THEN th[v].item ELSE None)' = IF Running(v) THEN th[v].item ELSE None
    BY <1>8
  <2>3. UNCHANGED Pool!vars
    BY <2>1, <2>2, <1>1 DEF Pool!vars
  <2> QED BY <2>3 DEF PoolStep
<1> QED BY <1>6, <1>7, <1>9, <1>10, <1>11, <1>12, <1>13 DEF IInv

\* The steps of start and shutdown that touch the flags only.
LEMMA FlagSteps ==
    ASSUME IInv, StartFails \/ (\E mode \in ShutdownModes : Shutdown(mode)) \/ SetCancelling \/ Join
    PROVE  IInv' /\ PoolStep
<1>0. /\ UNCHANGED <<queue, runnable, active, th, runs, executed, late>>
      /\ flags'.started = flags.started /\ (flags.shutdown => flags'.shutdown)
      /\ flags' \in [accepting : BOOLEAN, shutdown : BOOLEAN, cancelling : BOOLEAN,
                     joined : BOOLEAN, started : BOOLEAN]
  <2>1. flags \in [accepting : BOOLEAN, shutdown : BOOLEAN, cancelling : BOOLEAN,
                   joined : BOOLEAN, started : BOOLEAN]
    BY DEF IInv, TypeOK
  <2>2. CASE StartFails
    BY <2>1, <2>2 DEF StartFails, history
  <2>3. CASE \E mode \in ShutdownModes : Shutdown(mode)
    BY <2>1, <2>3 DEF Shutdown, history
  <2>4. CASE SetCancelling
    BY <2>1, <2>4 DEF SetCancelling, history
  <2>5. CASE Join
    BY <2>1, <2>5 DEF Join, history
  <2> QED BY <2>2, <2>3, <2>4, <2>5
<1>1. /\ closing' \in [pc : {"none", "cancel", "clear", "notifyAll", "join", "done"},
                       left : SUBSET Queues, removed : Nat]
      /\ closing'.removed = closing.removed
      /\ ClosingInv'
      /\ flags'.cancelling => \/ closing'.pc = "clear" /\ closing'.left = Queues
                              \/ flags.cancelling /\ closing.pc # "clear"
  <2>1. /\ closing \in [pc : {"none", "cancel", "clear", "notifyAll", "join", "done"},
                        left : SUBSET Queues, removed : Nat]
        /\ flags \in [accepting : BOOLEAN, shutdown : BOOLEAN, cancelling : BOOLEAN,
                      joined : BOOLEAN, started : BOOLEAN]
        /\ 0 \in Nat /\ {} \in SUBSET Queues /\ Queues \in SUBSET Queues
    BY DEF IInv, TypeOK
  <2>2. CASE StartFails
    BY <2>1, <2>2 DEF StartFails, NewClosing, IInv, ClosingInv
  <2>3. CASE \E mode \in ShutdownModes : Shutdown(mode)
    <3>1. PICK mode \in ShutdownModes : Shutdown(mode)
      BY <2>3
    <3> DEFINE p == IF mode = "Cancel" THEN "cancel" ELSE "notifyAll"
    <3>2. /\ closing.pc = "none" /\ closing' = [NewClosing EXCEPT !.pc = p]
          /\ flags' = [flags EXCEPT !.accepting = FALSE, !.shutdown = TRUE]
          /\ p \in {"cancel", "notifyAll"}
      BY <3>1 DEF Shutdown
    <3> HIDE DEF p
    <3> QED BY <2>1, <3>2 DEF NewClosing, IInv, ClosingInv
  <2>4. CASE SetCancelling
    BY <2>1, <2>4 DEF SetCancelling, IInv, ClosingInv
  <2>5. CASE Join
    <3>1. AllExited'
      BY <2>5, <1>0 DEF Join, AllExited
    <3> QED BY <2>1, <2>5, <3>1 DEF Join, IInv, ClosingInv
  <2> QED BY <2>2, <2>3, <2>4, <2>5
<1>2. TypeOK'
  BY <1>0, <1>1 DEF IInv, TypeOK
<1>3. ThreadInv'
  BY <1>0 DEF IInv, ThreadInv
<1>4. PoolStep /\ Slots' = Slots /\ RunningWorkers' = RunningWorkers
  BY <1>0, PoolStutters
<1>5. CountInv'
  BY <1>0, <1>1, <1>4 DEF IInv, CountInv
<1>6. ClearedInv'
  <2>1. \A q \in Queues : Locked(q)' = Locked(q)
    BY <1>0 DEF Locked
  <2> QED BY <2>1, <1>0, <1>1 DEF IInv, ClearedInv
<1>7. WatchedInv'
  BY <1>0 DEF IInv, WatchedInv
<1> QED BY <1>1, <1>2, <1>3, <1>4, <1>5, <1>6, <1>7 DEF IInv

LEMMA ClearQueueStep ==
    ASSUME IInv, NEW q \in Queues, ClearQueue(q)
    PROVE  IInv' /\ PoolStep
<1> DEFINE k == closing.removed + Len(queue[q])
           l == closing.left \ {q}
<1>0. /\ queue \in [Queues -> Seq(Works)] /\ IsFiniteSet(Held(queue, Works)) /\ Slots = Held(queue, Works)
      /\ closing \in [pc : {"none", "cancel", "clear", "notifyAll", "join", "done"},
                      left : SUBSET Queues, removed : Nat]
      /\ closing.pc = "clear" /\ q \in closing.left /\ ~Locked(q)
  BY HeldPlaces DEF IInv, TypeOK, CountInv, ClearQueue, Clearable
<1>1. /\ queue' = [queue EXCEPT ![q] = <<>>]
      /\ closing' = [closing EXCEPT !.left = l, !.removed = k]
      /\ UNCHANGED <<flags, runnable, active, th, runs, executed, late>>
  BY <1>0 DEF ClearQueue, history
<1>2. Len(queue[q]) \in Nat /\ k \in Nat /\ l \in SUBSET Queues
  BY <1>0
<1>3. /\ queue' \in [Queues -> Seq(Works)]
      /\ IsFiniteSet(Held(queue', Works))
      /\ Cardinality(Held(queue, Works)) = Cardinality(Held(queue', Works)) + Len(queue[q])
      /\ \A Y \in SUBSET Works : Cardinality(Held(queue', Y)) \in 0..Cardinality(Held(queue, Y))
  BY <1>0, <1>1, HeldClear
<1>4. /\ closing' \in [pc : {"none", "cancel", "clear", "notifyAll", "join", "done"},
                       left : SUBSET Queues, removed : Nat]
      /\ closing'.pc = "clear" /\ closing'.left = l /\ closing'.removed = k
  <2> HIDE DEF k, l
  <2> QED BY <1>0, <1>1, <1>2
<1>5. TypeOK'
  BY <1>1, <1>3, <1>4 DEF IInv, TypeOK
<1>6. ThreadInv'
  BY <1>1 DEF IInv, ThreadInv
<1>7. CountInv'
  <2>1. RunningWorkers' = RunningWorkers
    BY <1>1 DEF RunningWorkers, Running
  <2>2. Slots' = Held(queue', Works)
    BY <1>5, HeldPlaces
  <2> DEFINE n == Cardinality(Held(queue', Works))
             m == closing.removed
             j == Len(queue[q])
  <2>3. n \in Nat /\ m \in Nat /\ j \in Nat /\ runnable = (n + j) + m
    BY <1>0, <1>2, <1>3, FS_CardinalityType DEF IInv, CountInv
  <2>4. closing'.removed = m + j
    BY <1>4
  <2> HIDE DEF n, m, j, k
  <2>5. runnable = n + closing'.removed
    BY <2>3, <2>4
  <2> QED BY <2>1, <2>2, <2>5, <1>1, <1>3 DEF IInv, CountInv, n
<1>8. ClearedInv'
  <2>1. \A p \in Queues : Locked(p)' = Locked(p)
    BY <1>1 DEF Locked
  <2>2. \A p \in Queues : queue'[p] = IF p = q THEN <<>> ELSE queue[p]
    BY <1>0, <1>1
  <2> QED BY <2>1, <2>2, <1>0, <1>1, <1>4 DEF IInv, ClearedInv
<1>9. WatchedInv'
  <2>1. \A p \in Queues : queue'[p] = IF p = q THEN <<>> ELSE queue[p]
    BY <1>0, <1>1
  <2> QED BY <2>1, <1>1 DEF IInv, WatchedInv
<1>10. ClosingInv'
  BY <1>0, <1>1, <1>4 DEF IInv, ClosingInv
<1>11. Pool!Discard
  <2>1. \A y \in Works : QueuedCount(y)' \in 0..QueuedCount(y)
    <3> TAKE y \in Works
    <3>1. {y} \in SUBSET Works
      OBVIOUS
    <3>2. QueuedCount(y)' = Cardinality(Held(queue', {y})) /\ QueuedCount(y) = Cardinality(Held(queue, {y}))
      BY HeldPlaces
    <3> QED BY <3>1, <3>2, <1>3
  <2>2. \A v \in Workers : (IF Running(v) THEN th[v].item ELSE None)' = IF Running(v) THEN th[v].item ELSE None
    BY <1>1 DEF Running
  <2> QED BY <2>1, <2>2, <1>1 DEF Pool!Discard
<1>12. PoolStep
  BY <1>11 DEF PoolStep, Pool!Next
<1> QED BY <1>5, <1>6, <1>7, <1>8, <1>9, <1>10, <1>12 DEF IInv

LEMMA ClearDoneStep ==
    ASSUME IInv, ClearDone
    PROVE  IInv' /\ PoolStep
<1>0. /\ closing \in [pc : {"none", "cancel", "clear", "notifyAll", "join", "done"},
                      left : SUBSET Queues, removed : Nat]
      /\ closing.pc = "clear" /\ closing.left = {}
      /\ closing' = [NewClosing EXCEPT !.pc = "notifyAll"]
      /\ runnable' = runnable - closing.removed
      /\ UNCHANGED <<flags, queue, active, th, runs, executed, late>>
  BY DEF IInv, TypeOK, ClearDone, Removed, history
<1>1. /\ closing' = [pc |-> "notifyAll", left |-> {}, removed |-> 0]
      /\ closing' \in [pc : {"none", "cancel", "clear", "notifyAll", "join", "done"},
                       left : SUBSET Queues, removed : Nat]
  BY <1>0 DEF NewClosing
<1>2. PoolStep /\ Slots' = Slots /\ RunningWorkers' = RunningWorkers
  BY <1>0, PoolStutters
<1>3. runnable' = Cardinality(Slots) /\ runnable' \in Nat
  BY <1>0, FS_CardinalityType DEF IInv, CountInv
<1>4. TypeOK'
  BY <1>0, <1>1, <1>3 DEF IInv, TypeOK
<1>5. ThreadInv'
  BY <1>0 DEF IInv, ThreadInv
<1>6. CountInv'
  BY <1>0, <1>1, <1>2, <1>3 DEF IInv, CountInv
<1>7. ClearedInv'
  <2>1. \A q \in Queues : Locked(q)' = Locked(q)
    BY <1>0 DEF Locked
  <2> QED BY <2>1, <1>0 DEF IInv, ClearedInv
<1>8. WatchedInv'
  BY <1>0 DEF IInv, WatchedInv
<1>9. ClosingInv'
  BY <1>0, <1>1 DEF IInv, ClosingInv
<1> QED BY <1>2, <1>4, <1>5, <1>6, <1>7, <1>8, <1>9 DEF IInv

LEMMA ShutdownNotifyStep ==
    ASSUME IInv, ShutdownNotify
    PROVE  IInv' /\ PoolStep
<1>1. th \in [Threads -> ThreadType] /\ th' = NotifyAll(th)
  BY DEF IInv, TypeOK, ShutdownNotify
<1>2. /\ th' \in [Threads -> ThreadType]
      /\ \A u \in Threads : /\ th'[u].item = th[u].item /\ th'[u].target = th[u].target
                            /\ th'[u].pc = th[u].pc \/ (th[u].pc = "asleep" /\ th'[u].pc = "woken")
  BY <1>1, NotifyFacts
<1>3. \A u \in Threads : Calm(u)
  BY <1>2, Undisturbed
<1> QED BY <1>2, <1>3, CalmStep DEF ShutdownNotify

-----------------------------------------------------------------------------
(* The invariant and the refinement.                                       *)

LEMMA InitEstablishes == Init => IInv /\ Pool!Init
<1> SUFFICES ASSUME Init PROVE IInv /\ Pool!Init
  OBVIOUS
<1> USE DEF Init
<1>0. Workers \subseteq Threads /\ Callers \subseteq Threads /\ Workers \cap Callers = {}
  BY ExecutorAssumption DEF Threads
<1>1. ASSUME NEW t \in Threads
      PROVE  th[t] \in ThreadType /\ th[t].pc = IF t \in Workers THEN "unborn" ELSE "idle"
  <2> DEFINE p == IF t \in Workers THEN "unborn" ELSE "idle"
  <2>1. p \in PcSet /\ Injector \in Queues /\ 0 \in Nat /\ {} \in SUBSET Workers
    BY DEF PcSet, Queues
  <2>2. th[t] = [NewThread EXCEPT !.pc = p]
    OBVIOUS
  <2> HIDE DEF p
  <2>3. th[t] \in ThreadType /\ th[t].pc = p
    BY <2>1, <2>2 DEF NewThread, ThreadType
  <2> QED BY <2>3 DEF p
<1>2. TypeOK
  <2>1. th \in [Threads -> ThreadType]
    BY <1>1
  <2>2. closing \in [pc : {"none", "cancel", "clear", "notifyAll", "join", "done"},
                     left : SUBSET Queues, removed : Nat]
    BY DEF NewClosing
  <2> QED BY <2>1, <2>2 DEF TypeOK
<1>3. ThreadInv
  BY <1>0, <1>1 DEF ThreadInv, Busy, Leaving
<1>4. \A w \in Workers : ~Running(w)
  BY <1>0, <1>1 DEF Running
<1>5. Slots = {}
  <2>1. \A q \in Queues : DOMAIN queue[q] = {}
    OBVIOUS
  <2> QED BY <2>1 DEF Slots
<1>6. CountInv
  <2>1. RunningWorkers = {}
    BY <1>4 DEF RunningWorkers
  <2> QED BY <2>1, <1>5, FS_EmptySet DEF CountInv, NewClosing
<1>7. ClearedInv /\ ClosingInv
  BY DEF ClearedInv, ClosingInv, NewClosing
<1>8. WatchedInv
  <2>1. \A q \in Queues : DOMAIN queue[q] = {}
    OBVIOUS
  <2> QED BY <2>1 DEF WatchedInv
<1>9. Pool!Init
  <2>1. \A x \in Works : QueuedCount(x) = 0
    BY <1>5, FS_EmptySet DEF QueuedCount
  <2> QED BY <2>1, <1>4 DEF Pool!Init
<1> QED BY <1>2, <1>3, <1>6, <1>7, <1>8, <1>9 DEF IInv

LEMMA NextKeepsInvariant == IInv /\ [Next]_vars => IInv' /\ PoolStep
<1> SUFFICES ASSUME IInv, [Next]_vars PROVE IInv' /\ PoolStep
  OBVIOUS
<1>0. Workers \subseteq Threads /\ Callers \subseteq Threads /\ Injector \in Queues
  BY DEF Threads, Queues
<1>1. ASSUME NEW w \in Workers, StartThread(w) PROVE IInv' /\ PoolStep
  BY <1>1, StartThreadStep
<1>2. ASSUME NEW t \in Threads, EnqueueSteps(t) PROVE IInv' /\ PoolStep
  BY <1>2, EnqueuePushStep, EnqueueNotifyStep DEF EnqueueSteps
<1>3. ASSUME NEW w \in Workers, TakeSteps(w) PROVE IInv' /\ PoolStep
  BY <1>3, TakeBackStep, TakeInjectorStep, ProbeStep, StealStep, IdleGoto DEF TakeSteps
<1>4. ASSUME NEW w \in Workers, RunSteps(w) PROVE IInv' /\ PoolStep
  BY <1>4, RescheduleStep, RefusedStep, FinishStep, LastRunnableStep, IdleGoto DEF RunSteps
<1>5. ASSUME NEW w \in Workers, IdleSteps(w) PROVE IInv' /\ PoolStep
  BY <1>5, LoadEpochStep, ExitFlagsStep, YieldStep, WokenStep, IdleGoto DEF IdleSteps
<1>6. CASE StartFails \/ \E mode \in ShutdownModes : Shutdown(mode)
  BY <1>6, FlagSteps
<1>7. ASSUME NEW c \in Callers, NEW x \in Works,
             \/ Submit(c, x, Injector, FALSE)
             \/ \E q \in Queues : Submit(c, x, q, TRUE)
      PROVE  IInv' /\ PoolStep
  BY <1>0, <1>7, SubmitStep
<1>8. CASE ClosingSteps
  BY <1>8, FlagSteps, ClearQueueStep, ClearDoneStep, ShutdownNotifyStep DEF ClosingSteps
<1>9. CASE UNCHANGED vars
  <2>1. \A t \in Threads : th'[t] = th[t]
    BY <1>9 DEF vars
  <2>2. \A t \in Threads : Calm(t)
    BY <2>1, Undisturbed
  <2>3. th' \in [Threads -> ThreadType]
    BY <1>9 DEF vars, IInv, TypeOK
  <2> QED BY <1>9, <2>2, <2>3, CalmStep DEF vars, history
<1>10. ASSUME NEW w \in Workers, StartThread(w) \/ WorkerSteps(w) PROVE IInv' /\ PoolStep
  BY <1>0, <1>1, <1>2, <1>3, <1>4, <1>5, <1>10 DEF WorkerSteps
<1>11. ASSUME NEW c \in Callers, EnqueueSteps(c) PROVE IInv' /\ PoolStep
  BY <1>0, <1>2, <1>11
<1> QED BY <1>6, <1>7, <1>8, <1>9, <1>10, <1>11 DEF Next

\* The inductive invariant holds in every reachable state.
THEOREM InvariantHolds == Spec => []IInv
BY InitEstablishes, NextKeepsInvariant, PTL DEF Spec

\* Whatever the interleaving of submits, steals, sleeps and the shutdown, the
\* counters never go below zero and every thread's record stays well-formed.
THEOREM TypeCorrect == Spec => []TypeOK
<1>1. IInv => TypeOK
  BY DEF IInv
<1> QED BY <1>1, InvariantHolds, PTL

\* A joined executor that was cancelled holds nothing and counts nothing; one
\* whose workers have all left holds only items that a thread outside pushed
\* after shutdown was requested.
THEOREM ShutdownIsClean == Spec => []ShutdownLeavesOnlyLate
<1>1. IInv => ShutdownLeavesOnlyLate
  <2> SUFFICES ASSUME IInv PROVE ShutdownLeavesOnlyLate
    OBVIOUS
  <2>1. ASSUME flags.cancelling, flags.joined PROVE ~Queued /\ runnable = 0 /\ active = 0
    <3>1. closing.pc = "done" /\ AllExited /\ closing.removed = 0
      BY <2>1 DEF IInv, ClosingInv
    <3>2. \A q \in Queues : queue[q] = <<>>
      BY <2>1, <3>1 DEF IInv, ClearedInv
    <3>3. Slots = {}
      <4>1. \A q \in Queues : DOMAIN queue[q] = {}
        BY <3>2
      <4> QED BY <4>1 DEF Slots
    <3>4. RunningWorkers = {}
      BY <3>1 DEF AllExited, RunningWorkers, Running
    <3> QED BY <3>1, <3>2, <3>3, <3>4, FS_EmptySet DEF Queued, IInv, CountInv
  <2>2. ASSUME flags.shutdown, AllExited, NEW q \in Queues PROVE ToSet(queue[q]) \subseteq late
    <3>1. \A w \in Workers : th[w].pc \in Gone
      BY <2>2 DEF AllExited, Gone
    <3> QED BY <3>1 DEF IInv, WatchedInv, ToSet
  <2> QED BY <2>1, <2>2 DEF ShutdownLeavesOnlyLate
<1> QED BY <1>1, InvariantHolds, PTL

\* Every behaviour of the executor is one of the pool: an accepted item waits
\* once, is taken by one worker and runs once, or is discarded while it waits.
THEOREM ExecutorIsAPool == Spec => ImplementsPool
<1>1. Init => Pool!Init
  BY InitEstablishes
<1>2. IInv /\ [Next]_vars => [Pool!Next]_(Pool!vars)
  BY NextKeepsInvariant DEF PoolStep
<1> QED BY <1>1, <1>2, InvariantHolds, PTL DEF Spec, ImplementsPool, Pool!Spec

=============================================================================
