------------------------- MODULE ApplicationProofs -------------------------
(***************************************************************************)
(* Machine-checked proofs about Application and the BlockingWork in it, for *)
(* every set of callables, every pool size and every set of bots.          *)
(***************************************************************************)
EXTENDS Application, TLAPS

-----------------------------------------------------------------------------
(* The inductive invariant of the blocking work.                           *)

JobType == [state : {"new", "pending", "running", "waiting", "done"},
            kind : Kinds \cup {"none"},
            outcome : {"none", "ok", "failed", "rejected"}]

DbType == [rows : SUBSET Jobs, open : [on : BOOLEAN, rows : SUBSET Jobs], lock : {Nobody, "writer"}]

WorkType ==
    /\ accepting \in BOOLEAN
    /\ posted \in Seq(Jobs)
    /\ job \in [Jobs -> JobType]
    /\ writer \in [queue : Seq(Jobs), current : Jobs \cup {Nobody},
                   pc : {"idle", "task", "inner", "migration", "ended"}, stop : BOOLEAN]
    /\ db \in DbType

\* A callable that waits for a thread is posted once, and has not started.
PostedInv ==
    /\ \A i \in 1..Len(posted) : job[posted[i]].state = "pending"
    /\ \A i, k \in 1..Len(posted) : posted[i] = posted[k] => i = k

WriteKinds == {"write", "nested", "migrate"}

\* A task in the writer's queue has a caller that waits for it, and is there once.
QueueInv ==
    /\ \A i \in 1..Len(writer.queue) :
        job[writer.queue[i]].state = "waiting" /\ job[writer.queue[i]].kind \in WriteKinds
    /\ \A i, k \in 1..Len(writer.queue) : writer.queue[i] = writer.queue[k] => i = k

\* So has the task the writer is at, which is not in the queue any more.
CurrentInv ==
    writer.pc \in {"task", "inner", "migration"} =>
        /\ writer.current \in Jobs
        /\ job[writer.current].state = "waiting"
        /\ job[writer.current].kind \in WriteKinds
        /\ writer.pc = "inner" => job[writer.current].kind = "nested"
        /\ writer.pc = "migration" => job[writer.current].kind = "migrate"
        /\ \A i \in 1..Len(writer.queue) : writer.queue[i] # writer.current

\* A migration keeps the mutex while it runs, nobody else does, and no statement got
\* into its transaction before its own. (A transaction that is open at another time
\* was left by a failed ROLLBACK.)
TransactionInv ==
    /\ db.lock = "writer" <=> writer.pc = "migration"
    /\ writer.pc = "migration" => db.open.on /\ db.open.rows = {}

\* The rows of a callable that is not done are those of a nested write task that
\* is about to run its second one.
RowsInv ==
    \A j \in db.rows : job[j].state = "done" \/ (writer.pc = "inner" /\ writer.current = j)

WorkInv == WorkType /\ PostedInv /\ QueueInv /\ CurrentInv /\ TransactionInv /\ RowsInv /\ OkIsDurable

LEMMA WorkInitInv == WorkInit => WorkInv
<1> SUFFICES ASSUME WorkInit PROVE WorkInv
  OBVIOUS
<1> USE DEF WorkInit
<1>1. WorkType
  BY DEF WorkType, DbType, JobType, NoTransaction, Kinds
<1>2. PostedInv /\ QueueInv /\ CurrentInv
  BY DEF PostedInv, QueueInv, CurrentInv
<1>3. TransactionInv
  BY DEF TransactionInv, NoTransaction, Nobody
<1>4. RowsInv /\ OkIsDurable
  BY DEF RowsInv, OkIsDurable
<1> QED
  BY <1>1, <1>2, <1>3, <1>4 DEF WorkInv

LEMMA WorkStutters ==
    ASSUME WorkInv, UNCHANGED workVars
    PROVE  WorkInv'
BY DEF WorkInv, workVars, WorkType, PostedInv, QueueInv, CurrentInv, TransactionInv, RowsInv,
       OkIsDurable, Stranded

\* A step that gives one job a new record.
LEMMA JobUpdate ==
    ASSUME WorkType, NEW j \in Jobs, NEW r \in JobType, job' = [job EXCEPT ![j] = r]
    PROVE  /\ job' \in [Jobs -> JobType]
           /\ job'[j] = r
           /\ \A k \in Jobs : k # j => job'[k] = job[k]
BY DEF WorkType

\* Complete leaves the kind of the job and the other jobs as they are.
LEMMA CompleteFacts ==
    ASSUME WorkType, NEW j \in Jobs, NEW outcome \in {"ok", "failed"}, Complete(j, outcome)
    PROVE  /\ job' \in [Jobs -> JobType]
           /\ job'[j].state = "done" /\ job'[j].outcome = outcome /\ job'[j].kind = job[j].kind
           /\ \A k \in Jobs : k # j => job'[k] = job[k]
<1> DEFINE r == [job[j] EXCEPT !.state = "done", !.outcome = outcome]
<1>1. job[j] \in JobType
  BY DEF WorkType
<1>2. r \in JobType /\ r.state = "done" /\ r.outcome = outcome /\ r.kind = job[j].kind
  BY <1>1 DEF JobType
<1>3. job' = [job EXCEPT ![j] = r]
  BY <1>1 DEF WorkType, Complete, JobType
<1> HIDE DEF r
<1> QED
  BY <1>2, <1>3, JobUpdate

\* The part of the invariant about jobs that a step leaves alone.
LEMMA OtherJobs ==
    ASSUME WorkInv, NEW j \in Jobs, job[j].state \notin {"pending", "done"},
           \A k \in Jobs : k # j => job'[k] = job[k], UNCHANGED posted
    PROVE  PostedInv'
BY DEF WorkInv, WorkType, PostedInv

-----------------------------------------------------------------------------
(* The executor.                                                           *)

\* A job leaves "new" for the queue of the pool, or is rejected.
LEMMA AsyncRunStep ==
    ASSUME WorkInv, NEW j \in Jobs, NEW kind \in Kinds, async_run(j, kind)
    PROVE  WorkInv'
<1> USE DEF WorkInv
<1>0. job[j].state = "new" /\ UNCHANGED <<accepting, writer, db>> /\ job[j] \in JobType
  BY DEF async_run, WorkType
<1>1. j \notin db.rows /\ \A i \in 1..Len(writer.queue) : writer.queue[i] \in Jobs /\ writer.queue[i] # j
  BY <1>0 DEF RowsInv, CurrentInv, QueueInv, WorkType
<1>2. \A i \in 1..Len(posted) : posted[i] \in Jobs /\ posted[i] # j
  BY <1>0 DEF PostedInv, WorkType
<1>3. writer.pc \in {"task", "inner", "migration"} => writer.current # j
  BY <1>0 DEF CurrentInv
<1>4. CASE accepting
  <2> DEFINE r == [job[j] EXCEPT !.state = "pending", !.kind = kind]
  <2>1. posted' = Append(posted, j) /\ job' = [job EXCEPT ![j] = r]
    BY <1>4, <1>0 DEF async_run, WorkType, JobType
  <2>2. r \in JobType /\ r.state = "pending"
    BY <1>0 DEF JobType
  <2> HIDE DEF r
  <2>3. job' \in [Jobs -> JobType] /\ job'[j] = r /\ \A k \in Jobs : k # j => job'[k] = job[k]
    BY <2>1, <2>2, JobUpdate
  <2>4. WorkType'
    BY <1>0, <2>1, <2>3 DEF WorkType
  <2>5. PostedInv'
    BY <2>1, <2>2, <2>3, <1>2 DEF PostedInv, WorkType
  <2>6. QueueInv' /\ CurrentInv'
    <3>1. QueueInv'
      BY <1>0, <1>1, <2>3 DEF QueueInv
    <3>2. CurrentInv'
      BY <1>0, <1>3, <2>3 DEF CurrentInv
    <3> QED
      BY <3>1, <3>2
  <2>7. TransactionInv' /\ RowsInv'
    BY <1>0, <1>1, <1>3, <2>3 DEF TransactionInv, RowsInv, WorkType, DbType
  <2>8. OkIsDurable'
    <3>1. Stranded' = Stranded /\ db' = db
      BY <1>0 DEF Stranded
    <3> QED
      BY <1>1, <2>2, <2>3, <3>1 DEF OkIsDurable
  <2> QED
    BY <2>4, <2>5, <2>6, <2>7, <2>8
<1>5. CASE ~accepting
  <2> DEFINE r == [state |-> "done", kind |-> kind, outcome |-> "rejected"]
  <2>1. job' = [job EXCEPT ![j] = r] /\ UNCHANGED posted
    BY <1>5 DEF async_run
  <2>2. r \in JobType /\ r.state = "done" /\ r.outcome = "rejected"
    BY DEF JobType
  <2> HIDE DEF r
  <2>3. job' \in [Jobs -> JobType] /\ job'[j] = r /\ \A k \in Jobs : k # j => job'[k] = job[k]
    BY <2>1, <2>2, JobUpdate
  <2>4. WorkType'
    BY <1>0, <2>1, <2>3 DEF WorkType
  <2>5. PostedInv'
    BY <1>2, <2>1, <2>3 DEF PostedInv
  <2>6. QueueInv' /\ CurrentInv'
    <3>1. QueueInv'
      BY <1>0, <1>1, <2>3 DEF QueueInv
    <3>2. CurrentInv'
      BY <1>0, <1>3, <2>3 DEF CurrentInv
    <3> QED
      BY <3>1, <3>2
  <2>7. TransactionInv' /\ RowsInv'
    BY <1>0, <1>1, <1>3, <2>3 DEF TransactionInv, RowsInv, WorkType, DbType
  <2>8. OkIsDurable'
    <3>1. Stranded' = Stranded /\ db' = db
      BY <1>0 DEF Stranded
    <3> QED
      BY <1>1, <2>2, <2>3, <3>1 DEF OkIsDurable
  <2> QED
    BY <2>4, <2>5, <2>6, <2>7, <2>8
<1> QED
  BY <1>4, <1>5

\* A thread of the pool takes the oldest callable: it is posted only once.
LEMMA TakeStep ==
    ASSUME WorkInv, Take
    PROVE  WorkInv'
<1> USE DEF WorkInv
<1> DEFINE h == Head(posted)
           r == [job[h] EXCEPT !.state = "running"]
<1>1. /\ h \in Jobs /\ h = posted[1] /\ Len(posted) \in Nat /\ Len(posted) > 0
      /\ Tail(posted) \in Seq(Jobs) /\ Len(Tail(posted)) = Len(posted) - 1
      /\ \A i \in 1..Len(Tail(posted)) : Tail(posted)[i] = posted[i + 1]
  BY DEF WorkType, Take
<1>2. job[h].state = "pending" /\ job[h] \in JobType
  BY <1>1 DEF PostedInv, WorkType
<1>3. \A i \in 1..Len(Tail(posted)) : Tail(posted)[i] # h
  BY <1>1 DEF PostedInv
<1>4. job' = [job EXCEPT ![h] = r] /\ posted' = Tail(posted)
      /\ UNCHANGED <<accepting, writer, db>>
  BY <1>1, <1>2 DEF Take, WorkType, JobType
<1>5. r \in JobType /\ r.state = "running" /\ r.outcome = job[h].outcome
  BY <1>2 DEF JobType
<1> HIDE DEF h, r
<1>6. job' \in [Jobs -> JobType] /\ job'[h] = r /\ \A k \in Jobs : k # h => job'[k] = job[k]
  BY <1>1, <1>4, <1>5, JobUpdate
<1>7. WorkType'
  BY <1>1, <1>4, <1>6 DEF WorkType
<1>8. PostedInv'
  <2>1. \A i \in 1..Len(posted') : job'[posted'[i]].state = "pending"
    BY <1>1, <1>3, <1>4, <1>6 DEF PostedInv, WorkType
  <2>2. \A i, k \in 1..Len(posted') : posted'[i] = posted'[k] => i = k
    BY <1>1, <1>4 DEF PostedInv
  <2> QED
    BY <2>1, <2>2 DEF PostedInv
<1>9. QueueInv' /\ CurrentInv'
  BY <1>2, <1>4, <1>6 DEF QueueInv, CurrentInv, WorkType
<1>10. TransactionInv' /\ RowsInv' /\ OkIsDurable'
  BY <1>2, <1>4, <1>5, <1>6 DEF TransactionInv, RowsInv, WorkType, DbType, OkIsDurable, Stranded
<1> QED
  BY <1>7, <1>8, <1>9, <1>10

\* What a step of job j may do to the database: all that was written stays, in the
\* database or in a transaction that was left open, and only j may have been added.
Advances(j, written) ==
    /\ db' \in DbType
    /\ db.rows \subseteq db'.rows /\ db'.rows \subseteq db.rows \cup {j}
    /\ IF written THEN j \in db'.rows \/ (db'.open.on /\ j \in db'.open.rows) ELSE db'.rows = db.rows
    /\ Stranded => db'.open.on /\ db.open.rows \subseteq db'.open.rows

LEMMA UnchangedAdvances ==
    ASSUME WorkInv, UNCHANGED db, NEW j
    PROVE  Advances(j, FALSE) /\ db'.lock = db.lock
BY DEF Advances, WorkInv, WorkType, Stranded

\* A statement while no migration runs is durable at once, or part of a transaction
\* that was left open.
LEMMA ExecutedAdvances ==
    ASSUME WorkInv, writer.pc # "migration", NEW j \in Jobs, db' = Executed(db, j)
    PROVE  Advances(j, TRUE) /\ db'.lock = db.lock
<1>1. db \in DbType
  BY DEF WorkInv, WorkType
<1>2. CASE db.open.on
  <2> DEFINE rows == db.open.rows \cup {j}
             open == [db.open EXCEPT !.rows = rows]
  <2>1. open \in [on : BOOLEAN, rows : SUBSET Jobs] /\ open.rows = rows /\ open.on
    BY <1>1, <1>2 DEF DbType
  <2>2. db' = [db EXCEPT !.open = open]
    BY <1>1, <1>2 DEF Executed, DbType
  <2> HIDE DEF open
  <2>3. db'.rows = db.rows /\ db'.open = open /\ db'.lock = db.lock /\ db' \in DbType
    BY <1>1, <2>1, <2>2 DEF DbType
  <2> QED
    BY <2>1, <2>3 DEF Advances
<1>3. CASE ~db.open.on
  <2>1. db' = [db EXCEPT !.rows = db.rows \cup {j}]
    BY <1>1, <1>3 DEF Executed, DbType
  <2>2. db'.rows = db.rows \cup {j} /\ db'.open = db.open /\ db'.lock = db.lock /\ db' \in DbType
    <3> DEFINE rows == db.rows \cup {j}
    <3>1. rows \in SUBSET Jobs /\ db' = [db EXCEPT !.rows = rows]
      BY <1>1, <2>1 DEF DbType
    <3> HIDE DEF rows
    <3>2. db'.rows = rows /\ db'.open = db.open /\ db'.lock = db.lock /\ db' \in DbType
      BY <1>1, <3>1 DEF DbType
    <3> QED
      BY <3>2 DEF rows
  <2> QED
    BY <1>3, <2>2 DEF Advances, Stranded
<1> QED
  BY <1>2, <1>3

\* A callable ends on its thread of the pool, without the writer: what it reports
\* and what is in the database agree.
LEMMA RunEnds ==
    ASSUME WorkInv, NEW j \in Jobs, NEW outcome \in {"ok", "failed"}, NEW written \in BOOLEAN,
           job[j].state = "running", Complete(j, outcome),
           UNCHANGED <<accepting, posted, writer>>, Advances(j, written), db'.lock = db.lock,
           written => outcome = "ok" /\ writer.pc # "migration", ~written => UNCHANGED db,
           outcome = "ok" /\ job[j].kind # "plain" => written
    PROVE  WorkInv'
<1> USE DEF WorkInv
<1>1. /\ job' \in [Jobs -> JobType]
      /\ job'[j].state = "done" /\ job'[j].outcome = outcome /\ job'[j].kind = job[j].kind
      /\ \A k \in Jobs : k # j => job'[k] = job[k]
  BY CompleteFacts
<1>2. /\ j \notin db.rows
      /\ \A i \in 1..Len(writer.queue) : writer.queue[i] \in Jobs /\ writer.queue[i] # j
      /\ writer.pc \in {"task", "inner", "migration"} => writer.current # j
  BY DEF RowsInv, CurrentInv, QueueInv, WorkType
<1>3. WorkType'
  BY <1>1 DEF WorkType, Advances
<1>4. PostedInv'
  BY <1>1, OtherJobs
<1>5. QueueInv' /\ CurrentInv'
  <2>1. QueueInv'
    BY <1>1, <1>2 DEF QueueInv
  <2>2. CurrentInv'
    BY <1>1, <1>2 DEF CurrentInv
  <2> QED
    BY <2>1, <2>2
<1>6. TransactionInv'
  BY DEF TransactionInv
<1>7. RowsInv'
  BY <1>1, <1>2 DEF RowsInv, WorkType, Advances, DbType
<1>8. OkIsDurable'
  <2>1. ASSUME NEW k \in Jobs, k # j, job'[k].state = "done"
        PROVE  /\ job'[k].outcome = "ok" /\ job'[k].kind # "plain" =>
                     k \in db'.rows \/ (Stranded' /\ k \in db'.open.rows)
               /\ job'[k].outcome # "ok" /\ job'[k].kind \in {"migrate", "write", "direct"} => k \notin db'.rows
    BY <1>1, <2>1 DEF OkIsDurable, Advances, Stranded
  <2>2. outcome = "ok" /\ job[j].kind # "plain" => j \in db'.rows \/ (Stranded' /\ j \in db'.open.rows)
    BY DEF Advances, Stranded
  <2>3. outcome # "ok" => j \notin db'.rows
    BY <1>2 DEF Advances
  <2> QED
    BY <1>1, <2>1, <2>2, <2>3 DEF OkIsDurable
<1> QED
  BY <1>3, <1>4, <1>5, <1>6, <1>7, <1>8

LEMMA RunPlainStep ==
    ASSUME WorkInv, NEW j \in Jobs, RunPlain(j)
    PROVE  WorkInv'
<1>1. PICK outcome \in {"ok", "failed"} : Complete(j, outcome)
  BY DEF RunPlain
<1> QED
  BY <1>1, UnchangedAdvances, RunEnds DEF RunPlain

LEMMA RunDirectStep ==
    ASSUME WorkInv, NEW j \in Jobs, RunDirect(j)
    PROVE  WorkInv'
<1>1. CASE db' = Executed(db, j) /\ Complete(j, "ok")
  <2>1. writer.pc # "migration"
    BY DEF RunDirect, MutexFree, Nobody, WorkInv, TransactionInv
  <2> QED
    BY <1>1, <2>1, ExecutedAdvances, RunEnds DEF RunDirect
<1>2. CASE UNCHANGED db /\ Complete(j, "failed")
  BY <1>2, UnchangedAdvances, RunEnds DEF RunDirect
<1> QED
  BY <1>1, <1>2 DEF RunDirect

LEMMA RunWriteTaskStep ==
    ASSUME WorkInv, NEW j \in Jobs, RunWriteTask(j)
    PROVE  WorkInv'
<1> USE DEF WorkInv
<1>0. /\ job[j].state = "running" /\ job[j].kind \in WriteKinds
      /\ UNCHANGED <<accepting, posted, db>> /\ job[j] \in JobType
  BY DEF RunWriteTask, WriteKinds, WorkType
<1>1. CASE writer.stop
  <2>1. Complete(j, "failed") /\ UNCHANGED writer
    BY <1>1 DEF RunWriteTask
  <2>2. Advances(j, FALSE) /\ db'.lock = db.lock
    BY <1>0, UnchangedAdvances
  <2> QED
    BY <1>0, <2>1, <2>2, RunEnds
<1>2. CASE ~writer.stop
  <2> DEFINE r == [job[j] EXCEPT !.state = "waiting"]
             q == Append(writer.queue, j)
  <2>1. job' = [job EXCEPT ![j] = r] /\ writer' = [writer EXCEPT !.queue = q]
    BY <1>0, <1>2 DEF RunWriteTask, WorkType, JobType
  <2>2. r \in JobType /\ r.state = "waiting" /\ r.kind = job[j].kind
    BY <1>0 DEF JobType
  <2> HIDE DEF r
  <2>3. job' \in [Jobs -> JobType] /\ job'[j] = r /\ \A k \in Jobs : k # j => job'[k] = job[k]
    BY <2>1, <2>2, JobUpdate
  <2>4. /\ q \in Seq(Jobs) /\ Len(q) = Len(writer.queue) + 1 /\ q[Len(q)] = j
        /\ \A i \in 1..Len(writer.queue) : q[i] = writer.queue[i]
        /\ writer.queue \in Seq(Jobs) /\ Len(writer.queue) \in Nat
    BY DEF WorkType
  <2> HIDE DEF q
  <2>5. /\ j \notin db.rows
        /\ \A i \in 1..Len(writer.queue) : writer.queue[i] # j
        /\ writer.pc \in {"task", "inner", "migration"} => writer.current # j
    BY <1>0 DEF RowsInv, CurrentInv, QueueInv
  <2>6. writer'.queue = q /\ writer'.pc = writer.pc /\ writer'.current = writer.current
    BY <2>1 DEF WorkType
  <2>7. WorkType'
    BY <1>0, <2>1, <2>3, <2>4 DEF WorkType
  <2>8. PostedInv'
    BY <1>0, <2>3, OtherJobs
  <2>9. QueueInv'
    <3>1. \A i \in 1..Len(q) : i \in 1..Len(writer.queue) \/ i = Len(q)
      BY <2>4
    <3>2. \A i \in 1..Len(q) : job'[q[i]].state = "waiting" /\ job'[q[i]].kind \in WriteKinds
      <4> TAKE i \in 1..Len(q)
      <4>1. CASE i = Len(q)
        BY <1>0, <2>2, <2>3, <2>4, <4>1
      <4>2. CASE i \in 1..Len(writer.queue)
        BY <2>3, <2>4, <2>5, <4>2 DEF QueueInv
      <4> QED
        BY <3>1, <4>1, <4>2
    <3>3. \A i, k \in 1..Len(q) : q[i] = q[k] => i = k
      BY <2>4, <2>5, <3>1 DEF QueueInv
    <3> QED
      BY <2>6, <3>2, <3>3 DEF QueueInv
  <2>10. CurrentInv'
    BY <2>3, <2>4, <2>5, <2>6 DEF CurrentInv
  <2>11. TransactionInv' /\ RowsInv'
    BY <1>0, <2>3, <2>5, <2>6 DEF TransactionInv, RowsInv, WorkType, DbType
  <2>12. OkIsDurable'
    <3>1. Stranded' = Stranded
      BY <1>0, <2>6 DEF Stranded
    <3> QED
      BY <1>0, <2>2, <2>3, <3>1 DEF OkIsDurable
  <2> QED
    BY <2>7, <2>8, <2>9, <2>10, <2>11, <2>12
<1> QED
  BY <1>1, <1>2

-----------------------------------------------------------------------------
(* The writer.                                                             *)

LEMMA WriterTakesStep ==
    ASSUME WorkInv, WriterTakes
    PROVE  WorkInv'
<1> USE DEF WorkInv
<1> DEFINE q == writer.queue
           h == Head(q)
<1>1. /\ h \in Jobs /\ h = q[1] /\ Len(q) \in Nat /\ Len(q) > 0
      /\ Tail(q) \in Seq(Jobs) /\ Len(Tail(q)) = Len(q) - 1
      /\ \A i \in 1..Len(Tail(q)) : Tail(q)[i] = q[i + 1]
  BY DEF WorkType, WriterTakes
<1> DEFINE t == Tail(q)
<1>2. writer' = [writer EXCEPT !.queue = t, !.current = h, !.pc = "task"]
      /\ UNCHANGED <<accepting, posted, job, db>> /\ writer.pc = "idle"
  BY DEF WriterTakes, WorkType
<1>3. /\ \A i \in 1..Len(t) : t[i] # h
      /\ \A i, k \in 1..Len(t) : t[i] = t[k] => i = k
      /\ \A i \in 1..Len(t) : job[t[i]].state = "waiting" /\ job[t[i]].kind \in WriteKinds
      /\ job[h].state = "waiting" /\ job[h].kind \in WriteKinds
  BY <1>1 DEF QueueInv
<1>4. t \in Seq(Jobs) /\ h \in Jobs
  BY <1>1
<1> HIDE DEF q, h, t
<1>5. writer'.queue = t /\ writer'.pc = "task" /\ writer'.current = h
  BY <1>2 DEF WorkType
<1>6. WorkType'
  BY <1>2, <1>4 DEF WorkType
<1>7. PostedInv' /\ OkIsDurable'
  BY <1>2, <1>5 DEF PostedInv, OkIsDurable, Stranded
<1>8. QueueInv' /\ CurrentInv'
  BY <1>2, <1>3, <1>4, <1>5 DEF QueueInv, CurrentInv
<1>9. TransactionInv' /\ RowsInv'
  BY <1>2, <1>5 DEF TransactionInv, RowsInv
<1> QED
  BY <1>6, <1>7, <1>8, <1>9

LEMMA WriterEndsStep ==
    ASSUME WorkInv, WriterEnds
    PROVE  WorkInv'
<1> USE DEF WorkInv
<1>1. writer' = [writer EXCEPT !.pc = "ended"] /\ writer.pc = "idle"
      /\ UNCHANGED <<accepting, posted, job, db>>
  BY DEF WriterEnds
<1>2. writer'.queue = writer.queue /\ writer'.pc = "ended"
  BY <1>1 DEF WorkType
<1>3. WorkType'
  BY <1>1 DEF WorkType
<1>4. PostedInv' /\ OkIsDurable' /\ QueueInv' /\ CurrentInv'
  BY <1>1, <1>2 DEF PostedInv, OkIsDurable, QueueInv, CurrentInv, Stranded
<1>5. TransactionInv' /\ RowsInv'
  BY <1>1, <1>2 DEF TransactionInv, RowsInv
<1> QED
  BY <1>3, <1>4, <1>5

\* The writer sets the promise of the task it is at, with the mutex free again.
LEMMA TaskEnds ==
    ASSUME WorkInv, NEW outcome \in {"ok", "failed"}, TaskDone(outcome),
           writer.pc \in {"task", "inner", "migration"}, UNCHANGED <<accepting, posted>>,
           Advances(writer.current, outcome = "ok"), db'.lock = Nobody
    PROVE  WorkInv'
<1> USE DEF WorkInv
<1> DEFINE j == writer.current
<1>0. j \in Jobs /\ job[j].state = "waiting"
      /\ \A i \in 1..Len(writer.queue) : writer.queue[i] # j
  BY DEF CurrentInv
<1>1. /\ job' \in [Jobs -> JobType]
      /\ job'[j].state = "done" /\ job'[j].outcome = outcome /\ job'[j].kind = job[j].kind
      /\ \A k \in Jobs : k # j => job'[k] = job[k]
  BY <1>0, CompleteFacts DEF TaskDone
<1>2. writer' = [writer EXCEPT !.pc = "idle", !.current = Nobody]
  BY DEF TaskDone
<1>3. writer'.queue = writer.queue /\ writer'.pc = "idle"
  BY <1>2 DEF WorkType
<1>4. WorkType'
  BY <1>1, <1>2 DEF WorkType, Advances
<1>5. PostedInv'
  BY <1>0, <1>1, OtherJobs
<1>6. QueueInv' /\ CurrentInv'
  BY <1>0, <1>1, <1>3 DEF QueueInv, CurrentInv, WorkType
<1>7. TransactionInv'
  BY <1>3 DEF TransactionInv, Nobody
<1>8. j \in db.rows => job[j].kind = "nested"
  BY <1>0 DEF RowsInv, CurrentInv
<1>9. RowsInv'
  <2>1. \A k \in db'.rows : k \in Jobs /\ (k \in db.rows \/ k = j)
    BY DEF Advances, DbType
  <2>2. \A k \in db.rows : job[k].state = "done" \/ k = j
    BY DEF RowsInv
  <2> QED
    BY <1>1, <2>1, <2>2 DEF RowsInv
<1>10. OkIsDurable'
  <2>1. ASSUME NEW k \in Jobs, k # j, job'[k].state = "done"
        PROVE  /\ job'[k].outcome = "ok" /\ job'[k].kind # "plain" =>
                     k \in db'.rows \/ (Stranded' /\ k \in db'.open.rows)
               /\ job'[k].outcome # "ok" /\ job'[k].kind \in {"migrate", "write", "direct"} => k \notin db'.rows
    BY <1>1, <1>3, <2>1 DEF OkIsDurable, Advances, Stranded
  <2>2. outcome = "ok" => j \in db'.rows \/ (Stranded' /\ j \in db'.open.rows)
    BY <1>3 DEF Advances, Stranded
  <2>3. outcome # "ok" /\ job[j].kind # "nested" => j \notin db'.rows
    BY <1>8 DEF Advances
  <2> QED
    BY <1>1, <2>1, <2>2, <2>3 DEF OkIsDurable
<1> QED
  BY <1>4, <1>5, <1>6, <1>7, <1>9, <1>10

\* Only a migration has the mutex.
LEMMA FreeMutex ==
    ASSUME WorkInv, writer.pc # "migration"
    PROVE  db.lock = Nobody
BY DEF WorkInv, TransactionInv, WorkType, DbType

\* A task fails without having touched the database.
LEMMA TaskFails ==
    ASSUME WorkInv, writer.pc \in {"task", "inner"}, UNCHANGED <<accepting, posted, db>>, TaskDone("failed")
    PROVE  WorkInv'
<1>1. Advances(writer.current, FALSE) /\ db'.lock = Nobody
  BY UnchangedAdvances, FreeMutex
<1> QED
  BY <1>1, TaskEnds

LEMMA TaskWrites ==
    ASSUME WorkInv, writer.pc \in {"task", "inner"}, UNCHANGED <<accepting, posted>>,
           db' = Executed(db, writer.current), TaskDone("ok")
    PROVE  WorkInv'
<1>1. writer.current \in Jobs
  BY DEF WorkInv, CurrentInv
<1>2. Advances(writer.current, TRUE) /\ db'.lock = Nobody
  BY <1>1, ExecutedAdvances, FreeMutex
<1> QED
  BY <1>2, TaskEnds

LEMMA WriteStatementStep ==
    ASSUME WorkInv, WriteStatement
    PROVE  WorkInv'
<1> DEFINE j == writer.current
<1>0. /\ writer.pc = "task" /\ UNCHANGED <<accepting, posted>> /\ j \in Jobs
      /\ \/ UNCHANGED db /\ TaskDone("failed")
         \/ /\ db' = Executed(db, j)
            /\ \/ job[j].kind = "write" /\ TaskDone("ok")
               \/ /\ job[j].kind = "nested"
                  /\ writer' = [writer EXCEPT !.pc = "inner"]
                  /\ UNCHANGED job
  BY DEF WriteStatement, WorkInv, CurrentInv, WorkType, is_writer_thread
<1>1. CASE UNCHANGED db /\ TaskDone("failed")
  BY <1>0, <1>1, TaskFails
<1>2. CASE db' = Executed(db, j) /\ TaskDone("ok")
  BY <1>0, <1>2, TaskWrites
<1>3. CASE db' = Executed(db, j) /\ job[j].kind = "nested" /\ writer' = [writer EXCEPT !.pc = "inner"]
           /\ UNCHANGED job
  <2> USE DEF WorkInv
  <2>1. Advances(j, TRUE) /\ db'.lock = Nobody
    BY <1>0, <1>3, ExecutedAdvances, FreeMutex
  <2>2. writer'.queue = writer.queue /\ writer'.pc = "inner" /\ writer'.current = j
    BY <1>3 DEF WorkType
  <2>3. WorkType'
    BY <1>0, <1>3, <2>1 DEF WorkType, Advances
  <2>4. PostedInv' /\ QueueInv' /\ CurrentInv'
    BY <1>0, <1>3, <2>2 DEF PostedInv, QueueInv, CurrentInv
  <2>5. TransactionInv'
    BY <2>1, <2>2 DEF TransactionInv, Nobody
  <2>6. RowsInv'
    BY <1>0, <1>3, <2>1, <2>2 DEF RowsInv, Advances
  <2>7. OkIsDurable'
    <3>1. job[j].state = "waiting"
      BY <1>0 DEF CurrentInv
    <3> QED
      BY <1>0, <1>3, <2>1, <2>2, <3>1 DEF OkIsDurable, Advances, Stranded
  <2> QED
    BY <2>3, <2>4, <2>5, <2>6, <2>7
<1> QED
  BY <1>0, <1>1, <1>2, <1>3

LEMMA InnerTaskStep ==
    ASSUME WorkInv, InnerTask
    PROVE  WorkInv'
BY TaskFails, TaskWrites DEF InnerTask

LEMMA MigrationBeginsStep ==
    ASSUME WorkInv, MigrationBegins
    PROVE  WorkInv'
<1> DEFINE j == writer.current
<1>0. /\ writer.pc = "task" /\ UNCHANGED <<accepting, posted>> /\ job[j].kind = "migrate" /\ j \in Jobs
  BY DEF MigrationBegins, WorkInv, CurrentInv
<1>1. CASE UNCHANGED db /\ TaskDone("failed")
  BY <1>0, <1>1, TaskFails
<1>2. CASE /\ ~db.open.on
           /\ db' = [db EXCEPT !.open = [on |-> TRUE, rows |-> {}], !.lock = "writer"]
           /\ writer' = [writer EXCEPT !.pc = "migration"]
           /\ UNCHANGED job
  <2> USE DEF WorkInv
  <2>1. db'.rows = db.rows /\ db'.open = [on |-> TRUE, rows |-> {}] /\ db'.lock = "writer" /\ db' \in DbType
    BY <1>2 DEF WorkType, DbType
  <2>2. writer'.queue = writer.queue /\ writer'.pc = "migration" /\ writer'.current = j
    BY <1>2 DEF WorkType
  <2>3. WorkType'
    BY <1>0, <1>2, <2>1 DEF WorkType
  <2>4. PostedInv' /\ QueueInv' /\ CurrentInv'
    BY <1>0, <1>2, <2>2 DEF PostedInv, QueueInv, CurrentInv
  <2>5. TransactionInv'
    BY <2>1, <2>2 DEF TransactionInv
  <2>6. RowsInv' /\ OkIsDurable'
    BY <1>0, <1>2, <2>1, <2>2 DEF RowsInv, OkIsDurable, Stranded
  <2> QED
    BY <2>3, <2>4, <2>5, <2>6
<1> QED
  BY <1>1, <1>2 DEF MigrationBegins

\* The transaction holds the statement of the migration and nothing else.
LEMMA MigrationEndsStep ==
    ASSUME WorkInv, MigrationEnds
    PROVE  WorkInv'
<1> DEFINE j == writer.current
           done == Executed(db, j)
           rows == db.open.rows \cup {j}
           open == [db.open EXCEPT !.rows = rows]
<1>0. /\ writer.pc = "migration" /\ UNCHANGED <<accepting, posted>>
      /\ j \in Jobs /\ db \in DbType
  BY DEF MigrationEnds, WorkInv, CurrentInv, WorkType
<1>1. db.open.on /\ db.open.rows = {} /\ ~Stranded
  BY <1>0 DEF WorkInv, TransactionInv, Stranded
<1>2. open \in [on : BOOLEAN, rows : SUBSET Jobs] /\ open.rows = {j} /\ done = [db EXCEPT !.open = open]
  BY <1>0, <1>1 DEF Executed, DbType
<1> HIDE DEF open, done
<1>3. done \in DbType /\ done.rows = db.rows /\ done.open.rows = {j}
  BY <1>0, <1>2 DEF DbType
<1>4. CASE /\ db' = [rows |-> done.rows \cup done.open.rows, open |-> NoTransaction, lock |-> Nobody]
           /\ TaskDone("ok")
  <2>1. db' \in DbType /\ db'.rows = db.rows \cup {j} /\ db'.lock = Nobody
    BY <1>0, <1>3, <1>4 DEF DbType, NoTransaction
  <2>2. Advances(j, TRUE)
    BY <1>1, <2>1 DEF Advances
  <2> QED
    BY <1>0, <1>4, <2>1, <2>2, TaskEnds
<1>5. CASE db' = [db EXCEPT !.open = NoTransaction, !.lock = Nobody] /\ TaskDone("failed")
  <2>1. db' \in DbType /\ db'.rows = db.rows /\ db'.lock = Nobody
    BY <1>0, <1>5 DEF DbType, NoTransaction
  <2>2. Advances(j, FALSE)
    BY <1>1, <2>1 DEF Advances
  <2> QED
    BY <1>0, <1>5, <2>1, <2>2, TaskEnds
<1>6. ASSUME NEW d \in {db, done}, db' = [d EXCEPT !.lock = Nobody], TaskDone("failed")
      PROVE  WorkInv'
  <2>1. db' \in DbType /\ db'.rows = db.rows /\ db'.lock = Nobody
    BY <1>0, <1>3, <1>6 DEF DbType
  <2>2. Advances(j, FALSE)
    BY <1>1, <2>1 DEF Advances
  <2> QED
    BY <1>0, <1>6, <2>1, <2>2, TaskEnds
<1> QED
  BY <1>4, <1>5, <1>6 DEF MigrationEnds, done

-----------------------------------------------------------------------------
(* A step of the pool or of the writer.                                    *)

PoolStep == Take \/ Writer \/ \E j \in Jobs : Run(j)

LEMMA PoolStepInv ==
    ASSUME WorkInv, PoolStep
    PROVE  WorkInv'
BY TakeStep, RunPlainStep, RunDirectStep, RunWriteTaskStep, WriterTakesStep, WriterEndsStep,
   WriteStatementStep, InnerTaskStep, MigrationBeginsStep, MigrationEndsStep
   DEF PoolStep, Writer, Run

\* Completing a job takes it out of InFlight.
LEMMA CompleteInFlight ==
    ASSUME WorkType, NEW j \in Jobs, NEW outcome \in {"ok", "failed"}, Complete(j, outcome)
    PROVE  InFlight' \subseteq InFlight
<1>1. job'[j].state = "done" /\ \A k \in Jobs : k # j => job'[k] = job[k]
  BY CompleteFacts
<1> QED
  BY <1>1 DEF InFlight

\* Neither the pool nor the writer puts a callable in flight.
LEMMA PoolStepDrains ==
    ASSUME WorkInv, PoolStep
    PROVE  InFlight' \subseteq InFlight /\ UNCHANGED accepting
<1>0. WorkType
  BY DEF WorkInv
<1>1. CASE Take
  <2> DEFINE h == Head(posted)
  <2>0. posted \in Seq(Jobs) /\ posted # <<>>
    BY <1>0, <1>1 DEF Take, WorkType
  <2>1. h \in Jobs /\ job[h].state = "pending"
    <3>1. h \in Jobs /\ h = posted[1] /\ 1 \in 1..Len(posted)
      BY <2>0
    <3> QED
      BY <3>1 DEF WorkInv, PostedInv
  <2>2. \A k \in Jobs : k # h => job'[k] = job[k]
    BY <1>1, <2>1 DEF Take, WorkInv, WorkType
  <2>3. h \in InFlight
    BY <2>1 DEF InFlight
  <2> QED
    BY <1>1, <2>2, <2>3 DEF InFlight, Take
<1>2. ASSUME NEW j \in Jobs, Run(j)
      PROVE  InFlight' \subseteq InFlight /\ UNCHANGED accepting
  <2>1. CASE \E outcome \in {"ok", "failed"} : Complete(j, outcome)
    BY <1>0, <1>2, <2>1, CompleteInFlight DEF Run, RunPlain, RunDirect, RunWriteTask
  <2>2. CASE RunWriteTask(j) /\ job' = [job EXCEPT ![j].state = "waiting"]
    <3>1. j \in InFlight
      BY <2>2 DEF RunWriteTask, InFlight
    <3>2. \A k \in Jobs : k # j => job'[k] = job[k]
      BY <2>2 DEF WorkInv, WorkType
    <3> QED
      BY <2>2, <3>1, <3>2 DEF InFlight, RunWriteTask
  <2> QED
    BY <1>2, <2>1, <2>2 DEF Run, RunPlain, RunDirect, RunWriteTask
<1>3. CASE Writer
  <2>1. CASE UNCHANGED job
    BY <1>3, <2>1 DEF Writer, WriterTakes, WriterEnds, WriteStatement, InnerTask, MigrationBegins,
                      MigrationEnds, InFlight
  <2>2. CASE /\ writer.pc \in {"task", "inner", "migration"}
             /\ \E outcome \in {"ok", "failed"} : Complete(writer.current, outcome)
    <3>1. writer.current \in Jobs
      BY <2>2 DEF WorkInv, CurrentInv
    <3>2. InFlight' \subseteq InFlight
      BY <1>0, <2>2, <3>1, CompleteInFlight
    <3>3. UNCHANGED accepting
      BY <1>3 DEF Writer, WriterTakes, WriterEnds, WriteStatement, InnerTask, MigrationBegins,
                  MigrationEnds
    <3> QED
      BY <3>2, <3>3
  <2> QED
    BY <1>3, <2>1, <2>2 DEF Writer, WriterTakes, WriterEnds, WriteStatement, InnerTask,
                            MigrationBegins, MigrationEnds, TaskDone
<1> QED
  BY <1>1, <1>2, <1>3 DEF PoolStep

-----------------------------------------------------------------------------
(* The inductive invariant of the process.                                 *)

Live(b) == bots[b].state \notin {"configured", "failed"}

AppType ==
    /\ TypeOK
    /\ ui \in {"cli", "tui"}
    /\ refresh \in [pc : {"none", "polling", "ended"}, running : BOOLEAN]
    /\ runtime \in {"up", "down"}

\* Where main, the refresh thread and the shutdown callback are at the same time:
\* the command line never meets a callback that somebody else started, and main is
\* left only after a complete callback or, with no bot, without any callback.
PhaseInv ==
    /\ main = "starting" => shutdown = "none" /\ refresh.pc = "none"
    /\ ui = "cli" => refresh.pc = "none"
    /\ main \in {"wait", "tested", "blocked"} => ui = "cli" /\ shutdown = "none"
    /\ main = "ui" /\ ui = "cli" => shutdown = "none"
    /\ shutdown = "complete" => BotThreads = {}
    /\ main \in {"leaving", "unwinding", "over"} =>
        \/ shutdown = "complete"
        \/ shutdown = "none" /\ refresh.pc = "none" /\ \A b \in Bots : bots[b].state = "failed"

\* Nothing is in flight once the pool was joined, and nothing gets there again.
DrainInv ==
    /\ shutdown \notin {"none", "closing"} => ~accepting
    /\ shutdown \in {"retiring", "stopping", "awaiting", "complete"} => InFlight = {}
    /\ InFlight # {} => \E b \in Bots : Live(b)
    /\ CallableHasItsCode

AppInv == AppType /\ PhaseInv /\ DrainInv
IInv == WorkInv /\ AppInv

LEMMA InitInv == Init => IInv
<1> SUFFICES ASSUME Init PROVE IInv
  OBVIOUS
<1> USE DEF Init, AppInit
<1>1. WorkInv
  BY WorkInitInv
<1>2. InFlight = {}
  BY DEF WorkInit, InFlight
<1>3. AppType
  BY DEF AppType, TypeOK
<1>4. PhaseInv /\ DrainInv
  BY <1>2 DEF PhaseInv, DrainInv, CallableHasItsCode
<1> QED
  BY <1>1, <1>3, <1>4 DEF IInv, AppInv

\* A step that lets callables end only.
LEMMA DrainStep ==
    ASSUME DrainInv, InFlight' \subseteq InFlight, UNCHANGED <<accepting, appVars>>
    PROVE  DrainInv'
<1>1. InFlight = {} => InFlight' = {}
  OBVIOUS
<1>2. UNCHANGED <<shutdown, runtime, bots>>
  BY DEF appVars
<1>3. \A b \in Bots : Live(b) <=> Live(b)'
  BY <1>2 DEF Live
<1> QED
  BY <1>1, <1>2, <1>3 DEF DrainInv, CallableHasItsCode

LEMMA AppStutters ==
    ASSUME AppType, PhaseInv, UNCHANGED appVars
    PROVE  AppType' /\ PhaseInv'
BY DEF appVars, AppType, TypeOK, PhaseInv, BotThreads

LEMMA SubmitStep ==
    ASSUME IInv, NEW j \in Jobs, Submit(j)
    PROVE  IInv'
<1>1. PICK kind \in Kinds : async_run(j, kind)
  BY DEF Submit
<1>2. WorkInv'
  BY <1>1, AsyncRunStep DEF IInv
<1>3. AppType' /\ PhaseInv'
  BY AppStutters DEF IInv, AppInv, Submit
<1>4. DrainInv'
  <2>1. UNCHANGED appVars /\ UNCHANGED accepting
    BY <1>1 DEF Submit, async_run
  <2>2. CASE ~accepting
    <3>1. job'[j].state = "done" /\ \A k \in Jobs : k # j => job'[k] = job[k]
      BY <1>1, <2>2 DEF async_run, IInv, WorkInv, WorkType
    <3>2. InFlight' \subseteq InFlight
      BY <3>1 DEF InFlight
    <3> QED
      BY <2>1, <3>2, DrainStep DEF IInv, AppInv
  <2>3. CASE accepting
    <3>1. shutdown \in {"none", "closing"} /\ runtime # "down" /\ \E b \in Bots : Live(b)
      BY <2>3 DEF IInv, AppInv, DrainInv, Submit, Live
    <3>2. \E b \in Bots : Live(b)'
      BY <2>1, <3>1 DEF Live, appVars
    <3> QED
      BY <2>1, <3>1, <3>2 DEF DrainInv, CallableHasItsCode, appVars
  <2> QED
    BY <2>2, <2>3
<1> QED
  BY <1>2, <1>3, <1>4 DEF IInv, AppInv

LEMMA WorkStep ==
    ASSUME IInv, Work
    PROVE  IInv'
<1>1. WorkInv' /\ InFlight' \subseteq InFlight /\ UNCHANGED accepting
  BY PoolStepInv, PoolStepDrains DEF Work, PoolStep, IInv
<1>2. AppType' /\ PhaseInv'
  BY AppStutters DEF IInv, AppInv, Work
<1>3. DrainInv'
  BY <1>1, DrainStep DEF IInv, AppInv, Work
<1> QED
  BY <1>1, <1>2, <1>3 DEF IInv, AppInv

-----------------------------------------------------------------------------
(* The steps of main and of the threads around it leave the work alone.    *)

\* A step that changes neither the shutdown's progress, nor the runtime, nor a bot's
\* being live, keeps DrainInv.
LEMMA DrainKept ==
    ASSUME DrainInv, UNCHANGED <<job, accepting, runtime>>,
           \/ UNCHANGED shutdown
           \/ shutdown = "none" /\ shutdown' = "closing"
           \/ shutdown = "retiring" /\ shutdown' = "stopping"
           \/ shutdown = "stopping" /\ shutdown' = "awaiting"
           \/ shutdown = "awaiting" /\ shutdown' = "complete",
           \A b \in Bots : Live(b) => Live(b)'
    PROVE  DrainInv'
<1>1. InFlight' = InFlight
  BY DEF InFlight
<1> QED
  BY <1>1 DEF DrainInv, CallableHasItsCode

LEMMA StartBotStep ==
    ASSUME IInv, NEW b \in Bots, StartBot(b)
    PROVE  IInv'
<1> USE DEF IInv, AppInv
<1>1. /\ main = "starting" /\ bots[b].state = "configured"
      /\ UNCHANGED <<ui, stop, monitor, main, refresh, shutdown, runtime, workVars>>
  BY DEF StartBot
<1>2. WorkInv'
  BY <1>1, WorkStutters
<1>3. PICK r \in [state : {"failed", "running"},
                  transport : {"none", "Onebot11WebSocket", "Onebot11HTTP", "TelegramHTTP"}] :
          bots' = [bots EXCEPT ![b] = r]
  <2>1. CASE bots' = [bots EXCEPT ![b].state = "failed"]
    <3> DEFINE r == [bots[b] EXCEPT !.state = "failed"]
    <3>1. bots' = [bots EXCEPT ![b] = r]
      BY <2>1 DEF AppType, TypeOK
    <3>2. r \in [state : {"failed", "running"},
                 transport : {"none", "Onebot11WebSocket", "Onebot11HTTP", "TelegramHTTP"}]
      BY DEF AppType, TypeOK
    <3> QED
      BY <3>1, <3>2
  <2>2. CASE bots' # [bots EXCEPT ![b].state = "failed"]
    <3> DEFINE t == get_connection_type(BotConfigs[b].connection, BotConfigs[b].type)
    <3>1. bots' = [bots EXCEPT ![b] = [state |-> "running", transport |-> t]] /\ setup_bot(b)
          /\ create_bot(BotConfigs[b].type)
      BY <2>2 DEF StartBot
    <3>2. t \in {"Onebot11WebSocket", "Onebot11HTTP", "TelegramHTTP"}
      BY <3>1 DEF setup_bot, Makes, create_bot
    <3> HIDE DEF t
    <3> QED
      BY <3>1, <3>2
  <2> QED
    BY <2>1, <2>2
<1>4. AppType'
  BY <1>1, <1>3 DEF AppType, TypeOK
<1>5. PhaseInv'
  BY <1>1 DEF PhaseInv
<1>6. \A c \in Bots : Live(c) => Live(c)'
  BY <1>1, <1>3 DEF Live, AppType, TypeOK
<1>7. DrainInv'
  BY <1>1, <1>6, DrainKept DEF workVars
<1> QED
  BY <1>2, <1>4, <1>5, <1>7

LEMMA StartedStep ==
    ASSUME IInv, Started
    PROVE  IInv'
<1> USE DEF IInv, AppInv
<1>1. /\ main = "starting" /\ UNCHANGED <<ui, stop, monitor, shutdown, bots, workVars>>
      /\ shutdown = "none" /\ refresh.pc = "none"
  BY DEF Started, PhaseInv
<1>2. WorkInv'
  BY <1>1, WorkStutters
<1>3. InFlight' = InFlight /\ accepting' = accepting
  BY <1>1 DEF workVars, InFlight
<1>4. CASE /\ \A b \in Bots : bots[b].state = "failed"
           /\ main' = "leaving" /\ runtime' = "down" /\ UNCHANGED refresh
  <2>1. AppType' /\ PhaseInv'
    BY <1>1, <1>4 DEF AppType, TypeOK, PhaseInv, BotThreads
  <2>2. InFlight = {}
    BY <1>4 DEF DrainInv, Live
  <2>3. DrainInv'
    BY <1>1, <1>3, <2>2 DEF DrainInv, CallableHasItsCode
  <2> QED
    BY <1>2, <2>1, <2>3
<1>5. CASE /\ main' = "ui" /\ UNCHANGED runtime
           /\ refresh' = [refresh EXCEPT !.pc = IF ui = "tui" THEN "polling" ELSE "none"]
  <2>1. refresh'.pc = (IF ui = "tui" THEN "polling" ELSE "none")
    BY <1>5 DEF AppType
  <2>2. AppType'
    <3> DEFINE p == IF ui = "tui" THEN "polling" ELSE "none"
    <3>1. p \in {"polling", "none"} /\ refresh' = [refresh EXCEPT !.pc = p]
      BY <1>5
    <3> HIDE DEF p
    <3> QED
      BY <1>1, <1>5, <3>1 DEF AppType, TypeOK
  <2>3. PhaseInv'
    BY <1>1, <1>5, <2>1 DEF PhaseInv, BotThreads, AppType
  <2>4. \A c \in Bots : Live(c) => Live(c)'
    BY <1>1 DEF Live
  <2>5. DrainInv'
    BY <1>1, <1>5, <2>4, DrainKept DEF workVars
  <2> QED
    BY <1>2, <2>2, <2>3, <2>5
<1> QED
  BY <1>4, <1>5 DEF Started

LEMMA BotEndsStep ==
    ASSUME IInv, NEW b \in Bots, BotEnds(b)
    PROVE  IInv'
<1> USE DEF IInv, AppInv
<1>1. /\ bots[b].state \in {"running", "stopping"}
      /\ bots' = [bots EXCEPT ![b].state = "finished"]
      /\ UNCHANGED <<ui, stop, monitor, main, refresh, shutdown, runtime, workVars>>
  BY DEF BotEnds
<1>2. WorkInv'
  BY <1>1, WorkStutters
<1>3. /\ bots' \in [Bots -> [state : {"configured", "failed", "running", "stopping", "finished"},
                  transport : {"none", "Onebot11WebSocket", "Onebot11HTTP", "TelegramHTTP"}]]
      /\ bots'[b].state = "finished"
      /\ \A c \in Bots : c # b => bots'[c] = bots[c]
  <2> DEFINE r == [bots[b] EXCEPT !.state = "finished"]
  <2>1. bots' = [bots EXCEPT ![b] = r]
    BY <1>1 DEF AppType, TypeOK
  <2>2. r.state = "finished"
        /\ r \in [state : {"configured", "failed", "running", "stopping", "finished"},
                  transport : {"none", "Onebot11WebSocket", "Onebot11HTTP", "TelegramHTTP"}]
    BY DEF AppType, TypeOK
  <2> HIDE DEF r
  <2> QED
    BY <2>1, <2>2 DEF AppType, TypeOK
<1>4. AppType'
  BY <1>1, <1>3 DEF AppType, TypeOK
<1>5. BotThreads' \subseteq BotThreads
  BY <1>3 DEF BotThreads
<1>6. PhaseInv'
  BY <1>1, <1>3, <1>5 DEF PhaseInv
<1>7. \A c \in Bots : Live(c) => Live(c)'
  BY <1>3 DEF Live
<1>8. DrainInv'
  BY <1>1, <1>7, DrainKept DEF workVars
<1> QED
  BY <1>2, <1>4, <1>6, <1>8

\* A step of main, of the refresh thread, of the monitor or of a user: it changes
\* neither the work, nor the runtime, nor a bot.
LEMMA ControlStep ==
    ASSUME IInv,
           \/ SignalArrives \/ MonitorNotifies \/ ExitCommand \/ InputEnds \/ TestStop \/ Block
           \/ TuiExit \/ RefreshStartsShutdown \/ RefreshEnds \/ LoopEnds \/ TuiJoins
           \/ CallbackComplete \/ Over \/ BotDeadline
    PROVE  IInv'
<1> USE DEF IInv, AppInv
<1> DEFINE A == \/ SignalArrives \/ MonitorNotifies \/ ExitCommand \/ InputEnds \/ TestStop \/ Block
                \/ TuiExit \/ RefreshStartsShutdown \/ RefreshEnds \/ LoopEnds \/ TuiJoins
                \/ CallbackComplete \/ Over \/ BotDeadline
<1>1. /\ UNCHANGED <<ui, runtime, bots, workVars>>
      /\ shutdown' = shutdown \/ (shutdown = "none" /\ shutdown' = "closing")
  BY DEF SignalArrives, MonitorNotifies, ExitCommand, InputEnds, TestStop, Block, TuiExit,
         RefreshStartsShutdown, RefreshEnds, LoopEnds, TuiJoins, CallbackComplete, Over, BotDeadline,
         PhaseInv
<1>2. WorkInv'
  BY <1>1, WorkStutters
<1>3. \A c \in Bots : Live(c) => Live(c)'
  BY <1>1 DEF Live
<1>4. DrainInv'
  BY <1>1, <1>3, DrainKept DEF workVars
<1>5. UNCHANGED BotThreads
  BY <1>1 DEF BotThreads
<1>6. AppType' /\ PhaseInv'
  <2>1. CASE SignalArrives \/ MonitorNotifies \/ ExitCommand \/ InputEnds
    BY <2>1, <1>1, <1>5 DEF SignalArrives, MonitorNotifies, ExitCommand, InputEnds, AppType, TypeOK, PhaseInv
  <2>2. CASE TestStop \/ Block \/ TuiExit \/ TuiJoins
    BY <2>2, <1>1, <1>5 DEF TestStop, Block, TuiExit, TuiJoins, AppType, TypeOK, PhaseInv
  <2>3. CASE RefreshStartsShutdown \/ RefreshEnds
    <3>1. CASE RefreshStartsShutdown
      BY <3>1, <1>1, <1>5 DEF RefreshStartsShutdown, AppType, TypeOK, PhaseInv
    <3>2. CASE RefreshEnds
      <4>1. /\ refresh' = [pc |-> "ended", running |-> FALSE] /\ refresh.pc = "polling"
            /\ UNCHANGED <<ui, stop, monitor, main, shutdown>>
        BY <3>2 DEF RefreshEnds
      <4>2. refresh'.pc = "ended" /\ refresh' \in [pc : {"none", "polling", "ended"}, running : BOOLEAN]
        BY <4>1
      <4>3. AppType'
        BY <1>1, <4>1, <4>2 DEF AppType, TypeOK
      <4>4. PhaseInv'
        BY <4>1, <4>2, <1>1, <1>5 DEF PhaseInv
      <4> QED
        BY <4>3, <4>4
    <3> QED
      BY <2>3, <3>1, <3>2
  <2>4. CASE LoopEnds
    BY <2>4, <1>1, <1>5 DEF LoopEnds, AppType, TypeOK, PhaseInv
  <2>5. CASE CallbackComplete \/ Over \/ BotDeadline
    BY <2>5, <1>1, <1>5 DEF CallbackComplete, Over, BotDeadline, AppType, TypeOK, PhaseInv
  <2> QED
    BY <2>1, <2>2, <2>3, <2>4, <2>5
<1> QED
  BY <1>2, <1>4, <1>6

LEMMA CloseAdmissionStep ==
    ASSUME IInv, CloseAdmission
    PROVE  IInv'
<1> USE DEF IInv, AppInv
<1>1. /\ shutdown = "closing" /\ shutdown' = "draining" /\ accepting' = FALSE
      /\ UNCHANGED <<ui, main, refresh, runtime, bots, posted, job, writer, db>>
  BY DEF CloseAdmission, Then
<1>2. WorkInv'
  <2>1. WorkType'
    BY <1>1 DEF WorkInv, WorkType
  <2>2. PostedInv' /\ QueueInv' /\ CurrentInv' /\ TransactionInv' /\ RowsInv' /\ OkIsDurable'
    BY <1>1 DEF WorkInv, PostedInv, QueueInv, CurrentInv, TransactionInv, RowsInv, OkIsDurable,
                Stranded
  <2> QED
    BY <2>1, <2>2 DEF WorkInv
<1>3. InFlight' = InFlight /\ BotThreads' = BotThreads /\ \A c \in Bots : Live(c) <=> Live(c)'
  BY <1>1 DEF InFlight, BotThreads, Live
<1>4. AppType' /\ PhaseInv'
  BY <1>1, <1>3 DEF AppType, TypeOK, PhaseInv
<1>5. DrainInv'
  BY <1>1, <1>3 DEF DrainInv, CallableHasItsCode
<1> QED
  BY <1>2, <1>4, <1>5

\* The rest of the callback, in its order.
LEMMA CallbackStep ==
    ASSUME IInv, JoinPool \/ RetireRuntime \/ BotsEnded
    PROVE  IInv'
<1> USE DEF IInv, AppInv
<1>1. /\ UNCHANGED <<ui, stop, monitor, main, refresh, bots, workVars>>
      /\ \/ shutdown = "draining" /\ InFlight = {} /\ shutdown' = "retiring" /\ UNCHANGED runtime
         \/ shutdown = "retiring" /\ shutdown' = "stopping" /\ runtime' = "down"
         \/ shutdown = "awaiting" /\ BotThreads = {} /\ shutdown' = "complete" /\ UNCHANGED runtime
  BY DEF JoinPool, RetireRuntime, BotsEnded, Then
<1>2. WorkInv'
  BY <1>1, WorkStutters
<1>3. /\ InFlight' = InFlight /\ BotThreads' = BotThreads /\ accepting' = accepting
      /\ \A c \in Bots : Live(c) <=> Live(c)'
  BY <1>1 DEF InFlight, BotThreads, Live, workVars
<1>4. AppType' /\ PhaseInv'
  BY <1>1, <1>3 DEF AppType, TypeOK, PhaseInv
<1>5. DrainInv'
  BY <1>1, <1>3 DEF DrainInv, CallableHasItsCode
<1> QED
  BY <1>2, <1>4, <1>5

LEMMA StopBotsStep ==
    ASSUME IInv, StopBots
    PROVE  IInv'
<1> USE DEF IInv, AppInv
<1>1. /\ shutdown = "stopping" /\ shutdown' = "awaiting"
      /\ UNCHANGED <<ui, stop, monitor, main, refresh, runtime, workVars>>
      /\ bots' = [b \in Bots |-> IF bots[b].state = "running" THEN [bots[b] EXCEPT !.state = "stopping"]
                                                            ELSE bots[b]]
  BY DEF StopBots, Then
<1>2. WorkInv'
  BY <1>1, WorkStutters
<1>3. \A c \in Bots :
        /\ bots'[c] \in [state : {"configured", "failed", "running", "stopping", "finished"},
                         transport : {"none", "Onebot11WebSocket", "Onebot11HTTP", "TelegramHTTP"}]
        /\ Live(c) => Live(c)'
  BY <1>1 DEF AppType, TypeOK, Live
<1>4. AppType'
  BY <1>1, <1>3 DEF AppType, TypeOK
<1>5. PhaseInv'
  BY <1>1 DEF PhaseInv
<1>6. DrainInv'
  BY <1>1, <1>3, DrainKept DEF workVars
<1> QED
  BY <1>2, <1>4, <1>5, <1>6

LEMMA StopWriterStep ==
    ASSUME IInv, StopWriter
    PROVE  IInv'
<1> USE DEF IInv, AppInv
<1>1. /\ main = "leaving" /\ main' = "unwinding" /\ writer' = [writer EXCEPT !.stop = TRUE]
      /\ UNCHANGED <<ui, refresh, shutdown, runtime, bots, accepting, posted, job, db>>
  BY DEF StopWriter
<1>2. writer'.queue = writer.queue /\ writer'.pc = writer.pc /\ writer'.current = writer.current
  BY <1>1 DEF WorkInv, WorkType
<1>3. WorkType' /\ PostedInv' /\ QueueInv' /\ CurrentInv'
  <2>1. WorkType'
    BY <1>1 DEF WorkInv, WorkType
  <2>2. PostedInv'
    BY <1>1 DEF WorkInv, PostedInv
  <2>3. QueueInv' /\ CurrentInv'
    BY <1>1, <1>2 DEF WorkInv, QueueInv, CurrentInv
  <2> QED
    BY <2>1, <2>2, <2>3
<1>4. TransactionInv' /\ RowsInv' /\ OkIsDurable'
  BY <1>1, <1>2 DEF WorkInv, TransactionInv, RowsInv, OkIsDurable, Stranded
<1>5. BotThreads' = BotThreads /\ \A c \in Bots : Live(c) => Live(c)'
  BY <1>1 DEF BotThreads, Live
<1>6. AppType' /\ PhaseInv'
  BY <1>1, <1>5 DEF AppType, TypeOK, PhaseInv
<1>7. DrainInv'
  BY <1>1, <1>5, DrainKept
<1> QED
  BY <1>3, <1>4, <1>6, <1>7 DEF WorkInv

-----------------------------------------------------------------------------
\* The invariant is inductive.
THEOREM NextKeepsInvariant == IInv /\ [Next]_vars => IInv'
<1> SUFFICES ASSUME IInv, [Next]_vars PROVE IInv'
  OBVIOUS
<1>1. CASE UNCHANGED vars
  <2>1. UNCHANGED workVars /\ UNCHANGED appVars
    BY <1>1 DEF vars
  <2>2. WorkInv' /\ AppType' /\ PhaseInv'
    BY <2>1, WorkStutters, AppStutters DEF IInv, AppInv
  <2>3. InFlight' = InFlight /\ accepting' = accepting
    BY <2>1 DEF workVars, InFlight
  <2> QED
    BY <2>1, <2>2, <2>3, DrainStep DEF IInv, AppInv
<1>2. CASE Main
  BY <1>2, StartBotStep, StartedStep, ControlStep, StopWriterStep DEF Main, CliSeesStop, LoopExits
<1>3. CASE Callback
  BY <1>3, CloseAdmissionStep, CallbackStep, StopBotsStep, ControlStep DEF Callback
<1>4. CASE \/ RefreshStartsShutdown \/ RefreshEnds \/ SignalArrives \/ MonitorNotifies
           \/ ExitCommand \/ InputEnds \/ TuiExit \/ LoopEnds
  BY <1>4, ControlStep
<1>5. CASE (\E b \in Bots : BotEnds(b)) \/ (\E j \in Jobs : Submit(j)) \/ Work
  BY <1>5, BotEndsStep, SubmitStep, WorkStep
<1> QED
  BY <1>1, <1>2, <1>3, <1>4, <1>5 DEF Next

\* The invariant of the process and its blocking work holds in every behaviour.
THEOREM InvariantHolds == Spec => []IInv
BY InitInv, NextKeepsInvariant, PTL DEF Spec

\* db_manager.cpp: whatever the interleaving of the pool's threads, the writer and a
\* shutdown, a callable that reported success has its row in the database or, once a
\* ROLLBACK has failed, in the transaction that it left open; a statement, write task
\* or migration that reported failure has none in the database. For any number of
\* callables and threads. (The row of a nested write task stays when its inner one fails.)
THEOREM DurableResults == Spec => []OkIsDurable
<1>1. IInv => OkIsDurable
  BY DEF IInv, WorkInv
<1> QED
  BY <1>1, InvariantHolds, PTL

\* component_manager.cpp and main.cpp: the libraries are unloaded only when no
\* callable is pending, running or waiting, and none can be submitted after that.
THEOREM CodeOutlivesCallables == Spec => []CallableHasItsCode
<1>1. IInv => CallableHasItsCode
  BY DEF IInv, AppInv, DrainInv
<1> QED
  BY <1>1, InvariantHolds, PTL

\* main.cpp and tui_app.cpp: main gives up its locals only when the shutdown callback,
\* on whichever thread it runs, is complete and every bot thread has ended.
THEOREM MainLeavesLast == Spec => []NothingOutlivesMain
<1>1. IInv => NothingOutlivesMain
  BY DEF IInv, AppInv, PhaseInv, NothingOutlivesMain, BotThreads
<1> QED
  BY <1>1, InvariantHolds, PTL

=============================================================================
