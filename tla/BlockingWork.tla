---------------------------- MODULE BlockingWork ----------------------------
(***************************************************************************)
(* Blocking work of actors: the BlockingExecutor of the process            *)
(* (include/core/blocking_executor.hpp) and a SQLite connection of         *)
(* DbManager (src/core/db_manager.cpp), which its callables use.           *)
(*                                                                         *)
(* Each job is one callable. By its kind it                                *)
(*   plain    computes something;                                          *)
(*   direct   calls execute on the connection from its own thread;         *)
(*   write    runs a write task, which executes one statement;             *)
(*   nested   runs a write task that runs a second write task;             *)
(*   migrate  runs a migration: a write task in a transaction.             *)
(* A callable returns sooner or later: nothing in the code bounds it.      *)
(***************************************************************************)
EXTENDS Naturals, Sequences, FiniteSets

CONSTANTS
    Jobs,       \* bound of the model: the callables that actors submit
    Workers     \* threads of the pool

ASSUME WorkAssumption == Workers \in Nat \ {0}

Kinds == {"plain", "direct", "write", "nested", "migrate"}

VARIABLES
    accepting,  \* the executor admits callables
    posted,     \* callables that wait for a thread, in order
    job,        \* [state, kind, outcome] of each job
    writer,     \* the writer thread: [queue, current, pc, stop]
    db          \* the database: [rows, open, lock]; open is the rows of the
                \* transaction in progress, lock the thread that holds mutex_

workVars == <<accepting, posted, job, writer, db>>

Nobody == "nobody"
NoTransaction == [on |-> FALSE, rows |-> {}]

WorkInit ==
    /\ accepting = TRUE
    /\ posted = <<>>
    /\ job = [j \in Jobs |-> [state |-> "new", kind |-> "none", outcome |-> "none"]]
    /\ writer = [queue |-> <<>>, current |-> Nobody, pc |-> "idle", stop |-> FALSE]
    /\ db = [rows |-> {}, open |-> NoTransaction, lock |-> Nobody]

InFlight == {j \in Jobs : job[j].state \in {"pending", "running", "waiting"}}

-----------------------------------------------------------------------------
(* BlockingExecutor.                                                       *)

\* async_run, under the admission mutex.
async_run(j, kind) ==
    /\ job[j].state = "new"
    /\ \/ /\ accepting
          /\ posted' = Append(posted, j)
          /\ job' = [job EXCEPT ![j].state = "pending", ![j].kind = kind]
       \/ /\ ~accepting
          /\ job' = [job EXCEPT ![j] = [state |-> "done", kind |-> kind, outcome |-> "rejected"]]
          /\ UNCHANGED posted
    /\ UNCHANGED <<accepting, writer, db>>

\* A thread of the pool takes the oldest callable.
Take ==
    /\ posted # <<>>
    /\ Cardinality({j \in Jobs : job[j].state \in {"running", "waiting"}}) < Workers
    /\ job' = [job EXCEPT ![Head(posted)].state = "running"]
    /\ posted' = Tail(posted)
    /\ UNCHANGED <<accepting, writer, db>>

\* The callable returned or threw: the completion is posted to its caller.
Complete(j, outcome) == job' = [job EXCEPT ![j].state = "done", ![j].outcome = outcome]

RunPlain(j) ==
    /\ job[j].state = "running"
    /\ job[j].kind = "plain"
    /\ \E outcome \in {"ok", "failed"} : Complete(j, outcome)
    /\ UNCHANGED <<accepting, posted, writer, db>>

-----------------------------------------------------------------------------
(* SQLiteDbConnection.                                                     *)

\* A statement by a thread that has mutex_ or gets it: it becomes part of the
\* transaction of the connection, if there is one, and is durable otherwise.
Executed(d, j) ==
    IF d.open.on THEN [d EXCEPT !.open.rows = @ \cup {j}] ELSE [d EXCEPT !.rows = @ \cup {j}]

MutexFree == db.lock = Nobody

\* execute, from a thread of the pool.
RunDirect(j) ==
    /\ job[j].state = "running"
    /\ job[j].kind = "direct"
    /\ MutexFree
    /\ \/ db' = Executed(db, j) /\ Complete(j, "ok")
       \/ UNCHANGED db /\ Complete(j, "failed")
    /\ UNCHANGED <<accepting, posted, writer>>

\* run_write_task from a thread of the pool: queued, and the thread waits.
RunWriteTask(j) ==
    /\ job[j].state = "running"
    /\ job[j].kind \in {"write", "nested", "migrate"}
    /\ IF writer.stop THEN Complete(j, "failed") /\ UNCHANGED writer
       ELSE /\ job' = [job EXCEPT ![j].state = "waiting"]
            /\ writer' = [writer EXCEPT !.queue = Append(@, j)]
    /\ UNCHANGED <<accepting, posted, db>>

\* writer_loop.
WriterTakes ==
    /\ writer.pc = "idle"
    /\ writer.queue # <<>>
    /\ writer' = [writer EXCEPT !.queue = Tail(@), !.current = Head(writer.queue), !.pc = "task"]
    /\ UNCHANGED <<accepting, posted, job, db>>

WriterEnds ==
    /\ writer.pc = "idle"
    /\ writer.queue = <<>>
    /\ writer.stop
    /\ writer' = [writer EXCEPT !.pc = "ended"]
    /\ UNCHANGED <<accepting, posted, job, db>>

\* The promise is set: future.get() returns or throws, and so does the callable.
TaskDone(outcome) ==
    /\ writer' = [writer EXCEPT !.pc = "idle", !.current = Nobody]
    /\ Complete(writer.current, outcome)

is_writer_thread(thread) == thread = "writer"

\* The statement of a write task. A nested task then runs another one: at once, on
\* the writer thread; behind itself in the queue, on any other.
WriteStatement ==
    LET j == writer.current
    IN /\ writer.pc = "task"
       /\ job[j].kind \in {"write", "nested"}
       /\ MutexFree
       /\ \/ UNCHANGED db /\ TaskDone("failed")
          \/ /\ db' = Executed(db, j)
             /\ \/ job[j].kind = "write" /\ TaskDone("ok")
                \/ /\ job[j].kind = "nested"
                   /\ writer' = IF is_writer_thread("writer") THEN [writer EXCEPT !.pc = "inner"]
                                ELSE [writer EXCEPT !.pc = "stuck", !.queue = Append(@, j)]
                   /\ UNCHANGED job
       /\ UNCHANGED <<accepting, posted>>

InnerTask ==
    /\ writer.pc = "inner"
    /\ \/ db' = Executed(db, writer.current) /\ TaskDone("ok")
       \/ UNCHANGED db /\ TaskDone("failed")
    /\ UNCHANGED <<accepting, posted>>

\* Mutant: the migration does not keep mutex_ over its statements.
MigrationBeginsUnlocked ==
    /\ writer.pc = "task"
    /\ job[writer.current].kind = "migrate"
    /\ \/ UNCHANGED db /\ TaskDone("failed")
       \/ /\ db' = [db EXCEPT !.open = [on |-> TRUE, rows |-> {}]]
          /\ writer' = [writer EXCEPT !.pc = "migration"]
          /\ UNCHANGED job
    /\ UNCHANGED <<accepting, posted>>

\* with_migration_lock: mutex_, the lock table, BEGIN IMMEDIATE, the lock's row. Inside
\* a transaction that an earlier migration left open, BEGIN fails.
MigrationBegins ==
    /\ writer.pc = "task"
    /\ job[writer.current].kind = "migrate"
    /\ MutexFree
    /\ \/ UNCHANGED db /\ TaskDone("failed")
       \/ /\ ~db.open.on
          /\ db' = [db EXCEPT !.open = [on |-> TRUE, rows |-> {}], !.lock = "writer"]
          /\ writer' = [writer EXCEPT !.pc = "migration"]
          /\ UNCHANGED job
    /\ UNCHANGED <<accepting, posted>>

\* The work of the migration, then COMMIT. An exception of either rolls back; if
\* ROLLBACK fails as well, its exception is swallowed and the transaction stays open,
\* with the statements it had, when mutex_ is released.
MigrationEnds ==
    LET j == writer.current
        done == Executed(db, j)
    IN /\ writer.pc = "migration"
       /\ \/ /\ db' = [rows |-> done.rows \cup done.open.rows, open |-> NoTransaction, lock |-> Nobody]
             /\ TaskDone("ok")
          \/ /\ db' = [db EXCEPT !.open = NoTransaction, !.lock = Nobody]
             /\ TaskDone("failed")
          \/ /\ \E d \in {db, done} : db' = [d EXCEPT !.lock = Nobody]
             /\ TaskDone("failed")
       /\ UNCHANGED <<accepting, posted>>

Writer == WriterTakes \/ WriterEnds \/ WriteStatement \/ InnerTask \/ MigrationBegins \/ MigrationEnds

Run(j) == RunPlain(j) \/ RunDirect(j) \/ RunWriteTask(j)

-----------------------------------------------------------------------------
\* A ROLLBACK has failed: a transaction is open that no migration will end.
Stranded == db.open.on /\ writer.pc # "migration"

\* What reported success is in the database, as long as no ROLLBACK has failed: no
\* transaction takes in the statement of another thread. After a failed ROLLBACK it is
\* in the transaction that was left open, with which it is lost. A migration, write or
\* statement that reported anything else is not in the database.
OkIsDurable ==
    \A j \in Jobs : job[j].state = "done" =>
        /\ job[j].outcome = "ok" /\ job[j].kind # "plain" =>
              j \in db.rows \/ (Stranded /\ j \in db.open.rows)
        /\ job[j].outcome # "ok" /\ job[j].kind \in {"migrate", "write", "direct"} => j \notin db.rows
=============================================================================
