--------------------------- MODULE MessageRouting ---------------------------
(***************************************************************************)
(* How one runtime generation routes a root message:                       *)
(* CommandCoordinator::process (src/core/command_coordinator.cpp) around   *)
(* Orchestrator::process (src/core/orchestrator.cpp), above a scheduler    *)
(* that holds one FIFO mailbox per actor and partition key and gives every *)
(* invocation one result (what NativeActorScheduler is checked for).       *)
(*                                                                         *)
(* A task is a coroutine: the route of a root message, or a terminal async *)
(* stage that was posted by a route. Its stack holds a "command" or        *)
(* "terminal" frame at the bottom (if it has one) and one "route" frame    *)
(* per nested process_message. Between two suspensions a coroutine has the *)
(* one thread of its bot; workers, a shutdown and the threads of other     *)
(* bots may come in between any two of its steps.                          *)
(***************************************************************************)
EXTENDS CommandTable, EventIngress, FiniteSetsExt

CONSTANTS
    Roots,          \* root messages
    Received,       \* what they may be made of: [platform, bot, json]
    CommandConfig,  \* the configuration the table is built from
    Pipelines,      \* sequence of [source, stages]; a stage is
                    \* [input, outputs, after, async, actor], named by its index
    Registered,     \* actors registered with the orchestrator
    Partition,      \* [actor |-> sequence of fields], the partition expression
    Emissions,      \* [actor |-> sequences of messages an invocation may emit]
    HopLimit        \* routing_hop_limit

ActorFailed == "ActorFailed"
\* The CommandCompleted messages an actor may emit: valid ones with either
\* propagation, one with a foreign transaction or owner, one that does not parse.
Completions == {"consume", "continue", "mismatch", "malformed"}

ASSUME RoutingAssumption ==
    /\ HopLimit \in Nat \ {0}
    /\ Raw \notin Completions
    /\ Notice \notin Completions \cup {Raw}
    /\ build_command_routing_table(CommandConfig).built
    /\ \A r \in Range(CommandConfig.routes) : r.fallback \in {"continue", "consume"}

VARIABLES
    tasks,          \* sequence of [root, stack, await, calls]; the first task of
                    \* a root is its route, calls counts its invocations
    mail,           \* [actor and key |-> sequence of [task, call, hung]]
    coordinatorUp,  \* ~shutdown_ of the coordinator
    accepting,      \* accepting_terminal_tasks
    stopped,        \* the scheduler was shut down
    terminal,       \* terminal_tasks
    root            \* each root message and what happened to it: [input, state, code,
                    \* sourceRuns, failures, failed, emitted, scope, said]; scope holds
                    \* the route of its command, said the completions of its answer

vars == <<tasks, mail, coordinatorUp, accepting, stopped, terminal, root>>
flags == <<coordinatorUp, accepting, stopped>>

Table == build_command_routing_table(CommandConfig)

(***************************************************************************)
(* Partition keys. A key is the sequence of the words between its colons.  *)
(* The value of a field is such a sequence too, or JsonTrue for a boolean, *)
(* which the orchestrator prints and the coordinator takes for empty.      *)
(***************************************************************************)
Global == <<"global">>
Empty == <<"">>
JsonTrue == <<"true">>

FieldValue(fields, name) == IF name \in DOMAIN fields THEN fields[name] ELSE Empty

\* resolve_partition_key of the orchestrator: getline drops an empty last field.
StageKey(actor, fields) ==
    LET full == Partition[actor]
        expr == IF full # <<>> /\ Last(full) = "" THEN Front(full) ELSE full
        key == FlattenSeq([i \in DOMAIN expr |-> FieldValue(fields, expr[i])])
    IN IF key \in {<<>>, Empty} THEN Global ELSE key

\* resolve_partition_key of the coordinator: no colon is written while the
\* result is empty, so leading empty values vanish.
CommandKey(actor, fields) ==
    LET expr == Partition[actor]
        values == [i \in DOMAIN expr |->
                     IF FieldValue(fields, expr[i]) = JsonTrue THEN Empty ELSE FieldValue(fields, expr[i])]
        full == {i \in DOMAIN values : values[i] # Empty}
    IN IF full = {} THEN Global ELSE FlattenSeq(SubSeq(values, Min(full), Len(values)))

(***************************************************************************)
(* Frames.                                                                 *)
(***************************************************************************)
\* The OrchestratorFailure of a stage, and of a command ($command in the code).
StageFailure(p, s) == [pipe |-> p, stage |-> s, code |-> "stage"]
CommandFailure(code) == [pipe |-> 0, stage |-> 0, code |-> code]

NoCall == [on |-> FALSE]

\* One activation of process_message: at pipeline pipe, in the pass over
\* terminal async stages or not, with the messages available to stages.
\* stage is the stage at work, sroute its route, todo what is still to be
\* routed of its outcome.
RouteFrame(type, route) ==
    [kind |-> "route", type |-> type, route |-> route, pipe |-> 1, lastPass |-> FALSE,
     avail |-> <<[type |-> type, route |-> route]>>, done |-> {}, from |-> 1,
     stage |-> 0, sroute |-> <<>>, todo |-> <<>>, failures |-> {}]

CommandFrame(k) ==
    [kind |-> "command", key |-> k, todo |-> <<>>, completions |-> <<>>, decided |-> FALSE,
     code |-> "", failures |-> {}]

TerminalFrame(p, s, route) ==
    [kind |-> "terminal", pipe |-> p, stage |-> s, route |-> route, todo |-> <<>>,
     failures |-> {}]

Task(r, stack) == [root |-> r, stack |-> stack, await |-> NoCall, calls |-> 0]

Live(t) == tasks[t].stack # <<>>
Top(t) == Last(tasks[t].stack)
WithTop(t, f) == [tasks[t].stack EXCEPT ![Len(tasks[t].stack)] = f]
IsTerminalTask(t) == Live(t) /\ Head(tasks[t].stack).kind = "terminal"

\* A coroutine that has been resumed and has not reached its next suspension.
Running(t) ==
    /\ Live(t)
    /\ tasks[t].await = NoCall
    /\ ~(Top(t).kind = "terminal" /\ tasks[t].calls = 0)

\* The io_context of a bot runs one handler at a time.
ThreadFree(r) ==
    \A t \in DOMAIN tasks : root[tasks[t].root].input.bot = root[r].input.bot => ~Running(t)

Init ==
    /\ tasks = <<>>
    /\ mail = [m \in {} |-> <<>>]
    /\ coordinatorUp = TRUE
    /\ accepting = TRUE
    /\ stopped = FALSE
    /\ terminal = 0
    /\ \E received \in [Roots -> Received] :
          root = [r \in Roots |-> [input |-> Envelope(received[r]), state |-> "new", code |-> "", sourceRuns |-> 0,
                                   failures |-> {}, failed |-> {}, emitted |-> 0,
                                   scope |-> {}, said |-> <<>>]]

(***************************************************************************)
(* The scheduler, as far as a route sees it.                               *)
(***************************************************************************)
MailOf(box) == IF box \in DOMAIN mail THEN mail[box] ELSE <<>>
SetMail(box, queue) ==
    IF queue = <<>> THEN Restrict(mail, DOMAIN mail \ {box})
    ELSE [b \in DOMAIN mail \cup {box} |-> IF b = box THEN queue ELSE mail[b]]

NoResult == [answered |-> FALSE]
Result(ok, emits) == [answered |-> TRUE, ok |-> ok, emits |-> emits]

\* enqueue: refused with a result after a shutdown.
EnqueueCall(t, box) ==
    IF stopped THEN mail' = mail
    ELSE mail' = SetMail(box, Append(MailOf(box),
                                     [task |-> t, call |-> tasks[t].calls + 1, hung |-> FALSE]))

\* The await of a coroutine that has enqueued; timed says that a timer runs too.
AwaitCall(box, timed) ==
    [on |-> TRUE, box |-> box, timed |-> timed,
     result |-> IF stopped THEN Result(FALSE, <<>>) ELSE NoResult]

\* What an invocation may end with; after the shutdown of the scheduler it is
\* cancelled.
Results(box) ==
    IF stopped THEN {Result(FALSE, <<>>)}
    ELSE {Result(ok, emits) : ok \in BOOLEAN, emits \in Emissions[box.actor]}

\* A worker ends the invocation at the head of a mailbox and posts its result.
\* A result that nobody awaits any more is dropped.
Answer(box) ==
    /\ ~Head(mail[box]).hung \/ stopped
    /\ LET entry == Head(mail[box])
           t == entry.task
       IN \E result \in Results(box) :
             tasks' = IF tasks[t].await # NoCall /\ entry.call = tasks[t].calls
                      THEN [tasks EXCEPT ![t].await.result = result]
                      ELSE tasks
    /\ mail' = SetMail(box, Tail(mail[box]))
    /\ UNCHANGED <<flags, terminal, root>>

\* The actor of a command waits for an operation that never ends.
Hang(box) ==
    /\ LET entry == Head(mail[box])
       IN /\ ~entry.hung
          /\ ~stopped
          /\ tasks[entry.task].await # NoCall
          /\ tasks[entry.task].await.timed
          /\ entry.call = tasks[entry.task].calls
    /\ mail' = [mail EXCEPT ![box][1].hung = TRUE]
    /\ UNCHANGED <<tasks, flags, terminal, root>>

(***************************************************************************)
(* CommandCoordinator::process.                                            *)
(***************************************************************************)
\* What the table says of a message, and what process makes of it.
RouteOf(m) ==
    LET platform == normalize_command_platform(m.platform)
        target == IF m.bot \in DOMAIN CommandConfig.bots
                  THEN CommandConfig.bots[m.bot].target ELSE ""
        name == detect(platform, m.text, target)
    IN IF <<platform, m.bot>> \notin KnownBots(Table) \/ name = NoCommand THEN Unrouted
       ELSE match_command_route(Table, platform, m.bot, name)

Detected(m) ==
    IF ~coordinatorUp \/ m.type # Raw \/ m.processed THEN Unrouted ELSE RouteOf(m)

\* The message itself goes to the pipelines.
StartPlain(r, code) ==
    /\ tasks' = Append(tasks, Task(r, <<RouteFrame(root[r].input.type, <<>>)>>))
    /\ root' = [root EXCEPT ![r].state = "routing", ![r].sourceRuns = @ + 1,
                            ![r].code = code]
    /\ UNCHANGED mail

StartCommand(r, k) ==
    LET actor == Table.routes[k].actor
        box == [actor |-> actor, key |-> CommandKey(actor, root[r].input.fields)]
        t == Len(tasks) + 1
    IN /\ tasks' = Append(tasks, [Task(r, <<CommandFrame(k)>>) EXCEPT
                                     !.await = AwaitCall(box, TRUE), !.calls = 1])
       /\ mail' = IF stopped THEN mail
                  ELSE SetMail(box, Append(MailOf(box), [task |-> t, call |-> 1, hung |-> FALSE]))
       /\ root' = [root EXCEPT ![r].state = "routing", ![r].scope = {k}]

\* An event that nobody handles.
Ignore(r) ==
    /\ root' = [root EXCEPT ![r].state = "ignored"]
    /\ UNCHANGED <<tasks, mail>>

Process(r) ==
    /\ root[r].state = "new"
    /\ ThreadFree(r)
    /\ LET route == Detected(root[r].input)
       IN CASE root[r].input = NoEnvelope -> Ignore(r)
            [] root[r].input # NoEnvelope /\ route = Unrouted  -> StartPlain(r, "")
            [] root[r].input # NoEnvelope /\ route = Ambiguous -> StartPlain(r, "command_match_ambiguous")
            [] OTHER -> \E k \in route.scopes : StartCommand(r, k)
    /\ UNCHANGED <<flags, terminal>>

\* The completions in a result.
Said(result) == SelectSeq(result.emits, LAMBDA m : m \in Completions)

\* A frame after the result of its call: what is still to be routed. A failed
\* stage or terminal stage first routes an ActorFailed message.
Outcome(f, result) ==
    IF f.kind = "command"
    THEN [f EXCEPT !.todo = SelectSeq(result.emits, LAMBDA m : m \notin Completions),
                   !.completions = Said(result),
                   !.code = IF result.ok THEN "" ELSE "command_actor_failure"]
    ELSE [f EXCEPT !.todo = (IF result.ok THEN <<>> ELSE <<ActorFailed>>) \o result.emits,
                   !.failures = IF result.ok \/ f.kind = "terminal" THEN @
                                ELSE @ \cup {StageFailure(f.pipe, f.stage)}]

\* History: the nodes that failed in the route of a root itself.
NoteFailed(t, p, s) ==
    IF IsTerminalTask(t) THEN root
    ELSE [root EXCEPT ![tasks[t].root].failed = @ \cup {StageFailure(p, s)}]

\* The posted completion runs: finish of the timed operation, or the resumption
\* of a stage.
Resume(t) ==
    /\ Live(t)
    /\ tasks[t].await # NoCall
    /\ tasks[t].await.result.answered
    /\ ThreadFree(tasks[t].root)
    /\ LET result == tasks[t].await.result
           f == Top(t)
       IN /\ tasks' = [tasks EXCEPT ![t].await = NoCall, ![t].stack = WithTop(t, Outcome(f, result))]
          /\ root' = CASE f.kind = "route" /\ ~result.ok -> NoteFailed(t, f.pipe, f.stage)
                       [] f.kind = "command" -> [root EXCEPT ![tasks[t].root].said = Said(result)]
                       [] OTHER -> root
    /\ UNCHANGED <<mail, flags, terminal>>

\* Mutant: cancel forgets a suspended invocation.
CancelledMailNever(t) == {mail}

\* cancel: a waiting invocation, or one that is suspended, leaves its mailbox; a
\* running one stays until the actor returns.
CancelledMail(t) ==
    LET box == tasks[t].await.box
        mine == {i \in DOMAIN MailOf(box) :
                    MailOf(box)[i].task = t /\ MailOf(box)[i].call = tasks[t].calls}
        removed == SetMail(box, RemoveAt(MailOf(box), Min(mine)))
    IN IF mine = {} THEN {mail}
       ELSE IF mine = {1} /\ ~MailOf(box)[1].hung THEN {mail, removed}
       ELSE {removed}

\* Mutant: the timeout cancels the invocation and waits for its result.
TimeoutWithoutFinish(t) ==
    /\ Live(t)
    /\ tasks[t].await # NoCall
    /\ tasks[t].await.timed
    /\ ThreadFree(tasks[t].root)
    /\ mail' \in CancelledMail(t) \ {mail}
    /\ UNCHANGED <<tasks, flags, terminal, root>>

\* on_timeout. Its result wins over one that was posted and has not run yet.
Timeout(t) ==
    /\ Live(t)
    /\ tasks[t].await # NoCall
    /\ tasks[t].await.timed
    /\ ThreadFree(tasks[t].root)
    /\ mail' \in CancelledMail(t)
    /\ tasks' = [tasks EXCEPT ![t].await = NoCall,
                              ![t].stack = WithTop(t, [Top(t) EXCEPT !.code = "command_timeout"])]
    /\ UNCHANGED <<flags, terminal, root>>

\* The code of a call that ended, when its completions decide.
CompletionCode(f) ==
    IF f.code # "" THEN f.code
    ELSE IF f.completions = <<>> THEN "command_completion_missing"
    ELSE IF Len(f.completions) # 1 THEN "command_completion_duplicate"
    ELSE IF f.completions = <<"malformed">> THEN "command_completion_malformed"
    ELSE IF f.completions = <<"mismatch">> THEN "command_completion_mismatch"
    ELSE ""

\* Mutant: only the fallback can hold a message back.
PropagatesConsumed(f, code) ==
    code # "" => Table.routes[f.key].fallback = "continue"

Propagates(f, code) ==
    IF code # "" THEN Table.routes[f.key].fallback = "continue"
    ELSE f.completions = <<"continue">>

\* All emitted messages are routed: the command is settled, and the message goes
\* on to the pipelines unless it was consumed.
Decide(t) ==
    /\ Live(t)
    /\ tasks[t].await = NoCall
    /\ Top(t).kind = "command"
    /\ ~Top(t).decided
    /\ Top(t).todo = <<>>
    /\ LET f == Top(t)
           r == tasks[t].root
           code == CompletionCode(f)
           g == [f EXCEPT !.decided = TRUE, !.code = code,
                          !.failures = IF code = "" THEN @ ELSE @ \cup {CommandFailure(code)}]
       IN /\ tasks' = [tasks EXCEPT ![t].stack =
                          IF Propagates(f, code)
                          THEN Append(WithTop(t, g), RouteFrame(root[r].input.type, <<>>))
                          ELSE WithTop(t, g)]
          /\ root' = [root EXCEPT ![r].code = code,
                                  ![r].sourceRuns = @ + IF Propagates(f, code) THEN 1 ELSE 0]
    /\ UNCHANGED <<mail, flags, terminal>>

\* The next message of an outcome is routed by a nested process_message, with the
\* route of its stage; the orchestrator starts a new route for what a command emits.
RouteNext(t) ==
    /\ Live(t)
    /\ tasks[t].await = NoCall
    /\ Top(t).todo # <<>>
    /\ LET f == Top(t)
           type == Head(f.todo)
           route == CASE f.kind = "route"    -> f.sroute
                      [] f.kind = "terminal" -> f.route
                      [] f.kind = "command"  -> <<>>
           g == IF f.kind = "route"
                THEN [f EXCEPT !.todo = Tail(@),
                               !.avail = Append(@, [type |-> type, route |-> route])]
                ELSE [f EXCEPT !.todo = Tail(@)]
       IN /\ tasks' = [tasks EXCEPT ![t].stack = Append(WithTop(t, g), RouteFrame(type, route))]
          /\ root' = IF f.kind = "command"
                     THEN [root EXCEPT ![tasks[t].root].emitted = @ + 1] ELSE root
    /\ UNCHANGED <<mail, flags, terminal>>

(***************************************************************************)
(* process_message.                                                        *)
(***************************************************************************)
Stages(p) == Pipelines[p].stages

stage_has_downstream_dependency(p, s) ==
    \E c \in DOMAIN Stages(p) :
        s \in Stages(p)[c].after \/ Stages(p)[c].input \in Stages(p)[s].outputs

is_terminal_async(p, s) == Stages(p)[s].async /\ ~stage_has_downstream_dependency(p, s)

\* find_message: the first available message of the type.
InputOfStage(f, s) ==
    {i \in DOMAIN f.avail :
        /\ f.avail[i].type = Stages(f.pipe)[s].input
        /\ \A j \in 1..(i - 1) : f.avail[j].type # f.avail[i].type}

Eligible(f, s) ==
    /\ s \notin f.done
    /\ Stages(f.pipe)[s].after \subseteq f.done
    /\ InputOfStage(f, s) # {}

\* The stages that the current pass may run.
InPass(f) == {s \in DOMAIN Stages(f.pipe) : Eligible(f, s) /\ is_terminal_async(f.pipe, s) = f.lastPass}

\* The loops over the stages: on from the last one, then again from the first as
\* long as there was progress.
NextStage(f) ==
    LET on == {s \in InPass(f) : s >= f.from}
    IN IF on # {} THEN Min(on) ELSE Min(InPass(f))

AtPipeline(f) == f.pipe <= Len(Pipelines) /\ Pipelines[f.pipe].source = f.type

\* The top frame is a route that looks for its next stage.
Scanning(t) ==
    /\ Live(t)
    /\ tasks[t].await = NoCall
    /\ Top(t).kind = "route"
    /\ Top(t).stage = 0

StageRoute(f, s) ==
    LET i == CHOOSE i \in InputOfStage(f, s) : TRUE
    IN Append(f.avail[i].route, <<f.pipe, s, f.avail[i].type>>)

\* enter_route_node: a node may occur once on a route, and the route is bounded.
RouteNodeRefused(f, s) ==
    LET route == Front(StageRoute(f, s))
        node == Last(StageRoute(f, s))
    IN \/ \E i \in DOMAIN route : route[i] = node
       \/ Len(route) >= HopLimit

Finished(f, s) == [f EXCEPT !.done = @ \cup {s}, !.from = s + 1, !.stage = 0]

\* A stage of the current pass is next.
AtStage(t) == Scanning(t) /\ AtPipeline(Top(t)) /\ InPass(Top(t)) # {}

StageActor(f, s) == Stages(f.pipe)[s].actor
StageBox(t, actor) == [actor |-> actor, key |-> StageKey(actor, root[tasks[t].root].input.fields)]
Entered(f, s) == [f EXCEPT !.stage = s, !.sroute = StageRoute(f, s)]
WithFailure(f, s) == [f EXCEPT !.failures = @ \cup {StageFailure(f.pipe, s)}]

\* The route may not enter the stage: it counts as completed.
RefuseStage(t) ==
    /\ AtStage(t)
    /\ LET f == Top(t)
           s == NextStage(f)
       IN /\ RouteNodeRefused(f, s)
          /\ tasks' = [tasks EXCEPT ![t].stack = WithTop(t, WithFailure(Finished(f, s), s))]
          /\ root' = NoteFailed(t, f.pipe, s)
    /\ UNCHANGED <<mail, flags, terminal>>

\* actor_not_registered.
UnknownActor(t) ==
    /\ AtStage(t)
    /\ LET f == Top(t)
           s == NextStage(f)
       IN /\ ~RouteNodeRefused(f, s)
          /\ StageActor(f, s) \notin Registered
          /\ tasks' = [tasks EXCEPT ![t].stack =
                          WithTop(t, [WithFailure(Entered(f, s), s) EXCEPT !.todo = <<ActorFailed>>])]
          /\ root' = NoteFailed(t, f.pipe, s)
    /\ UNCHANGED <<mail, flags, terminal>>

\* A terminal async stage becomes a task of its own, unless terminal tasks are
\* no longer accepted; either way the route does not wait for it.
PostTerminal(t) ==
    /\ AtStage(t)
    /\ LET f == Top(t)
           s == NextStage(f)
           back == [tasks EXCEPT ![t].stack = WithTop(t, Finished(f, s))]
           work == TerminalFrame(f.pipe, s, StageRoute(f, s))
       IN /\ ~RouteNodeRefused(f, s)
          /\ StageActor(f, s) \in Registered
          /\ f.lastPass
          /\ IF accepting
             THEN /\ tasks' = Append(back, Task(tasks[t].root, <<work>>))
                  /\ terminal' = terminal + 1
             ELSE /\ tasks' = back
                  /\ UNCHANGED terminal
    /\ UNCHANGED <<mail, flags, root>>

\* The route awaits the actor of the stage.
CallStage(t) ==
    /\ AtStage(t)
    /\ LET f == Top(t)
           s == NextStage(f)
           box == StageBox(t, StageActor(f, s))
       IN /\ ~RouteNodeRefused(f, s)
          /\ StageActor(f, s) \in Registered
          /\ ~f.lastPass
          /\ tasks' = [tasks EXCEPT ![t].stack = WithTop(t, Entered(f, s)), ![t].calls = @ + 1,
                                    ![t].await = AwaitCall(box, FALSE)]
          /\ EnqueueCall(t, box)
    /\ UNCHANGED <<flags, terminal, root>>

\* Everything of the stage's outcome has been routed.
FinishStage(t) ==
    /\ Live(t)
    /\ tasks[t].await = NoCall
    /\ Top(t).kind = "route"
    /\ Top(t).stage # 0
    /\ Top(t).todo = <<>>
    /\ tasks' = [tasks EXCEPT ![t].stack = WithTop(t, Finished(Top(t), Top(t).stage))]
    /\ UNCHANGED <<mail, flags, terminal, root>>

\* No stage is left in this pass: the pass over terminal stages, or the next pipeline.
NextPass(t) ==
    /\ Scanning(t)
    /\ LET f == Top(t)
       IN /\ f.pipe <= Len(Pipelines)
          /\ AtPipeline(f) => InPass(f) = {}
          /\ tasks' = [tasks EXCEPT ![t].stack = WithTop(t,
                         IF AtPipeline(f) /\ ~f.lastPass
                         THEN [f EXCEPT !.lastPass = TRUE, !.from = 1]
                         ELSE [f EXCEPT !.pipe = @ + 1, !.lastPass = FALSE, !.from = 1, !.done = {},
                                        !.avail = SubSeq(@, 1, 1)])]
    /\ UNCHANGED <<mail, flags, terminal, root>>

\* Mutant: a nested route reports to its caller only what it emitted.
MergeNoFailures(f, failures) == f

\* merge_result: the caller takes over the failures, a terminal stage drops them.
Merge(f, failures) ==
    IF f.kind = "terminal" THEN f ELSE [f EXCEPT !.failures = @ \cup failures]

\* process_message returns to the frame below it, or the task ends.
Return(t) ==
    /\ Scanning(t)
    /\ Top(t).pipe > Len(Pipelines)
    /\ LET stack == tasks[t].stack
           failures == Top(t).failures
           r == tasks[t].root
       IN IF Len(stack) > 1
          THEN /\ tasks' = [tasks EXCEPT ![t].stack =
                              [Front(stack) EXCEPT ![Len(stack) - 1] = Merge(@, failures)]]
               /\ UNCHANGED root
          ELSE /\ tasks' = [tasks EXCEPT ![t].stack = <<>>]
               /\ root' = [root EXCEPT ![r].state = "done", ![r].failures =
                             failures \cup IF root[r].code = "" THEN {}
                                           ELSE {CommandFailure(root[r].code)}]
    /\ UNCHANGED <<mail, flags, terminal>>

\* A settled command whose message was consumed or has been routed.
CommandReturns(t) ==
    /\ Live(t)
    /\ Top(t).kind = "command"
    /\ Top(t).decided
    /\ tasks' = [tasks EXCEPT ![t].stack = <<>>]
    /\ root' = [root EXCEPT ![tasks[t].root].state = "done",
                            ![tasks[t].root].failures = Top(t).failures]
    /\ UNCHANGED <<mail, flags, terminal>>

\* run_terminal_stage: the posted coroutine starts and enqueues its invocation.
StartTerminal(t) ==
    /\ Live(t)
    /\ Top(t).kind = "terminal"
    /\ tasks[t].calls = 0
    /\ ThreadFree(tasks[t].root)
    /\ LET box == StageBox(t, StageActor(Top(t), Top(t).stage))
       IN /\ EnqueueCall(t, box)
          /\ tasks' = [tasks EXCEPT ![t].calls = 1, ![t].await = AwaitCall(box, FALSE)]
    /\ UNCHANGED <<flags, terminal, root>>

TerminalEnds(t) ==
    /\ Live(t)
    /\ Top(t).kind = "terminal"
    /\ tasks[t].calls # 0
    /\ tasks[t].await = NoCall
    /\ Top(t).todo = <<>>
    /\ tasks' = [tasks EXCEPT ![t].stack = <<>>]
    /\ terminal' = terminal - 1
    /\ UNCHANGED <<mail, flags, root>>

(***************************************************************************)
(* RuntimeGeneration::shutdown: the coordinator, then Orchestrator::shutdown. *)
(***************************************************************************)
ShutdownCoordinator ==
    /\ coordinatorUp
    /\ coordinatorUp' = FALSE
    /\ UNCHANGED <<tasks, mail, accepting, stopped, terminal, root>>

CloseTerminal ==
    /\ ~coordinatorUp
    /\ accepting
    /\ accepting' = FALSE
    /\ UNCHANGED <<tasks, mail, coordinatorUp, stopped, terminal, root>>

StopScheduler ==
    /\ ~accepting
    /\ ~stopped
    /\ stopped' = TRUE
    /\ UNCHANGED <<tasks, mail, coordinatorUp, accepting, terminal, root>>

Work(t) ==
    \/ Resume(t) \/ Decide(t) \/ RouteNext(t) \/ FinishStage(t)
    \/ RefuseStage(t) \/ UnknownActor(t) \/ PostTerminal(t) \/ CallStage(t)
    \/ NextPass(t) \/ Return(t) \/ CommandReturns(t) \/ StartTerminal(t) \/ TerminalEnds(t)

Next ==
    \/ \E r \in Roots : Process(r)
    \/ \E t \in DOMAIN tasks : Work(t) \/ Timeout(t)
    \/ \E box \in DOMAIN mail : Answer(box) \/ Hang(box)
    \/ ShutdownCoordinator \/ CloseTerminal \/ StopScheduler

Spec == Init /\ [][Next]_vars

\* Coroutines run, actors return or their invocation is cancelled, timers fire,
\* and a shutdown that was begun goes on. Nothing is assumed about the actor of a
\* command that hangs, or about the arrival of messages and of a shutdown.
FairSpec ==
    /\ Spec
    /\ WF_vars(\E t \in DOMAIN tasks : Work(t))
    /\ WF_vars(\E t \in DOMAIN tasks : Timeout(t))
    /\ WF_vars(\E box \in DOMAIN mail : Answer(box))
    /\ WF_vars(CloseTerminal \/ StopScheduler)

(***************************************************************************)
(* Properties.                                                             *)
(***************************************************************************)
TypeOK ==
    /\ \A t \in DOMAIN tasks :
          /\ tasks[t].root \in Roots
          /\ \A i \in DOMAIN tasks[t].stack :
                tasks[t].stack[i].kind \in {"route", "command", "terminal"}
    /\ \A box \in DOMAIN mail : box.actor \in DOMAIN Partition /\ mail[box] # <<>>
    /\ {coordinatorUp, accepting, stopped} \subseteq BOOLEAN
    /\ terminal \in Nat

\* A failure anywhere in the nested routing of a root message, terminal stages
\* apart, is in the result that its ingress sees.
FailuresAreReported ==
    \A r \in Roots : root[r].state = "done" => root[r].failed \subseteq root[r].failures

\* What the answer of the actor, or the fallback of the route, says of the message.
GoesOn(m, k) == IF m.code = "" THEN m.said = <<"continue">> ELSE Table.routes[k].fallback = "continue"

\* A command is settled once: its message goes on to the pipelines exactly when the
\* one completion of its actor says "continue" or, if the command failed, when the
\* fallback of its route does, and a message without a command always does, in each
\* case once; a command without a code has one completion, which parsed and matched;
\* a failed command is reported; a command that timed out has routed nothing of its
\* actor's late answer.
CommandSettledOnce ==
    \A r \in Roots :
        /\ root[r].sourceRuns <= 1
        /\ root[r].code # "" /\ root[r].state = "done" =>
              CommandFailure(root[r].code) \in root[r].failures
        /\ root[r].code = "command_timeout" => root[r].emitted = 0
        /\ root[r].state = "done" =>
              root[r].sourceRuns = IF \A k \in root[r].scope : GoesOn(root[r], k) THEN 1 ELSE 0
        /\ root[r].state = "done" /\ root[r].scope # {} /\ root[r].code = "" =>
              Len(root[r].said) = 1 /\ root[r].said \notin {<<"malformed">>, <<"mismatch">>}

\* An actor is not asked anything without somebody who waits for the answer, except
\* when the command it runs has timed out and it has not returned yet: drained
\* routes leave no other work behind.
CallsHaveWaiters ==
    \A box \in DOMAIN mail : \A i \in DOMAIN mail[box] :
        LET t == mail[box][i].task
        IN \/ tasks[t].await # NoCall /\ mail[box][i].call = tasks[t].calls
           \/ /\ i = 1 /\ ~mail[box][i].hung
              /\ mail[box][i].call = 1
              /\ RouteOf(root[tasks[t].root].input).scopes # {}

\* Every message that was taken in gets its result, and the terminal stages it
\* started end, also when the actor of a command never answers and when the
\* generation is shut down at any moment.
EveryRouteEnds ==
    \A r \in Roots : root[r].state = "routing" ~> root[r].state = "done" /\ terminal = 0

\* A command is submitted to the mailbox that any other stage of the same actor and
\* message is submitted to.
SameMailbox ==
    \A box1, box2 \in DOMAIN mail :
        (/\ box1.actor = box2.actor
         /\ \E i \in DOMAIN mail[box1], j \in DOMAIN mail[box2] :
               tasks[mail[box1][i].task].root = tasks[mail[box2][j].task].root) =>
        box1 = box2
=============================================================================
