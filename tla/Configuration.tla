--------------------------- MODULE Configuration ---------------------------
(***************************************************************************)
(* The configuration of the actor runtime: what the code reads out of the  *)
(* TOML file (src/common/config_loader.cpp), how it validates it, the      *)
(* order of the actors, the thread budget and the fingerprint that decides *)
(* whether a reload is possible at all.                                    *)
(*                                                                         *)
(* A configuration c has                                                   *)
(*   c.actors     sequence of [name, enabled, required, db, section], by   *)
(*                name; section is the integers of its own table;          *)
(*   c.pipelines  sequence of [source, stages]; a stage is [name, actor,   *)
(*                input, outputs, after, mode], after is a sequence;       *)
(*   c.dbs        the names of the database instances; one that no         *)
(*                provider accepts has the empty name;                     *)
(*   c.bots       the bots: name |-> [enabled, type];                      *)
(*   c.options    option |-> value of the tables of options;               *)
(*   c.policy     the scheduler policy, or "absent";                       *)
(*   c.routes     sequence of the written command routes;                  *)
(*   c.routes_array  FALSE if routes is written and is not an array.       *)
(* A value is [kind, n]: absent, not an integer, or the integer n.         *)
(***************************************************************************)
EXTENDS Integers, Sequences, FiniteSets, SequencesExt, Functions

CONSTANTS
    MinTimeout, MaxTimeout,     \* 100 and 300000 in the code, in ms
    DefaultTimeout,             \* 5000
    DefaultHopLimit,            \* 32
    DefaultSlowResume,          \* 10, in ms
    HardwareThreads             \* std::thread::hardware_concurrency

ASSUME ConfigurationAssumption ==
    /\ {MinTimeout, MaxTimeout, DefaultTimeout, HardwareThreads} \subseteq Nat
    /\ MinTimeout <= DefaultTimeout /\ DefaultTimeout <= MaxTimeout
    /\ DefaultHopLimit \in Nat \ {0} /\ DefaultSlowResume \in Nat

Absent == [kind |-> "absent", n |-> 0]
NotInteger == [kind |-> "other", n |-> 0]
Int_(n) == [kind |-> "int", n |-> n]

\* The types of messages are numbers, 0 is the empty one: RawMessageEvent,
\* RawNoticeEvent and ActorFailed come from the runtime itself.
RuntimeSources == {1, 2, 3}

(***************************************************************************)
(* Options. The readers fall back to the default for what they cannot use; *)
(* only validation tells a missing value from an unusable one.             *)
(***************************************************************************)
get_non_negative_size(v, default) == IF v.kind = "int" /\ v.n >= 0 THEN v.n ELSE default

get_actor_runtime_config(c) ==
    [policy                 |-> IF c.policy = "sharing" THEN "sharing" ELSE "stealing",
     workers                |-> get_non_negative_size(c.options.workers, 0),
     blocking_workers       |-> get_non_negative_size(c.options.blocking_workers, 0),
     slow_resume_warning_ms |-> get_non_negative_size(c.options.slow_resume_warning_ms, DefaultSlowResume),
     routing_hop_limit      |-> get_non_negative_size(c.options.hop_limit, DefaultHopLimit),
     reload_drain_timeout_ms|-> get_non_negative_size(c.options.drain_timeout_ms, DefaultTimeout)]

\* Routes as the coordinator gets them; timeout 0 inherits the one of the runtime. What
\* is not a table is passed over.
get_command_runtime_config(c) ==
    [timeout_ms |-> get_non_negative_size(c.options.command_timeout_ms, DefaultTimeout),
     routes |-> LET tables == SelectSeq(c.routes, LAMBDA r : r.table)
                IN [i \in DOMAIN tables |->
        [fallback   |-> IF tables[i].fallback = "consume" THEN "consume" ELSE "continue",
         timeout_ms |-> get_non_negative_size(tables[i].timeout_ms, 0)]]]

Negative(v) == v.kind # "absent" /\ ~(v.kind = "int" /\ v.n >= 0)
NotPositive(v) == v.kind # "absent" /\ ~(v.kind = "int" /\ v.n > 0)
OutOfRange(v) ==
    v.kind # "absent" /\ ~(v.kind = "int" /\ v.n >= MinTimeout /\ v.n <= MaxTimeout)

When(condition, code) == IF condition THEN {code} ELSE {}

\* A written route: table says that it is one, faults what is wrong with its actor, its
\* commands, platforms and bots, and the names of the commands.
route_errors(r) ==
    IF ~r.table THEN {"invalid_command_route"}
    ELSE r.faults
    \cup When(r.fallback \notin {"absent", "continue", "consume"}, "invalid_command_fallback")
    \cup When(OutOfRange(r.timeout_ms), "invalid_command_timeout")

validate_actor_runtime_config(c) ==
    When(c.policy \notin {"absent", "stealing", "sharing"}, "invalid_actor_scheduler_policy")
    \cup When(Negative(c.options.workers), "invalid_actor_worker_count")
    \cup When(Negative(c.options.blocking_workers), "invalid_blocking_worker_count")
    \cup When(Negative(c.options.slow_resume_warning_ms), "invalid_slow_resume_warning")
    \cup When(NotPositive(c.options.hop_limit), "invalid_routing_hop_limit")
    \cup When(OutOfRange(c.options.drain_timeout_ms), "invalid_reload_drain_timeout")
    \cup When(OutOfRange(c.options.command_timeout_ms), "invalid_command_timeout")
    \cup When(~c.routes_array, "invalid_command_routes")
    \cup UNION {route_errors(c.routes[i]) : i \in DOMAIN c.routes}

(***************************************************************************)
(* Dependency graphs: counting in-degrees, one ready node at a time.       *)
(* edges is a sequence of <<dependency, dependent>>; a repeated edge       *)
(* counts each time.                                                       *)
(***************************************************************************)
InDegree(edges, n) == Len(SelectSeq(edges, LAMBDA e : e[2] = n))

VisitOne(edges, st) ==
    IF st.ready = {} THEN st
    ELSE LET current == CHOOSE n \in st.ready : TRUE
             lowered == [n \in DOMAIN st.degree |->
                            st.degree[n] - Len(SelectSeq(edges, LAMBDA e : e = <<current, n>>))]
         IN [degree  |-> lowered,
             ready   |-> (st.ready \ {current})
                            \cup {n \in DOMAIN lowered : lowered[n] = 0 /\ st.degree[n] > 0},
             visited |-> st.visited + 1]

HasCycle(nodes, edges) ==
    LET degree == [n \in nodes |-> InDegree(edges, n)]
        visit[k \in 0..Cardinality(nodes)] ==
            IF k = 0 THEN [degree |-> degree, ready |-> {n \in nodes : degree[n] = 0}, visited |-> 0]
            ELSE VisitOne(edges, visit[k - 1])
    IN visit[Cardinality(nodes)].visited # Cardinality(nodes)

\* The edges to nodes that exist, of records with a name and dependencies.
Edges(records, nodes, dependencies) ==
    LET known(i) == SelectSeq(dependencies[i], LAMBDA d : d \in nodes)
    IN FlattenSeq([i \in DOMAIN records |->
            [j \in DOMAIN known(i) |-> <<known(i)[j], records[i].name>>]])

StageNames(p) == {p.stages[i].name : i \in DOMAIN p.stages}
has_stage_dependency_cycle(p) ==
    HasCycle(StageNames(p), Edges(p.stages, StageNames(p), [i \in DOMAIN p.stages |-> p.stages[i].after]))

EnabledActors(c) == SelectSeq(c.actors, LAMBDA a : a.enabled)
ActorNames(c) == {EnabledActors(c)[i].name : i \in DOMAIN EnabledActors(c)}
has_actor_dependency_cycle(c) ==
    LET actors == EnabledActors(c)
    IN HasCycle(ActorNames(c), Edges(actors, ActorNames(c), [i \in DOMAIN actors |-> actors[i].required]))

\* Mutant: an actor is placed behind the requirements that were already placed.
OrderedPassAny(actors, placed) ==
    FoldLeft(LAMBDA acc, a : IF a.name \in Range(acc) THEN acc ELSE Append(acc, a.name), placed, actors)

\* One pass over the actors: those whose requirements are placed are placed.
OrderedPass(actors, placed) ==
    FoldLeft(LAMBDA acc, a : IF a.name \in Range(acc) \/ ~(Range(a.required) \subseteq Range(acc))
                             THEN acc ELSE Append(acc, a.name),
             placed, actors)

\* The names in the order of activation; shorter than actors if a pass places none.
ordered_actors(actors) ==
    LET pass[k \in 0..Len(actors)] ==
            IF k = 0 THEN <<>> ELSE OrderedPass(actors, pass[k - 1])
    IN pass[Len(actors)]

(***************************************************************************)
(* Pipelines.                                                              *)
(***************************************************************************)
AllStages(c) == UNION {Range(c.pipelines[i].stages) : i \in DOMAIN c.pipelines}

routable_sources(c) ==
    RuntimeSources \cup UNION {({s.input} \ {0}) \cup s.outputs : s \in AllStages(c)}

actor_errors(c) ==
    When(\E i \in DOMAIN EnabledActors(c) :
            ~(Range(EnabledActors(c)[i].required) \subseteq ActorNames(c)), "missing_actor_dependency")
    \cup When(has_actor_dependency_cycle(c), "actor_dependency_cycle")
    \cup When(\E i \in DOMAIN EnabledActors(c) :
                 EnabledActors(c)[i].db \notin c.dbs \cup {""}, "missing_db_instance")

pipeline_errors(c, p) ==
    When(p.source = 0, "invalid_pipeline_source")
    \cup When(p.source # 0 /\ p.source \notin routable_sources(c), "unknown_pipeline_source")
    \cup When(Cardinality(StageNames(p)) # Len(p.stages), "duplicate_stage_name")
    \cup When(\E i \in DOMAIN p.stages : p.stages[i].mode \notin {"", "await", "async"},
              "invalid_stage_mode")
    \cup When(\E i \in DOMAIN p.stages : p.stages[i].actor \notin ActorNames(c), "missing_actor")
    \cup When(\E i \in DOMAIN p.stages : ~(Range(p.stages[i].after) \subseteq StageNames(p)),
              "missing_stage_dependency")
    \cup When(has_stage_dependency_cycle(p), "stage_dependency_cycle")

\* DbManager::validate_configs: a name, a known provider, a path.
validate_db_configs(c) == When("" \in c.dbs, "reload_database_invalid")

validate_actor_pipeline_configs(c) ==
    actor_errors(c) \cup UNION {pipeline_errors(c, c.pipelines[i]) : i \in DOMAIN c.pipelines}

\* inputs: the accepted inputs of each loaded actor.
validate_actor_pipeline_contracts(c, inputs) ==
    When(\E s \in AllStages(c) : s.actor \notin DOMAIN inputs, "actor_unavailable")
    \cup When(\E s \in AllStages(c) : s.actor \in DOMAIN inputs /\ s.input \notin inputs[s.actor],
              "unsupported_actor_input")

(***************************************************************************)
(* Threads. A request of 0 leaves the number to the runtime.               *)
(***************************************************************************)
AtLeastOne(n) == IF n > 1 THEN n ELSE 1
normalized_total == IF HardwareThreads > 3 THEN HardwareThreads ELSE 3
Least(a, b) == IF a < b THEN a ELSE b

\* More is asked for than there is: one each, then actors before I/O before blocking.
RationedBudget(r) ==
    LET extra(n, left) == Least(AtLeastOne(n) - 1, left)
        left1 == normalized_total - 3
        left2 == left1 - extra(r.actor_workers, left1)
        left3 == left2 - extra(r.io_workers, left2)
        left4 == left3 - extra(r.blocking_workers, left3)
    IN [actor_workers    |-> 1 + extra(r.actor_workers, left1) + left4,
        io_workers       |-> 1 + extra(r.io_workers, left2),
        blocking_workers |-> 1 + extra(r.blocking_workers, left3)]

\* A round of the automatic pools: two actor workers, one of each other kind.
GrantRound(r, st) ==
    LET actors == IF r.actor_workers = 0 THEN Least(2, st.left) ELSE 0
        io == IF r.io_workers = 0 THEN Least(1, st.left - actors) ELSE 0
        blocking == IF r.blocking_workers = 0 THEN Least(1, st.left - actors - io) ELSE 0
    IN [actor_workers    |-> st.actor_workers + actors,
        io_workers       |-> st.io_workers + io,
        blocking_workers |-> st.blocking_workers + blocking,
        left             |-> st.left - actors - io - blocking]

\* Mutant: what nobody claims is not given to anybody.
resolve_runtime_thread_budget_unclaimed(r) ==
    [actor_workers    |-> AtLeastOne(r.actor_workers),
     io_workers       |-> AtLeastOne(r.io_workers),
     blocking_workers |-> AtLeastOne(r.blocking_workers)]

resolve_runtime_thread_budget(r) ==
    LET asked == AtLeastOne(r.actor_workers) + AtLeastOne(r.io_workers)
                    + AtLeastOne(r.blocking_workers)
        start == [actor_workers    |-> AtLeastOne(r.actor_workers),
                  io_workers       |-> AtLeastOne(r.io_workers),
                  blocking_workers |-> AtLeastOne(r.blocking_workers),
                  left             |-> normalized_total - asked]
        rounds[k \in 0..normalized_total] ==
            IF k = 0 THEN start ELSE GrantRound(r, rounds[k - 1])
        end == rounds[normalized_total]
    IN IF asked > normalized_total THEN RationedBudget(r)
       ELSE [actor_workers    |-> end.actor_workers + end.left,
             io_workers       |-> end.io_workers,
             blocking_workers |-> end.blocking_workers]

(***************************************************************************)
(* What only a restart can change. A digest stands for its content.        *)
(***************************************************************************)
ThreadRequest(c, io_sources) ==
    [actor_workers    |-> get_actor_runtime_config(c).workers,
     io_workers       |-> AtLeastOne(io_sources),
     blocking_workers |-> get_actor_runtime_config(c).blocking_workers]

process_owned_fingerprint(c, io_sources) ==
    [bots |-> c.bots, database_instances |-> c.dbs,
     thread_budget |-> resolve_runtime_thread_budget(ThreadRequest(c, io_sources))]

changed_process_owned_domains(active, candidate) ==
    {d \in {"bots", "database_instances", "thread_budget"} : active[d] # candidate[d]}
=============================================================================
