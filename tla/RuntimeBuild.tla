---------------------------- MODULE RuntimeBuild ----------------------------
(***************************************************************************)
(* Building runtime generations out of a configuration and the actor       *)
(* packages on disk: RuntimeGenerationBuilder (src/core/                   *)
(* runtime_generation.cpp), ActorPackageStager (actor_package_stager.cpp)  *)
(* and ActorManager (actor_manager.cpp), above the dynamic loader of the   *)
(* system. A package is deployed as a complete set, never while a          *)
(* generation is being built, as docs/architecture/actor-v2-migration.md   *)
(* asks for. One generation is built at a time, at startup or as the       *)
(* candidate of a reload; when it is ready it replaces the active one,     *)
(* which is shut down and destroyed step by step.                          *)
(*                                                                         *)
(* The loader keeps one image per identity: a library that is asked for    *)
(* under an identity that is mapped is the mapped one, with the            *)
(* dependencies it was bound to when it was mapped.                        *)
(***************************************************************************)
EXTENDS ActorContract

CONSTANTS
    Requests,       \* what each generation may be built from: [config, documents]
    Private,        \* shared libraries that belong to an actor package
    ProcessOwned,   \* shared libraries of the process
    Needs,          \* the libraries that each actor or library needs
    RegisteredBots, \* the bots of the running process
    Generations,    \* bound of the model: 1..n, in the order they are built
    Replaceable,    \* bound of the model: libraries that are replaced on disk
    MaxVersion      \* bound of the model: versions such a library goes through

VARIABLES
    disk,       \* the version of every library on disk
    images,     \* the loader: identity |-> [content, binds]
    gens,       \* the generations
    build,      \* the build in progress: [pc, gen, code]
    active      \* the generation that serves, 0 for none

vars == <<disk, images, gens, build, active>>

Actors == DOMAIN Needs \ (Private \cup ProcessOwned)

ProcessIdentity(f) == [file |-> f, version |-> 0, gen |-> 0]

NoGeneration ==
    [phase |-> "none", request |-> [config |-> 0], staged |-> <<>>, order |-> <<>>,
     root |-> FALSE, discovered |-> {}, loaded |-> <<>>, retained |-> {}, callbacks |-> {}, owned |-> <<>>]
NoBuild == [pc |-> "idle", gen |-> 0, code |-> ""]

Init ==
    /\ disk = [f \in DOMAIN Needs |-> 1]
    /\ images = [i \in {ProcessIdentity(f) : f \in ProcessOwned} |-> [content |-> 1, binds |-> {}]]
    /\ gens = [g \in Generations |-> NoGeneration]
    /\ build = NoBuild
    /\ active = 0

Config(g) == gens[g].request.config
Goto(pc) == build' = [build EXCEPT !.pc = pc]
Fail(code) == build' = [build EXCEPT !.pc = "failed", !.code = code]

\* A library on disk is replaced, while a generation serves and none is being built.
Deploy(f) ==
    /\ build.pc = "idle"
    /\ active # 0
    /\ disk[f] < MaxVersion
    /\ disk' = [disk EXCEPT ![f] = @ + 1]
    /\ UNCHANGED <<images, gens, build, active>>

-----------------------------------------------------------------------------
(* The dynamic loader.                                                     *)

\* An actor library has a path of its own in every generation.
ActorIdentity(g, a) == [file |-> a, version |-> gens[g].staged[a][a], gen |-> g]

\* Mutant: the identity of a dependency is its name.
versioned_identity_by_name(f, version) == [file |-> f, version |-> 0, gen |-> 0]

\* The name of a staged dependency holds the digest of its content.
versioned_identity(f, version) == [file |-> f, version |-> version, gen |-> 0]

\* The identities that the staged copy of a library asks for.
Edges_(staged, f) ==
    {IF d \in Private THEN versioned_identity(d, staged[d]) ELSE ProcessIdentity(d) : d \in Needs[f]}

\* Everything reachable from a set of identities in a link map.
Reachable(links, ids) ==
    LET reach[k \in 0..Cardinality(DOMAIN Needs)] ==
            IF k = 0 THEN ids
            ELSE reach[k - 1] \cup UNION {links[i].binds : i \in reach[k - 1] \cap DOMAIN links}
    IN reach[Cardinality(DOMAIN Needs)]

\* What mapping an actor library brings in; mapped identities are used as they are.
Opened(g, a) ==
    LET staged == gens[g].staged[a]
        files == DOMAIN staged \cup ProcessOwned
        identity(f) == IF f = a THEN ActorIdentity(g, a)
                       ELSE IF f \in Private THEN versioned_identity(f, staged[f])
                       ELSE ProcessIdentity(f)
        wanted == [i \in {identity(f) : f \in files} |->
                     LET f == CHOOSE f \in files : identity(f) = i
                     IN [content |-> IF f \in ProcessOwned THEN disk[f] ELSE staged[f],
                         binds |-> Edges_(staged, f)]]
        links == images @@ wanted
    IN Restrict(links, Reachable(links, {ActorIdentity(g, a)}) \cup DOMAIN images)

\* The actor libraries that are open: discovered, loaded or retained for retirement.
Open(gs) ==
    UNION {{[file |-> a, version |-> gs[g].staged[a][a], gen |-> g] :
               a \in gs[g].discovered \cup Range(gs[g].loaded) \cup gs[g].retained} : g \in Generations}

\* dlclose: what no open library reaches is unmapped; the process keeps its own.
Closed(gs) ==
    Restrict(images, {i \in DOMAIN images :
        i \in Reachable(images, Open(gs)) \/ i.file \in ProcessOwned})

-----------------------------------------------------------------------------
(* RuntimeGenerationBuilder::build, up to the creation of the generation.  *)

Begin(g, request) ==
    /\ build.pc = "idle"
    /\ gens[g].phase = "none"
    /\ \A h \in Generations : h < g => gens[h].phase # "none"
    /\ active # 0 \/ g = 1
    /\ gens' = [gens EXCEPT ![g].phase = "building", ![g].request = request]
    /\ build' = [pc |-> "validate", gen |-> g, code |-> ""]
    /\ UNCHANGED <<disk, images, active>>

\* The I/O sources are the bots the process was started with, enabled or not.
Fingerprint(g) == process_owned_fingerprint(Config(g), Cardinality(DOMAIN Config(1).bots))

\* The tests in their order: options and graph, databases, restart, completeness, order.
\* The process services are always there: main and the reloads pass them on.
Validate ==
    LET g == build.gen
        c == Config(g)
        errors == validate_actor_runtime_config(c) \cup validate_actor_pipeline_configs(c)
                     \cup validate_db_configs(c)
        order == ordered_actors(EnabledActors(c))
    IN /\ build.pc = "validate"
       /\ \/ /\ errors # {}
             /\ Fail("config_invalid")
             /\ UNCHANGED gens
          \/ /\ errors = {}
             /\ \/ /\ active # 0
                   /\ changed_process_owned_domains(Fingerprint(active), Fingerprint(g)) # {}
                   /\ Fail("reload_restart_required")
                   /\ UNCHANGED gens
                \/ /\ active # 0 =>
                        changed_process_owned_domains(Fingerprint(active), Fingerprint(g)) = {}
                   /\ \/ /\ EnabledActors(c) = <<>> /\ c.pipelines = <<>> /\ c.routes = <<>>
                         /\ Fail("not configured")
                         /\ UNCHANGED gens
                      \/ /\ (EnabledActors(c) = <<>>) # (c.pipelines = <<>> /\ c.routes = <<>>)
                         /\ Fail("reload_actor_graph_invalid")
                         /\ UNCHANGED gens
                      \/ /\ EnabledActors(c) # <<>> /\ (c.pipelines # <<>> \/ c.routes # <<>>)
                         /\ \/ Len(order) # Len(EnabledActors(c)) /\ Fail("actor_dependency_cycle")
                            \/ Len(order) = Len(EnabledActors(c)) /\ Goto("create")
                         /\ gens' = [gens EXCEPT ![g].order = order]
       /\ UNCHANGED <<disk, images, active>>

\* The staging root of the generation; the directory may not be there yet.
CreateRoot ==
    /\ build.pc = "create"
    /\ \/ Fail("reload_staging_failed") /\ UNCHANGED gens
       \/ Goto("stage") /\ gens' = [gens EXCEPT ![build.gen].root = TRUE]
    /\ UNCHANGED <<disk, images, active>>

-----------------------------------------------------------------------------
(* One actor after the other: stage, discover, test its configuration.     *)

NextToStage(g) == gens[g].order[Len(gens[g].loaded) + Cardinality(gens[g].discovered) + 1]

\* The private libraries an actor reaches.
PrivateClosure(a) ==
    LET reach[k \in 0..Cardinality(Private)] ==
            IF k = 0 THEN {a}
            ELSE reach[k - 1] \cup UNION {Needs[f] \cap Private : f \in reach[k - 1]}
    IN reach[Cardinality(Private)]

\* The identities of the process-owned libraries that the closure needs, by digest.
OwnedBy(a) ==
    [f \in ProcessOwned \cap UNION {Needs[d] : d \in PrivateClosure(a)} |-> disk[f]]

Changed(known, found) == \E f \in DOMAIN known \cap DOMAIN found : known[f] # found[f]

\* resolve_actor_library and ActorPackageStager::stage. The library may be missing,
\* and inspecting, copying, rewriting and verifying the closure may each fail.
Stage ==
    LET g == build.gen
        a == NextToStage(g)
        owned == OwnedBy(a)
    IN /\ build.pc = "stage"
       /\ \/ Fail("reload_dependency_identity_conflict") /\ UNCHANGED gens
          \/ /\ active # 0 => ~Changed(gens[active].owned, owned)
             /\ Goto("discover")
             /\ gens' = [gens EXCEPT
                   ![g].staged = (a :> Restrict(disk, PrivateClosure(a))) @@ @,
                   ![g].owned = owned @@ @]
       /\ UNCHANGED <<disk, images, active>>

\* discover_actor_library: dlopen, the symbols, the contract. Every failure closes it.
\* A library that exports the name of an actor that is not there yet stays open under
\* that name, although it is not the configured one.
Discover ==
    LET g == build.gen
        a == NextToStage(g)
        document == gens[g].request.documents[a]
        contract == parse_actor_contract(document, a)
        section == EnabledActors(Config(g))[CHOOSE i \in DOMAIN EnabledActors(Config(g)) :
                                               EnabledActors(Config(g))[i].name = a].section
        found == [gens EXCEPT ![g].discovered = @ \cup {a}]
    IN /\ build.pc = "discover"
       /\ \/ Fail("reload_contract_invalid") /\ UNCHANGED <<gens, images>>
          \/ /\ contract.valid
             /\ gens' = found
             /\ images' = Opened(g, a)
             /\ IF ~validate_actor_configuration(contract, section) THEN Fail("reload_actor_config_invalid")
                ELSE IF Cardinality(found[g].discovered) < Len(gens[g].order) THEN Goto("stage")
                ELSE Goto("connect")
          \/ /\ document.actor \notin gens[g].discovered \cup {a}
             /\ parse_actor_contract(document, document.actor).valid
             /\ gens' = found
             /\ images' = Opened(g, a)
             /\ Fail("reload_contract_invalid")
       /\ UNCHANGED <<disk, active>>

AcceptedInputs(g) ==
    [a \in gens[g].discovered |-> Range(gens[g].request.documents[a].inputs)]

MissingBot(c) ==
    \E b \in DOMAIN c.bots : c.bots[b].enabled /\ b \notin RegisteredBots

\* The command routing table (CommandTable; here it may be refused), the inputs of
\* the stages, and for a reload the bots of the process.
Connect ==
    LET g == build.gen
    IN /\ build.pc = "connect"
       /\ \/ Config(g).routes # <<>> /\ Fail("command_table")
          \/ /\ validate_actor_pipeline_contracts(Config(g), AcceptedInputs(g)) # {}
             /\ Fail("reload_contract_invalid")
          \/ /\ validate_actor_pipeline_contracts(Config(g), AcceptedInputs(g)) = {}
             /\ IF active # 0 /\ MissingBot(Config(g)) THEN Fail("reload_bot_unavailable")
                ELSE Goto("activate")
       /\ UNCHANGED <<disk, images, gens, active>>

\* activate_actor and register_actor of the next actor: the object is made; its
\* constructor may throw or return nothing, and registering the object may throw.
Activate ==
    LET g == build.gen
        a == gens[g].order[Len(gens[g].loaded) + 1]
        activated == [gens EXCEPT ![g].loaded = Append(@, a), ![g].discovered = @ \ {a}]
    IN /\ build.pc = "activate"
       /\ \/ Fail("reload_activation_failed") /\ UNCHANGED gens
          \/ Fail("reload_activation_failed") /\ gens' = activated
          \/ /\ gens' = activated
             /\ IF Len(gens[g].loaded) + 1 = Len(gens[g].order) THEN Goto("ready") ELSE Goto("activate")
       /\ UNCHANGED <<disk, images, active>>

\* The generation is published; the one before it retires.
Publish ==
    /\ build.pc = "ready"
    /\ gens' = [h \in Generations |->
          IF h = build.gen THEN [gens[h] EXCEPT !.phase = "active"]
          ELSE IF h = active THEN [gens[h] EXCEPT !.phase = "retiring"] ELSE gens[h]]
    /\ active' = build.gen
    /\ build' = NoBuild
    /\ UNCHANGED <<disk, images>>

\* A failed build drops its generation, if it came to be. So does main with a complete
\* one at startup, when it was only to validate or there are no bots.
Drop ==
    LET g == build.gen
    IN /\ build.pc = "failed" \/ (build.pc = "ready" /\ active = 0)
       /\ gens' = [gens EXCEPT ![g].phase = IF gens[g].root THEN "retiring" ELSE "gone"]
       /\ build' = NoBuild
       /\ UNCHANGED <<disk, images, active>>

-----------------------------------------------------------------------------
(* RuntimeGeneration::shutdown and the destructor.                         *)

\* The active generation at the end of the process.
Stop ==
    /\ build.pc = "idle"
    /\ active # 0
    /\ gens' = [gens EXCEPT ![active].phase = "retiring"]
    /\ active' = 0
    /\ UNCHANGED <<disk, images, build>>

\* Mutant: the libraries are not retained.
begin_actor_retirement_closes(g) ==
    /\ gens[g].phase = "retiring"
    /\ \E cs \in SUBSET Range(gens[g].loaded) :
          LET after == [gens EXCEPT ![g].phase = "joining", ![g].loaded = <<>>,
                                    ![g].discovered = {}, ![g].callbacks = cs]
          IN gens' = after /\ images' = Closed(after)
    /\ UNCHANGED <<disk, build, active>>

\* The objects are destroyed, their libraries retained; a destructor may leave
\* callbacks behind. A library that was only discovered is closed.
begin_actor_retirement(g) ==
    /\ gens[g].phase = "retiring"
    /\ \E cs \in SUBSET Range(gens[g].loaded) :
          LET after == [gens EXCEPT ![g].phase = "joining", ![g].loaded = <<>>,
                                    ![g].discovered = {}, ![g].callbacks = cs,
                                    ![g].retained = Range(gens[g].loaded)]
          IN gens' = after /\ images' = Closed(after)
    /\ UNCHANGED <<disk, build, active>>

\* A callback on the I/O pool of the generation runs code of its actor.
CallbackRuns(g, a) ==
    /\ a \in gens[g].callbacks
    /\ gens' = [gens EXCEPT ![g].callbacks = @ \ {a}]
    /\ UNCHANGED <<disk, images, build, active>>

\* actor_io_pool_->join(), then the libraries are closed.
finish_actor_retirement(g) ==
    /\ gens[g].phase = "joining"
    /\ gens[g].callbacks = {}
    /\ LET after == [gens EXCEPT ![g].phase = "closed", ![g].retained = {}]
       IN gens' = after /\ images' = Closed(after)
    /\ UNCHANGED <<disk, build, active>>

\* The staged packages and the staging root are removed.
Destroy(g) ==
    /\ gens[g].phase = "closed"
    /\ gens' = [gens EXCEPT ![g].phase = "gone", ![g].root = FALSE]
    /\ UNCHANGED <<disk, images, build, active>>

Build ==
    \/ \E g \in Generations : \E request \in Requests[g] : Begin(g, request)
    \/ Validate \/ CreateRoot \/ Stage \/ Discover \/ Connect \/ Activate \/ Publish \/ Drop

Next ==
    \/ Build
    \/ \E f \in Replaceable : Deploy(f)
    \/ Stop
    \/ \E g \in Generations :
          \/ begin_actor_retirement(g) \/ finish_actor_retirement(g) \/ Destroy(g)
          \/ \E a \in Actors : CallbackRuns(g, a)

Spec == Init /\ [][Next]_vars

-----------------------------------------------------------------------------
TypeOK ==
    /\ disk \in [DOMAIN Needs -> 1..MaxVersion]
    /\ active \in Generations \cup {0}
    /\ \A g \in Generations :
          gens[g].phase \in {"none", "building", "active", "retiring", "joining", "closed", "gone"}

\* No object, discovered library or callback of an actor outlives the mapping of its
\* code, nor that of the libraries it needs: not in a failed candidate, not while the
\* callbacks that destructors left behind are drained.
CodeIsMapped ==
    \A g \in Generations :
        \A a \in gens[g].discovered \cup Range(gens[g].loaded) \cup gens[g].callbacks :
            Reachable(images, {ActorIdentity(g, a)}) \subseteq DOMAIN images

\* An actor runs with the private libraries that were staged for it, also when older
\* versions of them are still mapped: those it needs directly.
DirectDependencyIsStaged ==
    \A g \in Generations :
        \A a \in gens[g].discovered \cup Range(gens[g].loaded) :
            \A i \in images[ActorIdentity(g, a)].binds :
                i.file \in Private => images[i].content = gens[g].staged[a][i.file]

\* A library of the process is reused by a candidate only with the content it is mapped
\* with, as long as the generation that serves uses it too.
ProcessOwnedIsExact ==
    active # 0 =>
        \A g \in Generations : gens[g].phase \in {"building", "active"} =>
            \A f \in DOMAIN gens[g].owned \cap DOMAIN gens[active].owned :
                gens[g].owned[f] = images[ProcessIdentity(f)].content

\* Actors run with the libraries that were examined for them, private and shared ones.
LibrariesAreExamined == DirectDependencyIsStaged /\ ProcessOwnedIsExact

\* What the specification of reloads says of every private library of the closure.
CandidateRunsItsClosure ==
    \A g \in Generations :
        \A a \in Range(gens[g].loaded) :
            \A i \in Reachable(images, {ActorIdentity(g, a)}) :
                i.file \in Private => images[i].content = gens[g].staged[a][i.file]

\* What is written in the configuration of a generation that serves is what holds: a
\* reader that falls back to a default never does so for a written value.
WrittenValuesHold(c) ==
    LET read == get_command_runtime_config(c)
    IN /\ c.policy \in {"absent", get_actor_runtime_config(c).policy}
       /\ \A o \in {"workers", "blocking_workers", "slow_resume_warning_ms"} :
             c.options[o] \in {Absent, Int_(get_actor_runtime_config(c)[o])}
       /\ c.options.hop_limit \in {Absent, Int_(get_actor_runtime_config(c).routing_hop_limit)}
       /\ \A i \in DOMAIN c.routes :
             /\ c.routes[i].fallback \in {"absent", read.routes[i].fallback}
             /\ c.routes[i].timeout_ms \in {Absent, Int_(read.routes[i].timeout_ms)}

\* A generation that serves can run what it was configured for. Actors are made after
\* the ones they require and use databases the process has opened at startup; every
\* stage has a loaded actor that accepts its input; the stages can be run in an order
\* in which none waits for a later one; and it runs with the values that are written.
ActiveIsSound ==
    active # 0 =>
        LET c == Config(active)
            at(a) == CHOOSE i \in DOMAIN gens[active].loaded : gens[active].loaded[i] = a
        IN /\ WrittenValuesHold(c)
           /\ Range(gens[active].loaded) = ActorNames(c)
           /\ \A a \in Range(EnabledActors(c)) :
                 /\ \A r \in Range(a.required) : at(r) < at(a.name)
                 /\ a.db \in Config(1).dbs \cup {""}
           /\ \A s \in AllStages(c) :
                 s.input \in Range(gens[active].request.documents[s.actor].inputs)
           /\ \A p \in Range(c.pipelines) :
                 \E rank \in [StageNames(p) -> 1..Len(p.stages)] :
                    \A s \in Range(p.stages) : \A d \in Range(s.after) : rank[d] < rank[s.name]

\* The runtime uses the threads of the machine, no fewer and no more, leaves none of
\* the three kinds of work without one, and grants every written number if they fit,
\* where a kind without a written number needs one thread.
BudgetIsExact ==
    \A g \in Generations : gens[g].phase # "none" =>
        LET r == ThreadRequest(Config(g), Cardinality(DOMAIN Config(1).bots))
            b == resolve_runtime_thread_budget(r)
            kinds == {"actor_workers", "io_workers", "blocking_workers"}
        IN /\ b.actor_workers + b.io_workers + b.blocking_workers = normalized_total
           /\ \A k \in kinds : b[k] >= 1
           /\ AtLeastOne(r.actor_workers) + AtLeastOne(r.io_workers) + AtLeastOne(r.blocking_workers)
                 <= normalized_total =>
                 \A k \in kinds : b[k] >= r[k]
=============================================================================
