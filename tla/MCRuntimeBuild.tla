--------------------------- MODULE MCRuntimeBuild ---------------------------
(***************************************************************************)
(* Instances of RuntimeBuild: two actors of one package, where b requires  *)
(* a; a needs the private library x, which needs the private library y,    *)
(* and a library of the process. The requests vary one part of a           *)
(* configuration at a time.                                                *)
(***************************************************************************)
EXTENDS RuntimeBuild

MCNeeds == [a |-> {"x", "p"}, b |-> {"y", "p"}, x |-> {"y"}, y |-> {}, p |-> {}]

Document(inputs) ==
    [kind |-> "object", outputs |-> FALSE, version |-> Int_(1), actor |-> "?", inputs |-> inputs,
     commands |-> <<[name |-> 1, wellformed |-> TRUE, matcher |-> "re2", request |-> 1]>>,
     integers |-> [least |-> [default |-> Int_(1), minimum |-> Int_(0), maximum |-> Absent],
                   most  |-> [default |-> Int_(2), minimum |-> Absent, maximum |-> Int_(3)]],
     less_equal |-> << <<"least", "most">> >>]
Named(d, a) == [d EXCEPT !.actor = a]
Documents == [a |-> Named(Document(<<1, 4>>), "a"), b |-> Named(Document(<<1, 4>>), "b")]

Actor(name, required) ==
    [name |-> name, enabled |-> TRUE, required |-> required, db |-> "", section |-> <<>>]
Stage_(name, actor, input, after) ==
    [name |-> name, actor |-> actor, input |-> input, outputs |-> {4}, after |-> after, mode |-> ""]
Route(fallback, timeout) ==
    [table |-> TRUE, faults |-> {}, fallback |-> fallback, timeout_ms |-> timeout]

Base ==
    [actors    |-> <<Actor("a", <<>>), Actor("b", <<"a">>)>>,
     pipelines |-> <<[source |-> 1, stages |-> <<Stage_("s", "a", 1, <<>>), Stage_("t", "b", 1, <<"s">>)>>]>>,
     dbs       |-> {"main"},
     bots      |-> [q |-> [enabled |-> TRUE, type |-> "qq"]],
     options   |-> [workers |-> Absent, blocking_workers |-> Absent, hop_limit |-> Absent,
                    drain_timeout_ms |-> Absent, command_timeout_ms |-> Absent,
                    slow_resume_warning_ms |-> Absent],
     policy    |-> "absent",
     routes    |-> <<>>,
     routes_array |-> TRUE]

\* Every graph of two actors and of the stages of a pipeline; a disabled actor, a
\* database of an actor, stages of unknown and deaf actors.
Graphs ==
    {[Base EXCEPT !.actors = <<Actor("a", r), Actor("b", s)>>] :
        r \in {<<>>, <<"b">>, <<"a">>}, s \in {<<>>, <<"a">>, <<"a", "a">>}}
    \cup {[Base EXCEPT !.actors[1].enabled = FALSE], [Base EXCEPT !.actors[2].enabled = FALSE],
          [Base EXCEPT !.actors = <<>>], [Base EXCEPT !.pipelines = <<>>],
          [Base EXCEPT !.actors[2].db = "main"], [Base EXCEPT !.actors[2].db = "other"],
          [Base EXCEPT !.actors[2].db = "other", !.dbs = {"main", "other"}],
          [Base EXCEPT !.dbs = {"main", ""}], [Base EXCEPT !.bots.q.enabled = FALSE]}
    \cup {[Base EXCEPT !.pipelines[1].stages =
              <<Stage_("s", "a", i, k), Stage_("t", "b", 4, l), Stage_("u", "a", 1, m)>>] :
            i \in {1, 2}, k \in {<<>>, <<"t">>, <<"u">>}, l \in {<<>>, <<"s">>, <<"u", "s">>},
            m \in {<<>>, <<"s">>, <<"t", "t">>}}
    \cup {[Base EXCEPT !.pipelines[1].source = n] : n \in {0, 2, 4, 5}}

\* Values of options and routes, the configuration of an actor.
Values == {Absent, NotInteger, Int_(-1), Int_(0), Int_(2), Int_(9)}
Options ==
    {[Base EXCEPT !.options.workers = v, !.options.blocking_workers = w] : v \in Values, w \in Values}
    \* The last blocking workers that fit beside one actor worker, and one more.
    \cup {[Base EXCEPT !.options.workers = v, !.options.blocking_workers = Int_(n)] :
            v \in {Absent, Int_(1)}, n \in {6, 7}}
    \cup {[Base EXCEPT !.options.hop_limit = v] : v \in Values}
    \cup {[Base EXCEPT !.options.slow_resume_warning_ms = v] : v \in {NotInteger, Int_(-1), Int_(2)}}
    \cup {[Base EXCEPT !.policy = p] : p \in {"stealing", "sharing", "other"}}
    \cup {[Base EXCEPT !.routes_array = FALSE],
          [Base EXCEPT !.routes = <<[Route("absent", Absent) EXCEPT !.table = FALSE]>>],
          [Base EXCEPT !.routes = <<[Route("absent", Absent) EXCEPT !.faults = {"invalid_command_scope"}]>>]}
    \cup {[Base EXCEPT !.options.drain_timeout_ms = v] : v \in Values}
    \cup {[Base EXCEPT !.options.command_timeout_ms = v] : v \in Values}
    \cup {[Base EXCEPT !.routes = <<Route(f, v)>>] :
            f \in {"absent", "continue", "consume", "other"}, v \in Values}
    \cup {[Base EXCEPT !.actors[1].section = [least |-> v]] : v \in {NotInteger, Int_(-1), Int_(3)}}

Contracts ==
    {[Documents EXCEPT !.a = d] : d \in
        {[Documents.a EXCEPT !.kind = "invalid"], [Documents.a EXCEPT !.outputs = TRUE],
         [Documents.a EXCEPT !.version = Int_(2)], [Documents.a EXCEPT !.actor = "b"],
         [Documents.a EXCEPT !.inputs = <<4, 1>>], [Documents.a EXCEPT !.inputs = <<>>],
         [Documents.a EXCEPT !.commands[1].request = 2], [Documents.a EXCEPT !.inputs = <<4>>],
         [Documents.a EXCEPT !.integers.most.minimum = Int_(3)],
         [Documents.a EXCEPT !.less_equal = << <<"least", "none">> >>]}}

Request(c) == [config |-> c, documents |-> Documents]
MCRequests ==
    << {Request(Base), Request([Base EXCEPT !.options.workers = Int_(2)]),
        Request([Base EXCEPT !.options.hop_limit = Int_(0)])},
       {Request(c) : c \in Graphs \cup Options} \cup {[config |-> Base, documents |-> d] : d \in Contracts} >>
MCBaseOnly == << {Request(Base)}, {Request(Base)} >>
=============================================================================
