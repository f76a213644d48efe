--------------------------- MODULE ActorContract ---------------------------
(***************************************************************************)
(* The contract an actor library exports, as ActorManager reads it         *)
(* (src/core/actor_manager.cpp, parse_actor_contract), and the test of the *)
(* actor's own configuration against it (runtime_generation.cpp).          *)
(*                                                                         *)
(* A document d is                                                         *)
(*   d.kind      "object", or "null", "invalid", "other";                  *)
(*   d.outputs   does it declare outputs;                                  *)
(*   d.version   the schema version, a value as in Configuration;          *)
(*   d.actor     the actor it names;                                       *)
(*   d.inputs    the sequence of accepted inputs;                          *)
(*   d.commands  the sequence of [name, wellformed, matcher, request]:     *)
(*               wellformed stands for its members, its strings and the    *)
(*               form of its name; matcher is "none", "re2" or "bad";      *)
(*   d.integers  key |-> [default, minimum, maximum], values;              *)
(*   d.less_equal  the sequence of <<key, key>>.                           *)
(* Names of inputs and commands are numbers, since only their order and    *)
(* whether they are well formed (positive) matter.                         *)
(***************************************************************************)
EXTENDS Configuration

CONSTANT SchemaWord     \* schema_version is cut to this many values (2^32)

ASSUME ContractAssumption == SchemaWord \in Nat \ {0, 1}

NoContract == [valid |-> FALSE]

\* get<int64_t>, then a cast to uint32_t.
SupportedVersion(v) == v.kind = "int" /\ v.n > 0 /\ v.n % SchemaWord = 1

HeaderAccepted(d, exported_name) ==
    /\ d.kind = "object"
    /\ ~d.outputs
    /\ SupportedVersion(d.version)
    /\ d.actor = exported_name

is_canonical_actor_input(name) == name > 0

InputsAccepted(d) ==
    /\ d.inputs # <<>>
    /\ \A i \in DOMAIN d.inputs : is_canonical_actor_input(d.inputs[i])
    /\ \A i \in 1..(Len(d.inputs) - 1) : d.inputs[i] < d.inputs[i + 1]

CommandsAccepted(d) ==
    /\ \A i \in DOMAIN d.commands :
          /\ d.commands[i].wellformed
          /\ d.commands[i].matcher # "bad"
          /\ is_canonical_actor_input(d.commands[i].request)
          /\ d.commands[i].request \in Range(d.inputs)
    /\ \A i \in 1..(Len(d.commands) - 1) : d.commands[i].name < d.commands[i + 1].name

\* A bound that is written has to be an integer and the default within the bounds.
ConstraintAccepted(k) ==
    /\ k.default.kind = "int"
    /\ k.minimum.kind # "other" /\ k.maximum.kind # "other"
    /\ k.minimum.kind = "int" => k.minimum.n <= k.default.n
    /\ k.maximum.kind = "int" => k.default.n <= k.maximum.n

ConfigurationAccepted(d) ==
    /\ \A key \in DOMAIN d.integers : ConstraintAccepted(d.integers[key])
    /\ \A i \in DOMAIN d.less_equal : Range(d.less_equal[i]) \subseteq DOMAIN d.integers

parse_actor_contract(d, exported_name) ==
    IF /\ HeaderAccepted(d, exported_name)
       /\ InputsAccepted(d)
       /\ CommandsAccepted(d)
       /\ ConfigurationAccepted(d)
    THEN [valid |-> TRUE, inputs |-> Range(d.inputs), commands |-> d.commands,
          integers |-> d.integers, less_equal |-> d.less_equal]
    ELSE NoContract

\* section: key |-> value of the actor's own table. A value that is missing has the
\* default; one that is not an integer is refused.
Effective(contract, section, key) ==
    IF key \in DOMAIN section THEN section[key] ELSE contract.integers[key].default

validate_actor_configuration(contract, section) ==
    /\ \A key \in DOMAIN contract.integers :
          LET v == Effective(contract, section, key)
              k == contract.integers[key]
          IN /\ v.kind = "int"
             /\ k.minimum.kind = "int" => v.n >= k.minimum.n
             /\ k.maximum.kind = "int" => v.n <= k.maximum.n
    /\ \A i \in DOMAIN contract.less_equal :
          Effective(contract, section, contract.less_equal[i][1]).n
             <= Effective(contract, section, contract.less_equal[i][2]).n
=============================================================================
