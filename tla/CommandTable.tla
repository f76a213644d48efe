---------------------------- MODULE CommandTable ----------------------------
(***************************************************************************)
(* The command routing table of a runtime generation                       *)
(* (src/core/command_coordinator.cpp, command_matcher.cpp) and the         *)
(* detection of a command in a message (command_platform_adapter.cpp).     *)
(*                                                                         *)
(* A configuration c has                                                   *)
(*   c.actors   the enabled actors, with the commands each declares:       *)
(*              name |-> [accepted, valid, pattern]; accepted says that    *)
(*              the request type is an input of the actor, valid that name *)
(*              and description suit a catalog, pattern is its RE2 matcher *)
(*              or NoPattern (a matcher of another kind is a pattern that  *)
(*              does not compile);                                         *)
(*   c.bots     the enabled bots: [type, target];                          *)
(*   c.routes   the sequence of [actor, platforms, commands, bots,         *)
(*              fallback].                                                 *)
(* A platform or bot type is given by the set of the well-known words that *)
(* occur in it, which is all normalize_command_platform looks at.          *)
(***************************************************************************)
EXTENDS Integers, Sequences, FiniteSets, SequencesExt, Functions

CONSTANTS
    NoPattern,      \* a command without a matcher
    MatchedBy,      \* the candidates each compilable pattern matches in full
    CatalogLimit    \* commands Telegram accepts in a menu (100 in the code)

ASSUME TableAssumption ==
    /\ NoPattern \notin DOMAIN MatchedBy
    /\ CatalogLimit \in Nat \ {0}

normalize_command_platform(words) ==
    IF words \cap {"telegram", "tg"} # {} THEN "telegram"
    ELSE IF words \cap {"qq", "onebot"} # {} THEN "qq"
    ELSE "other"

\* command_platform_adapter returns an adapter for these platforms only.
Adapters == {"telegram", "qq"}

Platforms(r) == {normalize_command_platform(r.platforms[i]) : i \in DOMAIN r.platforms}
BotPlatform(c, b) == normalize_command_platform(c.bots[b].type)
Registration(c, r, n) == c.actors[r.actor][n]

\* The (platform, bot, command) scopes that a route owns.
RouteKeys(c, r) ==
    {[platform |-> BotPlatform(c, b), bot |-> b, command |-> n] :
        b \in Range(r.bots), n \in Range(r.commands)}

\* The tests on one route by itself, in the order of the code; the build stops
\* at the first that fails, so later ones may rely on those before them.
RouteRejected(c, r) ==
    \/ r.actor \notin DOMAIN c.actors                     \* command_actor_unavailable
    \/ Cardinality(Platforms(r)) # Len(r.platforms)       \* command_route_scope_duplicate
    \/ ~(Platforms(r) \subseteq Adapters)                 \* ..._adapter_unavailable
    \/ ~IsInjective(r.commands)                           \* command_route_scope_duplicate
    \/ \E n \in Range(r.commands) :
          \/ n \notin DOMAIN c.actors[r.actor]            \* command_not_declared
          \/ ~Registration(c, r, n).accepted              \* command_request_unsupported
    \/ ~IsInjective(r.bots)                               \* command_route_scope_duplicate
    \/ \E b \in Range(r.bots) :
          \/ b \notin DOMAIN c.bots                       \* command_bot_unavailable
          \/ BotPlatform(c, b) \notin Platforms(r)        \* command_bot_platform_mismatch
    \/ {BotPlatform(c, b) : b \in Range(r.bots)} # Platforms(r)  \* ..._scope_empty

\* command_route_conflict: two routes own one scope.
RouteConflict(c) ==
    \E i, j \in DOMAIN c.routes :
        /\ i < j
        /\ RouteKeys(c, c.routes[i]) \cap RouteKeys(c, c.routes[j]) # {}

\* The pattern of the command that a scope of the configuration stands for.
PatternOf(c, k) ==
    LET r == CHOOSE r \in Range(c.routes) : k \in RouteKeys(c, r)
    IN Registration(c, r, k.command).pattern

AllKeys(c) == UNION {RouteKeys(c, c.routes[i]) : i \in DOMAIN c.routes}
SameBot(j, k) == j.platform = k.platform /\ j.bot = k.bot

\* command_pattern_conflict, and the codes of compile_command_re2.
PatternRejected(c) ==
    \E k \in AllKeys(c) :
        /\ PatternOf(c, k) # NoPattern
        /\ \/ PatternOf(c, k) \notin DOMAIN MatchedBy
           \/ \E j \in AllKeys(c) \ {k} :
                 SameBot(j, k) /\ PatternOf(c, j) = PatternOf(c, k)

\* validate_catalog of the platform of each bot in the table.
CatalogRejected(c) ==
    \E k \in AllKeys(c) :
        LET catalog == {j \in AllKeys(c) : SameBot(j, k)}
        IN \/ k.platform = "telegram" /\ Cardinality(catalog) > CatalogLimit
           \/ \E r \in Range(c.routes) :
                 k \in RouteKeys(c, r) /\ ~Registration(c, r, k.command).valid

NoTable == [built |-> FALSE]

\* build_command_routing_table. Partition and timeout of a route come from the
\* actor and the route unchanged.
build_command_routing_table(c) ==
    IF \/ \E i \in DOMAIN c.routes : RouteRejected(c, c.routes[i])
       \/ RouteConflict(c)
       \/ PatternRejected(c)
       \/ CatalogRejected(c)
    THEN NoTable
    ELSE [built    |-> TRUE,
          routes   |-> [k \in AllKeys(c) |->
                          LET r == CHOOSE r \in Range(c.routes) : k \in RouteKeys(c, r)
                          IN [actor |-> r.actor, fallback |-> r.fallback]],
          patterns |-> {[platform |-> k.platform, bot |-> k.bot, command |-> k.command,
                         pattern |-> PatternOf(c, k)] :
                           k \in {k \in AllKeys(c) : PatternOf(c, k) # NoPattern}}]

(***************************************************************************)
(* A text is [slash, entity, name, canonical, target]: does it begin with  *)
(* a slash and a token, how Telegram annotated it ("command": a bot_command entity at  *)
(* offset 0 that fits the text, "bad": one that does not fit, "none"), the *)
(* first token after the slash in lower case, is it a valid command name,  *)
(* and the bot it is addressed to with @, or "".                           *)
(***************************************************************************)
NoCommand == "no command"

command_from_token(t, botTarget, requireCanonical) ==
    IF \/ ~t.slash
       \/ requireCanonical /\ ~t.canonical
       \/ t.target # "" /\ t.target # botTarget
    THEN NoCommand
    ELSE t.name

\* QQ has no bot target: a token addressed to anybody is refused.
detect(platform, t, botTarget) ==
    IF platform = "telegram"
    THEN IF t.entity = "command" THEN command_from_token(t, botTarget, TRUE) ELSE NoCommand
    ELSE command_from_token(t, "", FALSE)

\* CommandRouteMatch: an active scope, none, or the mark of an ambiguous match.
Matched(k) == [ambiguous |-> FALSE, scopes |-> {k}]
Unrouted == [ambiguous |-> FALSE, scopes |-> {}]
Ambiguous == [ambiguous |-> TRUE, scopes |-> {}]

\* match_command_route: the exact scope first, else the one pattern that matches.
match_command_route(table, platform, bot, candidate) ==
    LET exact == [platform |-> platform, bot |-> bot, command |-> candidate]
        matched == {p \in table.patterns :
                       p.platform = platform /\ p.bot = bot /\ candidate \in MatchedBy[p.pattern]}
    IN IF exact \in DOMAIN table.routes THEN Matched(exact)
       ELSE IF Cardinality(matched) > 1 THEN Ambiguous
       ELSE IF matched = {} THEN Unrouted
       ELSE LET p == CHOOSE p \in matched : TRUE
            IN Matched([platform |-> platform, bot |-> bot, command |-> p.command])

KnownBots(table) == {<<k.platform, k.bot>> : k \in DOMAIN table.routes}
=============================================================================
