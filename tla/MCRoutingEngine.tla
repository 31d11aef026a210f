-------------------------- MODULE MCRoutingEngine ---------------------------
(* Small instances of RoutingEngine. *)
EXTENDS RoutingEngine, TLC

CONSTANTS r1, r2, A, B, C, x, chat, direct

On(p) == [provider |-> p, model |-> x]

Route(strategy, targets) ==
    chat :> [strategy |-> strategy, targets |-> targets]

(* An adapter with these accounts, without rules of its own. *)
Keyed(accounts) ==
    [accounts |-> accounts, errors |-> [statusRules |-> << >>, textRules |-> << >>]]

(* Upstream answers. *)
Status(s) == [status |-> s, message |-> NoMessage, parses |-> TRUE]
Served == Status(OK)

NoDirect == << >>
Handlers == Permutations({r1, r2})

(* One provider with three accounts. *)
SharedConfig ==
    [routes |-> Route("fallback", <<On(A)>>), aliases |-> << >>,
     registry |-> A :> Keyed(<<1, 2, 3>>), maxAttempts |-> 1, maxCooldown |-> 1]

SharedConfigs == {SharedConfig}
SharedAccounts == {A} \X {1, 2, 3}

(* Two providers, two attempts, a route, an alias and a direct name; the   *)
(* first has rules for A that make a 429 a mere retry and some 503 final,   *)
(* the second rotates the targets, aliases the direct name, has lost a     *)
(* provider and is less patient.                                           *)
Rules ==
    [statusRules |-> <<[status |-> 429, backoff |-> TRUE]>>,
     textRules |-> <<[text |-> "overloaded", backoff |-> FALSE]>>]

ChainConfig ==
    [routes |-> Route("fallback", <<On(A), On(B), On(A)>>), aliases |-> << >>,
     registry |-> A :> [accounts |-> <<1>>, errors |-> Rules]
                  @@ B :> Keyed(<<1>>),
     maxAttempts |-> 2, maxCooldown |-> 1]

LesserConfig ==
    [routes |-> Route("round-robin", <<On(B), On(A)>>), aliases |-> direct :> On(B),
     registry |-> A :> Keyed(<<1>>), maxAttempts |-> 1, maxCooldown |-> 1]

ChainAnswers ==
    {Served, NoAnswer, Status(429), Status(404),
     [status |-> 503, parses |-> FALSE,
      message |-> [empty |-> FALSE, has |-> {"overloaded"}, toolSchema |-> FALSE]]}

SharedAnswers == {Served, Status(429)}
OnlyServed == {Served}

ChainConfigs == {ChainConfig, LesserConfig}
ChainDirect == direct :> On(A)
PairAccounts == {<<A, 1>>, <<B, 1>>}

(* Round-robin routes of three, two and one targets over the same          *)
(* providers.                                                              *)
RoundRobin(targets) ==
    [routes |-> Route("round-robin", targets), aliases |-> << >>,
     registry |-> A :> Keyed(<<1>>) @@ B :> Keyed(<<1>>) @@ C :> Keyed(<<1>>),
     maxAttempts |-> 1, maxCooldown |-> 1]

ThreeTargets == RoundRobin(<<On(A), On(B), On(C)>>)
TwoTargets == RoundRobin(<<On(A), On(C)>>)
OneTarget == RoundRobin(<<On(B)>>)

ShrinkByOne == {ThreeTargets, TwoTargets}
ShrinkByTwo == {ThreeTargets, OneTarget}
TwoOnly == {TwoTargets}
SingleAccounts == {A, B, C} \X {1}

=============================================================================
