------------------------------ MODULE Selection ------------------------------
(***************************************************************************)
(* Which account a request gets: the candidates of internal/router/        *)
(* router.go, the balancers of internal/router/balancer.go, and the models *)
(* an account serves (internal/domain/account.go).                         *)
(*                                                                         *)
(* The usable accounts are those the router has (a group may name one that *)
(* was deleted since), that are enabled, and whose breaker allows a        *)
(* request.                                                                *)
(***************************************************************************)
EXTENDS Integers, FiniteSets, SequencesExt

CONSTANTS
    Accounts,        \* account_ids of the key's group in their order, or all accounts
    Aliases,         \* model_aliases of each account: pattern -> model
    AllowedModels,   \* allowed_models of each account: patterns
    MaxConcurrent,   \* max_concurrent of each account
    DefaultWeight    \* of an account without max_concurrent (100)

ASSUME SelectionAssumption ==
    /\ Accounts \subseteq Int /\ IsFiniteSet(Accounts)
    /\ MaxConcurrent \in [Accounts -> Nat]
    /\ DefaultWeight \in Nat \ {0}

Strategies == {"round_robin", "weighted", "priority", "least_connections"}

-----------------------------------------------------------------------------
(* Models.                                                                 *)

\* path.Match, of the patterns there are: a name, or any name.
MatchGlob(pattern, name) == pattern \in {name, "*"}

\* What an alias makes of a model: an exact one first, then whichever pattern
\* the iteration over the map meets first.
MatchAlias(a, model) ==
    IF model \in DOMAIN Aliases[a] THEN {Aliases[a][model]}
    ELSE {Aliases[a][p] : p \in {q \in DOMAIN Aliases[a] : MatchGlob(q, model)}}

ResolveModel(a, model) ==
    IF MatchAlias(a, model) = {} THEN {model} ELSE MatchAlias(a, model)

CanServeModel(a, model) ==
    \/ MatchAlias(a, model) # {}
    \/ AllowedModels[a] = {}
    \/ \E p \in AllowedModels[a] : MatchGlob(p, model)

-----------------------------------------------------------------------------
(* Candidates.                                                             *)

AccountCandidate(a, model, excluded, usable) ==
    /\ a \notin excluded
    /\ a \in usable
    /\ CanServeModel(a, model)

\* groupCandidates and allCandidates: the accounts come in the group's order,
\* or in the order of the maps.
Candidates(order, model, excluded, usable) ==
    LET fit == {i \in DOMAIN order : AccountCandidate(order[i], model, excluded, usable)}
        nth(n) == CHOOSE i \in fit : Cardinality({j \in fit : j <= i}) = n
    IN  [n \in 1..Cardinality(fit) |-> order[nth(n)]]

-----------------------------------------------------------------------------
(* Balancers; `turn' is the counter, `load' the requests in flight.        *)

RoundRobin(candidates, turn) == candidates[(turn % Len(candidates)) + 1]

Weight(a) == IF MaxConcurrent[a] <= 0 THEN DefaultWeight ELSE MaxConcurrent[a]

\* The weights of the candidates up to each position together.
Cumulative(candidates) ==
    LET sum[i \in 0..Len(candidates)] ==
            IF i = 0 THEN 0 ELSE sum[i - 1] + Weight(candidates[i])
    IN  sum

\* The first position in S.
First(S) == CHOOSE i \in S : \A j \in S : i <= j

\* Faulty variant: the last turn of an account goes to it once more.
WeightedOffByOne(candidates, turn) ==
    LET idx == turn % Cumulative(candidates)[Len(candidates)]
        reached == {i \in DOMAIN candidates : idx <= Cumulative(candidates)[i]}
    IN  candidates[IF reached = {} THEN Len(candidates) ELSE First(reached)]

\* The first one whose weights are not used up; failing that the last one.
Weighted(candidates, turn) ==
    LET idx == turn % Cumulative(candidates)[Len(candidates)]
        reached == {i \in DOMAIN candidates : idx < Cumulative(candidates)[i]}
    IN  candidates[IF reached = {} THEN Len(candidates) ELSE First(reached)]

\* The first one with the fewest.
LeastConnections(candidates, load) ==
    candidates[First({i \in DOMAIN candidates :
        \A j \in DOMAIN candidates : load[candidates[i]] <= load[candidates[j]]})]

Priority(candidates) == Head(candidates)

Balance(strategy, candidates, turn, load) ==
    CASE strategy = "round_robin" -> RoundRobin(candidates, turn)
      [] strategy = "weighted" -> Weighted(candidates, turn)
      [] strategy = "least_connections" -> LeastConnections(candidates, load)
      [] strategy = "priority" -> Priority(candidates)
=============================================================================
