------------------------------- MODULE Gateway -------------------------------
(***************************************************************************)
(* api-gateway: ApiGatewayService with its route table, the circuit        *)
(* breaker of each route, the choice of a target, the retries and the      *)
(* cache of responses.  A request advances by the stretches of code        *)
(* between two awaited calls: within a stretch nothing else runs.          *)
(*                                                                         *)
(* What a route matches, its path and its transforms are data: a           *)
(* configuration names the requests it matches, and a request the resource *)
(* it asks of the target.                                                  *)
(***************************************************************************)
EXTENDS Naturals, Sequences, FiniteSetsExt

CONSTANTS
    Requests,      \* calls of clients, each made at most once
    Gets,          \* those whose method is GET
    Resource,      \* the path and query each asks of the target
    Routes,        \* identifiers the database can issue
    Targets,       \* base URLs of services
    Configs,       \* contents of a row of api_routes
    MaxEvents,     \* bound on changes of the table of routes and restarts together
    Unissued, Deleted, NoRoute, NoTarget

VARIABLES
    routes,           \* table api_routes
    changes,          \* changes of it so far
    circuitStates, circuitFailures, targetCounters,  \* the maps of the service
    timers,           \* transitions to HALF_OPEN that setTimeout still holds
    cache,            \* target URLs with a response in Redis
    req,              \* stage, local variables and answer of each request
    restarts

breaker == <<circuitStates, circuitFailures, timers>>
table == <<routes, changes>>
vars == <<routes, changes, circuitStates, circuitFailures, targetCounters, timers, cache, req, restarts>>

CircuitState == {"closed", "open", "half_open"}
Strategies == {"round_robin", "least_connections", "ip_hash", "weighted", "random"}
ApiRoute == [enabled : BOOLEAN, priority : Nat, matches : SUBSET Requests,
             targets : Seq(Targets), loadBalancingStrategy : Strategies,
             enableCircuitBreaker : BOOLEAN, circuitBreakerThreshold : Nat \ {0},
             retryAttempts : Nat, enableCaching : BOOLEAN]

ASSUME ConfigsAssumption == Configs \subseteq ApiRoute
ASSUME RequestsAssumption == IsFiniteSet(Requests) /\ Gets \subseteq Requests
ASSUME AbsentAssumption ==
    /\ Unissued \notin Configs /\ Deleted \notin Configs
    /\ NoRoute \notin Routes /\ NoTarget \notin Targets

Stages == {"new", "found", "cache", "call", "store", "done"}
Answers == {"none", "not_found", "unavailable", "cached", "served", "failed", "lost"}

\* A request that was matched has a route, one that was dispatched a target.
GatewayRequest ==
    {x \in [at : Stages, route : Routes \union {NoRoute}, config : Configs \union {Unissued},
            target : Targets \union {NoTarget}, attempt : Nat, carried : Nat, answer : Answers] :
       /\ x.at \notin {"new", "done"} => x.route \in Routes /\ x.config \in Configs
       /\ x.at \in {"cache", "call", "store"} => x.target \in Targets}

(* Maps, rows and requests keep their types. *)
TypeOK ==
    /\ routes \in [Routes -> Configs \union {Unissued, Deleted}]
    /\ circuitStates \in [Routes -> CircuitState]
    /\ circuitFailures \in [Routes -> Nat]
    /\ targetCounters \in [Routes -> Nat]
    /\ timers \in [Routes -> Nat]
    /\ req \in [Requests -> GatewayRequest]
    /\ changes \in Nat /\ restarts \in Nat

NewRequest == [at |-> "new", route |-> NoRoute, config |-> Unissued, target |-> NoTarget,
               attempt |-> 0, carried |-> 0, answer |-> "none"]

Init ==
    /\ routes = [r \in Routes |-> Unissued] /\ changes = 0
    /\ circuitStates = [r \in Routes |-> "closed"]
    /\ circuitFailures = [r \in Routes |-> 0]
    /\ targetCounters = [r \in Routes |-> 0]
    /\ timers = [r \in Routes |-> 0]
    /\ cache = {}
    /\ req = [q \in Requests |-> NewRequest]
    /\ restarts = 0

-----------------------------------------------------------------------------
(* The administration of routes.  A request already on its way keeps the   *)
(* row it has read; the maps keep what they hold of a deleted route.       *)

Exists(r) == routes[r] \in Configs

SaveRow(r, row) ==
    /\ changes + restarts < MaxEvents /\ changes' = changes + 1
    /\ routes' = [routes EXCEPT ![r] = row]
    /\ UNCHANGED <<breaker, targetCounters, cache, req, restarts>>

CreateRoute(r) == routes[r] = Unissued /\ \E c \in Configs : SaveRow(r, c)
UpdateRoute(r) == Exists(r) /\ \E c \in Configs : SaveRow(r, c)
DeleteRoute(r) == Exists(r) /\ SaveRow(r, Deleted)

-----------------------------------------------------------------------------
(* The circuit breaker of a route, called within the stretches below.      *)

IsCircuitOpen(r) == circuitStates[r] = "open"

\* Mutant: a success closes the circuit in any state.
RecordCircuitSuccessCloses(r) ==
    /\ circuitFailures' = [circuitFailures EXCEPT ![r] = 0]
    /\ circuitStates' = [circuitStates EXCEPT ![r] = "closed"]
    /\ UNCHANGED timers

RecordCircuitSuccess(r) ==
    /\ circuitFailures' = [circuitFailures EXCEPT ![r] = 0]
    /\ circuitStates' = [circuitStates EXCEPT ![r] = IF @ = "half_open" THEN "closed" ELSE @]
    /\ UNCHANGED timers

\* Mutant: only a closed circuit starts the timer when it opens.
RecordCircuitFailureFromClosed(r, c) ==
    IF c.enableCircuitBreaker
    THEN /\ circuitFailures' = [circuitFailures EXCEPT ![r] = @ + 1]
         /\ IF circuitFailures[r] + 1 >= c.circuitBreakerThreshold
            THEN /\ circuitStates' = [circuitStates EXCEPT ![r] = "open"]
                 /\ timers' = IF circuitStates[r] = "closed"
                              THEN [timers EXCEPT ![r] = @ + 1] ELSE timers
            ELSE UNCHANGED <<circuitStates, timers>>
    ELSE UNCHANGED breaker

(* Every failure at or above the threshold opens the circuit again and     *)
(* starts a timer of its own.                                              *)
RecordCircuitFailure(r, c) ==
    IF c.enableCircuitBreaker
    THEN /\ circuitFailures' = [circuitFailures EXCEPT ![r] = @ + 1]
         /\ IF circuitFailures[r] + 1 >= c.circuitBreakerThreshold
            THEN /\ circuitStates' = [circuitStates EXCEPT ![r] = "open"]
                 /\ timers' = [timers EXCEPT ![r] = @ + 1]
            ELSE UNCHANGED <<circuitStates, timers>>
    ELSE UNCHANGED breaker

\* Mutant: the timer leaves a circuit alone that counts no failure any more.
HalfOpenUnlessReset(r) ==
    /\ timers[r] > 0
    /\ timers' = [timers EXCEPT ![r] = @ - 1]
    /\ circuitStates' = [circuitStates EXCEPT ![r] =
                            IF circuitFailures[r] > 0 THEN "half_open" ELSE @]
    /\ UNCHANGED <<table, circuitFailures, targetCounters, cache, req, restarts>>

(* A timer fires whatever the circuit has become since it was started. *)
HalfOpen(r) ==
    /\ timers[r] > 0
    /\ timers' = [timers EXCEPT ![r] = @ - 1]
    /\ circuitStates' = [circuitStates EXCEPT ![r] = "half_open"]
    /\ UNCHANGED <<table, circuitFailures, targetCounters, cache, req, restarts>>

-----------------------------------------------------------------------------
(* The choice of a target.                                                 *)

RoundRobin(c) == c.loadBalancingStrategy \in {"round_robin", "least_connections"}

(* The targets the strategy may pick. *)
Selectable(r, c) ==
    CASE RoundRobin(c) -> {c.targets[(targetCounters[r] % Len(c.targets)) + 1]}
      [] c.loadBalancingStrategy \in {"weighted", "random"} ->
           {c.targets[i] : i \in DOMAIN c.targets}
      [] OTHER -> {c.targets[1]}

AdvanceCounter(r, c) ==
    targetCounters' = IF RoundRobin(c) THEN [targetCounters EXCEPT ![r] = @ + 1]
                                       ELSE targetCounters

-----------------------------------------------------------------------------
(* A request.                                                              *)

Url(q) == <<req[q].target, Resource[q]>>
Caches(q) == req[q].config.enableCaching /\ q \in Gets

Matching(q) == {r \in Routes : Exists(r) /\ q \in routes[r].matches}

(* routeRequest up to the answer of the database: of the rows that match,  *)
(* disabled ones included, the first by priority.                          *)
FindMatchingRoute(q) ==
    /\ req[q].at = "new"
    /\ \/ /\ Matching(q) = {}
          /\ req' = [req EXCEPT ![q].at = "done", ![q].answer = "not_found"]
       \/ \E r \in Matching(q) :
            /\ \A s \in Matching(q) : routes[s].priority <= routes[r].priority
            /\ req' = [req EXCEPT ![q].at = "found", ![q].route = r, ![q].config = routes[r]]
    /\ UNCHANGED <<table, breaker, targetCounters, cache, restarts>>

Refused(q) ==
    LET c == req[q].config IN
    \/ ~c.enabled
    \/ c.enableCircuitBreaker /\ IsCircuitOpen(req[q].route)
    \/ c.targets = <<>>

\* Mutant: a refusal inside the try counts as a failure of the route.
RefuseCounts(q) ==
    /\ req[q].at = "found" /\ Refused(q)
    /\ req' = [req EXCEPT ![q].at = "done", ![q].answer = "unavailable"]
    /\ RecordCircuitFailure(req[q].route, req[q].config)
    /\ UNCHANGED <<table, targetCounters, cache, restarts>>

Refuse(q) ==
    /\ req[q].at = "found" /\ Refused(q)
    /\ req' = [req EXCEPT ![q].at = "done", ![q].answer = "unavailable"]
    /\ UNCHANGED <<table, breaker, targetCounters, cache, restarts>>

\* Mutant: a half open circuit keeps requests waiting until it is closed.
DispatchNotHalfOpen(q) ==
    LET r == req[q].route  c == req[q].config IN
    /\ req[q].at = "found" /\ ~Refused(q) /\ circuitStates[r] # "half_open"
    /\ \E t \in Selectable(r, c) :
         req' = [req EXCEPT ![q].at = IF Caches(q) THEN "cache" ELSE "call", ![q].target = t]
    /\ AdvanceCounter(r, c)
    /\ UNCHANGED <<table, breaker, cache, restarts>>

(* From the breaker to the first awaited call there is no interleaving. *)
Dispatch(q) ==
    LET r == req[q].route  c == req[q].config IN
    /\ req[q].at = "found" /\ ~Refused(q)
    /\ \E t \in Selectable(r, c) :
         req' = [req EXCEPT ![q].at = IF Caches(q) THEN "cache" ELSE "call", ![q].target = t]
    /\ AdvanceCounter(r, c)
    /\ UNCHANGED <<table, breaker, cache, restarts>>

(* An error of Redis is a miss. *)
GetCachedResponse(q) ==
    /\ req[q].at = "cache"
    /\ \/ /\ Url(q) \in cache
          /\ req' = [req EXCEPT ![q].at = "done", ![q].answer = "cached"]
       \/ req' = [req EXCEPT ![q].at = "call"]
    /\ UNCHANGED <<table, breaker, targetCounters, cache, restarts>>

(* An attempt is answered: the service has carried the request out. *)
Succeed(q) ==
    /\ req[q].at = "call"
    /\ req' = [req EXCEPT ![q].carried = @ + 1,
                          ![q].at = IF Caches(q) THEN "store" ELSE "done",
                          ![q].answer = IF Caches(q) THEN @ ELSE "served"]
    /\ RecordCircuitSuccess(req[q].route)
    /\ UNCHANGED <<table, targetCounters, cache, restarts>>

\* Mutant: a retry is refused by a circuit that opened in the meantime.
FailAndRefuse(q) ==
    /\ req[q].at = "call"
    /\ \E n \in {0, 1} :
         IF req[q].attempt < req[q].config.retryAttempts /\ ~IsCircuitOpen(req[q].route)
         THEN /\ req' = [req EXCEPT ![q].carried = @ + n, ![q].attempt = @ + 1]
              /\ UNCHANGED breaker
         ELSE /\ req' = [req EXCEPT ![q].carried = @ + n, ![q].at = "done", ![q].answer =
                           IF IsCircuitOpen(req[q].route) THEN "unavailable" ELSE "failed"]
              /\ RecordCircuitFailure(req[q].route, req[q].config)
    /\ UNCHANGED <<table, targetCounters, cache, restarts>>

(* An attempt fails, with an error answer, without any or too late: the    *)
(* service may have carried the request out.                               *)
Fail(q) ==
    /\ req[q].at = "call"
    /\ \E n \in {0, 1} :
         IF req[q].attempt < req[q].config.retryAttempts
         THEN /\ req' = [req EXCEPT ![q].carried = @ + n, ![q].attempt = @ + 1]
              /\ UNCHANGED breaker
         ELSE /\ req' = [req EXCEPT ![q].carried = @ + n, ![q].at = "done", ![q].answer = "failed"]
              /\ RecordCircuitFailure(req[q].route, req[q].config)
    /\ UNCHANGED <<table, targetCounters, cache, restarts>>

(* An error of Redis is swallowed. *)
CacheResponse(q) ==
    /\ req[q].at = "store"
    /\ cache' \in {cache, cache \union {Url(q)}}
    /\ req' = [req EXCEPT ![q].at = "done", ![q].answer = "served"]
    /\ UNCHANGED <<table, breaker, targetCounters, restarts>>

-----------------------------------------------------------------------------
(* The environment.                                                        *)

CacheExpires ==
    /\ \E u \in cache : cache' = cache \ {u}
    /\ UNCHANGED <<table, breaker, targetCounters, req, restarts>>

(* The gateway restarts: the maps and the timers are gone, and so are the  *)
(* requests on their way.                                                  *)
Restart ==
    /\ changes + restarts < MaxEvents
    /\ restarts' = restarts + 1
    /\ circuitStates' = [r \in Routes |-> "closed"]
    /\ circuitFailures' = [r \in Routes |-> 0]
    /\ targetCounters' = [r \in Routes |-> 0]
    /\ timers' = [r \in Routes |-> 0]
    /\ req' = [q \in Requests |->
                 IF req[q].at \in {"new", "done"} THEN req[q]
                 ELSE [req[q] EXCEPT !.at = "done", !.answer = "lost"]]
    /\ UNCHANGED <<table, cache>>

RouteRequest(q) ==
    \/ Refuse(q) \/ Dispatch(q) \/ GetCachedResponse(q)
    \/ Succeed(q) \/ Fail(q) \/ CacheResponse(q)

Next ==
    \/ \E r \in Routes : CreateRoute(r) \/ UpdateRoute(r) \/ DeleteRoute(r) \/ HalfOpen(r)
    \/ \E q \in Requests : FindMatchingRoute(q) \/ RouteRequest(q)
    \/ CacheExpires
    \/ Restart

(* The event loop resumes what is pending and runs the timers that are     *)
(* due; an attempt ends by its timeout at the latest.                      *)
Fairness ==
    /\ \A q \in Requests : WF_vars(RouteRequest(q))
    /\ \A r \in Routes : WF_vars(HalfOpen(r))

Spec == Init /\ [][Next]_vars /\ Fairness

-----------------------------------------------------------------------------
FailedOn(r) == {q \in Requests : req[q].route = r /\ req[q].answer = "failed"}

(* What opened a circuit also started the timer that ends it: a circuit is *)
(* never open for good (recordCircuitFailure and its setTimeout).          *)
OpenHasTimer == \A r \in Routes : IsCircuitOpen(r) => timers[r] > 0

(* A circuit opens only after as many failed requests as the route of one  *)
(* of them asks for: neither attempts that are retried nor refusals by the *)
(* open circuit itself count (recordCircuitFailure in the catch clause).   *)
OpenedByFailures ==
    \A r \in Routes : IsCircuitOpen(r) =>
        \E q \in FailedOn(r) :
            /\ req[q].config.enableCircuitBreaker
            /\ Cardinality(FailedOn(r)) >= req[q].config.circuitBreakerThreshold

(* What the client is told fits what the service has done: nothing, for a  *)
(* request that was refused or answered by the cache; at least once, and   *)
(* never more often than the route's retries allow, for one that was       *)
(* served (makeRequestWithRetry, routeRequest).                            *)
EffectsAsAnswered ==
    \A q \in Requests :
        /\ req[q].answer \in {"not_found", "unavailable", "cached"} => req[q].carried = 0
        /\ req[q].answer = "served" => req[q].carried > 0
        /\ req[q].config \in Configs => req[q].carried <= req[q].config.retryAttempts + 1

RequestOK(q) ==
    /\ req[q].at # "done" => req[q].answer = "none"
    /\ req[q].at \in {"new", "found", "cache"} => req[q].carried = 0 /\ req[q].attempt = 0
    /\ req[q].at = "new" => req[q].config = Unissued
    /\ req[q].at = "call" => /\ req[q].carried <= req[q].attempt
                             /\ req[q].attempt <= req[q].config.retryAttempts
    /\ req[q].at = "store" => req[q].carried > 0
    /\ req[q].answer = "failed" => req[q].config \in Configs

FailuresAreReal == \A r \in Routes : circuitFailures[r] <= Cardinality(FailedOn(r))

(* The inductive invariant: the answers given so far and the local         *)
(* variables of the requests explain the counters of the breaker.          *)
IInv ==
    /\ TypeOK
    /\ \A q \in Requests : RequestOK(q)
    /\ EffectsAsAnswered
    /\ OpenHasTimer
    /\ FailuresAreReal
    /\ OpenedByFailures

(* An open circuit does not close before it was half open, although        *)
(* requests admitted earlier still succeed (recordCircuitSuccess).         *)
NeverClosesFromOpen ==
    [][\A r \in Routes : IsCircuitOpen(r) /\ circuitStates'[r] = "closed" => restarts' > restarts]_vars

(* A request that found a route is answered, whatever its target does. *)
EveryRequestIsAnswered == \A q \in Requests : req[q].at = "found" ~> req[q].at = "done"

(* A circuit that opens lets requests through again. *)
OpenEnds == \A r \in Routes : IsCircuitOpen(r) ~> ~IsCircuitOpen(r)

=============================================================================
