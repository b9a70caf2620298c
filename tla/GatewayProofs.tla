---------------------------- MODULE GatewayProofs ----------------------------
(***************************************************************************)
(* Theorems about Gateway, for any requests, routes and configurations:    *)
(* types, what a request has had done when it is answered, and the breaker *)
(* of a route: it opens only after failures of the route and never for     *)
(* good.                                                                   *)
(***************************************************************************)
EXTENDS Gateway, FiniteSetTheorems, TLAPS

USE DEF CircuitState, Stages, Answers

LEMMA SelectableIsTarget ==
    ASSUME NEW r \in Routes, NEW c \in Configs, c.targets # <<>>,
           targetCounters \in [Routes -> Nat]
    PROVE  Selectable(r, c) \subseteq Targets
<1>1. c.targets \in Seq(Targets) /\ Len(c.targets) \in Nat \ {0}
  BY ConfigsAssumption DEF ApiRoute
<1>2. (targetCounters[r] % Len(c.targets)) + 1 \in 1..Len(c.targets)
  BY <1>1
<1> QED BY <1>1, <1>2 DEF Selectable

LEMMA TypeInit == Init => TypeOK
BY AbsentAssumption DEF Init, TypeOK, NewRequest, GatewayRequest

LEMMA TypeStep == TypeOK /\ [Next]_vars => TypeOK'
<1> SUFFICES ASSUME TypeOK, [Next]_vars PROVE TypeOK'
  OBVIOUS
<1> USE DEF TypeOK
<1>1. ASSUME NEW r \in Routes, CreateRoute(r) \/ UpdateRoute(r) \/ DeleteRoute(r)
      PROVE  TypeOK'
  BY <1>1 DEF CreateRoute, UpdateRoute, DeleteRoute, SaveRow, breaker
<1>2. ASSUME NEW r \in Routes, HalfOpen(r) PROVE TypeOK'
  BY <1>2 DEF HalfOpen, table
<1>3. ASSUME NEW q \in Requests, FindMatchingRoute(q) PROVE TypeOK'
  <2>1. ASSUME NEW r \in Routes, routes[r] \in Configs
        PROVE  [req[q] EXCEPT !.at = "found", !.route = r, !.config = routes[r]] \in GatewayRequest
    <3> DEFINE x == req[q]
    <3>1. x \in GatewayRequest
      OBVIOUS
    <3> HIDE DEF x, TypeOK
    <3>2. [x EXCEPT !.at = "found", !.route = r, !.config = routes[r]] \in GatewayRequest
      BY <2>1, <3>1 DEF GatewayRequest
    <3> QED BY <3>2 DEF x
  <2>2. [req[q] EXCEPT !.at = "done", !.answer = "not_found"] \in GatewayRequest
    BY DEF GatewayRequest
  <2>3. \E x \in GatewayRequest : req' = [req EXCEPT ![q] = x]
    BY <1>3, <2>1, <2>2 DEF FindMatchingRoute, Matching, Exists
  <2> QED BY <1>3, <2>3 DEF FindMatchingRoute, table, breaker
<1>4. ASSUME NEW q \in Requests, Refuse(q) PROVE TypeOK'
  <2>1. [req[q] EXCEPT !.at = "done", !.answer = "unavailable"] \in GatewayRequest
    BY DEF GatewayRequest
  <2> QED BY <1>4, <2>1 DEF Refuse, table, breaker
<1>5. ASSUME NEW q \in Requests, Dispatch(q) PROVE TypeOK'
  <2>1. req[q].route \in Routes /\ req[q].config \in Configs
    BY <1>5 DEF Dispatch, GatewayRequest
  <2>2. Selectable(req[q].route, req[q].config) \subseteq Targets
    BY <1>5, <2>1, SelectableIsTarget DEF Dispatch, Refused
  <2>3. ASSUME NEW t \in Targets, NEW stage \in {"cache", "call"}
        PROVE  [req[q] EXCEPT !.at = stage, !.target = t] \in GatewayRequest
    BY <2>1 DEF GatewayRequest
  <2>4. \E x \in GatewayRequest : req' = [req EXCEPT ![q] = x]
    BY <1>5, <2>2, <2>3 DEF Dispatch
  <2>5. targetCounters' \in [Routes -> Nat]
    BY <1>5, <2>1 DEF Dispatch, AdvanceCounter
  <2> QED BY <1>5, <2>4, <2>5 DEF Dispatch, table, breaker
<1>6. ASSUME NEW q \in Requests, GetCachedResponse(q) PROVE TypeOK'
  <2>1. /\ [req[q] EXCEPT !.at = "done", !.answer = "cached"] \in GatewayRequest
        /\ [req[q] EXCEPT !.at = "call"] \in GatewayRequest
    BY <1>6 DEF GetCachedResponse, GatewayRequest
  <2> QED BY <1>6, <2>1 DEF GetCachedResponse, table, breaker
<1>7. ASSUME NEW q \in Requests, Succeed(q) PROVE TypeOK'
  <2>1. req[q].route \in Routes
    BY <1>7 DEF Succeed, GatewayRequest
  <2>2. [req[q] EXCEPT !.carried = @ + 1, !.at = IF Caches(q) THEN "store" ELSE "done",
                       !.answer = IF Caches(q) THEN @ ELSE "served"] \in GatewayRequest
    BY <1>7 DEF Succeed, GatewayRequest
  <2> QED BY <1>7, <2>1, <2>2 DEF Succeed, RecordCircuitSuccess, table
<1>8. ASSUME NEW q \in Requests, Fail(q) PROVE TypeOK'
  <2>1. req[q].route \in Routes
    BY <1>8 DEF Fail, GatewayRequest
  <2>2. /\ circuitStates' \in [Routes -> CircuitState]
        /\ circuitFailures' \in [Routes -> Nat]
        /\ timers' \in [Routes -> Nat]
    BY <1>8, <2>1 DEF Fail, RecordCircuitFailure, breaker
  <2>3. ASSUME NEW n \in {0, 1}
        PROVE  /\ [req[q] EXCEPT !.carried = @ + n, !.attempt = @ + 1] \in GatewayRequest
               /\ [req[q] EXCEPT !.carried = @ + n, !.at = "done", !.answer = "failed"]
                    \in GatewayRequest
    BY <1>8 DEF Fail, GatewayRequest
  <2>4. \E x \in GatewayRequest : req' = [req EXCEPT ![q] = x]
    BY <1>8, <2>3 DEF Fail
  <2> QED BY <1>8, <2>2, <2>4 DEF Fail, table
<1>9. ASSUME NEW q \in Requests, CacheResponse(q) PROVE TypeOK'
  <2>1. [req[q] EXCEPT !.at = "done", !.answer = "served"] \in GatewayRequest
    BY DEF GatewayRequest
  <2> QED BY <1>9, <2>1 DEF CacheResponse, table, breaker
<1>10. CASE CacheExpires
  BY <1>10 DEF CacheExpires, table, breaker
<1>11. CASE Restart
  <2>1. ASSUME NEW q \in Requests
        PROVE  [req[q] EXCEPT !.at = "done", !.answer = "lost"] \in GatewayRequest
    BY DEF GatewayRequest
  <2>2. ASSUME NEW q \in Requests PROVE req'[q] \in GatewayRequest
    BY <1>11, <2>1 DEF Restart
  <2>3. req' \in [Requests -> GatewayRequest]
    BY <1>11, <2>2 DEF Restart
  <2>4. routes' \in [Routes -> Configs \union {Unissued, Deleted}] /\ changes' \in Nat
    BY <1>11 DEF Restart, table
  <2>5. /\ circuitStates' = [r \in Routes |-> "closed"]
        /\ circuitFailures' = [r \in Routes |-> 0]
        /\ targetCounters' = [r \in Routes |-> 0]
        /\ timers' = [r \in Routes |-> 0]
        /\ restarts' = restarts + 1
    BY <1>11 DEF Restart
  <2>6. /\ circuitStates' \in [Routes -> CircuitState]
        /\ circuitFailures' \in [Routes -> Nat]
        /\ targetCounters' \in [Routes -> Nat]
        /\ timers' \in [Routes -> Nat]
    BY <2>5
  <2> QED BY <2>3, <2>4, <2>5, <2>6
<1>12. CASE UNCHANGED vars
  BY <1>12 DEF vars
<1> QED BY <1>1, <1>2, <1>3, <1>4, <1>5, <1>6, <1>7, <1>8, <1>9, <1>10, <1>11, <1>12
        DEF Next, RouteRequest

-----------------------------------------------------------------------------
(* What the local variables and the answer of a request say.               *)

RequestsOK == (\A q \in Requests : RequestOK(q)) /\ EffectsAsAnswered

LEMMA RequestsInit == Init => RequestsOK
BY AbsentAssumption DEF Init, RequestsOK, RequestOK, EffectsAsAnswered, NewRequest

LEMMA RequestsStep == TypeOK /\ RequestsOK /\ [Next]_vars => RequestsOK'
<1> SUFFICES ASSUME TypeOK, RequestsOK, [Next]_vars PROVE RequestsOK'
  OBVIOUS
<1> DEFINE Fits(x) ==
      /\ x.at # "done" => x.answer = "none"
      /\ x.at \in {"new", "found", "cache"} => x.carried = 0 /\ x.attempt = 0
      /\ x.at = "new" => x.config = Unissued
      /\ x.at = "call" => x.carried <= x.attempt /\ x.attempt <= x.config.retryAttempts
      /\ x.at = "store" => x.carried > 0
      /\ x.answer = "failed" => x.config \in Configs
      /\ x.answer \in {"not_found", "unavailable", "cached"} => x.carried = 0
      /\ x.answer = "served" => x.carried > 0
      /\ x.config \in Configs => x.carried <= x.config.retryAttempts + 1
<1>a. ASSUME NEW q \in Requests
      PROVE  /\ req[q] \in GatewayRequest
             /\ Fits(req[q])
  BY DEF TypeOK, RequestsOK, RequestOK, EffectsAsAnswered
<1>b. SUFFICES ASSUME NEW p \in Requests PROVE Fits(req'[p])
  BY DEF RequestsOK, RequestOK, EffectsAsAnswered
<1>c. \A c \in Configs : c.retryAttempts \in Nat
  BY ConfigsAssumption DEF ApiRoute
<1>d. req[p] \in GatewayRequest /\ Fits(req[p])
  BY <1>a
<1>e. req \in [Requests -> GatewayRequest]
  BY DEF TypeOK
<1>f. req'[p] = req[p] => Fits(req'[p])
  BY <1>d
<1>1. ASSUME NEW r \in Routes, CreateRoute(r) \/ UpdateRoute(r) \/ DeleteRoute(r) \/ HalfOpen(r)
      PROVE  Fits(req'[p])
  BY <1>1, <1>f DEF CreateRoute, UpdateRoute, DeleteRoute, SaveRow, HalfOpen
<1>2. ASSUME NEW q \in Requests, FindMatchingRoute(q) PROVE Fits(req'[p])
  <2>1. CASE p # q
    BY <2>1, <1>2, <1>e, <1>f DEF FindMatchingRoute
  <2>2. CASE p = q /\ req' = [req EXCEPT ![q].at = "done", ![q].answer = "not_found"]
    <3>1. /\ req'[p] = [req[p] EXCEPT !.at = "done", !.answer = "not_found"]
          /\ req[p].at = "new"
      BY <2>2, <1>2, <1>e DEF FindMatchingRoute
    <3> QED BY <3>1, <1>d, AbsentAssumption DEF GatewayRequest
  <2>3. ASSUME NEW r \in Matching(q), p = q,
               req' = [req EXCEPT ![q].at = "found", ![q].route = r, ![q].config = routes[r]]
        PROVE  Fits(req'[p])
    <3>1. /\ req'[p] = [req[p] EXCEPT !.at = "found", !.route = r, !.config = routes[r]]
          /\ req[p].at = "new" /\ routes[r] \in Configs
      BY <2>3, <1>2, <1>e DEF FindMatchingRoute, Matching, Exists
    <3> QED BY <3>1, <1>c, <1>d DEF GatewayRequest
  <2> QED BY <1>2, <2>1, <2>2, <2>3 DEF FindMatchingRoute
<1>3. ASSUME NEW q \in Requests, Refuse(q) PROVE Fits(req'[p])
  <2>1. CASE p = q
    <3>1. /\ req'[p] = [req[p] EXCEPT !.at = "done", !.answer = "unavailable"]
          /\ req[p].at = "found"
      BY <2>1, <1>3, <1>e DEF Refuse
    <3> QED BY <3>1, <1>c, <1>d DEF GatewayRequest
  <2> QED BY <2>1, <1>3, <1>e, <1>f DEF Refuse
<1>4. ASSUME NEW q \in Requests, Dispatch(q) PROVE Fits(req'[p])
  <2>1. CASE p = q
    <3>1. \E t \in Selectable(req[q].route, req[q].config), stage \in {"cache", "call"} :
            req'[p] = [req[p] EXCEPT !.at = stage, !.target = t]
      BY <2>1, <1>4, <1>e DEF Dispatch
    <3>2. req[p].at = "found"
      BY <2>1, <1>4 DEF Dispatch
    <3> QED BY <3>1, <3>2, <1>c, <1>d DEF GatewayRequest
  <2> QED BY <2>1, <1>4, <1>e, <1>f DEF Dispatch
<1>5. ASSUME NEW q \in Requests, GetCachedResponse(q) PROVE Fits(req'[p])
  <2>1. CASE p = q
    <3>1. /\ \/ req'[p] = [req[p] EXCEPT !.at = "done", !.answer = "cached"]
             \/ req'[p] = [req[p] EXCEPT !.at = "call"]
          /\ req[p].at = "cache"
      BY <2>1, <1>5, <1>e DEF GetCachedResponse
    <3>2. /\ req[p].config \in Configs /\ req[p].config.retryAttempts \in Nat
          /\ req[p].carried \in Nat /\ req[p].attempt \in Nat
      BY <3>1, <1>c, <1>d DEF GatewayRequest
    <3>3. CASE req'[p] = [req[p] EXCEPT !.at = "done", !.answer = "cached"]
      BY <3>1, <3>2, <3>3, <1>d DEF GatewayRequest
    <3>4. CASE req'[p] = [req[p] EXCEPT !.at = "call"]
      BY <3>1, <3>2, <3>4, <1>d DEF GatewayRequest
    <3> QED BY <3>1, <3>3, <3>4
  <2> QED BY <2>1, <1>5, <1>e, <1>f DEF GetCachedResponse
<1>6. ASSUME NEW q \in Requests, Succeed(q) PROVE Fits(req'[p])
  <2>1. CASE p = q
    <3>1. /\ \/ req'[p] = [req[p] EXCEPT !.carried = @ + 1, !.at = "store"]
             \/ req'[p] = [req[p] EXCEPT !.carried = @ + 1, !.at = "done", !.answer = "served"]
          /\ req[p].at = "call"
      BY <2>1, <1>6, <1>d, <1>e DEF Succeed, GatewayRequest
    <3>2. /\ req[p].config \in Configs /\ req[p].config.retryAttempts \in Nat
          /\ req[p].carried \in Nat /\ req[p].attempt \in Nat
      BY <3>1, <1>c, <1>d DEF GatewayRequest
    <3>3. CASE req'[p] = [req[p] EXCEPT !.carried = @ + 1, !.at = "store"]
      BY <3>1, <3>2, <3>3, <1>d DEF GatewayRequest
    <3>4. CASE req'[p] = [req[p] EXCEPT !.carried = @ + 1, !.at = "done", !.answer = "served"]
      BY <3>1, <3>2, <3>4, <1>d DEF GatewayRequest
    <3> QED BY <3>1, <3>3, <3>4
  <2> QED BY <2>1, <1>6, <1>e, <1>f DEF Succeed
<1>7. ASSUME NEW q \in Requests, Fail(q) PROVE Fits(req'[p])
  <2>1. CASE p = q
    <3>1. PICK n \in {0, 1} :
            \/ /\ req[p].attempt < req[p].config.retryAttempts
               /\ req'[p] = [req[p] EXCEPT !.carried = @ + n, !.attempt = @ + 1]
            \/ req'[p] = [req[p] EXCEPT !.carried = @ + n, !.at = "done", !.answer = "failed"]
      BY <2>1, <1>7, <1>e DEF Fail
    <3>2. req[p].at = "call"
      BY <2>1, <1>7 DEF Fail
    <3>3. /\ req[p].config \in Configs /\ req[p].config.retryAttempts \in Nat
          /\ req[p].carried \in Nat /\ req[p].attempt \in Nat
      BY <3>2, <1>c, <1>d DEF GatewayRequest
    <3>4. CASE /\ req[p].attempt < req[p].config.retryAttempts
               /\ req'[p] = [req[p] EXCEPT !.carried = @ + n, !.attempt = @ + 1]
      BY <3>2, <3>3, <3>4, <1>d DEF GatewayRequest
    <3>5. CASE req'[p] = [req[p] EXCEPT !.carried = @ + n, !.at = "done", !.answer = "failed"]
      BY <3>2, <3>3, <3>5, <1>d DEF GatewayRequest
    <3> QED BY <3>1, <3>4, <3>5
  <2> QED BY <2>1, <1>7, <1>e, <1>f DEF Fail
<1>8. ASSUME NEW q \in Requests, CacheResponse(q) PROVE Fits(req'[p])
  <2>1. CASE p = q
    <3>1. /\ req'[p] = [req[p] EXCEPT !.at = "done", !.answer = "served"]
          /\ req[p].at = "store"
      BY <2>1, <1>8, <1>e DEF CacheResponse
    <3> QED BY <3>1, <1>c, <1>d DEF GatewayRequest
  <2> QED BY <2>1, <1>8, <1>e, <1>f DEF CacheResponse
<1>9. CASE Restart
  <2>1. CASE req'[p] = [req[p] EXCEPT !.at = "done", !.answer = "lost"]
    BY <2>1, <1>c, <1>d DEF GatewayRequest
  <2> QED BY <2>1, <1>9, <1>f DEF Restart
<1>10. CASE CacheExpires \/ UNCHANGED vars
  BY <1>10, <1>f DEF CacheExpires, vars
<1> QED BY <1>1, <1>2, <1>3, <1>4, <1>5, <1>6, <1>7, <1>8, <1>9, <1>10 DEF Next, RouteRequest

-----------------------------------------------------------------------------
(* The breaker of a route.                                                 *)

\* The last attempt of a request fails and is recorded.
Records(q) ==
    /\ req[q].at = "call"
    /\ req' = [req EXCEPT ![q] = req'[q]]
    /\ req'[q].answer = "failed"
    /\ req'[q].route = req[q].route /\ req'[q].config = req[q].config
    /\ RecordCircuitFailure(req[q].route, req[q].config)

\* Nothing new counts against a route.
Harmless ==
    \A r \in Routes : /\ circuitFailures'[r] <= circuitFailures[r]
                      /\ IsCircuitOpen(r)' => IsCircuitOpen(r) /\ timers'[r] >= timers[r]

LEMMA RestartClears ==
    ASSUME Restart
    PROVE  /\ circuitStates' = [r \in Routes |-> "closed"]
           /\ circuitFailures' = [r \in Routes |-> 0]
           /\ restarts' = restarts + 1
BY DEF Restart

LEMMA StepKinds ==
    ASSUME TypeOK, [Next]_vars
    PROVE  Harmless \/ \E q \in Requests : Records(q)
<1> USE DEF Harmless, IsCircuitOpen
<1>a. /\ circuitFailures \in [Routes -> Nat] /\ timers \in [Routes -> Nat]
      /\ circuitStates \in [Routes -> CircuitState]
      /\ req \in [Requests -> GatewayRequest]
  BY DEF TypeOK
<1>b. ASSUME UNCHANGED breaker PROVE Harmless
  BY <1>a, <1>b DEF breaker
<1>1. ASSUME NEW r \in Routes, CreateRoute(r) \/ UpdateRoute(r) \/ DeleteRoute(r)
      PROVE  Harmless
  BY <1>1, <1>b DEF CreateRoute, UpdateRoute, DeleteRoute, SaveRow
<1>2. ASSUME NEW r \in Routes, HalfOpen(r) PROVE Harmless
  BY <1>2, <1>a DEF HalfOpen
<1>3. ASSUME NEW q \in Requests,
             \/ FindMatchingRoute(q) \/ Refuse(q) \/ Dispatch(q)
             \/ GetCachedResponse(q) \/ CacheResponse(q)
      PROVE  Harmless
  BY <1>3, <1>b DEF FindMatchingRoute, Refuse, Dispatch, GetCachedResponse, CacheResponse
<1>4. ASSUME NEW q \in Requests, Succeed(q) PROVE Harmless
  <2>1. req[q].route \in Routes
    BY <1>4, <1>a DEF Succeed, GatewayRequest
  <2> QED BY <1>4, <1>a, <2>1 DEF Succeed, RecordCircuitSuccess
<1>5. ASSUME NEW q \in Requests, Fail(q) PROVE Harmless \/ Records(q)
  <2>1. PICK n \in {0, 1} :
          \/ UNCHANGED breaker
          \/ /\ req' = [req EXCEPT ![q].carried = @ + n, ![q].at = "done", ![q].answer = "failed"]
             /\ RecordCircuitFailure(req[q].route, req[q].config)
    BY <1>5 DEF Fail
  <2>2. CASE req' = [req EXCEPT ![q].carried = @ + n, ![q].at = "done", ![q].answer = "failed"]
             /\ RecordCircuitFailure(req[q].route, req[q].config)
    <3>1. req'[q] = [req[q] EXCEPT !.carried = @ + n, !.at = "done", !.answer = "failed"]
      BY <2>2, <1>a
    <3>2. req'[q].answer = "failed" /\ req'[q].route = req[q].route /\ req'[q].config = req[q].config
      BY <3>1, <1>a DEF GatewayRequest
    <3>3. req' = [req EXCEPT ![q] = req'[q]]
      BY <2>2, <3>1, <1>a
    <3> QED BY <1>5, <2>2, <3>2, <3>3 DEF Records, Fail
  <2> QED BY <2>1, <2>2, <1>b
<1>6. CASE CacheExpires \/ UNCHANGED vars
  BY <1>6, <1>b DEF CacheExpires, vars, breaker
<1>7. CASE Restart
  BY <1>7, <1>a, RestartClears
<1> QED BY <1>1, <1>2, <1>3, <1>4, <1>5, <1>6, <1>7 DEF Next, RouteRequest

LEMMA DoneStays ==
    ASSUME TypeOK, [Next]_vars, NEW p \in Requests, req[p].at = "done"
    PROVE  req'[p] = req[p]
<1>1. req \in [Requests -> GatewayRequest]
  BY DEF TypeOK
<1>2. ASSUME NEW q \in Requests, FindMatchingRoute(q) \/ RouteRequest(q)
      PROVE  req'[p] = req[p]
  BY <1>1, <1>2 DEF FindMatchingRoute, RouteRequest, Refuse, Dispatch, GetCachedResponse,
                    Succeed, Fail, CacheResponse
<1>3. CASE Restart
  BY <1>1, <1>3 DEF Restart
<1> QED BY <1>2, <1>3 DEF Next, CreateRoute, UpdateRoute, DeleteRoute, SaveRow, HalfOpen,
                          CacheExpires, vars

LEMMA FailedFinite ==
    ASSUME NEW r \in Routes
    PROVE  IsFiniteSet(FailedOn(r)) /\ Cardinality(FailedOn(r)) \in Nat
BY RequestsAssumption, FS_Subset, FS_CardinalityType DEF FailedOn

LEMMA FailedFinitePrime ==
    ASSUME NEW r \in Routes
    PROVE  IsFiniteSet(FailedOn(r)') /\ Cardinality(FailedOn(r)') \in Nat
BY RequestsAssumption, FS_Subset, FS_CardinalityType DEF FailedOn

(* A failure that was answered is never taken back. *)
LEMMA FailedGrows ==
    ASSUME TypeOK, RequestsOK, [Next]_vars, NEW r \in Routes
    PROVE  /\ FailedOn(r) \subseteq FailedOn(r)'
           /\ \A p \in FailedOn(r) : req'[p] = req[p]
           /\ Cardinality(FailedOn(r)) <= Cardinality(FailedOn(r)')
<1>1. ASSUME NEW p \in FailedOn(r) PROVE req'[p] = req[p]
  <2>1. p \in Requests /\ req[p].at = "done"
    BY DEF FailedOn, RequestsOK, RequestOK
  <2> QED BY <2>1, DoneStays
<1>2. FailedOn(r) \subseteq FailedOn(r)'
  BY <1>1 DEF FailedOn
<1> QED BY <1>1, <1>2, FailedFinitePrime, FS_Subset

LEMMA BreakerInit == Init => OpenHasTimer /\ FailuresAreReal /\ OpenedByFailures
<1> SUFFICES ASSUME Init PROVE OpenHasTimer /\ FailuresAreReal /\ OpenedByFailures
  OBVIOUS
<1> QED BY FailedFinite DEF Init, OpenHasTimer, FailuresAreReal, OpenedByFailures, IsCircuitOpen

LEMMA BreakerStep ==
    ASSUME TypeOK, RequestsOK, OpenHasTimer, FailuresAreReal, OpenedByFailures, [Next]_vars
    PROVE  OpenHasTimer' /\ FailuresAreReal' /\ OpenedByFailures'
<1>a. /\ circuitFailures \in [Routes -> Nat] /\ timers \in [Routes -> Nat]
      /\ circuitStates \in [Routes -> CircuitState]
      /\ req \in [Requests -> GatewayRequest]
  BY DEF TypeOK
<1>b. /\ circuitFailures' \in [Routes -> Nat] /\ timers' \in [Routes -> Nat]
      /\ req' \in [Requests -> GatewayRequest]
  BY TypeStep DEF TypeOK
<1>c. \A c \in Configs : c.circuitBreakerThreshold \in Nat
  BY ConfigsAssumption DEF ApiRoute
\* A circuit that was open already keeps its witness.
<1>d. ASSUME NEW r \in Routes, IsCircuitOpen(r)
      PROVE  \E q \in FailedOn(r)' :
               /\ req'[q].config.enableCircuitBreaker
               /\ Cardinality(FailedOn(r)') >= req'[q].config.circuitBreakerThreshold
  <2>1. PICK q \in FailedOn(r) :
          /\ req[q].config.enableCircuitBreaker
          /\ Cardinality(FailedOn(r)) >= req[q].config.circuitBreakerThreshold
    BY <1>d DEF OpenedByFailures
  <2>2. q \in FailedOn(r)' /\ req'[q] = req[q]
    BY FailedGrows
  <2>3. Cardinality(FailedOn(r)) <= Cardinality(FailedOn(r)')
    BY FailedGrows
  <2>4. req[q].config.circuitBreakerThreshold \in Nat
    BY <1>c DEF FailedOn, RequestsOK, RequestOK
  <2> QED BY <2>1, <2>2, <2>3, <2>4, FailedFinite, FailedFinitePrime
<1>1. CASE Harmless
  <2>1. OpenHasTimer'
    BY <1>1, <1>a, <1>b DEF OpenHasTimer, Harmless, IsCircuitOpen
  <2>2. FailuresAreReal'
    <3> SUFFICES ASSUME NEW r \in Routes
                 PROVE  circuitFailures'[r] <= Cardinality(FailedOn(r)')
      BY DEF FailuresAreReal
    <3>1. circuitFailures'[r] <= circuitFailures[r]
      BY <1>1 DEF Harmless
    <3>2. circuitFailures[r] <= Cardinality(FailedOn(r))
      BY DEF FailuresAreReal
    <3>3. Cardinality(FailedOn(r)) <= Cardinality(FailedOn(r)')
      BY FailedGrows
    <3> QED BY <3>1, <3>2, <3>3, <1>a, <1>b, FailedFinite, FailedFinitePrime
  <2>3. OpenedByFailures'
    BY <1>1, <1>d DEF Harmless, OpenedByFailures, IsCircuitOpen
  <2> QED BY <2>1, <2>2, <2>3
<1>2. ASSUME NEW q \in Requests, Records(q)
      PROVE  OpenHasTimer' /\ FailuresAreReal' /\ OpenedByFailures'
  <2>1. PICK route \in Routes, config \in Configs :
          /\ route = req[q].route /\ config = req[q].config
          /\ config.circuitBreakerThreshold \in Nat
    BY <1>2, <1>a, <1>c DEF Records, GatewayRequest
  <2>2. q \in FailedOn(route)' /\ q \notin FailedOn(route)
    BY <1>2, <2>1, <1>a DEF Records, FailedOn, RequestsOK, RequestOK
  <2>3. Cardinality(FailedOn(route)) + 1 <= Cardinality(FailedOn(route)')
    <3>1. Cardinality(FailedOn(route) \union {q}) = Cardinality(FailedOn(route)) + 1
      BY <2>1, <2>2, FailedFinite, FS_AddElement
    <3>2. FailedOn(route) \union {q} \subseteq FailedOn(route)'
      BY <2>1, <2>2, FailedGrows
    <3>3. Cardinality(FailedOn(route) \union {q}) <= Cardinality(FailedOn(route)')
      BY <2>1, <3>2, FailedFinitePrime, FS_Subset
    <3> QED BY <3>1, <3>3
  <2>4. circuitFailures[route] + 1 <= Cardinality(FailedOn(route)')
    BY <2>1, <2>3, <1>a, FailedFinite, FailedFinitePrime DEF FailuresAreReal
  <2>5. RecordCircuitFailure(route, config)
    BY <1>2, <2>1 DEF Records
  <2>6. OpenHasTimer'
    BY <2>1, <2>5, <1>a DEF RecordCircuitFailure, OpenHasTimer, IsCircuitOpen, breaker
  <2>7. FailuresAreReal'
    <3> SUFFICES ASSUME NEW r \in Routes
                 PROVE  circuitFailures'[r] <= Cardinality(FailedOn(r)')
      BY DEF FailuresAreReal
    <3>1. \/ circuitFailures'[r] = circuitFailures[r]
          \/ r = route /\ circuitFailures'[r] = circuitFailures[route] + 1
      BY <2>1, <2>5, <1>a DEF RecordCircuitFailure, breaker
    <3>2. circuitFailures[r] <= Cardinality(FailedOn(r))
      BY DEF FailuresAreReal
    <3>3. Cardinality(FailedOn(r)) <= Cardinality(FailedOn(r)')
      BY FailedGrows
    <3> QED BY <3>1, <3>2, <3>3, <2>4, <1>a, FailedFinite, FailedFinitePrime
  <2>8. OpenedByFailures'
    <3> SUFFICES ASSUME NEW r \in Routes, IsCircuitOpen(r)'
                 PROVE  \E p \in FailedOn(r)' :
                          /\ req'[p].config.enableCircuitBreaker
                          /\ Cardinality(FailedOn(r)') >= req'[p].config.circuitBreakerThreshold
      BY DEF OpenedByFailures
    <3>1. CASE IsCircuitOpen(r)
      BY <3>1, <1>d
    <3>2. CASE ~IsCircuitOpen(r)
      <4>1. /\ r = route /\ config.enableCircuitBreaker
            /\ circuitFailures[route] + 1 >= config.circuitBreakerThreshold
        BY <3>2, <2>1, <2>5, <1>a DEF RecordCircuitFailure, IsCircuitOpen, breaker
      <4>2. req'[q].config = config
        BY <1>2, <2>1 DEF Records
      <4>3. Cardinality(FailedOn(route)') >= config.circuitBreakerThreshold
        BY <4>1, <2>1, <2>4, <1>a, FailedFinitePrime
      <4> QED BY <4>1, <4>2, <4>3, <2>2
    <3> QED BY <3>1, <3>2
  <2> QED BY <2>6, <2>7, <2>8
<1> QED BY <1>1, <1>2, StepKinds

-----------------------------------------------------------------------------
(* The theorems.                                                           *)

(* The inductive invariant of the gateway: what requests have been told    *)
(* explains every counter and every state of the breaker.                  *)
THEOREM Invariance == Spec => []IInv
<1>1. Init => IInv
  BY TypeInit, RequestsInit, BreakerInit DEF IInv, RequestsOK
<1>2. IInv /\ [Next]_vars => IInv'
  <2> SUFFICES ASSUME IInv, [Next]_vars PROVE IInv'
    OBVIOUS
  <2>1. TypeOK /\ RequestsOK /\ OpenHasTimer /\ FailuresAreReal /\ OpenedByFailures
    BY DEF IInv, RequestsOK
  <2>2. TypeOK' /\ RequestsOK'
    BY <2>1, TypeStep, RequestsStep
  <2>3. OpenHasTimer' /\ FailuresAreReal' /\ OpenedByFailures'
    BY <2>1, BreakerStep
  <2> QED BY <2>2, <2>3 DEF IInv, RequestsOK
<1> QED BY <1>1, <1>2, PTL DEF Spec

(* Maps, rows and requests keep their types (ApiGatewayService). *)
THEOREM TypeCorrect == Spec => []TypeOK
BY Invariance, PTL DEF IInv

(* A circuit is never open for good: the timer that ends it is running     *)
(* (recordCircuitFailure).                                                 *)
THEOREM NeverOpenForGood == Spec => []OpenHasTimer
BY Invariance, PTL DEF IInv

(* A circuit opens only after as many failed requests as its route asks    *)
(* for (recordCircuitFailure).                                             *)
THEOREM OpensAfterFailures == Spec => []OpenedByFailures
BY Invariance, PTL DEF IInv

(* What a client is told fits what the service has done (routeRequest,     *)
(* makeRequestWithRetry).                                                  *)
THEOREM AnswersFitEffects == Spec => []EffectsAsAnswered
BY Invariance, PTL DEF IInv

(* An open circuit closes only by way of half open (recordCircuitSuccess). *)
THEOREM ClosesByHalfOpen == Spec => NeverClosesFromOpen
<1>1. TypeOK /\ [Next]_vars =>
        [\A r \in Routes : IsCircuitOpen(r) /\ circuitStates'[r] = "closed" => restarts' > restarts]_vars
  <2> SUFFICES ASSUME TypeOK, Next, NEW r \in Routes, IsCircuitOpen(r), circuitStates'[r] = "closed"
               PROVE  restarts' > restarts
    OBVIOUS
  <2>1. circuitStates \in [Routes -> CircuitState] /\ restarts \in Nat
        /\ req \in [Requests -> GatewayRequest]
    BY DEF TypeOK
  <2>2. circuitStates[r] = "open" /\ circuitStates' # circuitStates
    BY DEF IsCircuitOpen
  <2>3. CASE Restart
    BY <2>1, <2>3, RestartClears
  <2>4. ASSUME NEW s \in Routes, HalfOpen(s) PROVE FALSE
    BY <2>1, <2>2, <2>4 DEF HalfOpen
  <2>5. ASSUME NEW q \in Requests, Succeed(q) PROVE FALSE
    BY <2>1, <2>2, <2>5 DEF Succeed, RecordCircuitSuccess
  <2>6. ASSUME NEW q \in Requests, Fail(q) PROVE FALSE
    BY <2>1, <2>2, <2>6 DEF Fail, RecordCircuitFailure, breaker
  <2> QED BY <2>2, <2>3, <2>4, <2>5, <2>6
          DEF Next, RouteRequest, CreateRoute, UpdateRoute, DeleteRoute, SaveRow, FindMatchingRoute,
              Refuse, Dispatch, GetCachedResponse, CacheResponse, CacheExpires, breaker
<1> QED BY <1>1, TypeCorrect, PTL DEF Spec, NeverClosesFromOpen
=============================================================================
