------------------------------ MODULE MCGateway ------------------------------
(* Small instances of Gateway. *)
EXTENDS Gateway, TLC
CONSTANTS q1, q2, q3, t1, t2, r1, r2

Base == [enabled |-> TRUE, priority |-> 0, matches |-> Requests, targets |-> <<t1, t2>>,
         loadBalancingStrategy |-> "round_robin", enableCircuitBreaker |-> TRUE,
         circuitBreakerThreshold |-> 1, retryAttempts |-> 1, enableCaching |-> TRUE]
MCConfigs == {Base,
              [Base EXCEPT !.circuitBreakerThreshold = 2, !.retryAttempts = 0,
                           !.enableCaching = FALSE],
              [Base EXCEPT !.enabled = FALSE, !.priority = 1, !.matches = {q3}]}
MCResource == [q \in Requests |-> "products"]
=============================================================================
