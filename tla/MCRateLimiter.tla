---------------------------- MODULE MCRateLimiter ----------------------------
(* Small instances of RateLimiter. *)
EXTENDS RateLimiter, TLC
CONSTANTS token, sliding, fixed, leaky, briefToken, briefLeaky, s1, s2, s3

Row(algorithm) == [algorithm |-> algorithm, maxRequests |-> 2, windowSeconds |-> 2,
                   burstSize |-> 3, refillRate |-> 3, priority |-> 0]
MCRule == [r \in Rules |->
             CASE r = token   -> Row("token_bucket")
               [] r = sliding -> [Row("sliding_window") EXCEPT !.priority = 1]
               [] r = fixed   -> Row("fixed_window")
               [] r = leaky   -> Row("leaky_bucket")
               \* Their keys expire within the time of a run.
               [] r = briefToken -> [Row("token_bucket") EXCEPT !.windowSeconds = 1,
                                             !.burstSize = 2, !.refillRate = 1]
               [] r = briefLeaky -> [Row("leaky_bucket") EXCEPT !.windowSeconds = 1]]
MCTables == {{}, {token}, {sliding}, {fixed}, {leaky}, {briefToken}, {briefLeaky}, {sliding, fixed}}
Symmetry == Permutations(Slots)
=============================================================================
