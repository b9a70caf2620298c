----------------------------- MODULE RateLimiter -----------------------------
(***************************************************************************)
(* api-gateway: RateLimitGuard and RateLimitingService over Redis.  The    *)
(* guard checks every applicable rule, then increments every one of them;  *)
(* each call of Redis is a step, and the clock is read (slot.t) when the   *)
(* call is issued, before it takes effect.                                 *)
(*                                                                         *)
(* One key of each rule is followed: the requests are those counted under  *)
(* it.  Time is in seconds.  The content of a bucket is kept in units of   *)
(* 1/windowSeconds of a request, so that what is refilled or leaked in a   *)
(* second, maxRequests/windowSeconds, is a whole number of units; a        *)
(* refillRate is in units per second.  burstSize and refillRate are what   *)
(* the code uses, given or derived from the other columns.                 *)
(***************************************************************************)
EXTENDS Integers, FiniteSetsExt

CONSTANTS
    Slots,      \* requests the gateway handles at the same time
    Rules,
    Rule,       \* the row of each rule
    Tables,     \* contents the table rate_limit_rules may have
    MaxTime,    \* bound on the time
    MaxMishaps, \* bound on resets and failed calls together
    NoRule

VARIABLES
    rules,      \* table rate_limit_rules: the enabled rules
    now,
    bucket,     \* the string of a token or leaky bucket and its expiry
    windows,    \* the counter of each fixed window
    requests,   \* the sorted set of a sliding window
    slot,       \* stage and local variables of each call of the guard
    spent,      \* history: requests in each bucket, up to a disturbance or a reset
    added,      \* history: requests in each sliding window, up to a reset
    disturbed,  \* history: two calls of the guard ran side by side, or a bucket
                \* expired between a call's reading of the clock and of the bucket
    resets, faults

redis == <<bucket, windows, requests>>
history == <<spent, added, disturbed>>
vars == <<rules, now, bucket, windows, requests, slot, spent, added, disturbed,
          resets, faults>>

RateLimitAlgorithm == {"token_bucket", "sliding_window", "fixed_window", "leaky_bucket"}
RateLimitRule == [algorithm : RateLimitAlgorithm, maxRequests : Nat \ {0},
                  windowSeconds : Nat \ {0}, burstSize : Nat \ {0}, refillRate : Nat \ {0},
                  priority : Nat]

ASSUME RuleAssumption == Rule \in [Rules -> RateLimitRule]
ASSUME TablesAssumption == Tables \subseteq SUBSET Rules
ASSUME SlotsAssumption == IsFiniteSet(Slots) /\ Slots # {}
ASSUME BoundsAssumption == MaxTime \in Nat /\ NoRule \notin Rules

Max_(r) == Rule[r].maxRequests
Seconds(r) == Rule[r].windowSeconds
Unit(r) == Seconds(r)    \* one request in units of a bucket

Window(r, t) == t \div Seconds(r)

Stages == {"idle", "check", "count", "refind", "increment", "set"}
Bucket == [level : Nat, last : Nat, expires : Nat]
\* A key that does not exist is one that has expired.
NoKey == [level |-> 0, last |-> 0, expires |-> 0]
Entry == [score : Nat, nonce : Nat]
Call == [at : Stages, todo : SUBSET Rules, rule : Rules \union {NoRule}, t : 0..MaxTime,
         level : Int]

(* Buckets, counters and local variables keep their types. *)
TypeOK ==
    /\ rules \in Tables
    /\ now \in 0..MaxTime
    /\ bucket \in [Rules -> Bucket]
    /\ windows \in [Rules -> [0..MaxTime -> Nat]]
    /\ requests \in [Rules -> SUBSET Entry] /\ \A r \in Rules : IsFiniteSet(requests[r])
    /\ slot \in [Slots -> Call]
    /\ spent \in [Rules -> Nat]
    /\ added \in [Rules -> SUBSET Entry] /\ \A r \in Rules : IsFiniteSet(added[r])
    /\ disturbed \in BOOLEAN
    /\ resets \in Nat /\ faults \in Nat

Idle == [at |-> "idle", todo |-> {}, rule |-> NoRule, t |-> 0, level |-> 0]

Init ==
    /\ rules \in Tables
    /\ now = 0
    /\ bucket = [r \in Rules |-> NoKey]
    /\ windows = [r \in Rules |-> [w \in 0..MaxTime |-> 0]]
    /\ requests = [r \in Rules |-> {}]
    /\ slot = [s \in Slots |-> Idle]
    /\ spent = [r \in Rules |-> 0]
    /\ added = [r \in Rules |-> {}]
    /\ disturbed = FALSE
    /\ resets = 0 /\ faults = 0

-----------------------------------------------------------------------------
(* The walk over the rules, by priority.                                   *)

First(R) == {r \in R : \A q \in R : Rule[q].priority <= Rule[r].priority}

\* The next rule of R is taken up at this stage, or there is none left.
Take(s, stage, R, end) ==
    IF R = {} THEN slot' = [slot EXCEPT ![s] = [Idle EXCEPT !.at = end]]
    ELSE \E r \in First(R) :
           slot' = [slot EXCEPT ![s] =
                      [at |-> stage, todo |-> R \ {r}, rule |-> r, t |-> now, level |-> 0]]

\* canActivate: the rules are read for the check ...
CheckRateLimit(s) ==
    /\ slot[s].at = "idle"
    /\ Take(s, "check", rules, "refind")
    /\ disturbed' = (disturbed \/ \E p \in Slots : slot[p].at # "idle")
    /\ UNCHANGED <<rules, now, redis, spent, added, resets, faults>>

\* getRateLimitStatus is a check that no increment follows.
GetRateLimitStatus(s) ==
    /\ slot[s].at = "refind"
    /\ slot' = [slot EXCEPT ![s] = Idle]
    /\ UNCHANGED <<rules, now, redis, history, resets, faults>>

\* ... and read again for the increments.
IncrementCounter(s) ==
    /\ slot[s].at = "refind"
    /\ Take(s, "increment", rules, "idle")
    /\ UNCHANGED <<rules, now, redis, history, resets, faults>>

\* A rule that allows the request gives way to the next one; a rule that
\* does not ends the call.
Decide(s, allowed) ==
    IF allowed THEN Take(s, "check", slot[s].todo, "refind")
               ELSE slot' = [slot EXCEPT ![s] = Idle]

At(s, stage, algorithms) ==
    slot[s].at = stage /\ Rule[slot[s].rule].algorithm \in algorithms

-----------------------------------------------------------------------------
(* Token bucket and leaky bucket.                                          *)

Buckets == {"token_bucket", "leaky_bucket"}
Capacity(r) == Rule[r].burstSize * Unit(r)

\* What a call at the time `clock` finds at the key: the tokens or the
\* queue as of t, which may be earlier than the last write.
Level(r, t, clock) ==
    LET b == bucket[r]  live == b.expires > clock IN
    IF Rule[r].algorithm = "token_bucket"
    THEN IF live THEN Min({Capacity(r), b.level + (t - b.last) * Rule[r].refillRate})
                 ELSE Capacity(r)
    ELSE IF live THEN Max({0, b.level - (t - b.last) * Max_(r)}) ELSE 0

Allows(r, level) == IF Rule[r].algorithm = "token_bucket" THEN level >= Unit(r)
                                                          ELSE level < Max_(r) * Unit(r)

\* Mutant: rounded down.
RetryAfterFloor(r, level) ==
    IF Rule[r].algorithm = "token_bucket"
    THEN (Unit(r) - level) \div Rule[r].refillRate
    ELSE (level - Max_(r) * Unit(r) + Unit(r)) \div Max_(r)

\* The seconds a client that is refused is told to wait, rounded up.
RetryAfter(r, level) ==
    IF Rule[r].algorithm = "token_bucket"
    THEN (Unit(r) - level + Rule[r].refillRate - 1) \div Rule[r].refillRate
    ELSE (level - Max_(r) * Unit(r) + Unit(r) + Max_(r) - 1) \div Max_(r)

CheckBucket(s) ==
    LET r == slot[s].rule IN
    /\ At(s, "check", Buckets)
    /\ Decide(s, Allows(r, Level(r, slot[s].t, now)))
    /\ UNCHANGED <<rules, now, redis, history, resets, faults>>

\* incrementRuleCounter reads the bucket again and writes it back.
ReadBucket(s) ==
    /\ At(s, "increment", Buckets)
    /\ slot' = [slot EXCEPT ![s].at = "set", ![s].level = Level(slot[s].rule, slot[s].t, now)]
    /\ LET expires == bucket[slot[s].rule].expires IN
       disturbed' = (disturbed \/ (slot[s].t < expires /\ expires <= now))
    /\ UNCHANGED <<rules, now, redis, spent, added, resets, faults>>

Changed(r, level) == IF Rule[r].algorithm = "token_bucket" THEN Max({0, level - Unit(r)})
                                                           ELSE level + Unit(r)

\* Mutant: the time of the last refill is written back as it was read.
WriteBucketStale(s) ==
    LET r == slot[s].rule IN
    /\ slot[s].at = "set"
    /\ bucket' = [bucket EXCEPT ![r] = [level |-> Changed(r, slot[s].level),
                                        last |-> IF bucket[r].expires > now
                                                 THEN bucket[r].last ELSE slot[s].t,
                                        expires |-> now + 2 * Seconds(r)]]
    /\ spent' = IF disturbed \/ resets > 0 THEN spent ELSE [spent EXCEPT ![r] = @ + 1]
    /\ Take(s, "increment", slot[s].todo, "idle")
    /\ UNCHANGED <<rules, now, windows, requests, added, disturbed, resets, faults>>

WriteBucket(s) ==
    LET r == slot[s].rule IN
    /\ slot[s].at = "set"
    /\ bucket' = [bucket EXCEPT ![r] = [level |-> Changed(r, slot[s].level), last |-> slot[s].t,
                                        expires |-> now + 2 * Seconds(r)]]
    /\ spent' = IF disturbed \/ resets > 0 THEN spent ELSE [spent EXCEPT ![r] = @ + 1]
    /\ Take(s, "increment", slot[s].todo, "idle")
    /\ UNCHANGED <<rules, now, windows, requests, added, disturbed, resets, faults>>

-----------------------------------------------------------------------------
(* Fixed window.  The expiry of its keys comes after the end of the window *)
(* and shows nowhere.                                                      *)

\* Mutant: off by one.
WindowAllowsOneMore(r, t) == windows[r][Window(r, t)] <= Max_(r)

WindowAllows(r, t) == windows[r][Window(r, t)] < Max_(r)

CheckWindow(s) ==
    /\ At(s, "check", {"fixed_window"})
    /\ Decide(s, WindowAllows(slot[s].rule, slot[s].t))
    /\ UNCHANGED <<rules, now, redis, history, resets, faults>>

IncrementWindow(s) ==
    LET r == slot[s].rule IN
    /\ At(s, "increment", {"fixed_window"})
    /\ windows' = [windows EXCEPT ![r][Window(r, slot[s].t)] = @ + 1]
    /\ Take(s, "increment", slot[s].todo, "idle")
    /\ UNCHANGED <<rules, now, bucket, requests, history, resets, faults>>

-----------------------------------------------------------------------------
(* Sliding window.  The expiry of the set, two windows after its last      *)
(* entry, finds only entries that count nowhere any more.                  *)

\* Mutant: the window is one second too short.
RemoveTooMuch(s) ==
    LET r == slot[s].rule IN
    /\ At(s, "check", {"sliding_window"})
    /\ requests' = [requests EXCEPT ![r] = {e \in @ : e.score > slot[s].t - Seconds(r) + 1}]
    /\ slot' = [slot EXCEPT ![s].at = "count"]
    /\ UNCHANGED <<rules, now, bucket, windows, history, resets, faults>>

\* zremrangebyscore: windowStart is included.
RemoveOld(s) ==
    LET r == slot[s].rule IN
    /\ At(s, "check", {"sliding_window"})
    /\ requests' = [requests EXCEPT ![r] = {e \in @ : e.score > slot[s].t - Seconds(r)}]
    /\ slot' = [slot EXCEPT ![s].at = "count"]
    /\ UNCHANGED <<rules, now, bucket, windows, history, resets, faults>>

\* zcard.
CountRequests(s) ==
    LET r == slot[s].rule IN
    /\ slot[s].at = "count"
    /\ Decide(s, Cardinality(requests[r]) < Max_(r))
    /\ UNCHANGED <<rules, now, redis, history, resets, faults>>

\* zadd, with a member of its own for every request.
AddRequest(s) ==
    LET r == slot[s].rule
        same == {e \in added[r] : e.score = slot[s].t}
        request == [score |-> slot[s].t, nonce |-> Cardinality(same)] IN
    /\ At(s, "increment", {"sliding_window"})
    /\ requests' = [requests EXCEPT ![r] = @ \union {request}]
    /\ added' = [added EXCEPT ![r] = @ \union {request}]
    /\ Take(s, "increment", slot[s].todo, "idle")
    /\ UNCHANGED <<rules, now, bucket, windows, spent, disturbed, resets, faults>>

-----------------------------------------------------------------------------
(* Administration and environment.                                         *)

CreateRule(r) ==
    /\ r \notin rules /\ rules \union {r} \in Tables
    /\ rules' = rules \union {r}
    /\ UNCHANGED <<now, redis, slot, history, resets, faults>>

(* Deletes the keys that match what the caller names. *)
ResetRateLimit ==
    /\ resets + faults < MaxMishaps
    /\ resets' = resets + 1
    /\ \E R \in (SUBSET Rules) \ {{}} :
         /\ bucket' = [r \in Rules |-> IF r \in R THEN NoKey ELSE bucket[r]]
         /\ windows' = [r \in Rules |-> IF r \in R THEN [w \in 0..MaxTime |-> 0] ELSE windows[r]]
         /\ requests' = [r \in Rules |-> IF r \in R THEN {} ELSE requests[r]]
         /\ added' = [r \in Rules |-> IF r \in R THEN {} ELSE added[r]]
    /\ UNCHANGED <<rules, now, slot, spent, disturbed, faults>>

(* A call of Redis or of the database fails: the request is not let        *)
(* through, and what it has incremented stays.                             *)
Throw(s) ==
    /\ slot[s].at # "idle" /\ resets + faults < MaxMishaps
    /\ faults' = faults + 1
    /\ slot' = [slot EXCEPT ![s] = Idle]
    /\ UNCHANGED <<rules, now, redis, history, resets>>

Tick ==
    /\ now < MaxTime
    /\ now' = now + 1
    /\ UNCHANGED <<rules, redis, slot, history, resets, faults>>

CanActivate(s) ==
    \/ CheckRateLimit(s) \/ GetRateLimitStatus(s) \/ IncrementCounter(s)
    \/ CheckBucket(s) \/ ReadBucket(s) \/ WriteBucket(s)
    \/ CheckWindow(s) \/ IncrementWindow(s)
    \/ RemoveOld(s) \/ CountRequests(s) \/ AddRequest(s)

Next ==
    \/ \E s \in Slots : CanActivate(s) \/ Throw(s)
    \/ \E r \in Rules : CreateRule(r)
    \/ ResetRateLimit
    \/ Tick

Spec == Init /\ [][Next]_vars

-----------------------------------------------------------------------------
Using(algorithm) == {r \in Rules : Rule[r].algorithm = algorithm}
Excess == Cardinality(Slots) - 1

(* A fixed window counts at most maxRequests and the requests that were    *)
(* under way beside the last one it allowed: check and increment are two   *)
(* calls of the guard, and at the end of a window the increment may go to  *)
(* the next one.                                                           *)
FixedWindowBound ==
    \A r \in Using("fixed_window"), w \in 0..MaxTime : windows[r][w] <= Max_(r) + Excess

(* The same of every interval of windowSeconds, wherever it begins, for a  *)
(* sliding window.                                                         *)
AddedIn(r, t) == {e \in added[r] : t - Seconds(r) < e.score /\ e.score <= t}

SlidingWindowBound ==
    \A r \in Using("sliding_window"), t \in 0..MaxTime :
        Cardinality(AddedIn(r, t)) <= Max_(r) + Excess

(* Without concurrent requests a token bucket lets through its burst and   *)
(* what is refilled since, provided the key, which lives for two windows   *)
(* after a write, does not expire before the bucket is full again; and the *)
(* queue of a leaky bucket has room for maxRequests and the part of one    *)
(* that is still draining.  A key that expires while a call is on its way  *)
(* to it is a disturbance: the call credits to the time it has read what   *)
(* was refilled, or leaked, only when the key expired.                     *)
BucketBound == ~disturbed /\ resets = 0 =>
    /\ \A r \in Using("token_bucket") :
           2 * Seconds(r) * Rule[r].refillRate >= Capacity(r)
           => spent[r] * Unit(r) <= Capacity(r) + now * Rule[r].refillRate
    /\ \A r \in Using("leaky_bucket") :
           spent[r] * Unit(r) < (Max_(r) + 1) * Unit(r) + now * Max_(r)

(* A client that waits as long as it was told finds the bucket willing,    *)
(* unless other requests came in between (retryAfter).                     *)
RetryAfterSuffices ==
    \A r \in Using("token_bucket") \union Using("leaky_bucket") :
        LET level == Level(r, now, now)
            later == now + RetryAfter(r, level) IN
        ~Allows(r, level) => Allows(r, Level(r, later, later))

-----------------------------------------------------------------------------
(* A call of the guard is committed to a fixed window when it may still    *)
(* increment its counter without being checked against it: the increment   *)
(* has been issued; or the window is not over, and the rule was passed,    *)
(* created after the rules were read for the check, or is being checked    *)
(* against an earlier window.                                              *)
Passed(s, r) ==
    \/ slot[s].at = "refind"
    \/ slot[s].at \in {"increment", "set"} /\ r \in slot[s].todo
    \/ slot[s].at \in {"check", "count"} /\ r \notin slot[s].todo \union {slot[s].rule}

Commits(s, r, w) ==
    \/ slot[s].at = "increment" /\ slot[s].rule = r /\ Window(r, slot[s].t) = w
    \/ w >= Window(r, now) /\ Passed(s, r)
    \/ /\ w >= Window(r, now)
       /\ slot[s].at = "check" /\ slot[s].rule = r /\ Window(r, slot[s].t) < w

Committed(r, w) == {s \in Slots : Commits(s, r, w)}

WalkOK(s) ==
    /\ slot[s].todo \subseteq rules /\ slot[s].rule \in rules \union {NoRule}
    /\ slot[s].at \notin {"idle", "refind"} => slot[s].rule \in rules \ slot[s].todo
    /\ slot[s].at = "count" => Rule[slot[s].rule].algorithm = "sliding_window"
    /\ slot[s].at = "set" => Rule[slot[s].rule].algorithm \in Buckets
    /\ slot[s].at = "set" /\ Rule[slot[s].rule].algorithm = "leaky_bucket" => slot[s].level >= 0
    /\ slot[s].t <= now

CounterOK(r, w) ==
    /\ windows[r][w] + Cardinality(Committed(r, w)) <= Max_(r) + Excess
    /\ (r \notin rules \/ w > Window(r, now)) => windows[r][w] = 0

(* Likewise a sliding window and the interval that ends at t: a call that  *)
(* has passed the rule may still add a request now or later.               *)
Adds(s, r, t) ==
    \/ /\ slot[s].at = "increment" /\ slot[s].rule = r
       /\ t - Seconds(r) < slot[s].t /\ slot[s].t <= t
    \/ t >= now /\ Passed(s, r)

Adding(r, t) == {s \in Slots : Adds(s, r, t)}

IntervalOK(r, t) == Cardinality(AddedIn(r, t)) + Cardinality(Adding(r, t)) <= Max_(r) + Excess

\* What the current window counts is in the sorted set, and every request
\* is an entry of its own.
EntriesOK(r) ==
    /\ \A e \in added[r] :
         /\ e.score <= now
         /\ e.score > now - Seconds(r) => e \in requests[r]
         /\ e.nonce < Cardinality({f \in added[r] : f.score = e.score})
    /\ requests[r] \subseteq added[r]
    /\ r \notin rules => added[r] = {}

\* Calls that follow one another.  What is spent and left in a bucket is
\* what it holds at first and what is refilled; what is in the queue of a
\* leaky bucket and has leaked is what was spent.
Balanced(r, level, t) ==
    IF Rule[r].algorithm = "token_bucket"
    THEN spent[r] * Unit(r) + level <= Capacity(r) + t * Rule[r].refillRate
    ELSE spent[r] * Unit(r) <= level + t * Max_(r)

RefillsInTime(r) ==
    Rule[r].algorithm = "token_bucket" => 2 * Seconds(r) * Rule[r].refillRate >= Capacity(r)

BucketOK(r) ==
    \/ bucket[r] = NoKey /\ spent[r] = 0
    \/ /\ r \in rules
       /\ Balanced(r, bucket[r].level, bucket[r].last)
       /\ bucket[r].last <= now
       /\ bucket[r].expires >= bucket[r].last + 2 * Seconds(r)
       /\ Rule[r].algorithm = "leaky_bucket" => bucket[r].level < (Max_(r) + 1) * Unit(r)

\* A bucket that was willing stays so until the call that asked has taken
\* its part.
Willing(r, t) == \A clock \in now..MaxTime : Allows(r, Level(r, t, clock))

SpendOK(s, r) ==
    /\ Passed(s, r) => \A t \in now..MaxTime : Willing(r, t)
    /\ slot[s].at = "increment" /\ slot[s].rule = r =>
         Willing(r, slot[s].t) /\ bucket[r].last <= slot[s].t
    /\ slot[s].at = "set" /\ slot[s].rule = r =>
         Allows(r, slot[s].level) /\ Balanced(r, slot[s].level, slot[s].t)

InTurn ==
    /\ \A s, p \in Slots : slot[s].at # "idle" /\ slot[p].at # "idle" => s = p
    /\ \A r \in Using("token_bucket") \union Using("leaky_bucket") :
         RefillsInTime(r) => BucketOK(r) /\ \A s \in Slots : SpendOK(s, r)

(* The inductive invariant: what a window has counted and what is on its   *)
(* way to it stay within the bound together, and undisturbed buckets keep  *)
(* their balance.                                                          *)
IInv ==
    /\ TypeOK
    /\ \A s \in Slots : WalkOK(s)
    /\ \A r \in Using("fixed_window"), w \in 0..MaxTime : CounterOK(r, w)
    /\ \A r \in Using("sliding_window") :
         EntriesOK(r) /\ \A t \in 0..MaxTime : IntervalOK(r, t)
    /\ ~disturbed /\ resets = 0 => InTurn

=============================================================================
