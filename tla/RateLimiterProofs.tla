------------------------- MODULE RateLimiterProofs -------------------------
(***************************************************************************)
(* Theorems about RateLimiter, for any slots and rules: types, what fixed  *)
(* and sliding windows guarantee although a check and its increment are    *)
(* several calls, what a bucket lets through, and that a client that waits *)
(* as long as it was told is let through.                                  *)
(***************************************************************************)
EXTENDS RateLimiter, FiniteSetTheorems, TLAPS

USE DEF Stages

LEMMA RuleTyped ==
    ASSUME NEW r \in Rules
    PROVE  /\ Max_(r) \in Nat \ {0} /\ Seconds(r) \in Nat \ {0} /\ Unit(r) \in Nat \ {0}
           /\ Capacity(r) \in Nat \ {0} /\ Rule[r].refillRate \in Nat \ {0}
BY RuleAssumption DEF RateLimitRule, Max_, Seconds, Unit, Capacity

LEMMA WindowTyped ==
    ASSUME NEW r \in Rules, NEW t \in 0..MaxTime
    PROVE  Window(r, t) \in 0..MaxTime /\ Window(r, t) <= t
BY RuleTyped, BoundsAssumption DEF Window

LEMMA WindowMonotone ==
    ASSUME NEW r \in Rules, NEW t \in 0..MaxTime, NEW u \in 0..MaxTime, t <= u
    PROVE  Window(r, t) <= Window(r, u)
BY RuleTyped, BoundsAssumption DEF Window

LEMMA LeastOfTwo ==
    ASSUME NEW a \in Int, NEW b \in Int
    PROVE  Min({a, b}) \in {a, b} /\ Min({a, b}) <= a /\ Min({a, b}) <= b
BY DEF Min

LEMMA GreatestOfTwo ==
    ASSUME NEW a \in Int, NEW b \in Int
    PROVE  Max({a, b}) \in {a, b} /\ Max({a, b}) >= a /\ Max({a, b}) >= b
BY DEF Max

-----------------------------------------------------------------------------
(* The walk of a call over the rules. *)

WalksOK == \A s \in Slots : WalkOK(s)

\* WalkOK of a call in the state c.
CallOK(c) ==
    /\ c.todo \subseteq rules /\ c.rule \in rules \union {NoRule}
    /\ c.at \notin {"idle", "refind"} => c.rule \in rules \ c.todo
    /\ c.at = "count" => Rule[c.rule].algorithm = "sliding_window"
    /\ c.at = "set" => Rule[c.rule].algorithm \in Buckets
    /\ c.at = "set" /\ Rule[c.rule].algorithm = "leaky_bucket" => c.level >= 0
    /\ c.t <= now

LEMMA IdleTyped ==
    ASSUME TypeOK, NEW end \in {"idle", "refind"}
    PROVE  [Idle EXCEPT !.at = end] \in Call /\ CallOK([Idle EXCEPT !.at = end])
           /\ Idle = [Idle EXCEPT !.at = "idle"]
<1> DEFINE c == [at |-> end, todo |-> {}, rule |-> NoRule, t |-> 0, level |-> 0]
<1>1. now \in 0..MaxTime /\ 0 \in 0..MaxTime /\ 0 <= now
  BY BoundsAssumption DEF TypeOK
<1>2. [Idle EXCEPT !.at = end] = c
  BY DEF Idle
<1>3. c \in Call /\ CallOK(c)
  BY <1>1 DEF Call, CallOK
<1>4. Idle = [Idle EXCEPT !.at = "idle"]
  BY DEF Idle
<1> QED BY <1>2, <1>3, <1>4

LEMMA Moves ==
    ASSUME TypeOK, WalksOK, NEW s \in Slots, NEW c \in Call, CallOK(c),
           slot' = [slot EXCEPT ![s] = c], rules' = rules, now' = now
    PROVE  slot' \in [Slots -> Call] /\ WalksOK'
<1>1. slot' \in [Slots -> Call]
  BY DEF TypeOK
<1>2. ASSUME NEW p \in Slots PROVE WalkOK(p)'
  <2>1. CASE p = s
    <3>1. slot'[p] = c
      BY <2>1 DEF TypeOK
    <3> QED BY <3>1 DEF WalkOK, CallOK
  <2>2. CASE p # s
    <3>1. slot'[p] = slot[p] /\ WalkOK(p)
      BY <2>2 DEF TypeOK, WalksOK
    <3> QED BY <3>1 DEF WalkOK
  <2> QED BY <2>1, <2>2
<1> QED BY <1>1, <1>2 DEF WalksOK

\* Where a call is when it has taken up the next rule, or found none.
LEMMA TakeResult ==
    ASSUME TypeOK, NEW s \in Slots, NEW R \in SUBSET rules,
           NEW stage \in {"check", "increment"}, NEW end \in {"idle", "refind"},
           Take(s, stage, R, end)
    PROVE  \E c \in Call :
             /\ slot' = [slot EXCEPT ![s] = c] /\ CallOK(c)
             /\ \/ R = {} /\ c = [Idle EXCEPT !.at = end]
                \/ /\ c.at = stage /\ c.rule \in R /\ c.todo = R \ {c.rule} /\ c.t = now
<1>0. rules \subseteq Rules /\ now \in 0..MaxTime
  BY TablesAssumption DEF TypeOK
<1>1. CASE R = {}
  BY <1>1, IdleTyped DEF Take
<1>2. CASE R # {}
  <2>1. PICK r \in First(R) :
          slot' = [slot EXCEPT ![s] =
                     [at |-> stage, todo |-> R \ {r}, rule |-> r, t |-> now, level |-> 0]]
    BY <1>2 DEF Take
  <2> DEFINE c == [at |-> stage, todo |-> R \ {r}, rule |-> r, t |-> now, level |-> 0]
  <2>2. r \in R /\ r \in rules /\ r \in Rules
    BY <1>0, <2>1 DEF First
  <2>3. c \in Call /\ CallOK(c)
    BY <1>0, <2>2 DEF Call, CallOK
  <2> QED BY <2>1, <2>2, <2>3
<1> QED BY <1>1, <1>2

\* The same of a check that has been decided.
LEMMA DecideResult ==
    ASSUME TypeOK, WalksOK, NEW s \in Slots, NEW allowed \in BOOLEAN, Decide(s, allowed)
    PROVE  \E c \in Call :
             /\ slot' = [slot EXCEPT ![s] = c] /\ CallOK(c)
             /\ \/ c = Idle
                \/ allowed /\ slot[s].todo = {} /\ c = [Idle EXCEPT !.at = "refind"]
                \/ /\ allowed /\ c.at = "check" /\ c.rule \in slot[s].todo
                   /\ c.todo = slot[s].todo \ {c.rule} /\ c.t = now
<1>1. slot[s].todo \in SUBSET rules
  BY DEF WalksOK, WalkOK
<1>2. CASE allowed
  BY <1>1, <1>2, TakeResult DEF Decide
<1>3. CASE ~allowed
  BY <1>3, IdleTyped DEF Decide
<1> QED BY <1>2, <1>3

-----------------------------------------------------------------------------
(* Types. *)

LEMMA LevelTyped ==
    ASSUME TypeOK, NEW r \in Rules, Rule[r].algorithm \in Buckets, NEW t \in 0..MaxTime
    PROVE  /\ Level(r, t, now) \in Int
           /\ Rule[r].algorithm = "leaky_bucket" => Level(r, t, now) >= 0
<1>1. bucket[r].level \in Nat /\ bucket[r].last \in Nat /\ t \in Int
  BY BoundsAssumption DEF TypeOK, Bucket
<1> DEFINE filled  == bucket[r].level + (t - bucket[r].last) * Rule[r].refillRate
           drained == bucket[r].level - (t - bucket[r].last) * Max_(r)
<1>2. filled \in Int /\ drained \in Int /\ Capacity(r) \in Int
  BY <1>1, RuleTyped
<1> HIDE DEF filled, drained
<1>3. Min({Capacity(r), filled}) \in Int
  BY <1>2, LeastOfTwo
<1>4. Max({0, drained}) \in {0, drained} /\ Max({0, drained}) >= 0
  BY <1>2, GreatestOfTwo
<1>5. CASE Rule[r].algorithm = "token_bucket"
  <2>1. Level(r, t, now) \in {Min({Capacity(r), filled}), Capacity(r)}
    BY <1>5 DEF Level, filled
  <2> QED BY <1>2, <1>3, <1>5, <2>1
<1>6. CASE Rule[r].algorithm = "leaky_bucket"
  <2>1. Level(r, t, now) \in {Max({0, drained}), 0}
    BY <1>6 DEF Level, drained
  <2>2. Max({0, drained}) \in Int
    BY <1>2, <1>4
  <2> QED BY <1>4, <2>1, <2>2
<1> QED BY <1>5, <1>6 DEF Buckets

LEMMA ChangedTyped ==
    ASSUME NEW r \in Rules, Rule[r].algorithm \in Buckets, NEW level \in Int,
           Rule[r].algorithm = "leaky_bucket" => level >= 0
    PROVE  Changed(r, level) \in Nat
<1> DEFINE d == level - Unit(r)
<1>0. d \in Int /\ 0 \in Int
  BY RuleTyped
<1> HIDE DEF d
<1>1. Max({0, d}) \in Nat
  <2>1. Max({0, d}) \in {0, d} /\ Max({0, d}) >= 0
    BY <1>0, GreatestOfTwo
  <2> QED BY <1>0, <2>1
<1> QED BY <1>1, RuleTyped DEF Changed, Buckets, d

LEMMA TypeInit == Init => TypeOK /\ WalksOK
<1> SUFFICES ASSUME Init PROVE TypeOK /\ WalksOK
  OBVIOUS
<1>1. Idle \in Call /\ now = 0 /\ 0 \in 0..MaxTime
  BY BoundsAssumption DEF Init, Idle, Call
<1>2. TypeOK
  BY <1>1, FS_EmptySet DEF Init, TypeOK, NoKey, Bucket
<1>3. WalksOK
  BY <1>1 DEF Init, WalksOK, WalkOK, Idle
<1> QED BY <1>2, <1>3

LEMMA TypeStep == TypeOK /\ WalksOK /\ [Next]_vars => TypeOK' /\ WalksOK'
<1> SUFFICES ASSUME TypeOK, WalksOK, [Next]_vars PROVE TypeOK' /\ WalksOK'
  OBVIOUS
<1>0. ASSUME NEW s \in Slots
      PROVE  /\ slot[s] \in Call /\ WalkOK(s) /\ slot[s].todo \in SUBSET rules
             /\ rules \in SUBSET Rules /\ now \in 0..MaxTime
             /\ slot[s].at \notin {"idle", "refind"} => slot[s].rule \in Rules
  BY TablesAssumption DEF TypeOK, WalksOK, WalkOK
<1> HIDE DEF Stages
\* Steps that change only the slot.
<1>1. ASSUME NEW s \in Slots, NEW c \in Call, CallOK(c), slot' = [slot EXCEPT ![s] = c],
             UNCHANGED <<rules, now, redis, spent, added, resets>>, disturbed' \in BOOLEAN,
             faults' \in Nat
      PROVE  TypeOK' /\ WalksOK'
  BY <1>1, Moves DEF TypeOK, redis
<1>2. disturbed \in BOOLEAN /\ faults \in Nat /\ resets \in Nat
  BY DEF TypeOK
<1>3. ASSUME NEW s \in Slots, CheckRateLimit(s) PROVE TypeOK' /\ WalksOK'
  <2>1. Take(s, "check", rules, "refind") /\ disturbed' \in BOOLEAN /\ faults' \in Nat
    BY <1>2, <1>3 DEF CheckRateLimit
  <2>2. PICK c \in Call : slot' = [slot EXCEPT ![s] = c] /\ CallOK(c)
    BY <2>1, TakeResult
  <2> QED BY <1>1, <1>3, <2>1, <2>2 DEF CheckRateLimit
<1>4. ASSUME NEW s \in Slots, GetRateLimitStatus(s) PROVE TypeOK' /\ WalksOK'
  BY <1>1, <1>2, <1>4, IdleTyped DEF GetRateLimitStatus, history
<1>5. ASSUME NEW s \in Slots, IncrementCounter(s) PROVE TypeOK' /\ WalksOK'
  <2>1. PICK c \in Call : slot' = [slot EXCEPT ![s] = c] /\ CallOK(c)
    BY <1>5, TakeResult DEF IncrementCounter
  <2> QED BY <1>1, <1>2, <1>5, <2>1 DEF IncrementCounter, history
<1>6. ASSUME NEW s \in Slots, CheckBucket(s) \/ CheckWindow(s) \/ CountRequests(s)
      PROVE  TypeOK' /\ WalksOK'
  <2>1. /\ Decide(s, TRUE) \/ Decide(s, FALSE)
        /\ UNCHANGED <<rules, now, redis, history, resets, faults>>
    BY <1>6 DEF CheckBucket, CheckWindow, CountRequests, Decide
  <2>2. PICK c \in Call : slot' = [slot EXCEPT ![s] = c] /\ CallOK(c)
    BY <2>1, DecideResult
  <2> QED BY <1>1, <1>2, <2>1, <2>2 DEF history
<1>7. ASSUME NEW s \in Slots, ReadBucket(s) PROVE TypeOK' /\ WalksOK'
  <2> DEFINE r == slot[s].rule
             c == [slot[s] EXCEPT !.at = "set", !.level = Level(r, slot[s].t, now)]
  <2>1. r \in Rules /\ Rule[r].algorithm \in Buckets /\ slot[s].t \in 0..MaxTime
    BY <1>0, <1>7 DEF ReadBucket, At, Call
  <2>2. Level(r, slot[s].t, now) \in Int
        /\ (Rule[r].algorithm = "leaky_bucket" => Level(r, slot[s].t, now) >= 0)
    BY <2>1, LevelTyped
  <2>3. slot' = [slot EXCEPT ![s] = c]
    BY <1>7 DEF ReadBucket
  <2>4. /\ c \in Call /\ c.todo = slot[s].todo /\ c.rule = r /\ c.at = "set"
        /\ c.level = Level(r, slot[s].t, now) /\ c.t = slot[s].t
    BY <1>0, <2>2 DEF Call, Stages
  <2>5. WalkOK(s) /\ slot[s].at = "increment"
    BY <1>0, <1>7 DEF ReadBucket, At
  <2> HIDE DEF c
  <2>6. CallOK(c)
    BY <2>1, <2>2, <2>4, <2>5 DEF CallOK, WalkOK
  <2>7. disturbed' \in BOOLEAN
    BY <1>2, <1>7 DEF ReadBucket
  <2> QED BY <1>1, <1>2, <1>7, <2>3, <2>4, <2>6, <2>7 DEF ReadBucket
<1>8. ASSUME NEW s \in Slots, RemoveOld(s) PROVE TypeOK' /\ WalksOK'
  <2> DEFINE r == slot[s].rule
             c == [slot[s] EXCEPT !.at = "count"]
             kept == {e \in requests[r] : e.score > slot[s].t - Seconds(r)}
  <2>1. r \in Rules /\ Rule[r].algorithm = "sliding_window" /\ WalkOK(s) /\ slot[s].at = "check"
    BY <1>0, <1>8 DEF RemoveOld, At
  <2>2. c \in Call /\ c.todo = slot[s].todo /\ c.rule = r /\ c.at = "count" /\ c.t = slot[s].t
    BY <1>0 DEF Call, Stages
  <2>3. slot' = [slot EXCEPT ![s] = c] /\ requests' = [requests EXCEPT ![r] = kept]
    BY <1>8 DEF RemoveOld
  <2>4. kept \subseteq requests[r] /\ IsFiniteSet(requests[r]) /\ requests[r] \subseteq Entry
    BY <2>1 DEF TypeOK
  <2>5. IsFiniteSet(kept) /\ kept \subseteq Entry
    BY <2>4, FS_Subset
  <2> HIDE DEF c, kept
  <2>6. CallOK(c)
    BY <2>1, <2>2 DEF CallOK, WalkOK
  <2>7. slot' \in [Slots -> Call] /\ WalksOK'
    BY <1>8, <2>2, <2>3, <2>6, Moves DEF RemoveOld
  <2>8. requests' \in [Rules -> SUBSET Entry] /\ \A q \in Rules : IsFiniteSet(requests'[q])
    BY <2>3, <2>5 DEF TypeOK
  <2> QED BY <1>8, <2>7, <2>8 DEF RemoveOld, TypeOK, history
<1>9. ASSUME NEW s \in Slots, WriteBucket(s) PROVE TypeOK' /\ WalksOK'
  <2> DEFINE r == slot[s].rule
             b == [level |-> Changed(r, slot[s].level), last |-> slot[s].t,
                   expires |-> now + 2 * Seconds(r)]
  <2>0. slot[s].at = "set" /\ slot[s].level \in Int /\ slot[s].t \in 0..MaxTime
        /\ now \in 0..MaxTime /\ WalkOK(s) /\ r \in Rules
    BY <1>0, <1>9 DEF WriteBucket, Call
  <2>1. /\ r \in Rules /\ Rule[r].algorithm \in Buckets /\ slot[s].level \in Int
        /\ Rule[r].algorithm = "leaky_bucket" => slot[s].level >= 0
        /\ slot[s].t \in Nat /\ now \in Nat
    <3>1. slot[s].t \in Nat /\ now \in Nat
      BY <2>0, BoundsAssumption
    <3>2. Rule[r].algorithm \in Buckets /\ (Rule[r].algorithm = "leaky_bucket" => slot[s].level >= 0)
      BY <2>0 DEF WalkOK
    <3> QED BY <2>0, <3>1, <3>2
  <2>2. Changed(r, slot[s].level) \in Nat
    BY <2>1, ChangedTyped
  <2>3. b \in Bucket
    BY <2>1, <2>2, RuleTyped DEF Bucket
  <2>4. bucket' = [bucket EXCEPT ![r] = b]
    BY <1>9 DEF WriteBucket
  <2> HIDE DEF b
  <2>5. bucket' \in [Rules -> Bucket]
    BY <2>1, <2>3, <2>4 DEF TypeOK
  <2>6. spent' \in [Rules -> Nat]
    <3>1. spent' \in {spent, [spent EXCEPT ![r] = @ + 1]}
      BY <1>9 DEF WriteBucket
    <3>2. spent \in [Rules -> Nat] /\ spent[r] + 1 \in Nat
      BY <2>1 DEF TypeOK
    <3> QED BY <3>1, <3>2
  <2>7. PICK c \in Call : slot' = [slot EXCEPT ![s] = c] /\ CallOK(c)
    BY <1>0, <1>9, TakeResult DEF WriteBucket
  <2>8. slot' \in [Slots -> Call] /\ WalksOK'
    BY <1>9, <2>7, Moves DEF WriteBucket
  <2> QED BY <1>9, <2>5, <2>6, <2>8 DEF WriteBucket, TypeOK
<1>10. ASSUME NEW s \in Slots, IncrementWindow(s) PROVE TypeOK' /\ WalksOK'
  <2> DEFINE r == slot[s].rule
             w == Window(r, slot[s].t)
  <2>1. r \in Rules /\ slot[s].t \in 0..MaxTime
    BY <1>0, <1>10 DEF IncrementWindow, At, Call
  <2>2. w \in 0..MaxTime
    BY <2>1, WindowTyped
  <2>3. windows' = [windows EXCEPT ![r][w] = @ + 1]
    BY <1>10 DEF IncrementWindow
  <2> HIDE DEF w
  <2>4. windows' \in [Rules -> [0..MaxTime -> Nat]]
    <3>1. windows \in [Rules -> [0..MaxTime -> Nat]] /\ windows[r] \in [0..MaxTime -> Nat]
      BY <2>1 DEF TypeOK
    <3>2. windows[r][w] + 1 \in Nat
      BY <2>2, <3>1, BoundsAssumption
    <3>3. [windows[r] EXCEPT ![w] = windows[r][w] + 1] \in [0..MaxTime -> Nat]
      BY <2>2, <3>1, <3>2
    <3> QED BY <2>1, <2>3, <3>1, <3>3
  <2>5. PICK c \in Call : slot' = [slot EXCEPT ![s] = c] /\ CallOK(c)
    BY <1>0, <1>10, TakeResult DEF IncrementWindow
  <2>6. slot' \in [Slots -> Call] /\ WalksOK'
    BY <1>10, <2>5, Moves DEF IncrementWindow
  <2> QED BY <1>10, <2>4, <2>6 DEF IncrementWindow, TypeOK, history
<1>11. ASSUME NEW s \in Slots, AddRequest(s) PROVE TypeOK' /\ WalksOK'
  <2> DEFINE r == slot[s].rule
             same == {e \in added[r] : e.score = slot[s].t}
             e == [score |-> slot[s].t, nonce |-> Cardinality(same)]
  <2>1. r \in Rules /\ slot[s].t \in 0..MaxTime
    BY <1>0, <1>11 DEF AddRequest, At, Call
  <2>2. /\ IsFiniteSet(requests[r]) /\ requests[r] \subseteq Entry
        /\ IsFiniteSet(added[r]) /\ added[r] \subseteq Entry /\ same \subseteq added[r]
    BY <2>1 DEF TypeOK
  <2>3. Cardinality(same) \in Nat
    BY <2>2, FS_Subset, FS_CardinalityType
  <2>4. e \in Entry
    BY <2>1, <2>3, BoundsAssumption DEF Entry
  <2>5. requests' = [requests EXCEPT ![r] = @ \union {e}]
        /\ added' = [added EXCEPT ![r] = @ \union {e}]
    BY <1>11 DEF AddRequest
  <2> HIDE DEF e, same
  <2>6. IsFiniteSet(requests[r] \union {e}) /\ requests[r] \union {e} \subseteq Entry
    BY <2>2, <2>4, FS_AddElement
  <2>7. requests' \in [Rules -> SUBSET Entry] /\ \A q \in Rules : IsFiniteSet(requests'[q])
    BY <2>5, <2>6 DEF TypeOK
  <2>8. added' \in [Rules -> SUBSET Entry] /\ \A q \in Rules : IsFiniteSet(added'[q])
    <3>1. IsFiniteSet(added[r] \union {e}) /\ added[r] \union {e} \subseteq Entry
      BY <2>2, <2>4, FS_AddElement
    <3> QED BY <2>5, <3>1 DEF TypeOK
  <2>9. PICK c \in Call : slot' = [slot EXCEPT ![s] = c] /\ CallOK(c)
    BY <1>0, <1>11, TakeResult DEF AddRequest
  <2>10. slot' \in [Slots -> Call] /\ WalksOK'
    BY <1>11, <2>9, Moves DEF AddRequest
  <2> QED BY <1>11, <2>7, <2>8, <2>10 DEF AddRequest, TypeOK
<1>12. ASSUME NEW s \in Slots, Throw(s) PROVE TypeOK' /\ WalksOK'
  <2>1. Idle \in Call /\ CallOK(Idle)
    BY IdleTyped
  <2>2. slot' = [slot EXCEPT ![s] = Idle] /\ faults' \in Nat /\ disturbed' \in BOOLEAN
        /\ UNCHANGED <<rules, now, redis, spent, added, resets>>
    BY <1>2, <1>12 DEF Throw, history
  <2> QED BY <1>1, <2>1, <2>2
<1>13. ASSUME NEW r \in Rules, CreateRule(r) PROVE TypeOK' /\ WalksOK'
  <2>1. rules \subseteq rules' /\ rules' \in Tables
    BY <1>13 DEF CreateRule
  <2>2. WalksOK'
    BY <1>13, <2>1 DEF CreateRule, WalksOK, WalkOK
  <2> QED BY <1>13, <2>1, <2>2 DEF CreateRule, TypeOK, redis, history
<1>14. CASE ResetRateLimit
  <2>1. PICK R \in (SUBSET Rules) \ {{}} :
          /\ bucket' = [r \in Rules |-> IF r \in R THEN NoKey ELSE bucket[r]]
          /\ windows' = [r \in Rules |-> IF r \in R THEN [w \in 0..MaxTime |-> 0] ELSE windows[r]]
          /\ requests' = [r \in Rules |-> IF r \in R THEN {} ELSE requests[r]]
          /\ added' = [r \in Rules |-> IF r \in R THEN {} ELSE added[r]]
    BY <1>14 DEF ResetRateLimit
  <2>2. bucket' \in [Rules -> Bucket]
    BY <2>1 DEF TypeOK, NoKey, Bucket
  <2>3. windows' \in [Rules -> [0..MaxTime -> Nat]]
    BY <2>1 DEF TypeOK
  <2>4. /\ requests' \in [Rules -> SUBSET Entry] /\ \A q \in Rules : IsFiniteSet(requests'[q])
        /\ added' \in [Rules -> SUBSET Entry] /\ \A q \in Rules : IsFiniteSet(added'[q])
    BY <2>1, FS_EmptySet DEF TypeOK
  <2>5. WalksOK'
    BY <1>14 DEF ResetRateLimit, WalksOK, WalkOK
  <2> QED BY <1>14, <2>2, <2>3, <2>4, <2>5 DEF ResetRateLimit, TypeOK
<1>15. CASE Tick
  <2>1. now' \in 0..MaxTime /\ now' >= now
    BY <1>15, BoundsAssumption DEF Tick, TypeOK
  <2>2. \A s \in Slots : slot[s].t \in 0..MaxTime
    BY DEF TypeOK, Call
  <2>3. WalksOK'
    BY <1>15, <2>1, <2>2, BoundsAssumption DEF Tick, WalksOK, WalkOK, TypeOK
  <2> QED BY <1>15, <2>1, <2>3 DEF Tick, TypeOK, redis, history
<1>16. CASE UNCHANGED vars
  BY <1>16 DEF vars, TypeOK, WalksOK, WalkOK
<1> QED BY <1>3, <1>4, <1>5, <1>6, <1>7, <1>8, <1>9, <1>10, <1>11, <1>12, <1>13, <1>14, <1>15, <1>16
        DEF Next, CanActivate

-----------------------------------------------------------------------------
(* The counters of fixed windows.  A step counts nothing and commits       *)
(* nobody, or leaves room for everybody, or counts a call that was         *)
(* committed and is no longer.                                             *)

LEMMA CounterKept ==
    ASSUME TypeOK, TypeOK', NEW r \in Rules, NEW w \in 0..MaxTime, CounterOK(r, w),
           \/ windows'[r][w] <= windows[r][w] /\ Committed(r, w)' \subseteq Committed(r, w)
           \/ windows'[r][w] < Max_(r)
           \/ /\ windows'[r][w] = windows[r][w] + 1
              /\ \E s \in Committed(r, w) : Committed(r, w)' \subseteq Committed(r, w) \ {s}
    PROVE  windows'[r][w] + Cardinality(Committed(r, w)') <= Max_(r) + Excess
<1> DEFINE C == Committed(r, w)
           D == Committed(r, w)'
           a == windows[r][w]
           b == windows'[r][w]
<1>1. a \in Nat /\ b \in Nat /\ Max_(r) \in Nat
  <2>1. windows[r] \in [0..MaxTime -> Nat] /\ windows'[r] \in [0..MaxTime -> Nat]
    BY DEF TypeOK
  <2> QED BY <2>1, RuleTyped
<1>2. IsFiniteSet(C) /\ Cardinality(C) \in Nat /\ C \subseteq Slots
  BY SlotsAssumption, FS_Subset, FS_CardinalityType DEF Committed
<1>3. /\ IsFiniteSet(D) /\ Cardinality(D) \in Nat /\ D \subseteq Slots
      /\ Cardinality(D) <= Cardinality(Slots) /\ Cardinality(Slots) \in Nat
  BY SlotsAssumption, FS_Subset, FS_CardinalityType DEF Committed
<1>4. a + Cardinality(C) <= Max_(r) + Excess /\ Excess = Cardinality(Slots) - 1
  BY DEF CounterOK, Excess
<1> HIDE DEF a, b, C, D
<1>5. CASE b <= a /\ D \subseteq C
  <2>1. Cardinality(D) <= Cardinality(C)
    BY <1>2, <1>5, FS_Subset
  <2> QED BY <1>1, <1>2, <1>3, <1>4, <1>5, <2>1 DEF b, D
<1>6. CASE b < Max_(r)
  BY <1>1, <1>3, <1>4, <1>6 DEF b, D
<1>7. CASE b = a + 1 /\ \E s \in C : D \subseteq C \ {s}
  <2>1. PICK s \in C : D \subseteq C \ {s}
    BY <1>7
  <2>2. IsFiniteSet(C \ {s}) /\ Cardinality(C \ {s}) = Cardinality(C) - 1
    BY <1>2, <2>1, FS_RemoveElement
  <2>3. Cardinality(D) <= Cardinality(C) - 1
    BY <2>1, <2>2, FS_Subset
  <2> QED BY <1>1, <1>2, <1>3, <1>4, <1>7, <2>3 DEF b, D
<1> QED BY <1>5, <1>6, <1>7 DEF a, b, C, D

\* A call that moves on commits only itself.
LEMMA CommittedMove ==
    ASSUME TypeOK, NEW r \in Rules, NEW w \in 0..MaxTime, NEW s \in Slots, NEW c \in Call,
           slot' = [slot EXCEPT ![s] = c], now' = now
    PROVE  /\ slot'[s] = c
           /\ Committed(r, w)' \subseteq Committed(r, w) \union {s}
           /\ ~Commits(s, r, w)' => Committed(r, w)' \subseteq Committed(r, w) \ {s}
           /\ (Commits(s, r, w)' => Commits(s, r, w)) => Committed(r, w)' \subseteq Committed(r, w)
<1>1. slot'[s] = c /\ \A p \in Slots \ {s} : slot'[p] = slot[p]
  BY DEF TypeOK
<1>2. ASSUME NEW p \in Slots \ {s} PROVE Commits(p, r, w)' <=> Commits(p, r, w)
  BY <1>1, <1>2 DEF Commits, Passed, Window, Seconds
<1> QED BY <1>1, <1>2 DEF Committed

\* The last conjunct of CounterOK is a matter of the counter alone.
LEMMA CounterBegins ==
    ASSUME TypeOK, WalksOK, [Next]_vars, NEW r \in Using("fixed_window"), NEW w \in 0..MaxTime,
           r \notin rules \/ w > Window(r, now), windows[r][w] = 0
    PROVE  windows'[r][w] = 0
<1>1. r \in Rules /\ windows \in [Rules -> [0..MaxTime -> Nat]]
  BY DEF Using, TypeOK
<1>2. CASE UNCHANGED windows
  BY <1>2
<1>3. ASSUME NEW s \in Slots, IncrementWindow(s) PROVE windows'[r][w] = 0
  <2> DEFINE q == slot[s].rule
             v == Window(q, slot[s].t)
  <2>1. q \in rules /\ slot[s].t <= now /\ slot[s].t \in 0..MaxTime /\ now \in 0..MaxTime
        /\ q \in Rules
    BY <1>3, TablesAssumption DEF IncrementWindow, At, WalksOK, WalkOK, TypeOK, Call
  <2>2. v \in 0..MaxTime /\ Window(q, now) \in 0..MaxTime /\ v <= Window(q, now)
    BY <2>1, WindowTyped, WindowMonotone
  <2>3. q # r \/ v # w
    BY <2>1, <2>2, BoundsAssumption
  <2>4. windows' = [windows EXCEPT ![q][v] = @ + 1]
    BY <1>3 DEF IncrementWindow
  <2> HIDE DEF q, v
  <2> QED BY <1>1, <2>1, <2>2, <2>3, <2>4
<1>4. CASE ResetRateLimit
  BY <1>1, <1>4 DEF ResetRateLimit
<1>5. UNCHANGED windows \/ ResetRateLimit \/ \E s \in Slots : IncrementWindow(s)
  BY DEF Next, vars, CanActivate, CheckRateLimit, GetRateLimitStatus, IncrementCounter, CheckBucket,
         ReadBucket, WriteBucket, CheckWindow, RemoveOld, CountRequests, AddRequest, Throw,
         CreateRule, Tick, redis
<1> QED BY <1>2, <1>3, <1>4, <1>5

LEMMA CounterStep ==
    ASSUME TypeOK, TypeOK', WalksOK, [Next]_vars,
           NEW r \in Using("fixed_window"), NEW w \in 0..MaxTime, CounterOK(r, w)
    PROVE  CounterOK(r, w)'
<1> DEFINE Room == windows'[r][w] < Max_(r)
           Less == windows'[r][w] <= windows[r][w] /\ Committed(r, w)' \subseteq Committed(r, w)
           Counted == /\ windows'[r][w] = windows[r][w] + 1
                      /\ \E s \in Committed(r, w) : Committed(r, w)' \subseteq Committed(r, w) \ {s}
<1>0. /\ r \in Rules /\ Rule[r].algorithm = "fixed_window" /\ Max_(r) \in Nat \ {0}
      /\ windows[r][w] \in Nat /\ windows'[r][w] \in Nat
      /\ now \in 0..MaxTime /\ Window(r, now) \in 0..MaxTime
  <2>1. r \in Rules /\ Rule[r].algorithm = "fixed_window" /\ now \in 0..MaxTime
    BY DEF Using, TypeOK
  <2>2. windows[r] \in [0..MaxTime -> Nat] /\ windows'[r] \in [0..MaxTime -> Nat]
    BY <2>1 DEF TypeOK
  <2> QED BY <2>1, <2>2, RuleTyped, WindowTyped
<1> SUFFICES /\ Room \/ Less \/ Counted
             /\ (r \notin rules' \/ w > Window(r, now)') => windows'[r][w] = 0
  BY <1>0, CounterKept DEF CounterOK, Max_, Excess
<1>1. rules \subseteq rules' /\ now' \in 0..MaxTime /\ now' >= now
  <2>1. CASE Tick
    BY <1>0, <2>1 DEF Tick, TypeOK
  <2>2. ASSUME NEW q \in Rules, CreateRule(q) PROVE rules \subseteq rules' /\ now' = now
    BY <2>2 DEF CreateRule
  <2>3. UNCHANGED <<rules, now>> \/ Tick \/ \E q \in Rules : CreateRule(q)
    BY DEF Next, vars, CanActivate, CheckRateLimit, GetRateLimitStatus, IncrementCounter,
           CheckBucket, ReadBucket, WriteBucket, CheckWindow, IncrementWindow, RemoveOld,
           CountRequests, AddRequest, Throw, ResetRateLimit
  <2>4. now \in Int
    BY <1>0, BoundsAssumption
  <2> QED BY <1>0, <2>1, <2>2, <2>3, <2>4
<1>2. Window(r, now) <= Window(r, now)' /\ Window(r, now)' \in 0..MaxTime
  <2>1. Window(r, now)' = Window(r, now')
    BY DEF Window, Seconds
  <2> QED BY <1>0, <1>1, <2>1, WindowMonotone, WindowTyped
\* A window that has not begun, or of a rule that was not created.
<1>3. CASE r \notin rules \/ w > Window(r, now)
  <2>1. windows'[r][w] = 0
    BY <1>3, CounterBegins DEF CounterOK
  <2> QED BY <1>0, <2>1
<1>4. CASE r \in rules /\ w <= Window(r, now)
  <2>0. ~(r \notin rules' \/ w > Window(r, now)')
    BY <1>0, <1>1, <1>2, <1>4, BoundsAssumption
  <2> SUFFICES Room \/ Less \/ Counted
    BY <2>0
  \* A slot moves on, the counters stay.
  <2>1. ASSUME NEW s \in Slots, NEW c \in Call, slot' = [slot EXCEPT ![s] = c], now' = now,
               windows'[r][w] = windows[r][w], Commits(s, r, w)' => Commits(s, r, w)
        PROVE  Less
    <3>1. Committed(r, w)' \subseteq Committed(r, w)
      BY <1>0, <2>1, CommittedMove
    <3> QED BY <1>0, <2>1, <3>1
  <2>2. ASSUME NEW s \in Slots, NEW c \in Call
        PROVE  slot' = [slot EXCEPT ![s] = c] => slot'[s] = c
    BY DEF TypeOK
  <2>3. ASSUME NEW s \in Slots PROVE WalkOK(s) /\ slot[s].todo \in SUBSET rules /\ slot[s].t \in 0..MaxTime
    BY DEF WalksOK, WalkOK, TypeOK, Call
  <2>4. ~(Window(r, now) < w)
    BY <1>0, <1>4, BoundsAssumption
  <2> HIDE DEF Room, Less, Counted
  <2>5. ASSUME NEW s \in Slots, CheckRateLimit(s) PROVE Less
    <3>1. PICK c \in Call :
            /\ slot' = [slot EXCEPT ![s] = c]
            /\ \/ rules = {}
               \/ c.at = "check" /\ c.rule \in rules /\ c.todo = rules \ {c.rule} /\ c.t = now
      BY <2>5, TakeResult DEF CheckRateLimit
    <3>2. slot'[s] = c /\ now' = now /\ windows' = windows
      BY <2>2, <2>5, <3>1 DEF CheckRateLimit, redis
    <3>3. ~Commits(s, r, w)'
      BY <1>4, <2>4, <3>1, <3>2 DEF Commits, Passed, Window, Seconds
    <3> QED BY <2>1, <3>1, <3>2, <3>3
  <2>6. ASSUME NEW s \in Slots, GetRateLimitStatus(s) \/ Throw(s) PROVE Less
    <3>1. Idle \in Call /\ slot' = [slot EXCEPT ![s] = Idle] /\ now' = now /\ windows' = windows
      BY <2>6, IdleTyped DEF GetRateLimitStatus, Throw, redis
    <3>2. slot'[s] = Idle
      BY <2>2, <3>1
    <3>3. ~Commits(s, r, w)'
      BY <3>2 DEF Commits, Passed, Idle
    <3> QED BY <2>1, <3>1, <3>3
  <2>7. ASSUME NEW s \in Slots, IncrementCounter(s) PROVE Less
    <3>1. PICK c \in Call :
            /\ slot' = [slot EXCEPT ![s] = c]
            /\ \/ c = Idle
               \/ c.at = "increment" /\ c.t = now
      BY <2>7, TakeResult, IdleTyped DEF IncrementCounter
    <3>2. slot'[s] = c /\ now' = now /\ windows' = windows /\ slot[s].at = "refind"
      BY <2>2, <2>7, <3>1 DEF IncrementCounter, redis
    <3>3. Commits(s, r, w)' => Commits(s, r, w)
      BY <1>0, <3>1, <3>2, BoundsAssumption DEF Commits, Passed, Window, Seconds, Idle
    <3> QED BY <2>1, <3>1, <3>2, <3>3
  \* A rule has been decided: what a call does that takes up another one.
  <2>8. ASSUME NEW s \in Slots, NEW allowed \in BOOLEAN, Decide(s, allowed), now' = now,
               slot[s].at \in {"check", "count"}
        PROVE  \E c \in Call :
                 /\ slot' = [slot EXCEPT ![s] = c] /\ slot'[s] = c
                 /\ Commits(s, r, w)' => allowed /\ w >= Window(r, now) /\ r \notin slot[s].todo
    <3>1. PICK c \in Call :
            /\ slot' = [slot EXCEPT ![s] = c]
            /\ \/ c = Idle
               \/ allowed /\ slot[s].todo = {} /\ c = [Idle EXCEPT !.at = "refind"]
               \/ /\ allowed /\ c.at = "check" /\ c.rule \in slot[s].todo
                  /\ c.todo = slot[s].todo \ {c.rule} /\ c.t = now
      BY <2>8, DecideResult
    <3>2. slot'[s] = c
      BY <2>2, <3>1
    <3>3. Commits(s, r, w)' => allowed /\ w >= Window(r, now) /\ r \notin slot[s].todo
      BY <2>4, <2>8, <3>1, <3>2 DEF Commits, Passed, Window, Seconds, Idle
    <3> QED BY <3>1, <3>2, <3>3
  <2>9. ASSUME NEW s \in Slots, NEW allowed \in BOOLEAN, Decide(s, allowed), now' = now,
               windows' = windows, slot[s].at \in {"check", "count"}, slot[s].rule # r
        PROVE  Less
    <3>1. PICK c \in Call :
            /\ slot' = [slot EXCEPT ![s] = c]
            /\ Commits(s, r, w)' => w >= Window(r, now) /\ r \notin slot[s].todo
      BY <2>8, <2>9
    <3>2. Commits(s, r, w)' => Commits(s, r, w)
      BY <2>9, <3>1 DEF Commits, Passed
    <3> QED BY <2>1, <2>9, <3>1, <3>2
  <2>10. ASSUME NEW s \in Slots, CheckBucket(s) PROVE Less
    <3>1. slot[s].rule # r /\ slot[s].at = "check" /\ now' = now /\ windows' = windows
      BY <1>0, <2>10 DEF CheckBucket, At, Buckets, redis
    <3>2. Decide(s, TRUE) \/ Decide(s, FALSE)
      BY <2>10 DEF CheckBucket, Decide
    <3> QED BY <2>9, <3>1, <3>2
  <2>11. ASSUME NEW s \in Slots, CountRequests(s) PROVE Less
    <3>1. slot[s].rule # r /\ slot[s].at = "count" /\ now' = now /\ windows' = windows
      BY <1>0, <2>3, <2>11 DEF CountRequests, WalkOK, redis
    <3>2. Decide(s, TRUE) \/ Decide(s, FALSE)
      BY <2>11 DEF CountRequests, Decide
    <3> QED BY <2>9, <3>1, <3>2
  <2>12. ASSUME NEW s \in Slots, CheckWindow(s) PROVE Less \/ Room
    <3> DEFINE t == slot[s].t
               allows == WindowAllows(r, t)
    <3>1. slot[s].at = "check" /\ now' = now /\ windows' = windows
      BY <2>12 DEF CheckWindow, At, redis
    <3>2. CASE slot[s].rule # r
      <4>1. Decide(s, TRUE) \/ Decide(s, FALSE)
        BY <2>12 DEF CheckWindow, Decide
      <4> QED BY <2>9, <3>1, <3>2, <4>1
    <3>3. CASE slot[s].rule = r
      <4>1. (allows /\ Decide(s, TRUE)) \/ (~allows /\ Decide(s, FALSE))
        BY <2>12, <3>3 DEF CheckWindow, Decide
      <4>2. t \in 0..MaxTime /\ Window(r, t) \in 0..MaxTime /\ Window(r, t) <= Window(r, now)
        BY <1>0, <2>3, WindowTyped, WindowMonotone DEF WalkOK
      <4>3. CASE allows /\ w = Window(r, t)
        BY <1>0, <3>1, <4>3 DEF WindowAllows, Room
      <4>4. CASE allows /\ w # Window(r, t)
        <5>1. PICK c \in Call :
                /\ slot' = [slot EXCEPT ![s] = c]
                /\ Commits(s, r, w)' => w >= Window(r, now)
          BY <2>8, <3>1, <4>1, <4>4
        <5>2. Commits(s, r, w)' => Commits(s, r, w)
          BY <1>0, <3>1, <3>3, <4>2, <4>4, <5>1, BoundsAssumption DEF Commits
        <5> QED BY <2>1, <3>1, <5>1, <5>2
      <4>5. CASE ~allows
        <5>1. PICK c \in Call : slot' = [slot EXCEPT ![s] = c] /\ ~Commits(s, r, w)'
          BY <2>8, <3>1, <4>1, <4>5
        <5> QED BY <2>1, <3>1, <5>1
      <4> QED BY <4>3, <4>4, <4>5
    <3> QED BY <3>2, <3>3
  <2>13. ASSUME NEW s \in Slots, ReadBucket(s) PROVE Less
    <3> DEFINE c == [slot[s] EXCEPT !.at = "set", !.level = Level(slot[s].rule, slot[s].t, now)]
    <3>1. slot'[s] \in Call /\ slot' = [slot EXCEPT ![s] = slot'[s]]
          /\ slot'[s] = c /\ now' = now /\ windows' = windows /\ slot[s].at = "increment"
      BY <2>13 DEF ReadBucket, At, redis, TypeOK
    <3>2. c.at = "set" /\ c.todo = slot[s].todo
      BY DEF TypeOK, Call
    <3> HIDE DEF c
    <3>3. Commits(s, r, w)' => Commits(s, r, w)
      BY <3>1, <3>2 DEF Commits, Passed, Window, Seconds
    <3> QED BY <2>1, <3>1, <3>3
  <2>14. ASSUME NEW s \in Slots, RemoveOld(s) PROVE Less
    <3>1. slot'[s] \in Call /\ slot' = [slot EXCEPT ![s] = slot'[s]]
          /\ slot'[s] = [slot[s] EXCEPT !.at = "count"] /\ now' = now /\ windows' = windows
          /\ slot[s].at = "check"
      BY <2>14 DEF RemoveOld, At, TypeOK
    <3>2. slot'[s].at = "count" /\ slot'[s].todo = slot[s].todo /\ slot'[s].rule = slot[s].rule
      BY <3>1 DEF TypeOK, Call
    <3>3. Commits(s, r, w)' => Commits(s, r, w)
      BY <3>1, <3>2 DEF Commits, Passed, Window, Seconds
    <3> QED BY <2>1, <3>1, <3>3
  \* A rule has been counted: the next one was passed before.
  <2>15. ASSUME NEW s \in Slots, slot[s].at \in {"increment", "set"}, now' = now,
                Take(s, "increment", slot[s].todo, "idle")
         PROVE  \E c \in Call :
                  /\ slot' = [slot EXCEPT ![s] = c]
                  /\ Commits(s, r, w)' => Commits(s, r, w) /\ r \in slot[s].todo
    <3>1. PICK c \in Call :
            /\ slot' = [slot EXCEPT ![s] = c]
            /\ \/ c = Idle
               \/ /\ c.at = "increment" /\ c.rule \in slot[s].todo
                  /\ c.todo = slot[s].todo \ {c.rule} /\ c.t = now
      BY <2>3, <2>15, TakeResult, IdleTyped
    <3>2. slot'[s] = c
      BY <2>2, <3>1
    <3>3. Commits(s, r, w)' => w >= Window(r, now) /\ r \in slot[s].todo
      BY <1>0, <2>15, <3>1, <3>2, BoundsAssumption DEF Commits, Passed, Window, Seconds, Idle
    <3>4. w >= Window(r, now) /\ r \in slot[s].todo => Commits(s, r, w)
      BY <2>15 DEF Commits, Passed
    <3> QED BY <3>1, <3>3, <3>4
  <2>16. ASSUME NEW s \in Slots, WriteBucket(s) \/ AddRequest(s) PROVE Less
    <3>1. /\ slot[s].at \in {"increment", "set"} /\ Take(s, "increment", slot[s].todo, "idle")
          /\ now' = now /\ windows' = windows
      BY <2>16 DEF WriteBucket, AddRequest, At
    <3> QED BY <2>1, <2>15, <3>1
  <2>17. ASSUME NEW s \in Slots, IncrementWindow(s) PROVE Less \/ Counted
    <3> DEFINE q == slot[s].rule
               v == Window(q, slot[s].t)
    <3>1. /\ slot[s].at = "increment" /\ Take(s, "increment", slot[s].todo, "idle")
          /\ now' = now /\ windows' = [windows EXCEPT ![q][v] = @ + 1]
      BY <2>17 DEF IncrementWindow, At
    <3>2. PICK c \in Call :
            /\ slot' = [slot EXCEPT ![s] = c]
            /\ Commits(s, r, w)' => Commits(s, r, w) /\ r \in slot[s].todo
      BY <2>15, <3>1
    <3>a. q \in Rules /\ q \notin slot[s].todo
      <4>1. slot[s].rule \in rules \ slot[s].todo
        BY <2>3, <3>1 DEF WalkOK
      <4>2. rules \subseteq Rules
        BY TablesAssumption DEF TypeOK
      <4> QED BY <4>1, <4>2
    <3>3. q \in Rules /\ v \in 0..MaxTime /\ q \notin slot[s].todo
      BY <2>3, <3>a, WindowTyped
    <3>4. windows \in [Rules -> [0..MaxTime -> Nat]]
      BY DEF TypeOK
    <3>5. CASE q # r \/ v # w
      <4> HIDE DEF q, v
      <4>1. windows'[r][w] = windows[r][w]
        BY <1>0, <3>1, <3>3, <3>4, <3>5
      <4> QED BY <2>1, <3>1, <3>2, <4>1
    <3>6. CASE q = r /\ v = w
      <4>1. s \in Committed(r, w)
        BY <3>1, <3>6 DEF Committed, Commits
      <4>2. ~Commits(s, r, w)'
        BY <3>2, <3>3, <3>6
      <4>3. Committed(r, w)' \subseteq Committed(r, w) \ {s}
        BY <1>0, <3>1, <3>2, <4>2, CommittedMove
      <4> HIDE DEF q, v
      <4>4. windows'[r][w] = windows[r][w] + 1
        BY <1>0, <3>1, <3>3, <3>4, <3>6
      <4> QED BY <4>1, <4>3, <4>4 DEF Counted
    <3> QED BY <3>5, <3>6
  \* Nothing but the clock, the table or the keys.
  <2>18. ASSUME slot' = slot, now' = now \/ Tick, windows'[r][w] <= windows[r][w] PROVE Less
    <3>1. ASSUME NEW p \in Slots PROVE Commits(p, r, w)' => Commits(p, r, w)
      <4>1. Passed(p, r)' <=> Passed(p, r)
        BY <2>18 DEF Passed
      <4>2. w >= Window(r, now)' => w >= Window(r, now)
        BY <1>0, <1>2, BoundsAssumption
      <4> QED BY <2>18, <4>1, <4>2 DEF Commits, Window, Seconds
    <3> QED BY <2>18, <3>1 DEF Less, Committed
  <2>19. ASSUME NEW q \in Rules, CreateRule(q) PROVE Less
    BY <1>0, <2>18, <2>19 DEF CreateRule, redis
  <2>20. CASE Tick
    BY <1>0, <2>18, <2>20 DEF Tick, redis
  <2>21. CASE ResetRateLimit
    <3>1. windows'[r][w] \in {0, windows[r][w]} /\ slot' = slot /\ now' = now
      BY <1>0, <2>21 DEF ResetRateLimit, TypeOK
    <3> QED BY <1>0, <2>18, <3>1
  <2>22. CASE UNCHANGED vars
    BY <1>0, <2>18, <2>22 DEF vars
  <2> QED BY <2>5, <2>6, <2>7, <2>10, <2>11, <2>12, <2>13, <2>14, <2>16, <2>17, <2>19, <2>20, <2>21, <2>22
          DEF Next, CanActivate
<1> QED BY <1>0, <1>3, <1>4, BoundsAssumption

-----------------------------------------------------------------------------
(* The sorted sets of sliding windows: what the current window counts is   *)
(* there, although every check removes what is old.                        *)

LEMMA SetsTyped ==
    ASSUME TypeOK, NEW r \in Rules
    PROVE  /\ requests[r] \subseteq Entry /\ IsFiniteSet(requests[r])
           /\ added[r] \subseteq Entry /\ IsFiniteSet(added[r])
           /\ \A e \in Entry : e.score \in Nat /\ e.nonce \in Nat
           /\ now \in Nat /\ Seconds(r) \in Nat \ {0} /\ Max_(r) \in Nat \ {0}
BY RuleTyped, BoundsAssumption DEF TypeOK, Entry

LEMMA TableGrows ==
    ASSUME TypeOK, [Next]_vars
    PROVE  rules \subseteq rules' /\ now <= now' /\ now \in 0..MaxTime /\ now' \in 0..MaxTime
<1>0. now \in 0..MaxTime
  BY DEF TypeOK
<1>1. CASE Tick
  BY <1>0, <1>1, BoundsAssumption DEF Tick
<1>2. ASSUME NEW q \in Rules, CreateRule(q) PROVE rules \subseteq rules' /\ now' = now
  BY <1>2 DEF CreateRule
<1>3. UNCHANGED <<rules, now>> \/ Tick \/ \E q \in Rules : CreateRule(q)
  BY DEF Next, vars, CanActivate, CheckRateLimit, GetRateLimitStatus, IncrementCounter,
         CheckBucket, ReadBucket, WriteBucket, CheckWindow, IncrementWindow, RemoveOld,
         CountRequests, AddRequest, Throw, ResetRateLimit
<1> QED BY <1>0, <1>1, <1>2, <1>3, BoundsAssumption

\* An entry of its own: its nonce tells it from those of the same time.
LEMMA NonceFresh ==
    ASSUME TypeOK, NEW r \in Rules, EntriesOK(r), NEW t \in Nat
    PROVE  LET same == {e \in added[r] : e.score = t}
               n == Cardinality(same)
               f == [score |-> t, nonce |-> n]
           IN  /\ f \in Entry /\ f \notin added[r]
               /\ \A e \in added[r] \union {f} :
                    e.nonce < Cardinality({g \in added[r] \union {f} : g.score = e.score})
<1> DEFINE same == {e \in added[r] : e.score = t}
           n == Cardinality(same)
           f == [score |-> t, nonce |-> n]
           at(e) == {g \in added[r] : g.score = e.score}
           at2(e) == {g \in added[r] \union {f} : g.score = e.score}
<1>1. added[r] \subseteq Entry /\ IsFiniteSet(added[r])
  BY SetsTyped
<1>2. IsFiniteSet(same) /\ n \in Nat
  BY <1>1, FS_Subset, FS_CardinalityType
<1>3. f \in Entry
  BY <1>2 DEF Entry
<1>4. ASSUME f \in added[r] PROVE FALSE
  <2>1. f.nonce < Cardinality({g \in added[r] : g.score = f.score})
    BY <1>4 DEF EntriesOK
  <2>2. f.score = t /\ f.nonce = n
    OBVIOUS
  <2>3. {g \in added[r] : g.score = f.score} = same
    BY <2>2
  <2>4. Cardinality({g \in added[r] : g.score = f.score}) = n
    BY <2>3
  <2> HIDE DEF n
  <2>5. n < n
    BY <2>1, <2>2, <2>4
  <2> QED BY <1>2, <2>5
<1>5. ASSUME NEW e \in added[r] \union {f} PROVE e.nonce < Cardinality(at2(e))
  <2>1. f.score = t /\ f.nonce = n
    OBVIOUS
  <2> HIDE DEF f
  <2>2. CASE e.score = t
    <3>1. at2(e) = same \union {f}
      BY <2>1, <2>2
    <3>2. f \notin same
      BY <1>4
    <3>3. Cardinality(at2(e)) = n + 1
      BY <1>2, <3>1, <3>2, FS_AddElement
    <3>4. e = f \/ e \in added[r]
      OBVIOUS
    <3>5. CASE e = f
      BY <1>2, <2>1, <3>3, <3>5
    <3>6. CASE e \in added[r]
      <4>1. e.nonce < Cardinality(at(e)) /\ e.nonce \in Nat
        BY <1>1, <3>6, SetsTyped DEF EntriesOK
      <4>2. at(e) = same
        BY <2>2
      <4> HIDE DEF same, at, at2
      <4>3. e.nonce < n
        BY <4>1, <4>2
      <4> QED BY <1>2, <3>3, <4>1, <4>3
    <3> QED BY <3>4, <3>5, <3>6
  <2>3. CASE e.score # t
    <3>1. e \in added[r]
      BY <2>1, <2>3
    <3>2. at2(e) = at(e)
      BY <2>1, <2>3
    <3>3. e.nonce < Cardinality(at(e))
      BY <3>1 DEF EntriesOK
    <3> HIDE DEF at, at2
    <3> QED BY <3>2, <3>3
  <2> QED BY <2>2, <2>3
<1> QED BY <1>3, <1>4, <1>5

LEMMA EntriesStep ==
    ASSUME TypeOK, TypeOK', WalksOK, [Next]_vars, NEW r \in Using("sliding_window"), EntriesOK(r)
    PROVE  EntriesOK(r)' /\ (r \notin rules => added'[r] = {})
<1>0. /\ r \in Rules /\ requests[r] \subseteq added[r] /\ added[r] \subseteq Entry
      /\ Seconds(r) \in Nat \ {0} /\ \A e \in Entry : e.score \in Nat /\ e.nonce \in Nat
      /\ now \in Nat /\ now' \in Nat /\ now <= now' /\ rules \subseteq rules'
  BY SetsTyped, TableGrows, BoundsAssumption DEF Using, EntriesOK
<1>1. ASSUME added'[r] = added[r], requests'[r] = requests[r] PROVE EntriesOK(r)'
  <2>1. ASSUME NEW e \in added'[r]
        PROVE  /\ e.score <= now' /\ (e.score > now' - Seconds(r) => e \in requests'[r])
               /\ e.nonce < Cardinality({f \in added'[r] : f.score = e.score})
    <3>1. /\ e.score <= now /\ e.score \in Nat /\ (e.score > now - Seconds(r) => e \in requests[r])
          /\ e.nonce < Cardinality({f \in added[r] : f.score = e.score})
      BY <1>0, <1>1, <2>1 DEF EntriesOK
    <3> QED BY <1>0, <1>1, <3>1
  <2>2. requests'[r] \subseteq added'[r] /\ (r \notin rules' => added'[r] = {})
    BY <1>0, <1>1 DEF EntriesOK
  <2> QED BY <2>1, <2>2 DEF EntriesOK, Seconds
<1>2. ASSUME NEW s \in Slots, RemoveOld(s) PROVE EntriesOK(r)' /\ added' = added
  <2> DEFINE q == slot[s].rule
             kept == {e \in requests[q] : e.score > slot[s].t - Seconds(q)}
  <2>1. q \in Rules /\ slot[s].t <= now /\ slot[s].t \in Nat
    BY <1>2, TablesAssumption, BoundsAssumption DEF RemoveOld, At, WalksOK, WalkOK, TypeOK, Call
  <2>2. requests' = [requests EXCEPT ![q] = kept] /\ added' = added /\ now' = now /\ rules' = rules
    BY <1>2 DEF RemoveOld, history
  <2> HIDE DEF kept
  <2>3. CASE q # r
    <3>1. requests'[r] = requests[r]
      BY <1>0, <2>1, <2>2, <2>3 DEF TypeOK
    <3> QED BY <1>1, <2>2, <3>1
  <2>4. CASE q = r
    <3>1. requests'[r] = kept
      BY <1>0, <2>2, <2>4 DEF TypeOK
    <3>2. ASSUME NEW e \in added[r], e.score > now - Seconds(r) PROVE e \in kept
      <4>1. e \in requests[r] /\ e.score \in Nat
        BY <1>0, <3>2 DEF EntriesOK
      <4> QED BY <1>0, <2>1, <2>4, <3>2, <4>1 DEF kept
    <3>3. kept \subseteq added[r]
      BY <1>0, <2>4 DEF kept
    <3>4. ASSUME NEW e \in added[r]
          PROVE  e.score <= now /\ e.nonce < Cardinality({f \in added[r] : f.score = e.score})
      BY DEF EntriesOK
    <3>5. r \notin rules => added[r] = {}
      BY DEF EntriesOK
    <3> QED BY <2>2, <3>1, <3>2, <3>3, <3>4, <3>5 DEF EntriesOK, Seconds
  <2> QED BY <2>2, <2>3, <2>4
<1>3. ASSUME NEW s \in Slots, AddRequest(s)
      PROVE  EntriesOK(r)' /\ (r \notin rules => added'[r] = {})
  <2> DEFINE q == slot[s].rule
             same == {e \in added[q] : e.score = slot[s].t}
             f == [score |-> slot[s].t, nonce |-> Cardinality(same)]
  <2>1. q \in Rules /\ q \in rules /\ slot[s].t <= now /\ slot[s].t \in Nat
    BY <1>3, TablesAssumption, BoundsAssumption DEF AddRequest, At, WalksOK, WalkOK, TypeOK, Call
  <2>2. /\ requests' = [requests EXCEPT ![q] = @ \union {f}]
        /\ added' = [added EXCEPT ![q] = @ \union {f}] /\ now' = now /\ rules' = rules
    BY <1>3 DEF AddRequest
  <2>3. CASE q # r
    <3> HIDE DEF f
    <3>1. requests'[r] = requests[r] /\ added'[r] = added[r]
      BY <1>0, <2>1, <2>2, <2>3 DEF TypeOK
    <3> QED BY <1>1, <3>1 DEF EntriesOK
  <2>4. CASE q = r
    <3>0. f.score = slot[s].t
      OBVIOUS
    <3>1. ASSUME NEW e \in added[r] \union {f}
          PROVE  e.nonce < Cardinality({g \in added[r] \union {f} : g.score = e.score})
      BY <1>0, <2>1, <2>4, <3>1, NonceFresh
    <3> HIDE DEF f
    <3>2. requests'[r] = requests[r] \union {f} /\ added'[r] = added[r] \union {f}
      BY <1>0, <2>2, <2>4 DEF TypeOK
    <3>3. ASSUME NEW e \in added'[r]
          PROVE  /\ e.score <= now' /\ (e.score > now' - Seconds(r) => e \in requests'[r])
                 /\ e.nonce < Cardinality({g \in added'[r] : g.score = e.score})
      <4>1. e = f \/ e \in added[r]
        BY <3>2
      <4>2. e.score <= now
        BY <2>1, <3>0, <4>1 DEF EntriesOK
      <4>3. e.score > now - Seconds(r) => e \in requests'[r]
        BY <3>2, <4>1 DEF EntriesOK
      <4> QED BY <2>2, <3>1, <3>2, <4>2, <4>3
    <3>4. requests'[r] \subseteq added'[r] /\ r \in rules'
      BY <1>0, <2>1, <2>2, <2>4, <3>2
    <3>5. r \in rules
      BY <2>1, <2>4
    <3> QED BY <3>3, <3>4, <3>5 DEF EntriesOK, Seconds
  <2> QED BY <2>3, <2>4
<1>4. CASE ResetRateLimit
  <2>1. (requests'[r] = {} /\ added'[r] = {}) \/ (requests'[r] = requests[r] /\ added'[r] = added[r])
    BY <1>0, <1>4 DEF ResetRateLimit
  <2>2. CASE requests'[r] = {} /\ added'[r] = {}
    BY <2>2 DEF EntriesOK
  <2> QED BY <1>1, <2>1, <2>2 DEF EntriesOK
<1>5. \/ added' = added /\ requests' = requests
      \/ ResetRateLimit \/ \E s \in Slots : RemoveOld(s) \/ AddRequest(s)
  BY DEF Next, vars, CanActivate, CheckRateLimit, GetRateLimitStatus, IncrementCounter, CheckBucket,
         ReadBucket, WriteBucket, CheckWindow, IncrementWindow, CountRequests, Throw,
         CreateRule, Tick, redis, history
<1> QED BY <1>1, <1>2, <1>3, <1>4, <1>5 DEF EntriesOK

\* A step adds nothing and lets nobody add, or leaves room for everybody,
\* or adds the request of a call that was to add and is not any more.
LEMMA IntervalKept ==
    ASSUME TypeOK, TypeOK', NEW r \in Rules, NEW t \in 0..MaxTime, IntervalOK(r, t),
           \/ AddedIn(r, t)' \subseteq AddedIn(r, t) /\ Adding(r, t)' \subseteq Adding(r, t)
           \/ Cardinality(AddedIn(r, t)') < Max_(r)
           \/ /\ \E e \in Entry : AddedIn(r, t)' \subseteq AddedIn(r, t) \union {e}
              /\ \E s \in Adding(r, t) : Adding(r, t)' \subseteq Adding(r, t) \ {s}
    PROVE  IntervalOK(r, t)'
<1> DEFINE A == AddedIn(r, t)
           B == AddedIn(r, t)'
           C == Adding(r, t)
           D == Adding(r, t)'
<1>1. /\ IsFiniteSet(A) /\ Cardinality(A) \in Nat /\ IsFiniteSet(B) /\ Cardinality(B) \in Nat
      /\ Max_(r) \in Nat
  <2>1. IsFiniteSet(added[r]) /\ IsFiniteSet(added'[r])
    BY DEF TypeOK
  <2>2. A \subseteq added[r] /\ B \subseteq added'[r]
    BY DEF AddedIn
  <2> QED BY <2>1, <2>2, FS_Subset, FS_CardinalityType, RuleTyped
<1>2. IsFiniteSet(C) /\ Cardinality(C) \in Nat
  BY SlotsAssumption, FS_Subset, FS_CardinalityType DEF Adding
<1>3. /\ IsFiniteSet(D) /\ Cardinality(D) \in Nat
      /\ Cardinality(D) <= Cardinality(Slots) /\ Cardinality(Slots) \in Nat
  BY SlotsAssumption, FS_Subset, FS_CardinalityType DEF Adding
<1>4. Cardinality(A) + Cardinality(C) <= Max_(r) + Excess /\ Excess = Cardinality(Slots) - 1
  BY DEF IntervalOK, Excess
<1>a. \/ B \subseteq A /\ D \subseteq C
      \/ Cardinality(B) < Max_(r)
      \/ /\ \E e \in Entry : B \subseteq A \union {e}
         /\ \E s \in C : D \subseteq C \ {s}
  OBVIOUS
<1>b. IntervalOK(r, t)' <=> Cardinality(B) + Cardinality(D) <= Max_(r) + Excess
  BY DEF IntervalOK, Excess, Max_
<1> HIDE DEF A, B, C, D
<1>5. CASE B \subseteq A /\ D \subseteq C
  <2>1. Cardinality(D) <= Cardinality(C) /\ Cardinality(B) <= Cardinality(A)
    BY <1>1, <1>2, <1>5, FS_Subset
  <2> QED BY <1>1, <1>2, <1>3, <1>4, <1>b, <2>1
<1>6. CASE Cardinality(B) < Max_(r)
  BY <1>1, <1>3, <1>4, <1>6, <1>b
<1>7. CASE (\E e \in Entry : B \subseteq A \union {e}) /\ \E s \in C : D \subseteq C \ {s}
  <2>1. PICK s \in C : D \subseteq C \ {s}
    BY <1>7
  <2>2. IsFiniteSet(C \ {s}) /\ Cardinality(C \ {s}) = Cardinality(C) - 1
    BY <1>2, <2>1, FS_RemoveElement
  <2>3. Cardinality(D) <= Cardinality(C) - 1
    BY <2>1, <2>2, FS_Subset
  <2>4. PICK e \in Entry : B \subseteq A \union {e}
    BY <1>7
  <2>5. IsFiniteSet(A \union {e}) /\ Cardinality(A \union {e}) \in {Cardinality(A), Cardinality(A) + 1}
    BY <1>1, FS_AddElement
  <2>6. Cardinality(B) <= Cardinality(A \union {e})
    BY <2>4, <2>5, FS_Subset
  <2> QED BY <1>1, <1>2, <1>3, <1>4, <1>b, <2>3, <2>5, <2>6
<1> QED BY <1>5, <1>6, <1>7, <1>a

\* A call that moves on lets nobody else add.
LEMMA AddingMove ==
    ASSUME TypeOK, NEW r \in Rules, NEW t \in 0..MaxTime, NEW s \in Slots, NEW c \in Call,
           slot' = [slot EXCEPT ![s] = c], now' = now
    PROVE  /\ slot'[s] = c
           /\ ~Adds(s, r, t)' => Adding(r, t)' \subseteq Adding(r, t) \ {s}
           /\ (Adds(s, r, t)' => Adds(s, r, t)) => Adding(r, t)' \subseteq Adding(r, t)
<1>1. slot'[s] = c /\ \A p \in Slots \ {s} : slot'[p] = slot[p]
  BY DEF TypeOK
<1>2. ASSUME NEW p \in Slots \ {s} PROVE Adds(p, r, t)' <=> Adds(p, r, t)
  BY <1>1, <1>2 DEF Adds, Passed, Seconds
<1> QED BY <1>1, <1>2 DEF Adding

LEMMA IntervalStep ==
    ASSUME TypeOK, TypeOK', WalksOK, [Next]_vars, NEW r \in Using("sliding_window"), EntriesOK(r),
           NEW t \in 0..MaxTime, IntervalOK(r, t)
    PROVE  IntervalOK(r, t)'
<1> DEFINE Room == Cardinality(AddedIn(r, t)') < Max_(r)
           Less == AddedIn(r, t)' \subseteq AddedIn(r, t) /\ Adding(r, t)' \subseteq Adding(r, t)
           Added == /\ \E e \in Entry : AddedIn(r, t)' \subseteq AddedIn(r, t) \union {e}
                    /\ \E s \in Adding(r, t) : Adding(r, t)' \subseteq Adding(r, t) \ {s}
<1>0. /\ r \in Rules /\ Rule[r].algorithm = "sliding_window" /\ now \in Nat /\ now' \in Nat
      /\ now <= now' /\ t \in Nat /\ Seconds(r) \in Nat \ {0} /\ Max_(r) \in Nat \ {0}
      /\ rules \subseteq rules'
  BY SetsTyped, TableGrows, BoundsAssumption DEF Using
<1> SUFFICES Room \/ Less \/ Added
  BY <1>0, IntervalKept
\* A rule that was not created.
<1>1. CASE r \notin rules
  <2>1. AddedIn(r, t)' = {}
    BY <1>1, EntriesStep DEF AddedIn
  <2>2. Cardinality({}) = 0
    BY FS_EmptySet
  <2> QED BY <1>0, <2>1, <2>2
<1>2. CASE r \in rules
  <2>0. ASSUME added'[r] = added[r] PROVE AddedIn(r, t)' = AddedIn(r, t)
    BY <2>0 DEF AddedIn, Seconds
  <2>1. ASSUME NEW s \in Slots, NEW c \in Call, slot' = [slot EXCEPT ![s] = c], now' = now,
               added'[r] = added[r], Adds(s, r, t)' => Adds(s, r, t)
        PROVE  Less
    <3>1. Adding(r, t)' \subseteq Adding(r, t)
      BY <1>0, <2>1, AddingMove
    <3> QED BY <2>0, <2>1, <3>1
  <2>2. ASSUME NEW s \in Slots, NEW c \in Call
        PROVE  slot' = [slot EXCEPT ![s] = c] => slot'[s] = c
    BY DEF TypeOK
  <2>3. ASSUME NEW s \in Slots
        PROVE  /\ WalkOK(s) /\ slot[s].todo \in SUBSET rules /\ slot[s].t \in Nat
               /\ slot[s].t <= now
    BY BoundsAssumption DEF WalksOK, WalkOK, TypeOK, Call
  <2> HIDE DEF Room, Less, Added
  <2>5. ASSUME NEW s \in Slots, CheckRateLimit(s) PROVE Less
    <3>1. PICK c \in Call :
            /\ slot' = [slot EXCEPT ![s] = c]
            /\ \/ rules = {}
               \/ c.at = "check" /\ c.rule \in rules /\ c.todo = rules \ {c.rule} /\ c.t = now
      BY <2>5, TakeResult DEF CheckRateLimit
    <3>2. slot'[s] = c /\ now' = now /\ added' = added
      BY <2>2, <2>5, <3>1 DEF CheckRateLimit
    <3>3. ~Adds(s, r, t)'
      BY <1>2, <3>1, <3>2 DEF Adds, Passed, Seconds
    <3> QED BY <2>1, <3>1, <3>2, <3>3
  <2>6. ASSUME NEW s \in Slots, GetRateLimitStatus(s) \/ Throw(s) PROVE Less
    <3>1. Idle \in Call /\ slot' = [slot EXCEPT ![s] = Idle] /\ now' = now /\ added' = added
      BY <2>6, IdleTyped DEF GetRateLimitStatus, Throw, history
    <3>2. slot'[s] = Idle
      BY <2>2, <3>1
    <3>3. ~Adds(s, r, t)'
      BY <3>2 DEF Adds, Passed, Idle
    <3> QED BY <2>1, <3>1, <3>3
  <2>7. ASSUME NEW s \in Slots, IncrementCounter(s) PROVE Less
    <3>1. PICK c \in Call :
            /\ slot' = [slot EXCEPT ![s] = c]
            /\ \/ c = Idle
               \/ c.at = "increment" /\ c.t = now
      BY <2>7, TakeResult, IdleTyped DEF IncrementCounter
    <3>2. slot'[s] = c /\ now' = now /\ added' = added /\ slot[s].at = "refind"
      BY <2>2, <2>7, <3>1 DEF IncrementCounter, history
    <3>3. Adds(s, r, t)' => Adds(s, r, t)
      BY <1>0, <3>1, <3>2 DEF Adds, Passed, Idle, Seconds
    <3> QED BY <2>1, <3>1, <3>2, <3>3
  \* A rule has been decided: what a call does that takes up another one.
  <2>8. ASSUME NEW s \in Slots, NEW allowed \in BOOLEAN, Decide(s, allowed), now' = now,
               slot[s].at \in {"check", "count"}
        PROVE  \E c \in Call :
                 /\ slot' = [slot EXCEPT ![s] = c] /\ slot'[s] = c
                 /\ Adds(s, r, t)' => allowed /\ t >= now /\ r \notin slot[s].todo
    <3>1. PICK c \in Call :
            /\ slot' = [slot EXCEPT ![s] = c]
            /\ \/ c = Idle
               \/ allowed /\ slot[s].todo = {} /\ c = [Idle EXCEPT !.at = "refind"]
               \/ /\ allowed /\ c.at = "check" /\ c.rule \in slot[s].todo
                  /\ c.todo = slot[s].todo \ {c.rule} /\ c.t = now
      BY <2>8, DecideResult
    <3>2. slot'[s] = c
      BY <2>2, <3>1
    <3>3. Adds(s, r, t)' => allowed /\ t >= now /\ r \notin slot[s].todo
      BY <2>8, <3>1, <3>2 DEF Adds, Passed, Idle, Seconds
    <3> QED BY <3>1, <3>2, <3>3
  <2>9. ASSUME NEW s \in Slots, NEW allowed \in BOOLEAN, Decide(s, allowed), now' = now,
               added' = added, slot[s].at \in {"check", "count"}, slot[s].rule # r
        PROVE  Less
    <3>1. PICK c \in Call :
            /\ slot' = [slot EXCEPT ![s] = c]
            /\ Adds(s, r, t)' => t >= now /\ r \notin slot[s].todo
      BY <2>8, <2>9
    <3>2. Adds(s, r, t)' => Adds(s, r, t)
      BY <2>9, <3>1 DEF Adds, Passed
    <3> QED BY <2>1, <2>9, <3>1, <3>2
  <2>10. ASSUME NEW s \in Slots, CheckBucket(s) \/ CheckWindow(s) PROVE Less
    <3>1. slot[s].rule # r /\ slot[s].at = "check" /\ now' = now /\ added' = added
      BY <1>0, <2>10 DEF CheckBucket, CheckWindow, At, Buckets, history
    <3>2. Decide(s, TRUE) \/ Decide(s, FALSE)
      BY <2>10 DEF CheckBucket, CheckWindow, Decide
    <3> QED BY <2>9, <3>1, <3>2
  \* The count: it finds whatever the current interval, or a later one, holds.
  <2>11. ASSUME NEW s \in Slots, CountRequests(s) PROVE Less \/ Room
    <3> DEFINE allows == Cardinality(requests[r]) < Max_(r)
    <3>1. slot[s].at = "count" /\ now' = now /\ added' = added
      BY <2>11 DEF CountRequests, history
    <3>2. CASE slot[s].rule # r
      <4>1. Decide(s, TRUE) \/ Decide(s, FALSE)
        BY <2>11 DEF CountRequests, Decide
      <4> QED BY <2>9, <3>1, <3>2, <4>1
    <3>3. CASE slot[s].rule = r
      <4>1. (allows /\ Decide(s, TRUE)) \/ (~allows /\ Decide(s, FALSE))
        BY <2>11, <3>3 DEF CountRequests, Decide
      <4>2. CASE allows /\ t >= now
        <5>1. ASSUME NEW e \in AddedIn(r, t) PROVE e \in requests[r]
          <6>1. e \in added[r] /\ t - Seconds(r) < e.score /\ e.score \in Nat
            BY <1>0, SetsTyped DEF AddedIn
          <6>2. e.score > now - Seconds(r)
            BY <1>0, <4>2, <6>1
          <6> QED BY <6>1, <6>2 DEF EntriesOK
        <5>2. IsFiniteSet(requests[r]) /\ AddedIn(r, t) \subseteq requests[r]
          BY <1>0, <5>1, SetsTyped
        <5>3. Cardinality(AddedIn(r, t)) <= Cardinality(requests[r])
              /\ Cardinality(AddedIn(r, t)) \in Nat /\ Cardinality(requests[r]) \in Nat
          BY <5>2, FS_Subset, FS_CardinalityType
        <5>4. AddedIn(r, t)' = AddedIn(r, t)
          BY <2>0, <3>1
        <5> QED BY <1>0, <4>2, <5>3, <5>4 DEF Room
      <4>3. CASE allows /\ ~(t >= now)
        <5>1. PICK c \in Call :
                slot' = [slot EXCEPT ![s] = c] /\ (Adds(s, r, t)' => t >= now)
          BY <2>8, <3>1, <4>1, <4>3
        <5> QED BY <2>1, <3>1, <4>3, <5>1
      <4>4. CASE ~allows
        <5>1. PICK c \in Call : slot' = [slot EXCEPT ![s] = c] /\ ~Adds(s, r, t)'
          BY <2>8, <3>1, <4>1, <4>4
        <5> QED BY <2>1, <3>1, <5>1
      <4> QED BY <4>2, <4>3, <4>4
    <3> QED BY <3>2, <3>3
  <2>13. ASSUME NEW s \in Slots, ReadBucket(s) PROVE Less
    <3> DEFINE c == [slot[s] EXCEPT !.at = "set", !.level = Level(slot[s].rule, slot[s].t, now)]
    <3>1. slot'[s] \in Call /\ slot' = [slot EXCEPT ![s] = slot'[s]]
          /\ slot'[s] = c /\ now' = now /\ added' = added /\ slot[s].at = "increment"
      BY <2>13 DEF ReadBucket, At, TypeOK
    <3>2. c.at = "set" /\ c.todo = slot[s].todo
      BY DEF TypeOK, Call
    <3> HIDE DEF c
    <3>3. Adds(s, r, t)' => Adds(s, r, t)
      BY <3>1, <3>2 DEF Adds, Passed, Seconds
    <3> QED BY <2>1, <3>1, <3>3
  <2>14. ASSUME NEW s \in Slots, RemoveOld(s) PROVE Less
    <3>1. slot'[s] \in Call /\ slot' = [slot EXCEPT ![s] = slot'[s]]
          /\ slot'[s] = [slot[s] EXCEPT !.at = "count"] /\ now' = now /\ added' = added
          /\ slot[s].at = "check"
      BY <2>14 DEF RemoveOld, At, TypeOK, history
    <3>2. slot'[s].at = "count" /\ slot'[s].todo = slot[s].todo /\ slot'[s].rule = slot[s].rule
      BY <3>1 DEF TypeOK, Call
    <3>3. Adds(s, r, t)' => Adds(s, r, t)
      BY <3>1, <3>2 DEF Adds, Passed, Seconds
    <3> QED BY <2>1, <3>1, <3>3
  \* A rule has been counted: the next one was passed before.
  <2>15. ASSUME NEW s \in Slots, slot[s].at \in {"increment", "set"}, now' = now,
                Take(s, "increment", slot[s].todo, "idle")
         PROVE  \E c \in Call :
                  /\ slot' = [slot EXCEPT ![s] = c]
                  /\ Adds(s, r, t)' => Adds(s, r, t) /\ r \in slot[s].todo
    <3>1. PICK c \in Call :
            /\ slot' = [slot EXCEPT ![s] = c]
            /\ \/ c = Idle
               \/ /\ c.at = "increment" /\ c.rule \in slot[s].todo
                  /\ c.todo = slot[s].todo \ {c.rule} /\ c.t = now
      BY <2>3, <2>15, TakeResult, IdleTyped
    <3>2. slot'[s] = c
      BY <2>2, <3>1
    <3>3. Adds(s, r, t)' => t >= now /\ r \in slot[s].todo
      BY <1>0, <2>15, <3>1, <3>2 DEF Adds, Passed, Idle, Seconds
    <3>4. t >= now /\ r \in slot[s].todo => Adds(s, r, t)
      BY <2>15 DEF Adds, Passed
    <3> QED BY <3>1, <3>3, <3>4
  <2>16. ASSUME NEW s \in Slots, WriteBucket(s) \/ IncrementWindow(s) PROVE Less
    <3>1. /\ slot[s].at \in {"increment", "set"} /\ Take(s, "increment", slot[s].todo, "idle")
          /\ now' = now /\ added' = added
      BY <2>16 DEF WriteBucket, IncrementWindow, At, history
    <3> QED BY <2>1, <2>15, <3>1
  <2>17. ASSUME NEW s \in Slots, AddRequest(s) PROVE Less \/ Added
    <3> DEFINE q == slot[s].rule
               same == {e \in added[q] : e.score = slot[s].t}
               f == [score |-> slot[s].t, nonce |-> Cardinality(same)]
    <3>1. /\ slot[s].at = "increment" /\ Take(s, "increment", slot[s].todo, "idle")
          /\ now' = now /\ added' = [added EXCEPT ![q] = @ \union {f}]
      BY <2>17 DEF AddRequest, At
    <3>2. PICK c \in Call :
            /\ slot' = [slot EXCEPT ![s] = c]
            /\ Adds(s, r, t)' => Adds(s, r, t) /\ r \in slot[s].todo
      BY <2>15, <3>1
    <3>3. q \in Rules /\ q \notin slot[s].todo
      BY <2>3, <3>1, TablesAssumption DEF WalkOK, TypeOK
    <3>4. f \in Entry
      <4>1. IsFiniteSet(same)
        BY <3>3, SetsTyped, FS_Subset
      <4> QED BY <2>3, <4>1, FS_CardinalityType DEF Entry
    <3>5. f.score = slot[s].t
      OBVIOUS
    <3> HIDE DEF f, same
    <3>6. CASE q # r
      <4>1. added'[r] = added[r]
        BY <1>0, <3>1, <3>6 DEF TypeOK
      <4> QED BY <2>1, <3>1, <3>2, <4>1
    <3>7. CASE q = r
      <4>1. added'[r] = added[r] \union {f}
        BY <1>0, <3>1, <3>7 DEF TypeOK
      <4>2. ~Adds(s, r, t)'
        BY <3>2, <3>3, <3>7
      <4>3. Adding(r, t)' \subseteq Adding(r, t) \ {s}
        BY <1>0, <3>1, <3>2, <4>2, AddingMove
      <4>4. CASE t - Seconds(r) < slot[s].t /\ slot[s].t <= t
        <5>1. s \in Adding(r, t)
          BY <3>1, <3>7, <4>4 DEF Adding, Adds
        <5>2. AddedIn(r, t)' \subseteq AddedIn(r, t) \union {f}
          BY <4>1 DEF AddedIn, Seconds
        <5> QED BY <3>4, <4>3, <5>1, <5>2 DEF Added
      <4>5. CASE ~(t - Seconds(r) < slot[s].t /\ slot[s].t <= t)
        <5>1. AddedIn(r, t)' \subseteq AddedIn(r, t)
          BY <3>5, <4>1, <4>5 DEF AddedIn, Seconds
        <5> QED BY <4>3, <5>1 DEF Less
      <4> QED BY <4>4, <4>5
    <3> QED BY <3>6, <3>7
  \* Nothing but the clock, the table or the keys.
  <2>18. ASSUME slot' = slot, now <= now', added'[r] \subseteq added[r] PROVE Less
    <3>1. ASSUME NEW p \in Slots PROVE Adds(p, r, t)' => Adds(p, r, t)
      <4>1. Passed(p, r)' <=> Passed(p, r)
        BY <2>18 DEF Passed
      <4> QED BY <1>0, <2>18, <4>1 DEF Adds, Seconds
    <3> QED BY <2>18, <3>1 DEF Less, Adding, AddedIn, Seconds
  <2>19. ASSUME NEW q \in Rules, CreateRule(q) PROVE Less
    BY <1>0, <2>18, <2>19 DEF CreateRule, history
  <2>20. CASE Tick
    BY <1>0, <2>18, <2>20 DEF Tick, history
  <2>21. CASE ResetRateLimit
    <3>1. added'[r] \in {{}, added[r]} /\ slot' = slot /\ now' = now
      BY <1>0, <2>21 DEF ResetRateLimit, TypeOK
    <3> QED BY <1>0, <2>18, <3>1
  <2>22. CASE UNCHANGED vars
    BY <1>0, <2>18, <2>22 DEF vars
  <2> QED BY <2>5, <2>6, <2>7, <2>10, <2>11, <2>13, <2>14, <2>16, <2>17, <2>19, <2>20, <2>21, <2>22
          DEF Next, CanActivate
<1> QED BY <1>1, <1>2

-----------------------------------------------------------------------------
(* Token and leaky buckets.  First the arithmetic of their levels.         *)

LEMMA Distribute ==
    ASSUME NEW a \in Int, NEW b \in Int, NEW k \in Int
    PROVE  (a - b) * k = a * k - b * k /\ (a + b) * k = a * k + b * k
OBVIOUS

LEMMA ScaleUp ==
    ASSUME NEW a \in Int, NEW b \in Int, NEW k \in Nat, a <= b
    PROVE  a * k <= b * k
OBVIOUS

LEMMA Quotient ==
    ASSUME NEW n \in Nat, NEW b \in Nat \ {0}
    PROVE  n \div b \in Nat /\ n < (n \div b) * b + b /\ (n \div b) * b \in Nat
OBVIOUS

\* Rounded up.
LEMMA Ceiling ==
    ASSUME NEW a \in Nat, NEW b \in Nat \ {0}
    PROVE  LET q == (a + b - 1) \div b IN q \in Nat /\ q * b >= a
<1> DEFINE n == a + b - 1
           q == n \div b
<1>1. n \in Nat
  OBVIOUS
<1>2. q \in Nat /\ n < q * b + b /\ q * b \in Nat
  BY <1>1, Quotient
<1> HIDE DEF q
<1> QED BY <1>2 DEF q

\* What a call finds in a bucket.
LEMMA LevelOf ==
    ASSUME TypeOK, NEW r \in Rules, Rule[r].algorithm \in Buckets, NEW t \in Nat, NEW clock \in Nat
    PROVE  LET b == bucket[r]
               filled == b.level + (t - b.last) * Rule[r].refillRate
               left == b.level - (t - b.last) * Max_(r)
           IN  /\ Level(r, t, clock) \in Int /\ filled \in Int /\ left \in Int
               /\ Rule[r].algorithm = "token_bucket" =>
                    /\ b.expires <= clock => Level(r, t, clock) = Capacity(r)
                    /\ b.expires > clock =>
                         /\ Level(r, t, clock) <= Capacity(r) /\ Level(r, t, clock) <= filled
                         /\ Level(r, t, clock) \in {Capacity(r), filled}
               /\ Rule[r].algorithm = "leaky_bucket" =>
                    /\ b.expires <= clock => Level(r, t, clock) = 0
                    /\ b.expires > clock =>
                         /\ Level(r, t, clock) >= 0 /\ Level(r, t, clock) >= left
                         /\ Level(r, t, clock) \in {0, left}
<1> DEFINE b == bucket[r]
           filled == b.level + (t - b.last) * Rule[r].refillRate
           left == b.level - (t - b.last) * Max_(r)
<1>1. b.level \in Nat /\ b.last \in Nat /\ b.expires \in Nat
  BY DEF TypeOK, Bucket
<1>2. filled \in Int /\ left \in Int /\ Capacity(r) \in Int
  BY <1>1, RuleTyped
<1>3. CASE Rule[r].algorithm = "token_bucket"
  <2>1. Level(r, t, clock) = IF b.expires > clock THEN Min({Capacity(r), filled}) ELSE Capacity(r)
    BY <1>3 DEF Level
  <2> HIDE DEF filled, left
  <2>2. Min({Capacity(r), filled}) \in {Capacity(r), filled}
        /\ Min({Capacity(r), filled}) <= Capacity(r) /\ Min({Capacity(r), filled}) <= filled
    BY <1>2, LeastOfTwo
  <2>3. CASE b.expires > clock
    <3>1. Level(r, t, clock) = Min({Capacity(r), filled}) /\ ~(b.expires <= clock)
      BY <1>1, <2>1, <2>3
    <3> QED BY <1>2, <1>3, <2>2, <2>3, <3>1 DEF filled, left
  <2>4. CASE ~(b.expires > clock)
    BY <1>2, <1>3, <2>1, <2>4 DEF filled, left
  <2> QED BY <2>3, <2>4
<1>4. CASE Rule[r].algorithm = "leaky_bucket"
  <2>1. Level(r, t, clock) = IF b.expires > clock THEN Max({0, left}) ELSE 0
    BY <1>4 DEF Level
  <2> HIDE DEF filled, left
  <2>2. Max({0, left}) \in {0, left} /\ Max({0, left}) >= 0 /\ Max({0, left}) >= left
    BY <1>2, GreatestOfTwo
  <2>3. CASE b.expires > clock
    <3>1. Level(r, t, clock) = Max({0, left}) /\ ~(b.expires <= clock)
      BY <1>1, <2>1, <2>3
    <3> QED BY <1>2, <1>4, <2>2, <2>3, <3>1 DEF filled, left
  <2>4. CASE ~(b.expires > clock)
    BY <1>2, <1>4, <2>1, <2>4 DEF filled, left
  <2> QED BY <2>3, <2>4
<1> QED BY <1>3, <1>4 DEF Buckets

(* A client that waits as long as it was told finds the bucket willing     *)
(* (checkTokenBucket and checkLeakyBucket: retryAfter).                    *)
LEMMA RetrySuffices == TypeOK => RetryAfterSuffices
<1> SUFFICES ASSUME TypeOK, NEW r \in Using("token_bucket") \union Using("leaky_bucket"),
                    ~Allows(r, Level(r, now, now))
             PROVE  LET later == now + RetryAfter(r, Level(r, now, now))
                    IN  Allows(r, Level(r, later, later))
  BY DEF RetryAfterSuffices
<1> DEFINE x == Level(r, now, now)
           wait == RetryAfter(r, x)
           later == now + wait
           y == Level(r, later, later)
           b == bucket[r]
           rate == Rule[r].refillRate
           U == Unit(r)
           M == Max_(r)
<1>1. /\ r \in Rules /\ Rule[r].algorithm \in Buckets /\ now \in Nat
      /\ b.level \in Nat /\ b.last \in Nat /\ b.expires \in Nat
      /\ U \in Nat \ {0} /\ M \in Nat \ {0} /\ rate \in Nat \ {0} /\ Capacity(r) \in Nat
      /\ Rule[r].burstSize \in Nat \ {0} /\ Capacity(r) = Rule[r].burstSize * U
  <2>1. r \in Rules /\ Rule[r].algorithm \in Buckets
    BY DEF Using, Buckets
  <2>2. b \in Bucket /\ now \in Nat
    BY <2>1, BoundsAssumption DEF TypeOK
  <2>3. Rule[r].burstSize \in Nat \ {0}
    BY <2>1, RuleAssumption DEF RateLimitRule
  <2> QED BY <2>1, <2>2, <2>3, RuleTyped DEF Bucket, Capacity
<1>2. U <= Capacity(r)
  <2>1. 1 * U <= Rule[r].burstSize * U
    BY <1>1, ScaleUp
  <2> QED BY <1>1, <2>1
<1>3. x \in Int
  BY <1>1, LevelOf
<1> HIDE DEF x, y, b, rate, U, M
<1>4. CASE Rule[r].algorithm = "token_bucket"
  <2>1. x < U
    BY <1>1, <1>3, <1>4 DEF Allows, x, U
  <2>2. b.expires > now /\ x = b.level + (now - b.last) * rate
    <3>1. x # Capacity(r)
      BY <1>1, <1>2, <1>3, <2>1
    <3> QED BY <1>1, <1>4, <3>1, LevelOf DEF x, b, rate
  <2>3. wait \in Nat /\ wait * rate >= U - x
    <3>1. U - x \in Nat
      BY <1>1, <1>3, <2>1
    <3>2. wait = ((U - x) + rate - 1) \div rate
      BY <1>4 DEF RetryAfter, U, rate
    <3> HIDE DEF wait
    <3> DEFINE a == U - x
    <3>4. a \in Nat /\ wait = (a + rate - 1) \div rate
      BY <3>1, <3>2
    <3> HIDE DEF a
    <3>5. wait \in Nat /\ wait * rate >= a
      BY <1>1, <3>4, Ceiling
    <3> QED BY <3>5 DEF a
  <2> HIDE DEF wait
  <2>4. (later - b.last) * rate = (now - b.last) * rate + wait * rate
        /\ (now - b.last) * rate \in Int /\ wait * rate \in Int
    BY <1>1, <2>3
  <2>5. b.level + (later - b.last) * rate >= U
    BY <1>1, <1>3, <2>2, <2>3, <2>4
  <2>6. later \in Nat
    BY <1>1, <2>3
  <2>7. y \in Int /\ (y = Capacity(r) \/ y = b.level + (later - b.last) * rate)
    BY <1>1, <1>4, <2>6, LevelOf DEF y, b, rate
  <2>8. y >= U
    BY <1>1, <1>2, <2>5, <2>7
  <2> QED BY <1>4, <2>8 DEF Allows, y, U, x, wait
<1>5. CASE Rule[r].algorithm = "leaky_bucket"
  <2>0. M * U \in Nat /\ M * U >= U /\ U >= 1
    <3>1. 1 * U <= M * U
      BY <1>1, ScaleUp
    <3> QED BY <1>1, <3>1
  <2>1. x >= M * U
    BY <1>1, <1>3, <1>5, <2>0 DEF Allows, x, U, M
  <2>2. b.expires > now /\ x = b.level - (now - b.last) * M
    <3>1. x # 0
      BY <1>1, <1>3, <2>0, <2>1
    <3> QED BY <1>1, <1>5, <3>1, LevelOf DEF x, b, M
  <2>3. wait \in Nat /\ wait * M >= x - M * U + U
    <3>1. x - M * U + U \in Nat
      BY <1>1, <1>3, <2>0, <2>1
    <3>2. wait = ((x - M * U + U) + M - 1) \div M
      BY <1>5 DEF RetryAfter, U, M
    <3> HIDE DEF wait
    <3> DEFINE a == x - M * U + U
    <3>4. a \in Nat /\ wait = (a + M - 1) \div M
      BY <3>1, <3>2
    <3> HIDE DEF a
    <3>5. wait \in Nat /\ wait * M >= a
      BY <1>1, <3>4, Ceiling
    <3> QED BY <3>5 DEF a
  <2> HIDE DEF wait
  <2>4. (later - b.last) * M = (now - b.last) * M + wait * M
        /\ (now - b.last) * M \in Int /\ wait * M \in Int
    BY <1>1, <2>3
  <2>5. b.level - (later - b.last) * M < M * U
    BY <1>1, <1>3, <2>0, <2>2, <2>3, <2>4
  <2>6. later \in Nat
    BY <1>1, <2>3
  <2>7. y \in Int /\ (y = 0 \/ y = b.level - (later - b.last) * M)
    BY <1>1, <1>5, <2>6, LevelOf DEF y, b, M
  <2>8. y < M * U
    BY <1>1, <2>0, <2>5, <2>7
  <2> QED BY <1>5, <2>8 DEF Allows, y, U, M, x, wait
<1> QED BY <1>1, <1>4, <1>5 DEF Buckets

\* A bucket in balance gives a call what it was refilled with, or has leaked,
\* unless its key expired after the call had read the clock.
LEMMA LevelBalanced ==
    ASSUME TypeOK, NEW r \in Rules, Rule[r].algorithm \in Buckets, RefillsInTime(r), BucketOK(r),
           NEW t \in Nat, t <= now, bucket[r].last <= t,
           ~(t < bucket[r].expires /\ bucket[r].expires <= now)
    PROVE  Balanced(r, Level(r, t, now), t)
<1> DEFINE b == bucket[r]
           rate == Rule[r].refillRate
           U == Unit(r)
           M == Max_(r)
           C == Capacity(r)
           used == spent[r] * U
           x == Level(r, t, now)
<1>1. /\ now \in Nat /\ b.level \in Nat /\ b.last \in Nat /\ b.expires \in Nat
      /\ U \in Nat \ {0} /\ M \in Nat \ {0} /\ rate \in Nat \ {0} /\ C \in Nat \ {0}
      /\ Seconds(r) = U /\ spent[r] \in Nat
  BY RuleTyped, BoundsAssumption DEF TypeOK, Bucket, Unit
<1>2. used \in Nat /\ x \in Int
  BY <1>1, LevelOf
<1>3. CASE Rule[r].algorithm = "token_bucket"
  <2>1. ASSUME b.expires > now PROVE x <= b.level + (t - b.last) * rate
    BY <1>1, <1>3, <2>1, LevelOf
  <2>2. ASSUME b.expires <= now PROVE x = C
    BY <1>1, <1>3, <2>2, LevelOf
  <2>3. \/ b = NoKey /\ spent[r] = 0
        \/ /\ used + b.level <= C + b.last * rate /\ b.expires >= b.last + 2 * U
    BY <1>1, <1>3 DEF BucketOK, Balanced
  <2>4. 2 * U * rate >= C
    BY <1>1, <1>3 DEF RefillsInTime
  <2>5. b = NoKey => b.expires = 0
    BY DEF NoKey
  <2> HIDE DEF b, rate, U, M, C, x, used
  <2>6. (t - b.last) * rate = t * rate - b.last * rate /\ t * rate \in Nat /\ b.last * rate \in Nat
    BY <1>1, Distribute
  <2>7. used + x <= C + t * rate
    <3>1. CASE b = NoKey /\ spent[r] = 0
      <4>1. used = 0
        BY <1>1, <3>1 DEF used
      <4> QED BY <1>1, <1>2, <2>2, <2>5, <2>6, <3>1, <4>1
    <3>2. CASE used + b.level <= C + b.last * rate /\ b.expires >= b.last + 2 * U
      <4>1. CASE b.expires > now
        BY <1>1, <1>2, <2>1, <2>6, <3>2, <4>1
      <4>2. CASE b.expires <= now
        <5>1. b.last + 2 * U <= t
          BY <1>1, <3>2, <4>2 DEF b
        <5>2. (b.last + 2 * U) * rate <= t * rate
          BY <1>1, <5>1, ScaleUp
        <5>3. (b.last + 2 * U) * rate = b.last * rate + 2 * U * rate /\ 2 * U * rate \in Nat
          BY <1>1, Distribute
        <5> QED BY <1>1, <1>2, <2>2, <2>4, <2>6, <3>2, <4>2, <5>2, <5>3
      <4> QED BY <1>1, <4>1, <4>2
    <3> QED BY <2>3, <3>1, <3>2
  <2> QED BY <1>3, <2>7 DEF Balanced, used, x, U, C, rate
<1>4. CASE Rule[r].algorithm = "leaky_bucket"
  <2>1. ASSUME b.expires > now PROVE x >= b.level - (t - b.last) * M
    BY <1>1, <1>4, <2>1, LevelOf
  <2>2. ASSUME b.expires <= now PROVE x = 0
    BY <1>1, <1>4, <2>2, LevelOf
  <2>3. \/ b = NoKey /\ spent[r] = 0
        \/ /\ used <= b.level + b.last * M /\ b.expires >= b.last + 2 * U
           /\ b.level < (M + 1) * U
    BY <1>1, <1>4 DEF BucketOK, Balanced
  <2>5. b = NoKey => b.expires = 0
    BY DEF NoKey
  <2> HIDE DEF b, rate, U, M, C, x, used
  <2>6. (t - b.last) * M = t * M - b.last * M /\ t * M \in Nat /\ b.last * M \in Nat
    BY <1>1, Distribute
  <2>7. used <= x + t * M
    <3>1. CASE b = NoKey /\ spent[r] = 0
      <4>1. used = 0
        BY <1>1, <3>1 DEF used
      <4> QED BY <1>1, <1>2, <2>2, <2>5, <2>6, <3>1, <4>1
    <3>2. CASE /\ used <= b.level + b.last * M /\ b.expires >= b.last + 2 * U
               /\ b.level < (M + 1) * U
      <4>1. CASE b.expires > now
        BY <1>1, <1>2, <2>1, <2>6, <3>2, <4>1
      <4>2. CASE b.expires <= now
        <5>1. b.last + 2 * U <= t
          BY <1>1, <3>2, <4>2 DEF b
        <5>2. (b.last + 2 * U) * M <= t * M
          BY <1>1, <5>1, ScaleUp
        <5>3. (b.last + 2 * U) * M = b.last * M + 2 * U * M /\ 2 * U * M \in Nat
          BY <1>1, Distribute
        <5>4. (M + 1) * U <= 2 * U * M
          <6>1. (M + 1) * U <= (2 * M) * U
            BY <1>1, ScaleUp
          <6> QED BY <1>1, <6>1
        <5>5. (M + 1) * U \in Nat
          BY <1>1
        <5> QED BY <1>1, <1>2, <2>2, <2>6, <3>2, <4>2, <5>2, <5>3, <5>4, <5>5
      <4> QED BY <1>1, <4>1, <4>2
    <3> QED BY <2>3, <3>1, <3>2
  <2> QED BY <1>4, <2>7 DEF Balanced, used, x, U, M
<1> QED BY <1>3, <1>4 DEF Buckets

\* A bucket that is willing at one time is willing later, and when its key
\* has expired.
LEMMA WillingLater ==
    ASSUME TypeOK, NEW r \in Rules, Rule[r].algorithm \in Buckets, NEW t \in Nat, NEW u \in Nat,
           t <= u, NEW clock \in Nat, NEW later \in Nat, clock <= later,
           Allows(r, Level(r, t, clock))
    PROVE  Allows(r, Level(r, u, later))
<1> DEFINE b == bucket[r]
           rate == Rule[r].refillRate
           U == Unit(r)
           M == Max_(r)
           C == Capacity(r)
           x == Level(r, t, clock)
           y == Level(r, u, later)
<1>1. /\ b.level \in Nat /\ b.last \in Nat /\ b.expires \in Nat
      /\ U \in Nat \ {0} /\ M \in Nat \ {0} /\ rate \in Nat \ {0} /\ C \in Nat \ {0} /\ U <= C
  <2>1. Rule[r].burstSize \in Nat \ {0}
    BY RuleAssumption DEF RateLimitRule
  <2>2. 1 * U <= Rule[r].burstSize * U
    BY <2>1, RuleTyped, ScaleUp
  <2> QED BY <2>1, <2>2, RuleTyped, BoundsAssumption DEF TypeOK, Bucket, Capacity
<1>2. x \in Int /\ y \in Int
  BY LevelOf
<1>3. CASE Rule[r].algorithm = "token_bucket"
  <2>1. ASSUME b.expires > clock PROVE x <= b.level + (t - b.last) * rate
    BY <1>1, <1>3, <2>1, LevelOf
  <2>2. /\ b.expires <= later => y = C
        /\ b.expires > later => y = C \/ y = b.level + (u - b.last) * rate
    BY <1>1, <1>3, LevelOf
  <2>3. x >= U
    BY <1>3 DEF Allows
  <2> HIDE DEF b, rate, U, M, C, x, y
  <2>4. (t - b.last) * rate <= (u - b.last) * rate
    BY <1>1, ScaleUp
  <2>5. (t - b.last) * rate \in Int /\ (u - b.last) * rate \in Int
    BY <1>1
  <2>6. y >= U
    BY <1>1, <1>2, <2>1, <2>2, <2>3, <2>4, <2>5
  <2> QED BY <1>3, <2>6 DEF Allows, y, U
<1>4. CASE Rule[r].algorithm = "leaky_bucket"
  <2>1. ASSUME b.expires > clock PROVE x >= b.level - (t - b.last) * M
    BY <1>1, <1>4, <2>1, LevelOf
  <2>2. /\ b.expires <= later => y = 0
        /\ b.expires > later => y = 0 \/ y = b.level - (u - b.last) * M
    BY <1>1, <1>4, LevelOf
  <2>3. x < M * U
    BY <1>4 DEF Allows
  <2> HIDE DEF b, rate, U, M, C, x, y
  <2>4. (t - b.last) * M <= (u - b.last) * M
    BY <1>1, ScaleUp
  <2>5. (t - b.last) * M \in Int /\ (u - b.last) * M \in Int /\ M * U \in Nat /\ M * U > 0
    BY <1>1
  <2>6. y < M * U
    BY <1>1, <1>2, <2>1, <2>2, <2>3, <2>4, <2>5
  <2> QED BY <1>4, <2>6 DEF Allows, y, U, M
<1> QED BY <1>3, <1>4 DEF Buckets

\* Nobody has written the key.
LEMMA NoKeyWilling ==
    ASSUME TypeOK, NEW r \in Rules, Rule[r].algorithm \in Buckets, bucket[r] = NoKey,
           NEW t \in Nat, NEW clock \in Nat
    PROVE  Allows(r, Level(r, t, clock))
<1>1. bucket[r].expires <= clock
  BY DEF NoKey
<1>2. Unit(r) <= Capacity(r) /\ 0 < Max_(r) * Unit(r)
  <2>1. Rule[r].burstSize \in Nat \ {0}
    BY RuleAssumption DEF RateLimitRule
  <2>2. 1 * Unit(r) <= Rule[r].burstSize * Unit(r)
    BY <2>1, RuleTyped, ScaleUp
  <2> QED BY <2>1, <2>2, RuleTyped DEF Capacity
<1>3. CASE Rule[r].algorithm = "token_bucket"
  BY <1>1, <1>2, <1>3, LevelOf DEF Allows
<1>4. CASE Rule[r].algorithm = "leaky_bucket"
  BY <1>1, <1>2, <1>4, LevelOf DEF Allows
<1> QED BY <1>3, <1>4 DEF Buckets

\* A call that finds its bucket as it was, later.
LEMMA SpendKept ==
    ASSUME TypeOK, NEW r \in Rules, NEW s \in Slots, SpendOK(s, r), slot'[s] = slot[s],
           bucket'[r] = bucket[r], spent'[r] = spent[r], now <= now', now' \in Int
    PROVE  SpendOK(s, r)'
<1>1. now'..MaxTime \subseteq now..MaxTime
  BY BoundsAssumption DEF TypeOK
<1>2. ASSUME NEW t, NEW clock PROVE Level(r, t, clock)' = Level(r, t, clock)
  BY DEF Level, Capacity, Unit, Seconds, Max_
<1>3. ASSUME NEW t, Willing(r, t) PROVE Willing(r, t)'
  BY <1>1, <1>2, <1>3 DEF Willing, Allows, Unit, Seconds, Max_
<1>4. Passed(s, r)' <=> Passed(s, r)
  BY DEF Passed
<1>5. Balanced(r, slot[s].level, slot[s].t)' <=> Balanced(r, slot[s].level, slot[s].t)
  BY DEF Balanced, Unit, Seconds, Capacity, Max_
<1>6. Allows(r, slot[s].level)' <=> Allows(r, slot[s].level)
  BY DEF Allows, Unit, Seconds, Max_
<1>7. Passed(s, r)' => \A t \in now'..MaxTime : Willing(r, t)'
  BY <1>1, <1>3, <1>4 DEF SpendOK
<1>8. (slot[s].at = "increment" /\ slot[s].rule = r)' =>
         Willing(r, slot[s].t)' /\ bucket'[r].last <= slot'[s].t
  <2> SUFFICES ASSUME slot[s].at = "increment", slot[s].rule = r
               PROVE  Willing(r, slot[s].t)' /\ bucket'[r].last <= slot'[s].t
    OBVIOUS
  <2>1. Willing(r, slot[s].t) /\ bucket[r].last <= slot[s].t
    BY DEF SpendOK
  <2> DEFINE t == slot[s].t
  <2>2. slot'[s].t = t
    OBVIOUS
  <2> HIDE DEF t
  <2>3. Willing(r, t)'
    BY <1>1, <1>2, <2>1, <2>2 DEF Willing, Allows, Unit, Seconds, Max_, t
  <2> QED BY <2>1, <2>3 DEF t
<1>9. (slot[s].at = "set" /\ slot[s].rule = r)' =>
         Allows(r, slot[s].level)' /\ Balanced(r, slot[s].level, slot[s].t)'
  BY <1>5, <1>6 DEF SpendOK
<1> QED BY <1>7, <1>8, <1>9 DEF SpendOK

LEMMA SpendIdle ==
    ASSUME NEW r \in Rules, NEW s \in Slots, slot'[s].at = "idle"
    PROVE  SpendOK(s, r)'
BY DEF SpendOK, Passed

\* Only the call at a bucket writes it, and while it stands nobody else
\* moves.
LEMMA BucketStep ==
    ASSUME TypeOK, TypeOK', WalksOK, [Next]_vars, InTurn, ~disturbed, resets = 0, resets' = 0,
           NEW r \in Rules, Rule[r].algorithm \in Buckets, RefillsInTime(r), BucketOK(r),
           \A s \in Slots : SpendOK(s, r)
    PROVE  BucketOK(r)'
<1>0. now <= now' /\ rules \subseteq rules' /\ now \in Nat /\ now' \in Nat
  BY TableGrows, BoundsAssumption
<1>1. CASE bucket'[r] = bucket[r] /\ spent'[r] = spent[r]
  <2>1. Balanced(r, bucket[r].level, bucket[r].last)' <=> Balanced(r, bucket[r].level, bucket[r].last)
    BY <1>1 DEF Balanced, Unit, Seconds, Capacity, Max_
  <2>2. bucket[r].last \in Nat
    BY DEF TypeOK, Bucket
  <2>3. CASE bucket[r] = NoKey /\ spent[r] = 0
    BY <1>1, <2>3 DEF BucketOK, NoKey
  <2>4. CASE ~(bucket[r] = NoKey /\ spent[r] = 0)
    BY <1>0, <1>1, <2>1, <2>2, <2>4 DEF BucketOK, Unit, Seconds, Max_
  <2> QED BY <2>3, <2>4
<1>2. ASSUME NEW s \in Slots, WriteBucket(s) PROVE BucketOK(r)'
  <2> DEFINE q == slot[s].rule
             x == slot[s].level
             U == Unit(r)
             t == slot[s].t
             b == [level |-> Changed(q, x), last |-> t, expires |-> now + 2 * Seconds(q)]
  <2>1. /\ q \in rules /\ q \in Rules /\ t \in Nat /\ t <= now /\ x \in Int
        /\ (Rule[q].algorithm = "leaky_bucket" => x >= 0)
    <3>1. slot[s] \in Call /\ WalkOK(s) /\ slot[s].at = "set" /\ rules \subseteq Rules
      BY <1>2, TablesAssumption DEF WriteBucket, WalksOK, TypeOK
    <3> QED BY <3>1, BoundsAssumption DEF Call, WalkOK
  <2>2. bucket' = [bucket EXCEPT ![q] = b] /\ spent' = [spent EXCEPT ![q] = @ + 1]
        /\ rules' = rules /\ now' = now
    BY <1>2 DEF WriteBucket
  <2>3. CASE q # r
    <3>1. bucket'[r] = bucket[r] /\ spent'[r] = spent[r]
      BY <2>1, <2>2, <2>3 DEF TypeOK
    <3> QED BY <1>1, <3>1
  <2>4. CASE q = r
    <3>1. bucket'[r] = b /\ spent'[r] = spent[r] + 1 /\ spent[r] \in Nat
      BY <2>1, <2>2, <2>4 DEF TypeOK
    <3>2. b.level = Changed(r, x) /\ b.last = t /\ b.expires = now + 2 * Seconds(r)
      BY <2>4
    <3>3. Allows(r, x) /\ Balanced(r, x, t)
      BY <1>2, <2>4 DEF WriteBucket, SpendOK
    <3>4. U \in Nat \ {0} /\ Max_(r) \in Nat \ {0} /\ Capacity(r) \in Nat /\ Rule[r].refillRate \in Nat
          /\ Seconds(r) = U
      BY RuleTyped DEF Unit
    <3>5. (spent[r] + 1) * U = spent[r] * U + U /\ spent[r] * U \in Nat
      BY <3>1, <3>4, Distribute
    <3>6. r \in rules' /\ b.last <= now' /\ b.expires >= b.last + 2 * Seconds(r)
      BY <1>0, <2>1, <2>2, <2>4, <3>2, <3>4
    <3> HIDE DEF b, U, x, t
    <3>7. CASE Rule[r].algorithm = "token_bucket"
      <4>1. x >= U
        BY <3>3, <3>7 DEF Allows, U
      <4>2. Changed(r, x) = x - U
        <5>1. Changed(r, x) = Max({0, x - U})
          BY <3>7 DEF Changed, U
        <5>2. x - U \in Nat
          BY <2>1, <3>4, <4>1
        <5> DEFINE d == x - U
        <5>3. d \in Int /\ d >= 0 /\ 0 \in Int
          BY <5>2
        <5> HIDE DEF d
        <5>4. Max({0, d}) \in {0, d} /\ Max({0, d}) >= d
          BY <5>3, GreatestOfTwo
        <5>5. Max({0, d}) = d
          BY <5>3, <5>4
        <5> QED BY <5>1, <5>5 DEF d
      <4>3. spent[r] * U + x <= Capacity(r) + t * Rule[r].refillRate
        BY <3>3, <3>7 DEF Balanced, U
      <4>4. t * Rule[r].refillRate \in Nat
        BY <2>1, <3>4 DEF t
      <4>5. (spent[r] + 1) * U + (x - U) <= Capacity(r) + t * Rule[r].refillRate
        BY <2>1, <3>4, <3>5, <4>3, <4>4
      <4>6. Balanced(r, bucket[r].level, bucket[r].last)'
        BY <3>1, <3>2, <3>7, <4>2, <4>5 DEF Balanced, U, Unit, Seconds, Capacity
      <4> QED BY <3>1, <3>6, <3>7, <4>6 DEF BucketOK, Seconds
    <3>8. CASE Rule[r].algorithm = "leaky_bucket"
      <4>1. x < Max_(r) * U
        BY <3>3, <3>8 DEF Allows, U
      <4>2. Changed(r, x) = x + U
        BY <3>8 DEF Changed, U
      <4>3. spent[r] * U <= x + t * Max_(r)
        BY <3>3, <3>8 DEF Balanced, U
      <4>4. t * Max_(r) \in Nat /\ Max_(r) * U \in Nat /\ (Max_(r) + 1) * U = Max_(r) * U + U
        BY <2>1, <3>4, Distribute DEF t
      <4>5. (spent[r] + 1) * U <= (x + U) + t * Max_(r) /\ x + U < (Max_(r) + 1) * U
        BY <2>1, <3>4, <3>5, <4>1, <4>3, <4>4
      <4>6. Balanced(r, bucket[r].level, bucket[r].last)'
        BY <3>1, <3>2, <3>8, <4>2, <4>5 DEF Balanced, U, Unit, Seconds, Max_
      <4>7. bucket'[r].level < (Max_(r) + 1) * Unit(r)
        BY <3>1, <3>2, <4>2, <4>5 DEF U
      <4> QED BY <3>1, <3>6, <4>6, <4>7 DEF BucketOK, Seconds, Unit, Max_
    <3> QED BY <3>7, <3>8 DEF Buckets
  <2> QED BY <2>3, <2>4
<1>3. (bucket' = bucket /\ spent' = spent) \/ (\E s \in Slots : WriteBucket(s)) \/ ResetRateLimit
  BY DEF Next, vars, CanActivate, CheckRateLimit, GetRateLimitStatus, IncrementCounter, CheckBucket,
         ReadBucket, CheckWindow, IncrementWindow, RemoveOld, CountRequests, AddRequest, Throw,
         CreateRule, Tick, redis, history
<1>4. ~ResetRateLimit
  BY DEF ResetRateLimit
<1> QED BY <1>1, <1>2, <1>3, <1>4

LEMMA TurnStep ==
    ASSUME TypeOK, TypeOK', WalksOK, [Next]_vars, InTurn, ~disturbed, ~disturbed',
           resets = 0, resets' = 0
    PROVE  InTurn'
<1>0. now <= now' /\ rules \subseteq rules' /\ now \in 0..MaxTime /\ now' \in 0..MaxTime
      /\ MaxTime \in Nat
  BY TableGrows, BoundsAssumption
<1>1. ASSUME NEW s \in Slots, NEW p \in Slots, slot[s].at # "idle", slot[p].at # "idle" PROVE s = p
  BY <1>1 DEF InTurn
\* The slot that moves, and what the others are doing.
<1>2. ASSUME NEW s \in Slots, CanActivate(s) \/ Throw(s)
      PROVE  /\ \A p \in Slots \ {s} : slot[p].at = "idle" /\ slot'[p] = slot[p]
  <2>1. \A p \in Slots \ {s} : slot'[p] = slot[p]
    BY <1>2 DEF TypeOK, CanActivate, CheckRateLimit, GetRateLimitStatus, IncrementCounter,
           CheckBucket, ReadBucket, WriteBucket, CheckWindow, IncrementWindow, RemoveOld,
           CountRequests, AddRequest, Throw, Decide, Take
  <2>2. CASE CheckRateLimit(s)
    BY <2>1, <2>2 DEF CheckRateLimit
  <2>3. CASE ~CheckRateLimit(s)
    <3>1. slot[s].at # "idle"
      BY <1>2, <2>3 DEF CanActivate, GetRateLimitStatus, IncrementCounter, CheckBucket, ReadBucket,
             WriteBucket, CheckWindow, IncrementWindow, RemoveOld, CountRequests, AddRequest,
             Throw, At
    <3> QED BY <1>1, <2>1, <3>1
  <2> QED BY <2>2, <2>3
<1>3. slot' = slot \/ \E s \in Slots : CanActivate(s) \/ Throw(s)
  BY DEF Next, vars, CreateRule, ResetRateLimit, Tick
<1>4. \A s, p \in Slots : slot'[s].at # "idle" /\ slot'[p].at # "idle" => s = p
  BY <1>1, <1>2, <1>3
<1>5. ASSUME NEW r \in Using("token_bucket") \union Using("leaky_bucket"), RefillsInTime(r)
      PROVE  BucketOK(r)' /\ \A s \in Slots : SpendOK(s, r)'
  <2>0. /\ r \in Rules /\ Rule[r].algorithm \in Buckets
        /\ BucketOK(r) /\ \A s \in Slots : SpendOK(s, r)
    BY <1>5 DEF InTurn, Using, Buckets
  <2>1. BucketOK(r)'
    BY <1>5, <2>0, BucketStep
  <2>2. bucket[r].last <= now
    BY <1>0, <2>0 DEF BucketOK, NoKey
  \* A rule that was not created is passed by everybody.
  <2>3. ASSUME r \notin rules, NEW t \in Nat PROVE Willing(r, t)
    <3>1. bucket[r] = NoKey
      BY <2>0, <2>3 DEF BucketOK
    <3>2. \A clock \in now..MaxTime : clock \in Nat
      BY <1>0
    <3> QED BY <2>0, <2>3, <3>1, <3>2, NoKeyWilling DEF Willing
  <2>4. ASSUME NEW s \in Slots, bucket'[r] = bucket[r], spent'[r] = spent[r], slot'[s] = slot[s]
        PROVE  SpendOK(s, r)'
    BY <1>0, <2>0, <2>4, SpendKept
  \* Slots that do not move.
  <2>5. ASSUME NEW s \in Slots, CanActivate(s) \/ Throw(s), SpendOK(s, r)', NEW p \in Slots
        PROVE  SpendOK(p, r)'
    <3>1. p # s => slot'[p].at = "idle"
      BY <1>2, <2>5
    <3> QED BY <2>0, <2>5, <3>1, SpendIdle
  <2>6. ASSUME slot' = slot, NEW p \in Slots PROVE SpendOK(p, r)'
    <3>1. bucket'[r] = bucket[r] /\ spent'[r] = spent[r]
      <4>1. ~ResetRateLimit
        BY DEF ResetRateLimit
      <4>2. ASSUME NEW s \in Slots, WriteBucket(s) PROVE FALSE
        <5>1. PICK c \in Call : slot' = [slot EXCEPT ![s] = c] /\ c.at # "set"
          <6>1. slot[s].todo \in SUBSET rules /\ slot[s].at = "set"
                /\ Take(s, "increment", slot[s].todo, "idle")
            BY <4>2 DEF WriteBucket, WalksOK, WalkOK
          <6> QED BY <6>1, TakeResult, IdleTyped DEF Idle
        <5> QED BY <2>6, <4>2, <5>1 DEF WriteBucket, TypeOK
      <4> QED BY <4>1, <4>2 DEF Next, vars, CanActivate, CheckRateLimit, GetRateLimitStatus,
                IncrementCounter, CheckBucket, ReadBucket, CheckWindow, IncrementWindow, RemoveOld,
                CountRequests, AddRequest, Throw, CreateRule, Tick, redis, history
    <3> QED BY <2>4, <2>6, <3>1
  <2>7. ASSUME NEW s \in Slots, CanActivate(s) \/ Throw(s) PROVE SpendOK(s, r)'
    <3>0. /\ slot[s] \in Call /\ WalkOK(s) /\ slot[s].todo \in SUBSET rules
          /\ slot[s].t \in Nat /\ slot[s].t <= now /\ now \in Nat /\ SpendOK(s, r)
          /\ rules \subseteq Rules
      BY <1>0, <2>0, TablesAssumption DEF TypeOK, WalksOK, WalkOK, Call
    <3>a. ASSUME NEW c \in Call, slot' = [slot EXCEPT ![s] = c] PROVE slot'[s] = c
      BY <3>a DEF TypeOK
    <3>b. Idle.at = "idle" /\ Idle \in Call
      BY IdleTyped DEF Idle
    \* The bucket and the time stay: what a call may find is what it is told.
    <3>1. ASSUME NEW c \in Call, slot' = [slot EXCEPT ![s] = c], bucket'[r] = bucket[r],
                 now' = now, c.at # "set",
                 Passed(s, r)' => \A t \in now..MaxTime : Willing(r, t),
                 c.at = "increment" /\ c.rule = r => Willing(r, now) /\ c.t = now
          PROVE  SpendOK(s, r)'
      <4>1. ASSUME NEW t, NEW clock PROVE Level(r, t, clock)' = Level(r, t, clock)
        BY <3>1 DEF Level, Capacity, Unit, Seconds, Max_
      <4>2. ASSUME NEW t, Willing(r, t) PROVE Willing(r, t)'
        BY <3>1, <4>1, <4>2 DEF Willing, Allows, Unit, Seconds, Max_
      <4>3. slot'[s] = c
        BY <3>1, <3>a
      <4>4. ASSUME slot'[s].at = "increment", slot'[s].rule = r
            PROVE  Willing(r, slot[s].t)' /\ bucket'[r].last <= slot'[s].t
        <5>1. Willing(r, now) /\ slot'[s].t = now
          BY <3>1, <4>3, <4>4
        <5>2. Willing(r, slot[s].t)'
          BY <3>1, <4>1, <5>1 DEF Willing, Allows, Unit, Seconds, Max_
        <5> QED BY <2>2, <3>1, <5>1, <5>2
      <4>5. Passed(s, r)' => \A t \in now'..MaxTime : Willing(r, t)'
        BY <3>1, <4>2
      <4>6. slot'[s].at # "set"
        BY <3>1, <4>3
      <4> QED BY <4>4, <4>5, <4>6 DEF SpendOK
    <3>2. CASE CheckRateLimit(s)
      <4>1. PICK c \in Call :
              /\ slot' = [slot EXCEPT ![s] = c]
              /\ \/ rules = {} /\ c.at = "refind"
                 \/ c.at = "check" /\ c.rule \in rules /\ c.todo = rules \ {c.rule}
        BY <3>2, TakeResult, IdleTyped DEF CheckRateLimit, Idle
      <4>2. slot'[s] = c /\ bucket' = bucket /\ now' = now
        BY <3>2, <3>a, <4>1 DEF CheckRateLimit, redis
      <4>3. Passed(s, r)' => r \notin rules
        BY <4>1, <4>2 DEF Passed
      <4>4. \A t \in now..MaxTime : t \in Nat
        BY <1>0
      <4> QED BY <2>3, <3>1, <4>1, <4>2, <4>3, <4>4
    <3>3. CASE GetRateLimitStatus(s) \/ Throw(s)
      <4>1. slot'[s] = Idle
        BY <3>3, <3>a, <3>b DEF GetRateLimitStatus, Throw
      <4> QED BY <2>0, <3>b, <4>1, SpendIdle
    <3>4. CASE IncrementCounter(s)
      <4>1. PICK c \in Call :
              /\ slot' = [slot EXCEPT ![s] = c]
              /\ \/ c = [Idle EXCEPT !.at = "idle"]
                 \/ c.at = "increment" /\ c.t = now
        BY <3>4, TakeResult DEF IncrementCounter
      <4>2. slot'[s] = c /\ bucket' = bucket /\ now' = now /\ Passed(s, r)
        BY <3>4, <3>a, <4>1 DEF IncrementCounter, redis, Passed
      <4>3. \A t \in now..MaxTime : Willing(r, t)
        BY <3>0, <4>2 DEF SpendOK
      <4>4. now \in now..MaxTime
        BY <1>0
      <4>5. CASE c.at = "idle"
        BY <2>0, <4>2, <4>5, SpendIdle
      <4>6. CASE c.at = "increment" /\ c.t = now
        BY <3>1, <4>1, <4>2, <4>3, <4>4, <4>6
      <4> QED BY <3>b, <4>1, <4>5, <4>6, IdleTyped
    \* A rule has been decided.
    <3>5. ASSUME NEW allowed \in BOOLEAN, Decide(s, allowed), slot[s].at \in {"check", "count"},
                 UNCHANGED <<bucket, now>>,
                 allowed /\ slot[s].rule = r => \A t \in now..MaxTime : Willing(r, t)
          PROVE  SpendOK(s, r)'
      <4>1. PICK c \in Call :
              /\ slot' = [slot EXCEPT ![s] = c]
              /\ \/ c = Idle
                 \/ allowed /\ slot[s].todo = {} /\ c = [Idle EXCEPT !.at = "refind"]
                 \/ /\ allowed /\ c.at = "check" /\ c.rule \in slot[s].todo
                    /\ c.todo = slot[s].todo \ {c.rule}
        BY <3>5, DecideResult
      <4>2. slot'[s] = c
        BY <3>a, <4>1
      <4>3. c.at \in {"idle", "refind", "check"}
        BY <4>1 DEF Idle
      <4>4. Passed(s, r)' => allowed /\ r \notin slot[s].todo
        BY <4>1, <4>2 DEF Passed, Idle
      <4>5. r \notin slot[s].todo /\ slot[s].rule # r => Passed(s, r)
        BY <3>5 DEF Passed
      <4>6. Passed(s, r)' => \A t \in now..MaxTime : Willing(r, t)
        BY <3>0, <3>5, <4>4, <4>5 DEF SpendOK
      <4> QED BY <3>1, <3>5, <4>1, <4>3, <4>6
    <3>6. CASE CheckBucket(s)
      <4> DEFINE allows == Allows(slot[s].rule, Level(slot[s].rule, slot[s].t, now))
      <4>1. slot[s].at = "check" /\ UNCHANGED <<bucket, now>>
            /\ ((allows /\ Decide(s, TRUE)) \/ (~allows /\ Decide(s, FALSE)))
        BY <3>6 DEF CheckBucket, At, redis, Decide
      <4>2. ASSUME allows, slot[s].rule = r, NEW t \in now..MaxTime PROVE Willing(r, t)
        <5>1. t \in Nat /\ slot[s].t <= t /\ \A clock \in now..MaxTime : clock \in Nat /\ now <= clock
          BY <1>0, <3>0
        <5>2. Allows(r, Level(r, slot[s].t, now))
          BY <4>2
        <5>3. ASSUME NEW clock \in now..MaxTime PROVE Allows(r, Level(r, t, clock))
          BY <2>0, <3>0, <5>1, <5>2, WillingLater
        <5> QED BY <5>3 DEF Willing
      <4>3. CASE allows /\ Decide(s, TRUE)
        BY <3>5, <4>1, <4>2, <4>3
      <4>4. CASE ~allows /\ Decide(s, FALSE)
        BY <3>5, <4>1, <4>4
      <4> QED BY <4>1, <4>3, <4>4
    <3>7. CASE CheckWindow(s) \/ CountRequests(s)
      <4>1. /\ slot[s].rule # r /\ slot[s].at \in {"check", "count"} /\ UNCHANGED <<bucket, now>>
            /\ Decide(s, TRUE) \/ Decide(s, FALSE)
        BY <2>0, <3>0, <3>7 DEF CheckWindow, CountRequests, At, redis, Decide, WalkOK, Buckets
      <4> QED BY <3>5, <4>1
    <3>8. CASE RemoveOld(s)
      <4> DEFINE c == [slot[s] EXCEPT !.at = "count"]
      <4>1. c \in Call /\ c.at = "count" /\ c.todo = slot[s].todo /\ c.rule = slot[s].rule
        BY <3>0 DEF Call
      <4>2. slot' = [slot EXCEPT ![s] = c] /\ slot[s].at = "check" /\ UNCHANGED <<bucket, now>>
        BY <3>8 DEF RemoveOld, At
      <4> HIDE DEF c
      <4>3. slot'[s] = c
        BY <3>a, <4>1, <4>2
      <4>4. Passed(s, r)' => Passed(s, r)
        BY <4>1, <4>2, <4>3 DEF Passed
      <4> QED BY <3>0, <3>1, <4>1, <4>2, <4>4 DEF SpendOK
    <3>9. CASE ReadBucket(s)
      <4> DEFINE x == Level(slot[s].rule, slot[s].t, now)
                 c == [slot[s] EXCEPT !.at = "set", !.level = x]
      <4>1. c.at = "set" /\ c.todo = slot[s].todo /\ c.rule = slot[s].rule /\ c.level = x
            /\ c.t = slot[s].t
        BY <3>0 DEF Call
      <4>2. slot'[s] = c /\ slot[s].at = "increment" /\ UNCHANGED <<bucket, now, spent>>
            /\ ~(slot[s].t < bucket[slot[s].rule].expires /\ bucket[slot[s].rule].expires <= now)
        BY <3>9 DEF ReadBucket, At, redis, TypeOK
      <4> HIDE DEF c
      <4>3. ASSUME NEW t, NEW clock PROVE Level(r, t, clock)' = Level(r, t, clock)
        BY <4>2 DEF Level, Capacity, Unit, Seconds, Max_
      <4>4. Passed(s, r)' => \A t \in now'..MaxTime : Willing(r, t)'
        <5>1. Passed(s, r)' => Passed(s, r)
          BY <4>1, <4>2 DEF Passed
        <5>2. ASSUME NEW t, Willing(r, t) PROVE Willing(r, t)'
          BY <4>2, <4>3, <5>2 DEF Willing, Allows, Unit, Seconds, Max_
        <5> QED BY <3>0, <4>2, <5>1, <5>2 DEF SpendOK
      <4>5. ASSUME slot[s].rule = r
            PROVE  Allows(r, slot[s].level)' /\ Balanced(r, slot[s].level, slot[s].t)'
        <5>1. Willing(r, slot[s].t) /\ bucket[r].last <= slot[s].t /\ now \in now..MaxTime
          BY <1>0, <3>0, <4>2, <4>5 DEF SpendOK
        <5>2. Allows(r, x)
          BY <4>5, <5>1 DEF Willing
        <5>3. Balanced(r, x, slot[s].t)
          BY <1>5, <2>0, <3>0, <4>2, <4>5, <5>1, LevelBalanced
        <5>4. slot'[s].level = x /\ slot'[s].t = slot[s].t
          BY <4>1, <4>2
        <5> HIDE DEF x
        <5>5. Allows(r, slot[s].level)'
          BY <5>2, <5>4 DEF Allows, Unit, Seconds, Max_
        <5>6. Balanced(r, slot[s].level, slot[s].t)'
          BY <4>2, <5>3, <5>4 DEF Balanced, Unit, Seconds, Max_, Capacity
        <5> QED BY <5>5, <5>6
      <4>6. slot'[s].at = "set" /\ slot'[s].rule = slot[s].rule
        BY <4>1, <4>2
      <4> QED BY <4>4, <4>5, <4>6 DEF SpendOK
    \* A rule has been counted: the next one was passed before.
    <3>10. CASE WriteBucket(s) \/ IncrementWindow(s) \/ AddRequest(s)
      <4>1. /\ slot[s].at \in {"increment", "set"} /\ Take(s, "increment", slot[s].todo, "idle")
            /\ now' = now
        BY <3>10 DEF WriteBucket, IncrementWindow, AddRequest, At
      <4>2. PICK c \in Call :
              /\ slot' = [slot EXCEPT ![s] = c]
              /\ \/ c.at = "idle"
                 \/ /\ c.at = "increment" /\ c.rule \in slot[s].todo
                    /\ c.todo = slot[s].todo \ {c.rule} /\ c.t = now
        BY <3>0, <4>1, TakeResult, IdleTyped DEF Idle
      <4>3. slot'[s] = c
        BY <3>a, <4>2
      <4>4. CASE c.at = "idle"
        BY <2>0, <4>3, <4>4, SpendIdle
      <4>5. CASE c.at = "increment" /\ r \notin slot[s].todo
        BY <4>2, <4>3, <4>5 DEF SpendOK, Passed
      <4>6. CASE c.at = "increment" /\ r \in slot[s].todo
        <5>1. slot[s].rule # r /\ Passed(s, r)
          BY <3>0, <4>1, <4>6 DEF WalkOK, Passed
        <5>2. bucket'[r] = bucket[r]
          BY <2>0, <3>10, <5>1 DEF WriteBucket, IncrementWindow, AddRequest, TypeOK
        <5>3. (\A t \in now..MaxTime : Willing(r, t)) /\ now \in now..MaxTime
          BY <1>0, <3>0, <5>1 DEF SpendOK
        <5> QED BY <3>1, <4>1, <4>2, <4>6, <5>2, <5>3
      <4> QED BY <4>2, <4>4, <4>5, <4>6
    <3> QED BY <2>7, <3>2, <3>3, <3>4, <3>6, <3>7, <3>8, <3>9, <3>10 DEF CanActivate
  <2> QED BY <1>3, <2>1, <2>5, <2>6, <2>7
<1> QED BY <1>4, <1>5 DEF InTurn, Using, RefillsInTime, Seconds, Capacity, Unit

-----------------------------------------------------------------------------
LEMMA InitHolds == Init => IInv
<1> SUFFICES ASSUME Init PROVE IInv
  OBVIOUS
<1>0. TypeOK /\ WalksOK /\ now = 0 /\ 0 \in 0..MaxTime /\ MaxTime \in Nat
  BY TypeInit, BoundsAssumption DEF Init
<1>1. Cardinality({}) = 0 /\ Cardinality(Slots) \in Nat \ {0}
  BY SlotsAssumption, FS_EmptySet, FS_CardinalityType
<1>2. \A s \in Slots : slot[s] = Idle
  BY DEF Init
<1>3. ASSUME NEW r \in Using("fixed_window"), NEW w \in 0..MaxTime PROVE CounterOK(r, w)
  <2>1. r \in Rules /\ windows[r][w] = 0 /\ Max_(r) \in Nat
    BY RuleTyped DEF Init, Using
  <2>2. Committed(r, w) = {}
    BY <1>2 DEF Committed, Commits, Passed, Idle
  <2> QED BY <1>1, <2>1, <2>2 DEF CounterOK, Excess
<1>4. ASSUME NEW r \in Using("sliding_window")
      PROVE  EntriesOK(r) /\ \A t \in 0..MaxTime : IntervalOK(r, t)
  <2>1. r \in Rules /\ added[r] = {} /\ requests[r] = {} /\ Max_(r) \in Nat
    BY RuleTyped DEF Init, Using
  <2>2. EntriesOK(r)
    BY <2>1 DEF EntriesOK
  <2>3. ASSUME NEW t \in 0..MaxTime PROVE IntervalOK(r, t)
    <3>1. AddedIn(r, t) = {} /\ Adding(r, t) = {}
      BY <1>2, <2>1 DEF AddedIn, Adding, Adds, Passed, Idle
    <3> QED BY <1>1, <2>1, <3>1 DEF IntervalOK, Excess
  <2> QED BY <2>2, <2>3
<1>5. InTurn
  <2>1. ASSUME NEW r \in Rules PROVE bucket[r] = NoKey /\ spent[r] = 0
    BY DEF Init
  <2> QED BY <1>2, <2>1 DEF InTurn, BucketOK, SpendOK, Passed, Using, Idle
<1> QED BY <1>0, <1>3, <1>4, <1>5 DEF IInv, WalksOK

(* The inductive invariant holds: types, the walks of the calls, the       *)
(* counters and sorted sets with the calls committed to them, and the      *)
(* balance of undisturbed buckets (canActivate).                           *)
THEOREM Invariance == Spec => []IInv
<1>1. IInv /\ [Next]_vars => IInv'
  <2> SUFFICES ASSUME IInv, [Next]_vars PROVE IInv'
    OBVIOUS
  <2>1. TypeOK /\ WalksOK /\ TypeOK' /\ WalksOK'
    BY TypeStep DEF IInv, WalksOK
  <2>2. ASSUME NEW r \in Using("fixed_window"), NEW w \in 0..MaxTime PROVE CounterOK(r, w)'
    <3>1. CounterOK(r, w)
      BY DEF IInv
    <3> QED BY <2>1, <3>1, CounterStep
  <2>3. ASSUME NEW r \in Using("sliding_window") PROVE EntriesOK(r)'
    <3>1. EntriesOK(r)
      BY DEF IInv
    <3> QED BY <2>1, <3>1, EntriesStep
  <2>4. ASSUME NEW r \in Using("sliding_window"), NEW t \in 0..MaxTime PROVE IntervalOK(r, t)'
    <3>1. EntriesOK(r) /\ IntervalOK(r, t)
      BY DEF IInv
    <3> QED BY <2>1, <3>1, IntervalStep
  <2>5. ASSUME ~disturbed', resets' = 0 PROVE InTurn'
    <3>1. ~disturbed /\ resets = 0
      <4>1. resets \in Nat
        BY <2>1 DEF TypeOK
      <4>2. \/ UNCHANGED <<disturbed, resets>>
            \/ \E s \in Slots : CheckRateLimit(s) \/ ReadBucket(s)
            \/ ResetRateLimit
        BY DEF Next, vars, CanActivate, GetRateLimitStatus, IncrementCounter, CheckBucket,
               WriteBucket, CheckWindow, IncrementWindow, RemoveOld, CountRequests, AddRequest,
               Throw, CreateRule, Tick, history
      <4>3. CASE ResetRateLimit
        <5>1. resets' = resets + 1
          BY <4>3 DEF ResetRateLimit
        <5> QED BY <2>5, <4>1, <5>1
      <4>4. ASSUME NEW s \in Slots, CheckRateLimit(s) \/ ReadBucket(s)
            PROVE  ~disturbed /\ resets = 0
        BY <2>5, <4>4 DEF CheckRateLimit, ReadBucket
      <4> QED BY <2>5, <4>2, <4>3, <4>4
    <3>2. InTurn
      BY <3>1 DEF IInv
    <3> QED BY <2>1, <2>5, <3>1, <3>2, TurnStep
  <2>6. \A s \in Slots : WalkOK(s)'
    BY <2>1 DEF WalksOK
  <2>7. /\ \A r \in Using("fixed_window"), w \in 0..MaxTime : CounterOK(r, w)'
        /\ \A r \in Using("sliding_window") :
             EntriesOK(r)' /\ \A t \in 0..MaxTime : IntervalOK(r, t)'
    BY <2>2, <2>3, <2>4
  <2> QED BY <2>1, <2>5, <2>6, <2>7 DEF IInv, Using
<1> QED BY <1>1, InitHolds, PTL DEF Spec

(* Buckets, counters and local variables keep their types                  *)
(* (RateLimitingService).                                                  *)
THEOREM TypeCorrect == Spec => []TypeOK
BY Invariance, PTL DEF IInv

(* A fixed window counts at most maxRequests and the calls that were under *)
(* way beside the last one it allowed (checkFixedWindow and                *)
(* incrementRuleCounter).                                                  *)
THEOREM WindowIsBounded == Spec => []FixedWindowBound
<1>1. IInv => FixedWindowBound
  <2> SUFFICES ASSUME IInv, NEW r \in Using("fixed_window"), NEW w \in 0..MaxTime
               PROVE  windows[r][w] <= Max_(r) + Excess
    BY DEF FixedWindowBound
  <2>1. r \in Rules /\ windows[r] \in [0..MaxTime -> Nat]
    BY DEF IInv, TypeOK, Using
  <2>2. windows[r][w] \in Nat /\ Max_(r) \in Nat
    BY <2>1, RuleTyped
  <2>3. Cardinality(Committed(r, w)) \in Nat /\ Excess \in Int
    BY SlotsAssumption, FS_Subset, FS_CardinalityType DEF Committed, Excess
  <2>4. windows[r][w] + Cardinality(Committed(r, w)) <= Max_(r) + Excess
    BY DEF IInv, CounterOK
  <2> QED BY <2>2, <2>3, <2>4
<1> QED BY <1>1, Invariance, PTL

(* In every interval of windowSeconds a sliding window lets through at     *)
(* most maxRequests and the calls under way beside the last one it         *)
(* allowed, although it removes old requests, counts and adds in three     *)
(* calls (checkSlidingWindow and incrementRuleCounter).                    *)
THEOREM IntervalIsBounded == Spec => []SlidingWindowBound
<1>1. IInv => SlidingWindowBound
  <2> SUFFICES ASSUME IInv, NEW r \in Using("sliding_window"), NEW t \in 0..MaxTime
               PROVE  Cardinality(AddedIn(r, t)) <= Max_(r) + Excess
    BY DEF SlidingWindowBound
  <2>1. r \in Rules /\ Max_(r) \in Nat
    BY RuleTyped DEF Using
  <2>2. Cardinality(AddedIn(r, t)) \in Nat
    BY <2>1, SetsTyped, FS_Subset, FS_CardinalityType DEF IInv, AddedIn
  <2>3. Cardinality(Adding(r, t)) \in Nat /\ Excess \in Int
    BY SlotsAssumption, FS_Subset, FS_CardinalityType DEF Adding, Excess
  <2>4. Cardinality(AddedIn(r, t)) + Cardinality(Adding(r, t)) <= Max_(r) + Excess
    BY DEF IInv, IntervalOK
  <2> QED BY <2>1, <2>2, <2>3, <2>4
<1> QED BY <1>1, Invariance, PTL

(* Requests that follow one another spend no more than the burst of a      *)
(* token bucket and its refill, or than the queue of a leaky bucket and    *)
(* its leak, through expiries of the key and created rules                 *)
(* (checkTokenBucket, checkLeakyBucket and incrementRuleCounter).          *)
THEOREM BucketIsBounded == Spec => []BucketBound
<1>1. IInv => BucketBound
  <2> SUFFICES ASSUME IInv, ~disturbed, resets = 0 PROVE
        /\ \A r \in Using("token_bucket") :
             2 * Seconds(r) * Rule[r].refillRate >= Capacity(r)
             => spent[r] * Unit(r) <= Capacity(r) + now * Rule[r].refillRate
        /\ \A r \in Using("leaky_bucket") :
             spent[r] * Unit(r) < (Max_(r) + 1) * Unit(r) + now * Max_(r)
    BY DEF BucketBound
  <2>0. InTurn /\ TypeOK
    BY DEF IInv
  <2>1. ASSUME NEW r \in Using("token_bucket"), 2 * Seconds(r) * Rule[r].refillRate >= Capacity(r)
        PROVE  spent[r] * Unit(r) <= Capacity(r) + now * Rule[r].refillRate
    <3>1. r \in Rules /\ Rule[r].algorithm = "token_bucket" /\ BucketOK(r)
      BY <2>0, <2>1 DEF InTurn, Using, RefillsInTime
    <3>2. /\ now \in Nat /\ spent[r] \in Nat /\ bucket[r].level \in Nat /\ bucket[r].last \in Nat
          /\ Unit(r) \in Nat /\ Capacity(r) \in Nat /\ Rule[r].refillRate \in Nat
      BY <2>0, <3>1, RuleTyped, BoundsAssumption DEF TypeOK, Bucket
    <3>3. spent[r] * Unit(r) \in Nat /\ now * Rule[r].refillRate \in Nat
          /\ bucket[r].last * Rule[r].refillRate \in Nat
      BY <3>2
    <3>4. CASE spent[r] = 0
      BY <3>2, <3>3, <3>4
    <3>5. CASE spent[r] # 0
      <4>1. /\ spent[r] * Unit(r) + bucket[r].level <= Capacity(r) + bucket[r].last * Rule[r].refillRate
            /\ bucket[r].last <= now
        BY <3>1, <3>5 DEF BucketOK, Balanced
      <4>2. bucket[r].last * Rule[r].refillRate <= now * Rule[r].refillRate
        BY <3>2, <4>1, ScaleUp
      <4> QED BY <3>2, <3>3, <4>1, <4>2
    <3> QED BY <3>4, <3>5
  <2>2. ASSUME NEW r \in Using("leaky_bucket")
        PROVE  spent[r] * Unit(r) < (Max_(r) + 1) * Unit(r) + now * Max_(r)
    <3>1. r \in Rules /\ Rule[r].algorithm = "leaky_bucket" /\ BucketOK(r)
      BY <2>0, <2>2 DEF InTurn, Using, RefillsInTime
    <3>2. /\ now \in Nat /\ spent[r] \in Nat /\ bucket[r].level \in Nat /\ bucket[r].last \in Nat
          /\ Unit(r) \in Nat \ {0} /\ Max_(r) \in Nat \ {0}
      BY <2>0, <3>1, RuleTyped, BoundsAssumption DEF TypeOK, Bucket
    <3>3. spent[r] * Unit(r) \in Nat /\ now * Max_(r) \in Nat /\ bucket[r].last * Max_(r) \in Nat
          /\ (Max_(r) + 1) * Unit(r) \in Nat /\ (Max_(r) + 1) * Unit(r) > 0
      BY <3>2
    <3>4. CASE spent[r] = 0
      BY <3>2, <3>3, <3>4
    <3>5. CASE spent[r] # 0
      <4>1. /\ spent[r] * Unit(r) <= bucket[r].level + bucket[r].last * Max_(r)
            /\ bucket[r].last <= now /\ bucket[r].level < (Max_(r) + 1) * Unit(r)
        BY <3>1, <3>5 DEF BucketOK, Balanced
      <4>2. bucket[r].last * Max_(r) <= now * Max_(r)
        BY <3>2, <4>1, ScaleUp
      <4> QED BY <3>2, <3>3, <4>1, <4>2
    <3> QED BY <3>4, <3>5
  <2> QED BY <2>1, <2>2
<1> QED BY <1>1, Invariance, PTL

(* A client that waits as long as it was told finds the bucket willing,    *)
(* whatever the rates and wherever the key expires (checkTokenBucket and   *)
(* checkLeakyBucket: retryAfter).                                          *)
THEOREM RetryIsEnough == Spec => []RetryAfterSuffices
BY TypeCorrect, RetrySuffices, PTL
=============================================================================
