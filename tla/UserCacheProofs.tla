---------------------------- MODULE UserCacheProofs ----------------------------
(***************************************************************************)
(* The invariant of UserCache, and what the cache holds when the PATCHes   *)
(* of a user have ended, for any users, requests and bounds.               *)
(***************************************************************************)
EXTENDS UserCache, TLAPS

\* What a step does to the failures so far: nothing, or one more.
LEMMA FailuresGrow ==
    ASSUME TypeOK, NEW k \in Kinds, Fail(k)
    PROVE  /\ faults' \in [Kinds -> Nat]
           /\ faults'[k] # 0
           /\ \A j \in Kinds : faults'[j] = 0 => faults[j] = 0
  BY DEF TypeOK, Fail, Kinds

LEMMA InitInv == Init => IInv
  <1>. SUFFICES ASSUME Init PROVE IInv
    OBVIOUS
  <1>1. TypeOK
    BY DEF Init, TypeOK, Kinds, Lifetimes, GetStages, PatchStages, Reading, Writing
  <1>2. Described /\ Thorough
    BY DEF Init, Described, Thorough
  <1>3. Apart
    <2>1. \A i \in Ids : ~Patching(i) /\ ~Storing(i) /\ data[i] = NoData
      BY DEF Init, Patching, Storing, Storages
    <2>2. \A g \in Gets : get[g].at = "idle"
      BY DEF Init
    <2>. QED
      BY <2>1, <2>2 DEF Apart, ApartOf, Storages
  <1>. QED
    BY <1>1, <1>2, <1>3 DEF IInv

-----------------------------------------------------------------------------
(* Types.                                                                  *)

LEMMA Readings ==
    ASSUME NEW r \in Reading, NEW s \in GetStages, NEW v \in Nat
    PROVE  /\ [r EXCEPT !.at = s] \in Reading
           /\ [r EXCEPT !.at = s, !.value = v] \in Reading
  BY DEF Reading

LEMMA Writings ==
    ASSUME NEW w \in Writing, NEW s \in PatchStages, NEW T \in SUBSET Ids, NEW i \in Ids
    PROVE  /\ [w EXCEPT !.todo = T, !.key = i, !.at = s] \in Writing
           /\ [w EXCEPT !.at = s, !.todo = T, !.key = i] \in Writing
  BY DEF Writing

LEMMA Moves ==
    ASSUME TypeOK
    PROVE  /\ \A g \in Gets, s \in GetStages : Goto(g, s) => get' \in [Gets -> Reading]
           /\ \A g \in Gets : End(g) => get' \in [Gets -> Reading]
           /\ \A p \in Patches, s \in PatchStages : Turn(p, s) => patch' \in [Patches -> Writing]
  <1>1. ASSUME NEW g \in Gets, NEW s \in GetStages, Goto(g, s)
        PROVE  get' \in [Gets -> Reading]
    <2>1. [get[g] EXCEPT !.at = s] \in Reading
      BY Readings DEF TypeOK
    <2>. QED
      BY <1>1, <2>1 DEF Goto, TypeOK
  <1>2. ASSUME NEW g \in Gets, End(g)
        PROVE  get' \in [Gets -> Reading]
    <2>1. [get[g] EXCEPT !.at = "idle", !.value = 0] \in Reading
      BY Readings DEF TypeOK, GetStages
    <2>. QED
      BY <1>2, <2>1 DEF End, TypeOK
  <1>3. ASSUME NEW p \in Patches, NEW s \in PatchStages, Turn(p, s)
        PROVE  patch' \in [Patches -> Writing]
    <2>1. [patch[p] EXCEPT !.at = s] \in Writing
      BY DEF TypeOK, Writing
    <2>. QED
      BY <1>3, <2>1 DEF Turn, TypeOK
  <1>. QED
    BY <1>1, <1>2, <1>3

LEMMA GetTypes ==
    ASSUME TypeOK, NEW g \in Gets, GetStep(g) \/ \E i \in Ids : LookUp(g, i)
    PROVE  TypeOK'
  <1>. /\ get[g].id \in Ids /\ get[g].value \in Nat
       /\ user[get[g].id] \in Nat /\ meta[get[g].id] \in Lifetimes
    BY DEF TypeOK, Reading
  <1>f. UNCHANGED faults \/ (\E k \in Kinds : Fail(k)) => faults' \in [Kinds -> Nat]
    BY FailuresGrow DEF TypeOK
  <1>1. CASE \E i \in Ids : LookUp(g, i)
    <2>. PICK i \in Ids : LookUp(g, i)
      BY <1>1
    <2>1. get' \in [Gets -> Reading]
      <3>. data[i] # NoData => data[i] \in Nat
        BY DEF TypeOK
      <3>1. \A s \in GetStages, v \in Nat : [at |-> s, id |-> i, value |-> v] \in Reading
        BY DEF Reading
      <3>2. PICK s \in GetStages, v \in Nat : get' = [get EXCEPT ![g] = [at |-> s, id |-> i, value |-> v]]
        BY DEF LookUp, GetStages
      <3>. QED
        BY <3>1, <3>2 DEF TypeOK
    <2>. QED
      BY <1>f, <2>1 DEF LookUp, TypeOK, Kinds
  <1>2. CASE Touch(g)
    BY <1>2, <1>f, Moves DEF Touch, TypeOK, Kinds, GetStages
  <1>3. CASE Rewrite(g)
    <2>. meta' \in [Ids -> Lifetimes]
      BY <1>3 DEF Rewrite, TypeOK, Lifetimes
    <2>. QED
      BY <1>3, <1>f, Moves DEF Rewrite, TypeOK, Kinds, GetStages
  <1>4. CASE Read(g)
    <2>1. get' \in [Gets -> Reading]
      <3>1. [get[g] EXCEPT !.at = "store", !.value = user[get[g].id]] \in Reading
        BY Readings DEF TypeOK, GetStages
      <3>. QED
        BY <1>4, <3>1 DEF Read, TypeOK
    <2>2. mixed' \subseteq Ids
      BY <1>4 DEF Read, TypeOK
    <2>. QED
      BY <1>4, <2>1, <2>2 DEF Read, TypeOK
  <1>5. CASE Store(g)
    <2>1. meta' \in [Ids -> Lifetimes]
      BY <1>5 DEF Store, TypeOK, Lifetimes, Overtaken
    <2>2. data' \in [Ids -> Nat \union {NoData}]
      BY <1>5 DEF Store, TypeOK
    <2>. QED
      BY <1>5, <1>f, <2>1, <2>2, Moves DEF Store, TypeOK, Kinds, GetStages
  <1>6. CASE Describe(g)
    <2>. meta' \in [Ids -> Lifetimes]
      BY <1>6 DEF Describe, TypeOK, Lifetimes
    <2>. QED
      BY <1>6, <1>f, Moves DEF Describe, TypeOK, Kinds, GetStages
  <1>7. CASE Limit(g)
    <2>. meta' \in [Ids -> Lifetimes]
      BY <1>7 DEF Limit, TypeOK, Lifetimes
    <2>. QED
      BY <1>7, <1>f, Moves DEF Limit, TypeOK, Kinds, GetStages
  <1>. QED
    BY <1>1, <1>2, <1>3, <1>4, <1>5, <1>6, <1>7 DEF GetStep

LEMMA PatchTypes ==
    ASSUME TypeOK, NEW p \in Patches, PatchStep(p) \/ \E i \in Ids : Invalidate(p, i)
    PROVE  TypeOK'
  <1>. /\ patch[p].id \in Ids /\ patch[p].key \in Ids
       /\ patch[p].todo \subseteq Ids
    BY DEF TypeOK, Writing
  <1>f. UNCHANGED faults \/ (\E k \in Kinds : Fail(k)) => faults' \in [Kinds -> Nat]
    BY FailuresGrow DEF TypeOK
  <1>1. CASE \E i \in Ids : Invalidate(p, i)
    <2>. PICK i \in Ids : Invalidate(p, i)
      BY <1>1
    <2>1. patch' \in [Patches -> Writing]
      BY DEF Invalidate, TypeOK, PatchStages, Writing
    <2>. QED
      BY <2>1 DEF Invalidate, TypeOK
  <1>2. CASE Scan(p)
    <2>1. patch' \in [Patches -> Writing]
      <3>1. CASE \E i \in patch[p].todo : patch' =
                   [patch EXCEPT ![p].todo = @ \ {i}, ![p].key = i,
                                 ![p].at = IF meta[i] = "absent" THEN "scan" ELSE "check"]
        <4>. PICK i \in patch[p].todo : patch' =
                   [patch EXCEPT ![p].todo = @ \ {i}, ![p].key = i,
                                 ![p].at = IF meta[i] = "absent" THEN "scan" ELSE "check"]
          BY <3>1
        <4>1. PICK s \in PatchStages : s = IF meta[i] = "absent" THEN "scan" ELSE "check"
          BY DEF PatchStages
        <4>2. [patch[p] EXCEPT !.todo = patch[p].todo \ {i}, !.key = i, !.at = s] \in Writing
          BY Writings DEF TypeOK
        <4>3. patch' = [patch EXCEPT ![p] =
                  [patch[p] EXCEPT !.todo = patch[p].todo \ {i}, !.key = i, !.at = s]]
          BY <4>1 DEF TypeOK, Writing
        <4>. QED
          BY <4>2, <4>3 DEF TypeOK
      <3>. QED
        BY <1>2, <3>1, Moves DEF Scan, PatchStages
    <2>. QED
      BY <1>2, <1>f, <2>1 DEF Scan, TypeOK, Kinds
  <1>3. CASE Check(p)
    BY <1>3, <1>f, Moves DEF Check, TypeOK, Kinds, PatchStages
  <1>4. CASE Delete(p)
    <2>1. data' \in [Ids -> Nat \union {NoData}] /\ meta' \in [Ids -> Lifetimes]
      BY <1>4 DEF Delete, TypeOK, Lifetimes
    <2>. QED
      BY <1>4, <1>f, <2>1, Moves DEF Delete, TypeOK, Kinds, PatchStages
  <1>5. CASE Update(p)
    <2>1. patch' \in [Patches -> Writing]
      <3>1. [patch[p] EXCEPT !.at = "idle", !.todo = {}, !.key = patch[p].id] \in Writing
        BY Writings DEF TypeOK, PatchStages
      <3>. QED
        BY <1>5, <3>1 DEF Update, TypeOK
    <2>2. user' \in [Ids -> Nat]
      BY <1>5 DEF Update, TypeOK
    <2>. QED
      BY <1>5, <2>1, <2>2 DEF Update, TypeOK
  <1>. QED
    BY <1>1, <1>2, <1>3, <1>4, <1>5 DEF PatchStep

LEMMA TypeStep == TypeOK /\ [Next]_vars => TypeOK'
  <1>. SUFFICES ASSUME TypeOK, [Next]_vars PROVE TypeOK'
    OBVIOUS
  <1>1. CASE UNCHANGED vars
    BY <1>1 DEF vars, TypeOK
  <1>2. CASE \E i \in Ids : Expire(i)
    BY <1>2 DEF Expire, ExpireData, ExpireMeta, TypeOK, Lifetimes
  <1>. QED
    BY <1>1, <1>2, GetTypes, PatchTypes DEF Next
-----------------------------------------------------------------------------
(* The history of failures only grows, so that Never held before.          *)

LEMMA NeverBefore ==
    ASSUME TypeOK, [Next]_vars, NEW K \in SUBSET Kinds, Never(K)'
    PROVE  Never(K) /\ \A k \in K : ~Fail(k)
  <1>1. \A k \in Kinds : Fail(k) => faults'[k] # 0 /\ \A j \in Kinds : faults'[j] = 0 => faults[j] = 0
    BY FailuresGrow
  <1>2. UNCHANGED faults \/ \E k \in Kinds : Fail(k)
    BY DEF Next, vars, GetStep, PatchStep, LookUp, Touch, Rewrite, Read, Store, Describe, Limit,
           Invalidate, Scan, Check, Delete, Update, Expire, ExpireData, ExpireMeta, Kinds
  <1>. QED
    BY <1>1, <1>2 DEF Never

-----------------------------------------------------------------------------
(* Thorough: a PATCH looks at every key before it updates.                 *)

LEMMA ThoroughStep ==
    ASSUME TypeOK, Thorough, [Next]_vars
    PROVE  Thorough'
  <1>. SUFFICES ASSUME Never({"invalidate"})', NEW q \in Patches, patch'[q].at = "update"
                PROVE  patch'[q].todo = {}
    BY DEF Thorough
  <1>0. Never({"invalidate"}) /\ ~Fail("invalidate")
    BY NeverBefore DEF Kinds
  <1>1. CASE patch' = patch
    BY <1>0, <1>1 DEF Thorough
  <1>2. ASSUME NEW p \in Patches, NEW i \in Ids, Invalidate(p, i)
        PROVE  patch'[q].todo = {}
    BY <1>0, <1>2 DEF Invalidate, Thorough, TypeOK
  <1>3. ASSUME NEW p \in Patches, Scan(p)
        PROVE  patch'[q].todo = {}
    <2>1. CASE q # p
      BY <1>0, <1>3, <2>1 DEF Scan, Thorough, TypeOK, Turn
    <2>2. CASE q = p
      <3>1. ASSUME NEW i \in patch[p].todo, patch' =
                   [patch EXCEPT ![p].todo = @ \ {i}, ![p].key = i,
                                 ![p].at = IF meta[i] = "absent" THEN "scan" ELSE "check"]
            PROVE  patch'[p].at # "update"
        BY <3>1 DEF TypeOK, Writing
      <3>2. CASE patch[p].todo = {} /\ Turn(p, "update")
        BY <2>2, <3>2 DEF Turn, TypeOK, Writing
      <3>. QED
        BY <1>0, <1>3, <2>2, <3>1, <3>2 DEF Scan
    <2>. QED
      BY <2>1, <2>2
  <1>4. ASSUME NEW p \in Patches, Check(p)
        PROVE  patch'[q].todo = {}
    BY <1>0, <1>4 DEF Check, Thorough, TypeOK, Turn, Writing
  <1>5. ASSUME NEW p \in Patches, Delete(p)
        PROVE  patch'[q].todo = {}
    BY <1>0, <1>5 DEF Delete, Thorough, TypeOK, Turn, Writing
  <1>6. ASSUME NEW p \in Patches, Update(p)
        PROVE  patch'[q].todo = {}
    BY <1>0, <1>6 DEF Update, Thorough, TypeOK, Writing
  <1>7. patch' = patch \/ (\E p \in Patches : PatchStep(p) \/ \E i \in Ids : Invalidate(p, i))
    BY DEF Next, vars, GetStep, LookUp, Touch, Rewrite, Read, Store, Describe, Limit,
           Expire, ExpireData, ExpireMeta
  <1>. QED
    BY <1>1, <1>2, <1>3, <1>4, <1>5, <1>6, <1>7 DEF PatchStep

-----------------------------------------------------------------------------
(* Described: data that are found have metadata.                           *)

LEMMA DescribedStep ==
    ASSUME TypeOK, Described, [Next]_vars
    PROVE  Described'
  <1>. SUFFICES ASSUME Never({"store"})', NEW i \in Ids, data'[i] # NoData
                PROVE  \/ meta'[i] \in {"forever", "after"}
                       \/ \E g \in Gets : get'[g].at = "describe" /\ get'[g].id = i
    BY DEF Described
  <1>0. /\ ~Fail("store")
        /\ data[i] # NoData => \/ meta[i] \in {"forever", "after"}
                               \/ \E g \in Gets : get[g].at = "describe" /\ get[g].id = i
    BY NeverBefore DEF Kinds, Described
  <1>1. CASE UNCHANGED <<data, meta, get>>
    BY <1>0, <1>1
  <1>2. ASSUME NEW g \in Gets, NEW j \in Ids, LookUp(g, j)
        PROVE  \/ meta'[i] \in {"forever", "after"}
               \/ \E h \in Gets : get'[h].at = "describe" /\ get'[h].id = i
    BY <1>0, <1>2 DEF LookUp, TypeOK
  <1>3. ASSUME NEW g \in Gets, Touch(g)
        PROVE  \/ meta'[i] \in {"forever", "after"}
               \/ \E h \in Gets : get'[h].at = "describe" /\ get'[h].id = i
    BY <1>0, <1>3 DEF Touch, Goto, End, TypeOK, Reading
  <1>4. ASSUME NEW g \in Gets, Rewrite(g)
        PROVE  \/ meta'[i] \in {"forever", "after"}
               \/ \E h \in Gets : get'[h].at = "describe" /\ get'[h].id = i
    BY <1>0, <1>4 DEF Rewrite, Goto, End, TypeOK, Reading
  <1>5. ASSUME NEW g \in Gets, Read(g)
        PROVE  \/ meta'[i] \in {"forever", "after"}
               \/ \E h \in Gets : get'[h].at = "describe" /\ get'[h].id = i
    BY <1>0, <1>5 DEF Read, TypeOK, Reading
  <1>6. ASSUME NEW g \in Gets, Store(g)
        PROVE  \/ meta'[i] \in {"forever", "after"}
               \/ \E h \in Gets : get'[h].at = "describe" /\ get'[h].id = i
    <2>1. /\ get[g].at = "store" /\ get' = [get EXCEPT ![g].at = "describe"]
          /\ data' = [data EXCEPT ![get[g].id] = get[g].value]
          /\ meta' = [meta EXCEPT ![get[g].id] = Overtaken(@)]
      BY <1>0, <1>6 DEF Store, Goto
    <2>2. CASE get[g].id = i
      BY <2>1, <2>2 DEF TypeOK, Reading
    <2>3. CASE get[g].id # i
      BY <1>0, <2>1, <2>3 DEF TypeOK, Reading
    <2>. QED
      BY <2>2, <2>3
  <1>7. ASSUME NEW g \in Gets, Describe(g)
        PROVE  \/ meta'[i] \in {"forever", "after"}
               \/ \E h \in Gets : get'[h].at = "describe" /\ get'[h].id = i
    <2>1. /\ get[g].at = "describe" /\ get' = [get EXCEPT ![g].at = "expire"]
          /\ data' = data /\ meta' = [meta EXCEPT ![get[g].id] = "forever"]
      BY <1>0, <1>7 DEF Describe, Goto
    <2>2. CASE get[g].id = i
      BY <2>1, <2>2 DEF TypeOK, Reading
    <2>3. CASE get[g].id # i
      BY <1>0, <2>1, <2>3 DEF TypeOK, Reading
    <2>. QED
      BY <2>2, <2>3
  <1>8. ASSUME NEW g \in Gets, Limit(g)
        PROVE  \/ meta'[i] \in {"forever", "after"}
               \/ \E h \in Gets : get'[h].at = "describe" /\ get'[h].id = i
    <2>1. /\ get[g].at = "expire" /\ get' = [get EXCEPT ![g].at = "idle", ![g].value = 0]
          /\ data' = data
          /\ meta' = [meta EXCEPT ![get[g].id] = IF @ = "absent" THEN @ ELSE "after"]
      BY <1>0, <1>8 DEF Limit, End
    <2>2. /\ \A h \in Gets : get[h].at = "describe" => get'[h] = get[h]
          /\ meta[i] \in {"forever", "after"} => meta'[i] \in {"forever", "after"}
      BY <2>1 DEF TypeOK, Reading
    <2>. QED
      BY <1>0, <2>1, <2>2
  <1>9. ASSUME NEW p \in Patches, Delete(p)
        PROVE  \/ meta'[i] \in {"forever", "after"}
               \/ \E h \in Gets : get'[h].at = "describe" /\ get'[h].id = i
    BY <1>0, <1>9 DEF Delete, TypeOK
  <1>10. ASSUME NEW j \in Ids, Expire(j)
         PROVE  \/ meta'[i] \in {"forever", "after"}
                \/ \E h \in Gets : get'[h].at = "describe" /\ get'[h].id = i
    BY <1>0, <1>10 DEF Expire, ExpireData, ExpireMeta, TypeOK
  <1>11. \A p \in Patches :
            (\E j \in Ids : Invalidate(p, j)) \/ Scan(p) \/ Check(p) \/ Update(p)
              => UNCHANGED <<data, meta, get>>
    BY DEF Invalidate, Scan, Check, Update
  <1>. QED
    BY <1>1, <1>2, <1>3, <1>4, <1>5, <1>6, <1>7, <1>8, <1>9, <1>10, <1>11
       DEF Next, vars, GetStep, PatchStep
-----------------------------------------------------------------------------
(* Apart: a PATCH that meets no GET leaves nothing old behind.             *)

\* A step of a GET that neither reads the row nor stores it.
LEMMA ApartGet ==
    ASSUME TypeOK, NEW i \in Ids, ApartOf(i), UNCHANGED <<user, patch>>,
           data'[i] \in {data[i], NoData},
           \A g \in Gets : get'[g].at \in Storages =>
               /\ get[g].at \in Storages
               /\ get'[g].id = get[g].id /\ get'[g].value = get[g].value
    PROVE  ApartOf(i)'
  <1>1. Patching(i)' <=> Patching(i)
    BY DEF Patching
  <1>2. Storing(i)' => Storing(i)
    BY DEF Storing
  <1>3. \A p \in Patches : ToCome(p, i)' <=> ToCome(p, i)
    BY DEF ToCome
  <1>. QED
    BY <1>1, <1>2, <1>3 DEF ApartOf

LEMMA ApartGets ==
    ASSUME TypeOK, Apart, NEW g \in Gets, GetStep(g) \/ \E j \in Ids : LookUp(g, j),
           Never({"store", "invalidate"}), ~Fail("store"), NEW i \in Ids \ mixed'
    PROVE  ApartOf(i)'
  <1>0. mixed \subseteq mixed'
    BY DEF GetStep, LookUp, Touch, Rewrite, Read, Store, Describe, Limit
  <1>1. ApartOf(i)
    BY <1>0 DEF Apart
  <1>2. CASE \E j \in Ids : LookUp(g, j)
    <2>1. \A h \in Gets : get'[h].at \in Storages => get'[h] = get[h]
      BY <1>2 DEF LookUp, TypeOK, Storages
    <2>. QED
      BY <1>1, <1>2, <2>1, ApartGet DEF LookUp
  <1>3. CASE Touch(g)
    <2>1. \A h \in Gets : get'[h].at \in Storages => get'[h] = get[h]
      BY <1>3 DEF Touch, TypeOK, Storages, Goto, End, Reading
    <2>. QED
      BY <1>1, <1>3, <2>1, ApartGet DEF Touch
  <1>4. CASE Rewrite(g)
    <2>1. \A h \in Gets : get'[h].at \in Storages => get'[h] = get[h]
      BY <1>4 DEF Rewrite, TypeOK, Storages, Goto, End, Reading
    <2>. QED
      BY <1>1, <1>4, <2>1, ApartGet DEF Rewrite
  <1>5. CASE Describe(g)
    <2>1. \A h \in Gets : get'[h].at \in Storages =>
             /\ get[h].at \in Storages
             /\ get'[h].id = get[h].id /\ get'[h].value = get[h].value
      BY <1>5 DEF Describe, TypeOK, Storages, Goto, End, Reading
    <2>. QED
      BY <1>1, <1>5, <2>1, ApartGet DEF Describe
  <1>6. CASE Limit(g)
    <2>1. \A h \in Gets : get'[h].at \in Storages => get'[h] = get[h]
      BY <1>6 DEF Limit, TypeOK, Storages, End, Reading
    <2>. QED
      BY <1>1, <1>6, <2>1, ApartGet DEF Limit
  <1>7. CASE Store(g)
    <2>1. /\ get[g].at = "store" /\ get' = [get EXCEPT ![g].at = "describe"]
          /\ data' = [data EXCEPT ![get[g].id] = get[g].value]
          /\ UNCHANGED <<user, patch>>
      BY <1>7 DEF Store, Goto
    <2>2. \A h \in Gets : get'[h].at \in Storages =>
             /\ get[h].at \in Storages
             /\ get'[h].id = get[h].id /\ get'[h].value = get[h].value
      BY <2>1 DEF TypeOK, Storages, Reading
    <2>3. CASE get[g].id # i
      BY <1>1, <2>1, <2>2, <2>3, ApartGet DEF TypeOK
    <2>4. CASE get[g].id = i
      <3>1. Storing(i) /\ get[g].value = user[i]
        BY <1>1, <2>1, <2>4 DEF Storing, Storages, ApartOf
      <3>2. ~Patching(i) /\ ~Patching(i)'
        BY <1>1, <2>1, <3>1 DEF ApartOf, Patching
      <3>3. data'[i] = user[i]
        BY <2>1, <2>4, <3>1 DEF TypeOK
      <3>. QED
        BY <1>1, <2>1, <2>2, <3>2, <3>3 DEF ApartOf
    <2>. QED
      BY <2>3, <2>4
  <1>8. CASE Read(g)
    <2>1. /\ get' = [get EXCEPT ![g].at = "store", ![g].value = user[get[g].id]]
          /\ UNCHANGED <<user, data, patch>>
      BY <1>8 DEF Read
    <2>2. \A h \in Gets : h # g => get'[h] = get[h]
      BY <2>1 DEF TypeOK
    <2>3. get'[g].id = get[g].id /\ get'[g].value = user[get[g].id]
      BY <2>1 DEF TypeOK, Reading
    <2>4. \A p \in Patches : ToCome(p, i)' <=> ToCome(p, i)
      BY <2>1 DEF ToCome
    <2>5. Patching(i)' <=> Patching(i)
      BY <2>1 DEF Patching
    <2>6. get[g].id = i => ~Patching(i)
      BY <1>8 DEF Read
    <2>7. Storing(i)' => Storing(i) \/ get[g].id = i
      BY <2>2, <2>3 DEF Storing
    <2>. QED
      BY <1>1, <2>1, <2>2, <2>3, <2>4, <2>5, <2>6, <2>7 DEF ApartOf
  <1>. QED
    BY <1>2, <1>3, <1>4, <1>5, <1>6, <1>7, <1>8 DEF GetStep

\* A step of a PATCH that changes no data, and passes a key only without data.
LEMMA ApartPatch ==
    ASSUME TypeOK, NEW i \in Ids, ApartOf(i), UNCHANGED <<user, get>>,
           data'[i] \in {data[i], NoData},
           \A p \in Patches : (patch'[p].at # "idle" /\ patch'[p].id = i)
                               <=> (patch[p].at # "idle" /\ patch[p].id = i),
           \A p \in Patches : ToCome(p, i) => ToCome(p, i)' \/ data'[i] = NoData
    PROVE  ApartOf(i)'
  <1>1. Patching(i)' <=> Patching(i)
    BY DEF Patching
  <1>2. Storing(i)' <=> Storing(i)
    BY DEF Storing
  <1>. QED
    BY <1>1, <1>2 DEF ApartOf

LEMMA ApartPatches ==
    ASSUME TypeOK, Apart, Described, Thorough, NEW p \in Patches,
           PatchStep(p) \/ \E j \in Ids : Invalidate(p, j),
           Never({"store", "invalidate"}), ~Fail("invalidate"), NEW i \in Ids \ mixed'
    PROVE  ApartOf(i)'
  <1>0. Never({"store"}) /\ Never({"invalidate"})
    BY DEF Never
  <1>1. ASSUME NEW j \in Ids, Invalidate(p, j)
        PROVE  ApartOf(i)'
    <2>1. /\ patch' = [patch EXCEPT ![p] = [at |-> "scan", id |-> j, todo |-> Ids, key |-> j]]
          /\ patch[p].at = "idle"
          /\ UNCHANGED <<user, data, get>>
      BY <1>1 DEF Invalidate
    <2>2. \A q \in Patches : q # p => patch'[q] = patch[q]
      BY <2>1 DEF TypeOK
    <2>3. patch'[p] = [at |-> "scan", id |-> j, todo |-> Ids, key |-> j]
      BY <2>1 DEF TypeOK
    <2>4. CASE i = j
      <3>1. ~Storing(i) /\ ~Storing(i)'
        BY <1>1, <2>1, <2>4 DEF Invalidate, Storing
      <3>2. Patching(i)' /\ ToCome(p, i)'
        BY <2>3, <2>4 DEF Patching, ToCome
      <3>3. \A g \in Gets : get'[g].id = i /\ get'[g].at \in Storages => FALSE
        BY <3>1 DEF Storing
      <3>. QED
        BY <3>1, <3>2, <3>3 DEF ApartOf
    <2>5. CASE i # j
      <3>1. i \notin mixed
        BY <1>1, <2>5 DEF Invalidate
      <3>2. ApartOf(i)
        BY <3>1 DEF Apart
      <3>3. \A q \in Patches : ToCome(q, i) => ToCome(q, i)'
        BY <2>1, <2>2, <2>3 DEF ToCome
      <3>. QED
        BY <2>1, <2>2, <2>3, <2>5, <3>2, <3>3, ApartPatch
    <2>. QED
      BY <2>4, <2>5
  <1>2. ASSUME mixed' = mixed
        PROVE  ApartOf(i)
    BY <1>2 DEF Apart
  <1>3. CASE Scan(p)
    <2>1. ApartOf(i)
      BY <1>2, <1>3 DEF Scan
    <2>2. \A q \in Patches : /\ patch'[q].id = patch[q].id
                             /\ patch'[q].at = "idle" <=> patch[q].at = "idle"
      <3>1. CASE Turn(p, "update")
        <4>1. patch'[p].id = patch[p].id /\ patch'[p].at = "update"
          BY <3>1 DEF Turn, TypeOK, Writing
        <4>2. \A q \in Patches \ {p} : patch'[q] = patch[q]
          BY <3>1 DEF Turn, TypeOK
        <4>3. patch[p].at = "scan"
          BY <1>3 DEF Scan
        <4>. QED
          BY <4>1, <4>2, <4>3
      <3>2. ASSUME NEW j \in patch[p].todo, patch' =
                   [patch EXCEPT ![p].todo = @ \ {j}, ![p].key = j,
                                 ![p].at = IF meta[j] = "absent" THEN "scan" ELSE "check"]
            PROVE  \A q \in Patches : /\ patch'[q].id = patch[q].id
                                      /\ patch'[q].at = "idle" <=> patch[q].at = "idle"
        <4>1. /\ patch'[p].id = patch[p].id
              /\ patch'[p].at = IF meta[j] = "absent" THEN "scan" ELSE "check"
          BY <3>2 DEF TypeOK, Writing
        <4>2. \A q \in Patches \ {p} : patch'[q] = patch[q]
          BY <3>2 DEF TypeOK
        <4>3. patch[p].at = "scan"
          BY <1>3 DEF Scan
        <4>. QED
          BY <4>1, <4>2, <4>3
      <3>. QED
        BY <1>3, <3>1, <3>2 DEF Scan
    <2>3. \A q \in Patches \ {p} : patch'[q] = patch[q]
      BY <1>3 DEF Scan, Turn, TypeOK
    <2>4. ToCome(p, i) => ToCome(p, i)' \/ data'[i] = NoData
      <3>. SUFFICES ASSUME ToCome(p, i), data[i] # NoData
                    PROVE  ToCome(p, i)'
        BY <1>3 DEF Scan
      <3>1. i \in patch[p].todo
        BY <1>3 DEF Scan, ToCome
      <3>2. PICK j \in patch[p].todo : patch' =
                   [patch EXCEPT ![p].todo = @ \ {j}, ![p].key = j,
                                 ![p].at = IF meta[j] = "absent" THEN "scan" ELSE "check"]
        BY <1>3, <3>1 DEF Scan
      <3>3. /\ patch'[p].todo = patch[p].todo \ {j} /\ patch'[p].key = j
            /\ patch'[p].at = IF meta[j] = "absent" THEN "scan" ELSE "check"
        BY <3>2 DEF TypeOK, Writing
      <3>4. meta[i] # "absent"
        <4>1. Patching(i)
          BY DEF ToCome, Patching
        <4>2. ~Storing(i)
          BY <2>1, <4>1 DEF ApartOf
        <4>. QED
          BY <1>0, <4>2 DEF Described, Storing, Storages
      <3>. QED
        BY <2>2, <3>1, <3>3, <3>4 DEF ToCome
    <2>. QED
      <3>1. \A q \in Patches : ToCome(q, i) => ToCome(q, i)' \/ data'[i] = NoData
        BY <2>3, <2>4 DEF ToCome
      <3>. QED
        BY <1>3, <2>1, <2>2, <3>1, ApartPatch DEF Scan
  <1>4. CASE Check(p)
    <2>1. ApartOf(i)
      BY <1>2, <1>4 DEF Check
    <2>2. /\ patch[p].at = "check"
          /\ \/ patch' = [patch EXCEPT ![p].at = "delete"]
             \/ patch' = [patch EXCEPT ![p].at = "scan"] /\ meta[patch[p].key] = "absent"
      BY <1>4 DEF Check, Turn
    <2>3. \A q \in Patches : /\ patch'[q].id = patch[q].id
                             /\ patch'[q].at = "idle" <=> patch[q].at = "idle"
      BY <2>2 DEF TypeOK, Writing
    <2>4. \A q \in Patches \ {p} : patch'[q] = patch[q]
      BY <2>2 DEF TypeOK
    <2>5. ToCome(p, i) => ToCome(p, i)' \/ data'[i] = NoData
      <3>. SUFFICES ASSUME ToCome(p, i), data[i] # NoData
                    PROVE  ToCome(p, i)'
        BY <1>4 DEF Check
      <3>1. meta[i] # "absent"
        <4>1. Patching(i)
          BY DEF ToCome, Patching
        <4>2. ~Storing(i)
          BY <2>1, <4>1 DEF ApartOf
        <4>. QED
          BY <1>0, <4>2 DEF Described, Storing, Storages
      <3>2. patch'[p].todo = patch[p].todo /\ patch'[p].key = patch[p].key
        BY <2>2 DEF TypeOK, Writing
      <3>3. patch[p].key = i => patch'[p].at = "delete"
        BY <2>2, <3>1 DEF TypeOK, Writing
      <3>. QED
        BY <2>3, <3>2, <3>3 DEF ToCome
    <2>. QED
      <3>1. \A q \in Patches : ToCome(q, i) => ToCome(q, i)' \/ data'[i] = NoData
        BY <2>4, <2>5 DEF ToCome
      <3>. QED
        BY <1>4, <2>1, <2>3, <3>1, ApartPatch DEF Check
  <1>5. CASE Delete(p)
    <2>1. ApartOf(i)
      BY <1>2, <1>5 DEF Delete
    <2>2. /\ patch' = [patch EXCEPT ![p].at = "scan"] /\ patch[p].at = "delete"
          /\ data' = [data EXCEPT ![patch[p].key] = NoData]
      BY <1>5 DEF Delete, Turn
    <2>3. \A q \in Patches : /\ patch'[q].id = patch[q].id
                             /\ patch'[q].at = "idle" <=> patch[q].at = "idle"
                             /\ patch'[q].todo = patch[q].todo
      BY <2>2 DEF TypeOK, Writing
    <2>4. \A q \in Patches \ {p} : patch'[q] = patch[q]
      BY <2>2 DEF TypeOK
    <2>5. data'[i] \in {data[i], NoData} /\ (patch[p].key = i => data'[i] = NoData)
      BY <2>2 DEF TypeOK
    <2>. QED
      <3>1. \A q \in Patches : ToCome(q, i) => ToCome(q, i)' \/ data'[i] = NoData
        BY <2>3, <2>4, <2>5 DEF ToCome
      <3>. QED
        BY <1>5, <2>1, <2>3, <2>5, <3>1, ApartPatch DEF Delete
  <1>6. CASE Update(p)
    <2>1. ApartOf(i)
      BY <1>2, <1>6 DEF Update
    <2>2. /\ patch[p].at = "update" /\ patch[p].todo = {}
          /\ user' = [user EXCEPT ![patch[p].id] = @ + 1]
          /\ UNCHANGED <<data, get>>
      BY <1>0, <1>6 DEF Update, Thorough
    <2>3. \A q \in Patches \ {p} : patch'[q] = patch[q]
      BY <1>6 DEF Update, TypeOK
    <2>4. patch'[p].at = "idle"
      BY <1>6 DEF Update, TypeOK, Writing
    <2>5. Storing(i)' <=> Storing(i)
      BY <2>2 DEF Storing
    <2>6. ~ToCome(p, i) /\ \A q \in Patches : ToCome(q, i) => ToCome(q, i)'
      BY <2>2, <2>3 DEF ToCome
    <2>7. CASE patch[p].id = i
      <3>1. Patching(i) /\ ~Storing(i)
        BY <2>1, <2>2, <2>7 DEF Patching, ApartOf
      <3>2. \A g \in Gets : get'[g].id = i /\ get'[g].at \in Storages => FALSE
        BY <2>2, <3>1 DEF Storing
      <3>3. data[i] = NoData \/ \E q \in Patches : ToCome(q, i)'
        BY <2>1, <2>6, <3>1 DEF ApartOf
      <3>4. (\E q \in Patches : ToCome(q, i)') => Patching(i)'
        BY DEF ToCome, Patching
      <3>. QED
        BY <2>2, <2>5, <3>1, <3>2, <3>3, <3>4 DEF ApartOf
    <2>8. CASE patch[p].id # i
      <3>1. user'[i] = user[i]
        BY <2>2, <2>8 DEF TypeOK
      <3>2. Patching(i)' <=> Patching(i)
        BY <2>3, <2>4, <2>8 DEF Patching
      <3>. QED
        BY <2>1, <2>2, <2>5, <2>6, <3>1, <3>2 DEF ApartOf
    <2>. QED
      BY <2>7, <2>8
  <1>. QED
    BY <1>1, <1>3, <1>4, <1>5, <1>6 DEF PatchStep

LEMMA ApartStep ==
    ASSUME IInv, [Next]_vars
    PROVE  Apart'
  <1>. TypeOK /\ Described /\ Apart /\ Thorough
    BY DEF IInv
  <1>. SUFFICES ASSUME Never({"store", "invalidate"})', NEW i \in Ids \ mixed'
                PROVE  ApartOf(i)'
    BY DEF Apart
  <1>0. Never({"store", "invalidate"}) /\ ~Fail("store") /\ ~Fail("invalidate")
    BY NeverBefore DEF Kinds
  <1>1. CASE UNCHANGED vars
    BY <1>0, <1>1, ApartGet DEF Apart, vars
  <1>2. CASE \E j \in Ids : Expire(j)
    <2>1. /\ data'[i] \in {data[i], NoData}
          /\ UNCHANGED <<user, get, patch, mixed>>
      BY <1>2 DEF Expire, ExpireData, ExpireMeta, TypeOK
    <2>. QED
      BY <1>0, <2>1, ApartGet DEF Apart
  <1>. QED
    BY <1>0, <1>1, <1>2, ApartGets, ApartPatches DEF Next

-----------------------------------------------------------------------------
(* The invariant holds, whatever the users, the requests and the bounds.   *)
THEOREM Invariance == Spec => []IInv
  <1>1. IInv /\ [Next]_vars => IInv'
    BY TypeStep, DescribedStep, ThoroughStep, ApartStep DEF IInv
  <1>. QED
    BY <1>1, InitInv, PTL DEF Spec

(* When the PATCHes of a user have ended, the cache has no old row, unless *)
(* the latest of them met a GET that was storing, or Redis failed.         *)
THEOREM NothingOldStays == Spec => []FreshUnlessMixed
  <1>1. IInv => FreshUnlessMixed
    BY DEF IInv, Apart, ApartOf, FreshUnlessMixed
  <1>. QED
    BY <1>1, Invariance, PTL
=============================================================================
