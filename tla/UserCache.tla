------------------------------- MODULE UserCache -------------------------------
(***************************************************************************)
(* The users of auth-service behind their cache: the users controller with *)
(* CacheInterceptor around its handlers, CachingService, and the keys that *)
(* these write to Redis.                                                   *)
(*                                                                         *)
(* GET /users/:id answers from cache:user:id, or reads the database and    *)
(* stores what it read without waiting for it.  PATCH /users/:id deletes   *)
(* by the tag "users", and then updates.  The tag is in the metadata of a  *)
(* key, which is a key of its own.                                         *)
(*                                                                         *)
(* Every command to Redis is a step, and so is every statement to the      *)
(* database.  A row is known by the number of its updates.                 *)
(***************************************************************************)
EXTENDS Integers, FiniteSets

CONSTANTS
    Ids,         \* ids of users, all of whom exist
    Gets,        \* requests for a user, one after the other in each
    Patches,     \* requests to change a user
    MaxVersion,  \* bounds the updates of a user
    MaxMishaps,  \* bounds the failures of Redis
    NoData

VARIABLES
    user,    \* the rows of the users table
    data,    \* cache:user:id
    meta,    \* cache:user:id:meta: whether it is there, and when it expires
    get,     \* of each GET: the stage, the user and the value
    patch,   \* of each PATCH: the stage, the user, and the keys to look at
    mixed,   \* history: users with a PATCH and the storing of a GET under way
    faults   \* failures of Redis so far, by kind

vars == <<user, data, meta, get, patch, mixed, faults>>

ASSUME BoundsAssumption == MaxVersion \in Nat /\ MaxMishaps \in Nat
ASSUME NoDataAssumption == NoData \notin Nat
ASSUME IdsAssumption == Ids # {}

Kinds == {"get", "store", "invalidate"}

\* Metadata without a time to live stays; with one, it expires before or
\* after the data, which were given theirs later or earlier.
Lifetimes == {"absent", "forever", "before", "after"}

GetStages == {"idle", "touch", "rewrite", "read", "store", "describe", "expire"}
PatchStages == {"idle", "scan", "check", "delete", "update"}

Reading == [at : GetStages, id : Ids, value : Nat]
Writing == [at : PatchStages, id : Ids, todo : SUBSET Ids, key : Ids]

TypeOK ==
    /\ user \in [Ids -> Nat]
    /\ data \in [Ids -> Nat \union {NoData}]
    /\ meta \in [Ids -> Lifetimes]
    /\ get \in [Gets -> Reading]
    /\ patch \in [Patches -> Writing]
    /\ mixed \subseteq Ids
    /\ faults \in [Kinds -> Nat]

Init ==
    /\ user = [i \in Ids |-> 0]
    /\ data = [i \in Ids |-> NoData]
    /\ meta = [i \in Ids |-> "absent"]
    /\ \E i \in Ids :
         /\ get = [g \in Gets |-> [at |-> "idle", id |-> i, value |-> 0]]
         /\ patch = [p \in Patches |-> [at |-> "idle", id |-> i, todo |-> {}, key |-> i]]
    /\ mixed = {}
    /\ faults = [k \in Kinds |-> 0]

Never(kinds) == \A k \in kinds : faults[k] = 0
\* A failure ends what CachingService does, and is only logged.
Fail(k) ==
    /\ faults["get"] + faults["store"] + faults["invalidate"] < MaxMishaps
    /\ faults' = [faults EXCEPT ![k] = @ + 1]

Goto(g, stage) == get' = [get EXCEPT ![g].at = stage]
End(g) == get' = [get EXCEPT ![g].at = "idle", ![g].value = 0]
Turn(p, stage) == patch' = [patch EXCEPT ![p].at = stage]

\* A GET that has read the row and not yet ended its work on the cache.
Storages == {"store", "describe", "expire"}
Storing(i) == \E g \in Gets : get[g].at \in Storages /\ get[g].id = i
Patching(i) == \E p \in Patches : patch[p].at # "idle" /\ patch[p].id = i

-----------------------------------------------------------------------------
(* GET: CachingService.get.                                                *)

LookUp(g, i) ==
    /\ get[g].at = "idle"
    /\ \/ /\ data[i] # NoData
          /\ get' = [get EXCEPT ![g] = [at |-> "touch", id |-> i, value |-> data[i]]]
          /\ UNCHANGED faults
       \/ /\ data[i] = NoData
          /\ get' = [get EXCEPT ![g] = [at |-> "read", id |-> i, value |-> 0]]
          /\ UNCHANGED faults
       \/ /\ Fail("get")
          /\ get' = [get EXCEPT ![g] = [at |-> "read", id |-> i, value |-> 0]]
    /\ UNCHANGED <<user, data, meta, patch, mixed>>

\* updateMetadata reads the metadata; a failure makes the hit a miss.
Touch(g) ==
    /\ get[g].at = "touch"
    /\ \/ meta[get[g].id] # "absent" /\ Goto(g, "rewrite") /\ UNCHANGED faults
       \/ meta[get[g].id] = "absent" /\ End(g) /\ UNCHANGED faults
       \/ Fail("get") /\ Goto(g, "read")
    /\ UNCHANGED <<user, data, meta, patch, mixed>>

\* Mutant: a hit stores the data again, so that what is used stays.
RewriteBoth(g) ==
    /\ get[g].at = "rewrite"
    /\ meta' = [meta EXCEPT ![get[g].id] = "forever"]
    /\ data' = [data EXCEPT ![get[g].id] = get[g].value]
    /\ End(g)
    /\ UNCHANGED <<user, patch, mixed, faults>>

\* It writes them back with SET, which ends their time to live, and brings
\* them back when they were deleted meanwhile.
Rewrite(g) ==
    /\ get[g].at = "rewrite"
    /\ \/ meta' = [meta EXCEPT ![get[g].id] = "forever"] /\ End(g) /\ UNCHANGED faults
       \/ Fail("get") /\ Goto(g, "read") /\ UNCHANGED meta
    /\ UNCHANGED <<user, data, patch, mixed>>

-----------------------------------------------------------------------------
(* GET: the handler, and CachingService.set after the answer.              *)

Read(g) ==
    LET i == get[g].id IN
    /\ get[g].at = "read"
    /\ get' = [get EXCEPT ![g].at = "store", ![g].value = user[i]]
    /\ mixed' = IF Patching(i) THEN mixed \union {i} ELSE mixed
    /\ UNCHANGED <<user, data, meta, patch, faults>>

\* Metadata with a time to live now expire first.
Overtaken(life) == IF life = "after" THEN "before" ELSE life

\* setWithTTL.
Store(g) ==
    /\ get[g].at = "store"
    /\ \/ /\ data' = [data EXCEPT ![get[g].id] = get[g].value]
          /\ meta' = [meta EXCEPT ![get[g].id] = Overtaken(@)]
          /\ Goto(g, "describe")
          /\ UNCHANGED faults
       \/ Fail("store") /\ End(g) /\ UNCHANGED <<data, meta>>
    /\ UNCHANGED <<user, patch, mixed>>

\* storeMetadata: SET and EXPIRE.
Describe(g) ==
    /\ get[g].at = "describe"
    /\ \/ meta' = [meta EXCEPT ![get[g].id] = "forever"] /\ Goto(g, "expire") /\ UNCHANGED faults
       \/ Fail("store") /\ End(g) /\ UNCHANGED meta
    /\ UNCHANGED <<user, data, patch, mixed>>

Limit(g) ==
    /\ get[g].at = "expire"
    /\ End(g)
    /\ \/ /\ meta' = [meta EXCEPT ![get[g].id] = IF @ = "absent" THEN @ ELSE "after"]
          /\ UNCHANGED faults
       \/ Fail("store") /\ UNCHANGED meta
    /\ UNCHANGED <<user, data, patch, mixed>>

-----------------------------------------------------------------------------
(* PATCH: deleteByTag, and then the handler.                               *)

\* The history starts anew with a PATCH that meets no GET.
Invalidate(p, i) ==
    /\ patch[p].at = "idle"
    /\ user[i] < MaxVersion
    /\ patch' = [patch EXCEPT ![p] = [at |-> "scan", id |-> i, todo |-> Ids, key |-> i]]
    /\ mixed' = IF Storing(i) THEN mixed \union {i} ELSE mixed \ {i}
    /\ UNCHANGED <<user, data, meta, get, faults>>

\* SCAN returns each key that stays, one that comes or goes perhaps.
Scan(p) ==
    /\ patch[p].at = "scan"
    /\ \/ /\ \E i \in patch[p].todo :
               patch' = [patch EXCEPT ![p].todo = @ \ {i}, ![p].key = i,
                                      ![p].at = IF meta[i] = "absent" THEN "scan" ELSE "check"]
          /\ UNCHANGED faults
       \/ patch[p].todo = {} /\ Turn(p, "update") /\ UNCHANGED faults
       \/ Fail("invalidate") /\ Turn(p, "update")
    /\ UNCHANGED <<user, data, meta, get, mixed>>

\* Metadata that are gone when they are read keep the data, too.
Check(p) ==
    /\ patch[p].at = "check"
    /\ \/ meta[patch[p].key] # "absent" /\ Turn(p, "delete") /\ UNCHANGED faults
       \/ meta[patch[p].key] = "absent" /\ Turn(p, "scan") /\ UNCHANGED faults
       \/ Fail("invalidate") /\ Turn(p, "update")
    /\ UNCHANGED <<user, data, meta, get, mixed>>

\* Mutant: the name of the data is not derived from that of the metadata.
DeleteMetaOnly(p) ==
    /\ patch[p].at = "delete"
    /\ meta' = [meta EXCEPT ![patch[p].key] = "absent"]
    /\ Turn(p, "scan")
    /\ UNCHANGED <<user, data, get, mixed, faults>>

Delete(p) ==
    /\ patch[p].at = "delete"
    /\ \/ /\ data' = [data EXCEPT ![patch[p].key] = NoData]
          /\ meta' = [meta EXCEPT ![patch[p].key] = "absent"]
          /\ Turn(p, "scan")
          /\ UNCHANGED faults
       \/ Fail("invalidate") /\ Turn(p, "update") /\ UNCHANGED <<data, meta>>
    /\ UNCHANGED <<user, get, mixed>>

Update(p) ==
    /\ patch[p].at = "update"
    /\ user' = [user EXCEPT ![patch[p].id] = @ + 1]
    /\ patch' = [patch EXCEPT ![p].at = "idle", ![p].todo = {}, ![p].key = patch[p].id]
    /\ UNCHANGED <<data, meta, get, mixed, faults>>

-----------------------------------------------------------------------------
(* Redis: the same hour for data and metadata.                             *)

ExpireData(i) ==
    /\ data[i] # NoData /\ meta[i] # "before"
    /\ data' = [data EXCEPT ![i] = NoData]
    /\ UNCHANGED <<user, meta, get, patch, mixed, faults>>

ExpireMeta(i) ==
    /\ \/ meta[i] = "before"
       \/ meta[i] = "after" /\ data[i] = NoData
    /\ meta' = [meta EXCEPT ![i] = "absent"]
    /\ UNCHANGED <<user, data, get, patch, mixed, faults>>

Expire(i) == ExpireData(i) \/ ExpireMeta(i)

GetStep(g) == Touch(g) \/ Rewrite(g) \/ Read(g) \/ Store(g) \/ Describe(g) \/ Limit(g)
PatchStep(p) == Scan(p) \/ Check(p) \/ Delete(p) \/ Update(p)

Next ==
    \/ \E g \in Gets : GetStep(g)
    \/ \E g \in Gets, i \in Ids : LookUp(g, i)
    \/ \E p \in Patches : PatchStep(p)
    \/ \E p \in Patches, i \in Ids : Invalidate(p, i)
    \/ \E i \in Ids : Expire(i)

Spec == Init /\ [][Next]_vars

\* Requests go on, and an hour ends.
FairSpec ==
    /\ Spec
    /\ \A g \in Gets : WF_vars(GetStep(g))
    /\ \A p \in Patches : WF_vars(PatchStep(p))
    /\ \A i \in Ids : WF_vars(Expire(i))

-----------------------------------------------------------------------------
(* Data that a PATCH has to find have metadata, or get them now; these     *)
(* never expire first.                                                     *)
Described ==
    Never({"store"}) => \A i \in Ids : data[i] # NoData =>
        \/ meta[i] \in {"forever", "after"}
        \/ \E g \in Gets : get[g].at = "describe" /\ get[g].id = i

(* When the PATCHes of a user have ended, the cache has no old row, unless *)
(* the latest of them met a GET that was storing, or Redis failed: the tag *)
(* finds what was stored before, however GETs stored, hit or rewrote it.   *)
FreshUnlessMixed ==
    Never({"store", "invalidate"}) =>
        \A i \in Ids \ mixed : Patching(i) \/ data[i] \in {NoData, user[i]}

(* Once the users change no more, the cache comes to hold their rows or    *)
(* nothing, for good: what a GET that met a PATCH left behind, or a        *)
(* failure of Redis, is not kept alive by hits.                            *)
OldRowsGo == <>[](\A i \in Ids : data[i] \in {NoData, user[i]})

-----------------------------------------------------------------------------
(* The invariant behind FreshUnlessMixed.                                  *)

\* A PATCH of i that has not yet passed its key.
ToCome(p, i) ==
    /\ patch[p].at # "idle" /\ patch[p].id = i
    /\ i \in patch[p].todo \/ (patch[p].at \in {"check", "delete"} /\ patch[p].key = i)

ApartOf(i) ==
    /\ ~Patching(i) => data[i] \in {NoData, user[i]}
    /\ Patching(i) => data[i] = NoData \/ \E p \in Patches : ToCome(p, i)
    /\ \A g \in Gets : get[g].id = i /\ get[g].at \in Storages => get[g].value = user[i]
    /\ Patching(i) => ~Storing(i)

Apart == Never({"store", "invalidate"}) => \A i \in Ids \ mixed : ApartOf(i)

\* A PATCH looks at every key before it updates.
Thorough ==
    Never({"invalidate"}) => \A p \in Patches : patch[p].at = "update" => patch[p].todo = {}

IInv == TypeOK /\ Described /\ Apart /\ Thorough
=============================================================================
