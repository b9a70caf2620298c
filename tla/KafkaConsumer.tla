----------------------------- MODULE KafkaConsumer -----------------------------
(***************************************************************************)
(* The shared KafkaConsumer: the members of a consumer group on one        *)
(* partition, with autoCommit off.  A member handles one message at a time *)
(* and commits its offset once the handler resolved; whatever is thrown is *)
(* caught, and the member goes on with the next message.                   *)
(*                                                                         *)
(* A member that lost the partition goes on with the message it has in     *)
(* hand, and its commit is rejected.  Offsets start at 1.                  *)
(***************************************************************************)
EXTENDS Partition

CONSTANTS Members, NoMember

VARIABLES
    committed,  \* the offset the group goes on from, 0 if none was committed
    owner,      \* the member the partition is assigned to
    member,     \* of each member: the next offset, the one in hand or 0, its stage
    base,       \* history: the first offset ever committed, or 0
    handled,    \* history: offsets whose handler resolved at least once
    failed      \* history: offsets whose handler threw at least once

consumerVars == <<log, committed, owner, member, base, handled, failed>>

Idle == [position |-> 0, hand |-> 0, at |-> "idle"]

ConsumerTypeOK ==
    /\ committed \in Nat /\ base \in Nat
    /\ owner \in Members \union {NoMember}
    /\ member \in [Members -> [position : Nat, hand : Nat,
                               at : {"idle", "handle", "commit"}]]
    /\ handled \subseteq Nat /\ failed \subseteq Nat
    /\ log \in Seq(Events)

ConsumerInit ==
    /\ committed = 0 /\ base = 0 /\ handled = {} /\ failed = {}
    /\ log = <<>>
    /\ owner = NoMember
    /\ member = [m \in Members |-> Idle]

\* Mutant: a group that lost its member starts at the end again.
StartAtEnd == Len(log) + 1
\* fromBeginning: false - a group that never committed starts at the end.
StartOffset == IF committed = 0 THEN Len(log) + 1 ELSE committed

\* connect and subscribe: the broker assigns the partition to a member that
\* is free to poll.
Join(m) ==
    /\ owner # m /\ member[m].at = "idle"
    /\ owner' = m
    /\ member' = [member EXCEPT ![m].position = StartOffset]
    /\ UNCHANGED <<log, committed, base, handled, failed>>

Fetch(m) ==
    /\ owner = m /\ member[m].at = "idle"
    /\ member[m].position \in DOMAIN log
    /\ member' = [member EXCEPT ![m].hand = member[m].position, ![m].at = "handle"]
    /\ UNCHANGED <<log, committed, owner, base, handled, failed>>

Resolve(m) ==
    /\ member[m].at = "handle"
    /\ handled' = handled \union {member[m].hand}
    /\ member' = [member EXCEPT ![m].at = "commit"]
    /\ UNCHANGED <<log, committed, owner, base, failed>>

\* Next message, by the position the member has.
GoOn(m) == member' = [member EXCEPT ![m] =
                        [position |-> @.hand + 1, hand |-> 0, at |-> "idle"]]

\* Mutant: the offset is committed when the handler starts.
CommitEarly(m) ==
    /\ member[m].at \in {"handle", "commit"}
    /\ IF owner = m
       THEN /\ committed' = member[m].hand + 1
            /\ base' = IF base = 0 THEN committed' ELSE base
       ELSE UNCHANGED <<committed, base>>
    /\ IF member[m].at = "commit" THEN GoOn(m) ELSE UNCHANGED member
    /\ UNCHANGED <<log, owner, handled, failed>>

\* Rejected, which throws, unless the member still has the partition.
Commit(m) ==
    /\ member[m].at = "commit"
    /\ IF owner = m
       THEN /\ committed' = member[m].hand + 1
            /\ base' = IF base = 0 THEN committed' ELSE base
       ELSE UNCHANGED <<committed, base>>
    /\ GoOn(m)
    /\ UNCHANGED <<log, owner, handled, failed>>

CommitFails(m) ==
    /\ member[m].at = "commit"
    /\ GoOn(m)
    /\ UNCHANGED <<log, committed, owner, base, handled, failed>>

HandlerFails(m) ==
    /\ member[m].at = "handle"
    /\ failed' = failed \union {member[m].hand}
    /\ GoOn(m)
    /\ UNCHANGED <<log, committed, owner, base, handled>>

\* The process dies, and its session with it.
Die(m) ==
    /\ member' = [member EXCEPT ![m] = Idle]
    /\ owner' = IF owner = m THEN NoMember ELSE owner
    /\ UNCHANGED <<log, committed, base, handled, failed>>

\* Whoever produces for the topic.
Produce(r) ==
    /\ log' = Append(log, r)
    /\ UNCHANGED <<committed, owner, member, base, handled, failed>>

ConsumerNext ==
    \/ \E m \in Members : Join(m) \/ Fetch(m) \/ Resolve(m) \/ HandlerFails(m)
                          \/ Commit(m) \/ CommitFails(m) \/ Die(m)
    \/ \E r \in Events : Produce(r)

ConsumerSpec == ConsumerInit /\ [][ConsumerNext]_consumerVars

-----------------------------------------------------------------------------
(* At least once: from the first offset a group committed, the handler     *)
(* resolved or threw for every message the group will not read again,      *)
(* whoever dies, loses the partition or fails to commit.  (What it threw   *)
(* for is passed by the next commit and never comes back.)                 *)
HandledBelowCommit ==
    \A o \in 1..committed - 1 : base - 1 <= o => o \in handled \union failed

(* Inductive: the owner of the partition has been through everything       *)
(* between the group's offset and its own position.                        *)
ConsumerIInv ==
    /\ ConsumerTypeOK
    /\ base = 0 <=> committed = 0
    /\ base <= committed
    /\ HandledBelowCommit
    /\ \A m \in Members :
         member[m].at # "idle" => /\ member[m].hand = member[m].position
                                  /\ member[m].hand > 0 /\ member[m].hand \in DOMAIN log
    /\ \A m \in Members : member[m].at = "commit" => member[m].hand \in handled
    /\ owner \in Members /\ base # 0 =>
         /\ committed <= member[owner].position
         /\ \A o \in 1..member[owner].position - 1 :
              base - 1 <= o => o \in handled \union failed
=============================================================================
