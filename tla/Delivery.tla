------------------------------- MODULE Delivery --------------------------------
(***************************************************************************)
(* From an event to its effect, for the two consumers that no saga waits   *)
(* for:                                                                    *)
(*                                                                         *)
(* - inventory.stock_updated: transactions of inventory-service, its       *)
(*   Outbox, and product-service, which shows the stock in its catalogue;  *)
(* - notification.send: sent by the orchestrator's producer directly, and  *)
(*   notification-service, which sends e-mail and keeps NotificationLog.   *)
(*                                                                         *)
(* A behaviour follows one of the topics, with one partition (the broker   *)
(* is configured with KAFKA_NUM_PARTITIONS: 1) and one consumer group; the *)
(* rows of Outbox are its events.                                          *)
(***************************************************************************)
EXTENDS Outbox, KafkaConsumer

CONSTANTS
    Change,        \* what the transaction of a row does to the stock
    InitialStock,
    Topics,        \* the topics a behaviour may follow
    MaxMishaps     \* bounds the mishaps of a behaviour

VARIABLES
    topic,
    available,  \* inventory_item.available
    payload,    \* the available of each outbox row
    view,       \* product_stock.available
    step,       \* where a member is in NotificationService.send
    emails,     \* e-mails sent for each event
    logged,     \* events in NotificationLog
    faults      \* mishaps so far, by kind

Stock == "inventory.stock_updated"
Notification == "notification.send"

groupVars == <<committed, owner, member, base, handled, failed>>
effects == <<view, step, emails, logged>>
vars == <<created, accepted, published, log, job, committed, owner, member, base, handled,
          failed, topic, available, payload, view, step, emails, logged, faults>>

Kinds == {"overlap", "send", "mark", "parallel", "restart", "die", "rebalance", "commit",
          "handler", "late", "again", "email", "save"}

ASSUME ChangeAssumption == Change \in [Events -> Int] /\ InitialStock \in Int
ASSUME TopicsAssumption == Topics \subseteq {Stock, Notification}
ASSUME NoMemberAssumption == NoMember \notin Members
ASSUME MaxMishapsAssumption == MaxMishaps \in Nat

TypeOK ==
    /\ OutboxTypeOK /\ ConsumerTypeOK
    /\ topic \in Topics
    /\ available \in Int /\ view \in Int /\ payload \in [Events -> Int]
    /\ step \in [Members -> {"check", "email", "save"}]
    /\ emails \in [Events -> Nat] /\ logged \subseteq Events
    /\ faults \in [Kinds -> Nat]

Init ==
    /\ OutboxInit /\ ConsumerInit
    /\ topic \in Topics
    /\ available = InitialStock /\ view = InitialStock
    /\ payload = [r \in Events |-> 0]
    /\ step = [m \in Members |-> "check"]
    /\ emails = [r \in Events |-> 0] /\ logged = {}
    /\ faults = [k \in Kinds |-> 0]

Never(kinds) == \A k \in kinds : faults[k] = 0
\* A mishap that the behaviour must have room for, and one that follows
\* from another.
Note(k) == faults' = [faults EXCEPT ![k] = @ + 1]
Room == FoldFunction(+, 0, faults) < MaxMishaps
Spend(k) == Room /\ Note(k)
SpendIf(condition, k) == IF condition THEN Spend(k) ELSE UNCHANGED faults

-----------------------------------------------------------------------------
(* inventory-service.  A reservation reads the item, and writes what it    *)
(* computed; a release reads it for the event alone and adds in the        *)
(* database.  The event of both says what was computed.                    *)

Read(r) ==
    /\ topic = Stock
    /\ Begin(r)
    /\ payload' = [payload EXCEPT ![r] = available + Change[r]]
    /\ SpendIf(\E q \in Events : Open(q), "overlap")
    /\ UNCHANGED <<groupVars, topic, available, effects>>

Write(r) ==
    /\ CommitRow(r)
    /\ available' = IF Change[r] < 0 THEN payload[r] ELSE available + Change[r]
    /\ UNCHANGED <<groupVars, topic, payload, effects, faults>>

StartJob(p) ==
    /\ Find(p)
    /\ SpendIf(\E q \in Processes : isRunning(q), "parallel")
    /\ UNCHANGED <<groupVars, topic, available, payload, effects>>

PublishRow(p) ==
    /\ Send(p) \/ Mark(p)
    /\ UNCHANGED <<groupVars, topic, available, payload, effects, faults>>

PublishFails(p) ==
    /\ \/ SendFails(p) /\ Spend("send")
       \/ MarkFails(p) /\ Spend("mark")
       \/ Restart(p) /\ Spend("restart")
    /\ UNCHANGED <<groupVars, topic, available, payload, effects>>

-----------------------------------------------------------------------------
(* The orchestrator publishes a notification, or the producer sends it     *)
(* once more after an answer that was lost.                                *)

Notify(r) ==
    /\ topic = Notification
    /\ Produce(r)
    /\ SpendIf(OnLog(r), "again")
    /\ UNCHANGED <<rows, published, job, topic, available, payload, effects>>

-----------------------------------------------------------------------------
(* The members of the consumer group.                                      *)

upstream == <<rows, published, job, topic, available, payload>>
InHand(m) == log[member[m].hand]

\* A member starts, or takes the partition from another one.
Subscribe(m) ==
    /\ Join(m)
    /\ IF owner # NoMember THEN Spend("rebalance")
       ELSE IF committed = 0 /\ log # <<>> THEN Note("late") ELSE UNCHANGED faults
    /\ UNCHANGED <<upstream, effects>>

Receive(m) ==
    /\ Fetch(m)
    /\ step' = [step EXCEPT ![m] = "check"]
    /\ UNCHANGED <<upstream, view, emails, logged, faults>>

CommitOffset(m) == Commit(m) /\ UNCHANGED <<upstream, effects, faults>>

CommitIsLost(m) ==
    /\ CommitFails(m) /\ Spend("commit")
    /\ UNCHANGED <<upstream, effects>>

MemberDies(m) ==
    /\ owner = m \/ member[m].at # "idle"
    /\ Die(m) /\ Spend("die")
    /\ UNCHANGED <<upstream, effects>>

(* product-service                                                         *)

UpsertStock(m) ==
    /\ topic = Stock
    /\ Resolve(m)
    /\ view' = payload[InHand(m)]
    /\ UNCHANGED <<upstream, step, emails, logged, faults>>

UpsertFails(m) ==
    /\ topic = Stock
    /\ HandlerFails(m) /\ Spend("handler")
    /\ UNCHANGED <<upstream, effects>>

(* notification-service: everything send throws is swallowed by the        *)
(* handler of the topic, which therefore always resolves.                  *)

At(m, where) == topic = Notification /\ member[m].at = "handle" /\ step[m] = where
Go(m, where) == step' = [step EXCEPT ![m] = where]

\* Mutant: NotificationLog is not asked.
CheckNothing(m) ==
    /\ At(m, "check")
    /\ Go(m, "email")
    /\ UNCHANGED <<upstream, log, groupVars, view, emails, logged, faults>>

CheckLog(m) ==
    /\ At(m, "check")
    /\ IF InHand(m) \in logged
       THEN Resolve(m) /\ UNCHANGED step
       ELSE Go(m, "email") /\ UNCHANGED <<log, groupVars>>
    /\ UNCHANGED <<upstream, view, emails, logged, faults>>

\* E-mail and socket.  A transport that fails is logged and forgotten.
SendEmail(m) ==
    /\ At(m, "email")
    /\ Go(m, "save")
    /\ \/ emails' = [emails EXCEPT ![InHand(m)] = @ + 1] /\ UNCHANGED faults
       \/ Spend("email") /\ UNCHANGED emails
    /\ UNCHANGED <<upstream, log, groupVars, view, logged>>

\* The eventId is unique: a second row is refused.
SaveLog(m) ==
    /\ At(m, "save")
    /\ Resolve(m)
    /\ \/ logged' = logged \union {InHand(m)} /\ UNCHANGED faults
       \/ Spend("save") /\ UNCHANGED logged
    /\ UNCHANGED <<upstream, view, step, emails>>

-----------------------------------------------------------------------------
Next ==
    \/ \E r \in Events : Read(r) \/ Write(r) \/ Notify(r)
    \/ \E p \in Processes : StartJob(p) \/ PublishRow(p) \/ PublishFails(p)
    \/ \E m \in Members :
         \/ Subscribe(m) \/ Receive(m) \/ CommitOffset(m) \/ CommitIsLost(m) \/ MemberDies(m)
         \/ UpsertStock(m) \/ UpsertFails(m)
         \/ CheckLog(m) \/ SendEmail(m) \/ SaveLog(m)

Spec == Init /\ [][Next]_vars

(* The cron job of every process runs again and again and goes through its *)
(* list, every member polls, and a group without a member gets one again.  *)
(* Nothing is assumed of the transactions and of the orchestrator.         *)
Fairness ==
    /\ \A p \in Processes : WF_vars(StartJob(p)) /\ WF_vars(PublishRow(p))
    /\ WF_vars(owner = NoMember /\ \E m \in Members : Subscribe(m))
    /\ \A m \in Members :
         /\ WF_vars(Receive(m)) /\ WF_vars(CommitOffset(m)) /\ WF_vars(UpsertStock(m))
         /\ WF_vars(CheckLog(m)) /\ WF_vars(SendEmail(m)) /\ WF_vars(SaveLog(m))

FairSpec == Spec /\ Fairness

-----------------------------------------------------------------------------
(* The outbox keeps the promise of the channel on its topic: what is sent  *)
(* was accepted by a transaction, and what is marked was sent.             *)
Promise == INSTANCE Channel
            WITH Events <- Events, accepted <- accepted,
                 delivered <- IF topic = Stock THEN log ELSE <<>>,
                 confirmed <- published
Implements == Promise!Spec

(* No event is lost between the database and Kafka: the row of every       *)
(* transaction that commits is sent, whatever fails and restarts           *)
(* (README of api-gateway: no event is lost when a service crashes).       *)
EveryRowIsSent == \A r \in Events : r \in accepted ~> OnLog(r)

(* The catalogue ends up with the stock there is, also when members of the *)
(* group and processes of the outbox die and commits fail.  It does not    *)
(* when rows overtake each other on the way (overlapping transactions, a   *)
(* row that failed and is sent after its successor, jobs of two processes, *)
(* a member that writes after it lost the partition), when a handler       *)
(* throws, or when the group starts at the end of the topic.               *)
Reordering == {"overlap", "send", "mark", "parallel", "rebalance", "handler", "late"}
StockSettles == <>[](topic = Stock /\ Never(Reordering) => view = available)

(* NotificationLog keeps an event from being e-mailed twice, however often *)
(* it is published, and when commits fail - unless a member dies or loses  *)
(* the partition between the e-mail and the log, or the log cannot be      *)
(* saved.                                                                  *)
EmailAtMostOnce == Never({"die", "rebalance", "save"}) => \A r \in Events : emails[r] <= 1

-----------------------------------------------------------------------------
(* The invariant the theorems rest on: those of the two components, and    *)
(* that nothing goes through the outbox when notifications are followed.   *)
IInv ==
    /\ TypeOK /\ OutboxIInv /\ ConsumerIInv
    /\ topic # Stock => created = [r \in Events |-> 0]

(* And for the e-mails: while the partition stays where it is, only its    *)
(* owner has a message in hand; what it is about to send was not sent, and *)
(* what was sent is logged or about to be.                                 *)
InHandAt(m, where) == member[m].at = "handle" /\ step[m] = where

EmailsOK ==
    /\ topic # Notification => \A r \in Events : emails[r] = 0
    /\ Never({"die", "rebalance", "save"}) =>
         /\ \A m \in Members : member[m].at # "idle" => owner = m
         /\ \A m \in Members : InHandAt(m, "email") => InHand(m) \notin logged
         /\ \A r \in Events : emails[r] # 0 =>
              /\ emails[r] = 1
              /\ r \in logged \/ \E m \in Members : InHandAt(m, "save") /\ InHand(m) = r
=============================================================================
