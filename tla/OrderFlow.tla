------------------------------ MODULE OrderFlow ------------------------------
(***************************************************************************)
(* One order from its creation to its delivery, cancellation or refund:    *)
(* the orchestrator composed with what the other services do to the order. *)
(* Each participant is reduced to the status of the rows that belong to    *)
(* the order and to the messages it consumes and publishes; stock counters *)
(* and locks are the subject of Inventory.                                 *)
(***************************************************************************)
EXTENDS SagaOrchestrator

VARIABLES
    reservation,  \* stock_reservation.status of each saga
    processed,    \* sagas whose first reserve command is in processed_event
    vnpay,        \* what the payment provider has told about the order
    webhook,      \* processed_webhook holds the order's vnpTxnRef
    expiring,     \* the timeout scheduler has listed the intent as expired
    shipment,     \* shipment_record.status
    simulating,   \* the in-memory delivery simulation of the shipment runs
    shipmentSaga, \* shipment_record.sagaId
    refund,       \* refund_request.status
    refundBox,    \* refund.requested waits at refund-service
    orderBox      \* shipping.status_updated events waiting at order-service

inventoryVars == <<reservation, processed>>
paymentVars == <<vnpay, webhook, expiring>>
shippingVars == <<shipment, simulating, shipmentSaga>>
refundVars == <<refund, refundBox>>
partyVars == <<reservation, processed, vnpay, webhook, expiring, shipment, simulating,
               shipmentSaga, refund, refundBox, orderBox>>
vars == <<sagaType, status, currentStep, step, consumer, comp, events, inbox, commands,
          cmdbox, orderStatus, intent, intentSaga, faults,
          reservation, processed, vnpay, webhook, expiring, shipment, simulating,
          shipmentSaga, refund, refundBox, orderBox>>
\* What no participant touches.
orchestratorOnly == <<sagaVars, consumer, comp>>

ReservationStatus == {"none", "HELD", "CONFIRMED", "RELEASED"}
ShipmentStatus == {"none", "PREPARING", "PICKED_UP", "IN_TRANSIT", "DELIVERED"}
RefundStatus == {"none", "REFUND_PENDING", "REFUND_APPROVED", "REFUND_REJECTED", "REFUNDED"}
StatusUpdates == {"shipping.picked_up", "shipping.in_transit"}

TypeOK ==
    /\ OrchTypeOK
    /\ reservation \in [Sagas -> ReservationStatus]
    /\ processed \subseteq Sagas
    /\ vnpay \in {"none", "paid", "failed", "lost"}
    /\ webhook \in BOOLEAN /\ expiring \in BOOLEAN
    /\ shipment \in ShipmentStatus /\ simulating \in BOOLEAN
    /\ shipmentSaga \in Sagas \union {NoSaga}
    /\ refund \in RefundStatus /\ refundBox \in BOOLEAN
    /\ orderBox \subseteq StatusUpdates

Init ==
    /\ OrchInit
    /\ reservation = [s \in Sagas |-> "none"] /\ processed = {}
    /\ vnpay = "none" /\ webhook = FALSE /\ expiring = FALSE
    /\ shipment = "none" /\ simulating = FALSE /\ shipmentSaga = NoSaga
    /\ refund = "none" /\ refundBox = FALSE /\ orderBox = {}

Event(t, s) == [type |-> t, saga |-> s]
Take(c) == cmdbox' = cmdbox \ {c}
NoEvent == UNCHANGED <<events, inbox>>

-----------------------------------------------------------------------------
(* order-service                                                           *)

CreateOrder ==
    /\ orderStatus = "none"
    /\ orderStatus' = "PENDING_PAYMENT"
    /\ PublishEvents({Event("order.created", NoSaga)})
    /\ UNCHANGED <<orchestratorOnly, commands, cmdbox, intent, intentSaga, faults, partyVars>>

\* Every shipping.status_updated, whatever the status it carries, sets SHIPPED.
OrderConsumes(t) ==
    /\ t \in orderBox
    /\ orderStatus' = "SHIPPED"
    /\ orderBox' = orderBox \ {t}
    /\ NoEvent
    /\ UNCHANGED <<orchestratorOnly, commands, cmdbox, intent, intentSaga, faults,
                   inventoryVars, paymentVars, shippingVars, refundVars>>

-----------------------------------------------------------------------------
(* inventory-service.  Whether the stock suffices depends on the other     *)
(* orders.  A replayed eventId is dropped; a recovery command has a new    *)
(* one and is evaluated afresh.                                            *)

InventoryFrame == UNCHANGED <<orchestratorOnly, commands, remoteVars,
                              paymentVars, shippingVars, refundVars, orderBox>>
Remembered(c) == processed' = IF c.again THEN processed ELSE processed \union {c.saga}

ReserveStock(c) ==
    /\ c \in cmdbox /\ c.type = "inventory.reserve_stock"
    /\ ~(~c.again /\ c.saga \in processed)
    /\ reservation[c.saga] = "none"
    /\ reservation' = [reservation EXCEPT ![c.saga] = "HELD"]
    /\ Remembered(c) /\ Take(c)
    /\ PublishEvents({Event("inventory.stock_reserved", c.saga)})
    /\ UNCHANGED faults /\ InventoryFrame

\* markProcessed and the outbox insert are two writes: a crash in between
\* loses the reply.
RefuseStock(c) ==
    /\ c \in cmdbox /\ c.type = "inventory.reserve_stock"
    /\ ~(~c.again /\ c.saga \in processed)
    /\ Remembered(c) /\ Take(c)
    /\ \/ PublishEvents({Event("inventory.stock_insufficient", c.saga)}) /\ UNCHANGED faults
       \/ NoEvent /\ Spend("crash")
    /\ UNCHANGED reservation /\ InventoryFrame

\* A replayed eventId, or the unique constraint on (sagaId, productId): the
\* command has no effect and no reply.
ReserveAgain(c) ==
    /\ c \in cmdbox /\ c.type = "inventory.reserve_stock"
    /\ (~c.again /\ c.saga \in processed) \/ reservation[c.saga] # "none"
    /\ Take(c) /\ NoEvent
    /\ UNCHANGED <<inventoryVars, faults>> /\ InventoryFrame

Settle(c, type, new, reply) ==
    /\ c \in cmdbox /\ c.type = type /\ Take(c)
    /\ IF reservation[c.saga] = "HELD"
       THEN /\ reservation' = [reservation EXCEPT ![c.saga] = new]
            /\ PublishEvents({Event(reply, c.saga)})
       ELSE UNCHANGED reservation /\ NoEvent
    /\ UNCHANGED <<processed, faults>> /\ InventoryFrame

ConfirmStock(c) ==
    Settle(c, "inventory.confirm_stock", "CONFIRMED", "inventory.stock_confirmed")
ReleaseStock(c) ==
    Settle(c, "inventory.release_stock", "RELEASED", "inventory.stock_released")

\* The two topics have consumers of their own.  Transactions that overlap both
\* find the reservation HELD and both commit; the row keeps the later status.
SettleBoth(c, d) ==
    /\ {c, d} \subseteq cmdbox /\ c.saga = d.saga /\ reservation[c.saga] = "HELD"
    /\ c.type = "inventory.confirm_stock" /\ d.type = "inventory.release_stock"
    /\ cmdbox' = cmdbox \ {c, d}
    /\ \E new \in {"CONFIRMED", "RELEASED"} :
          reservation' = [reservation EXCEPT ![c.saga] = new]
    /\ PublishEvents({Event("inventory.stock_confirmed", c.saga),
                      Event("inventory.stock_released", c.saga)})
    /\ UNCHANGED <<processed, faults>> /\ InventoryFrame

-----------------------------------------------------------------------------
(* payment-service                                                         *)

PaymentFrame == UNCHANGED <<orchestratorOnly, commands, orderStatus, intentSaga,
                            inventoryVars, shippingVars, refundVars, orderBox>>

\* The customer, at the provider's page reached through the QR code.
CustomerPays(outcome) ==
    /\ intent # "none" /\ vnpay = "none"
    /\ IF intent = "PENDING" /\ ~expiring THEN UNCHANGED faults ELSE Spend("late")
    /\ vnpay' = outcome
    /\ NoEvent /\ UNCHANGED <<cmdbox, intent, webhook, expiring>> /\ PaymentFrame

\* Mutants: the unique vnpTxnRef is not enforced; the response code is ignored.
ProcessIpnAgain ==
    /\ vnpay # "none" /\ (webhook => intent \in {"COMPLETED", "FAILED"})
    /\ webhook' = TRUE
    /\ intent' = IF vnpay = "paid" THEN "COMPLETED" ELSE "FAILED"
    /\ PublishEvents({Event(IF vnpay = "paid" THEN "payment.completed"
                                              ELSE "payment.failed", intentSaga)})
    /\ UNCHANGED <<cmdbox, vnpay, expiring, faults>> /\ PaymentFrame
ProcessIpnAsPaid ==
    /\ vnpay # "none" /\ ~webhook
    /\ webhook' = TRUE
    /\ intent' = "COMPLETED"
    /\ PublishEvents({Event("payment.completed", intentSaga)})
    /\ UNCHANGED <<cmdbox, vnpay, expiring, faults>> /\ PaymentFrame

\* A job of the IPN queue.  The status of the intent is not looked at; the
\* unique vnpTxnRef makes every further job for the order a no-op.
ProcessIpn ==
    /\ vnpay \in {"paid", "failed"} /\ ~webhook
    /\ webhook' = TRUE
    /\ intent' = IF vnpay = "paid" THEN "COMPLETED" ELSE "FAILED"
    /\ PublishEvents({Event(IF vnpay = "paid" THEN "payment.completed"
                                              ELSE "payment.failed", intentSaga)})
    /\ UNCHANGED <<cmdbox, vnpay, expiring, faults>> /\ PaymentFrame

\* The job fails in each of its attempts, when the provider has long been told
\* that its notification is queued.
DropIpn ==
    /\ vnpay \in {"paid", "failed"} /\ ~webhook /\ Spend("drop")
    /\ vnpay' = "lost"
    /\ NoEvent /\ UNCHANGED <<cmdbox, intent, webhook, expiring>> /\ PaymentFrame

\* The scheduler lists the PENDING intents past their deadline, then expires
\* them one by one without looking at their status again.
ListExpired ==
    /\ intent = "PENDING" /\ ~expiring
    /\ IF vnpay \in {"none", "lost"} THEN UNCHANGED faults ELSE Spend("late")
    /\ expiring' = TRUE
    /\ NoEvent /\ UNCHANGED <<cmdbox, intent, vnpay, webhook>> /\ PaymentFrame

ExpireIntent ==
    /\ expiring
    /\ expiring' = FALSE
    /\ intent' = "EXPIRED"
    /\ PublishEvents({Event("payment.timeout", intentSaga)})
    /\ UNCHANGED <<cmdbox, vnpay, webhook, faults>> /\ PaymentFrame

\* Without an intent the refund throws; the consumer swallows it.
ProcessRefund(c) ==
    /\ c \in cmdbox /\ c.type = "payment.refund_requested" /\ Take(c)
    /\ IF intent = "none"
       THEN UNCHANGED intent /\ NoEvent
       ELSE /\ intent' = "REFUNDED"
            /\ PublishEvents({Event("payment.refunded", intentSaga)})
    /\ UNCHANGED <<paymentVars, faults>> /\ PaymentFrame

-----------------------------------------------------------------------------
(* shipping-service                                                        *)

ShippingFrame == UNCHANGED <<orchestratorOnly, commands, remoteVars,
                             inventoryVars, paymentVars, refundVars>>

\* The record is saved, then the label is announced, then the simulation is
\* started; an existing record is only announced again.  The second disjunct
\* is a failure of the announcement: the consumer swallows it.
CreateLabel(c) ==
    /\ c \in cmdbox /\ c.type = "shipping.create_label" /\ Take(c)
    /\ IF shipment = "none"
       THEN shipment' = "PREPARING" /\ shipmentSaga' = c.saga
       ELSE UNCHANGED <<shipment, shipmentSaga>>
    /\ \/ /\ PublishEvents({Event("shipping.label_created", c.saga)})
          /\ simulating' = (simulating \/ shipment = "none")
          /\ UNCHANGED faults
       \/ NoEvent /\ UNCHANGED simulating /\ Spend("outage")
    /\ UNCHANGED orderBox /\ ShippingFrame

Advance(from, to, topic) ==
    /\ simulating /\ shipment = from
    /\ shipment' = to
    /\ PublishEvents({Event(topic, shipmentSaga)})
    /\ orderBox' = orderBox \union ({topic} \intersect StatusUpdates)
    /\ simulating' = (to # "DELIVERED")
    /\ UNCHANGED <<shipmentSaga, cmdbox, faults>> /\ ShippingFrame

SimulateDelivery ==
    \/ Advance("PREPARING", "PICKED_UP", "shipping.picked_up")
    \/ Advance("PICKED_UP", "IN_TRANSIT", "shipping.in_transit")
    \/ Advance("IN_TRANSIT", "DELIVERED", "shipping.delivered")

\* The simulation lives in the memory of the process.
ShippingCrash ==
    /\ simulating /\ Spend("crash")
    /\ simulating' = FALSE
    /\ NoEvent /\ UNCHANGED <<shipment, shipmentSaga, cmdbox, orderBox>> /\ ShippingFrame

-----------------------------------------------------------------------------
(* refund-service                                                          *)

RefundFrame == UNCHANGED <<orchestratorOnly, commands, remoteVars,
                           inventoryVars, paymentVars, shippingVars, orderBox>>

\* The customer asks from the page of a delivered order: it is the web client
\* that looks at the order's status, refund-service does not.
CreateRefund ==
    /\ Spend("refund")
    /\ orderStatus = "DELIVERED" /\ refund = "none"
    /\ refund' = "REFUND_PENDING" /\ refundBox' = TRUE
    /\ PublishEvents({Event("refund.requested", NoSaga)})
    /\ UNCHANGED cmdbox /\ RefundFrame

\* The service consumes its own refund.requested, as the orchestrator does.
ValidateAndEmit(approved) ==
    /\ refundBox
    /\ refundBox' = FALSE
    /\ refund' = IF approved THEN "REFUND_APPROVED" ELSE "REFUND_REJECTED"
    /\ PublishEvents({Event(IF approved THEN "refund.approved"
                                        ELSE "refund.rejected", NoSaga)})
    /\ UNCHANGED <<cmdbox, faults>> /\ RefundFrame

UpdateRefundStatus(c) ==
    /\ c \in cmdbox /\ Take(c)
    /\ \/ c.type = "refund.status_refunded" /\ refund' = "REFUNDED"
       \/ c.type = "refund.status_rejected" /\ refund' = "REFUND_REJECTED"
    /\ NoEvent /\ UNCHANGED <<refundBox, faults>> /\ RefundFrame

-----------------------------------------------------------------------------
\* A consumer fails on a command and moves past it.
DropCommand(c) ==
    /\ c \in cmdbox /\ Spend("drop") /\ Take(c)
    /\ NoEvent
    /\ UNCHANGED <<orchestratorOnly, commands, remoteVars, partyVars>>

HandleCommand(c) ==
    \/ ReserveStock(c) \/ RefuseStock(c) \/ ReserveAgain(c)
    \/ ConfirmStock(c) \/ ReleaseStock(c) \/ ProcessRefund(c)
    \/ CreateLabel(c) \/ UpdateRefundStatus(c)

Orchestrate == OrchNext /\ UNCHANGED partyVars

Next ==
    \/ Orchestrate
    \/ CreateOrder \/ \E t \in StatusUpdates : OrderConsumes(t)
    \/ \E c \in cmdbox : HandleCommand(c) \/ DropCommand(c)
    \/ \E c, d \in cmdbox : SettleBoth(c, d)
    \/ \E o \in {"paid", "failed"} : CustomerPays(o)
    \/ ProcessIpn \/ DropIpn \/ ListExpired \/ ExpireIntent
    \/ SimulateDelivery \/ ShippingCrash
    \/ CreateRefund \/ \E a \in BOOLEAN : ValidateAndEmit(a)

Spec == Init /\ [][Next]_vars

(***************************************************************************)
(* Running consumers keep consuming, crons keep firing, the IPN queue and  *)
(* the simulation timers run.  Nothing is assumed of the customer: an      *)
(* unpaid intent reaches its deadline.  One condition per consumer group   *)
(* is enough, because only finitely many messages are in flight.           *)
(***************************************************************************)
Fairness ==
    /\ WF_vars(Consume /\ UNCHANGED partyVars)
    /\ WF_vars((\E e \in inbox : Receive(e)) /\ UNCHANGED partyVars)
    /\ WF_vars((\E s \in Sagas : RecoverStuckSaga(s)) /\ UNCHANGED <<partyVars, faults>>)
    /\ WF_vars((\E j \in Jobs : CompensationJob(j)) /\ UNCHANGED partyVars)
    /\ WF_vars(\E c \in cmdbox : HandleCommand(c))
    /\ WF_vars(ProcessIpn) /\ WF_vars(ListExpired /\ UNCHANGED faults)
    /\ WF_vars(ExpireIntent)
    /\ WF_vars(SimulateDelivery)
    /\ WF_vars(\E a \in BOOLEAN : ValidateAndEmit(a))

FairSpec == Spec /\ Fairness

-----------------------------------------------------------------------------
(* What holds under every fault.                                           *)

Paid == webhook /\ vnpay = "paid"
\* A release that overlapped with the confirmation may have overwritten it.
SettledTwice(s) == {Event("inventory.stock_confirmed", s),
                    Event("inventory.stock_released", s)} \subseteq events
Confirmed(s) == reservation[s] = "CONFIRMED" \/ SettledTwice(s)
SomeConfirmed == \E s \in Sagas : Confirmed(s)

\* Stock leaves the warehouse's books only once the payment provider's success
\* notification has been recorded, whatever is lost, repeated or retried.
ConfirmedIsPaid == SomeConfirmed => Paid

\* A shipment exists only for an order whose reserved stock was confirmed, be it
\* that a release which overlapped with the confirmation was written after it.
ShipmentIsConfirmed == shipment # "none" => SomeConfirmed

\* Money goes back only if it came in: neither a refund saga nor the
\* compensation cron refunds an order that was not paid.
RefundIsPaid == intent = "REFUNDED" => Paid

\* An order saga completes only when the shipment reached the customer.
CompletedIsDelivered ==
    \A s \in Sagas : sagaType[s] = "ORDER_SAGA" /\ status[s] = "COMPLETED"
                     => shipment = "DELIVERED"

-----------------------------------------------------------------------------
(* Why these four hold: everything that may lead to a confirmation, a      *)
(* shipment, a refund or a completion exists only once its cause does.     *)

\* The handler works on a published event and on a saga its lookup accepts.
ConsumerBound ==
    consumer # Idle =>
        /\ consumer.ev \in events
        /\ consumer.at = "insert" => Program.starts # "none"
        /\ consumer.at \in {"steps", "saga", "http", "publish"} =>
              consumer.saga \in Sagas /\ sagaType[consumer.saga] \in Program.types

\* The compensation cron works on a saga.
CompBound ==
    \A j \in Jobs : comp[j].at \in {"refund", "release", "cancel", "close"} =>
        comp[j].saga \in Sagas

EventsJustified ==
    \A e \in events :
        /\ e.type \in {"payment.completed", "refund.approved"} => Paid
        /\ e.type \in {"inventory.stock_confirmed", "shipping.label_created"}
              => SomeConfirmed
        /\ e.type = "shipping.delivered" => shipment = "DELIVERED"

CommandsJustified ==
    \A c \in commands :
        /\ c.type \in {"inventory.confirm_stock", "payment.refund_requested"} => Paid
        /\ c.type = "shipping.create_label" => SomeConfirmed

\* The crons act on the saga's current step and on its step rows.
RowsJustified ==
    \A s \in Sagas :
        /\ currentStep[s] = "CONFIRM_INVENTORY" => Paid
        /\ currentStep[s] = "CREATE_SHIPPING" => SomeConfirmed
        /\ \A n \in STEP_NEEDS_REFUND : step[s][n] # "absent" => Paid

RefundJustified ==
    /\ orderStatus = "DELIVERED" => Paid
    /\ refundBox => Paid
    /\ \A j \in Jobs : comp[j].at = "refund" => Paid

\* The inductive invariant: no single conjunct is preserved without others.
IInv ==
    /\ TypeOK /\ ConsumerBound /\ CompBound
    /\ EventsJustified /\ CommandsJustified /\ RowsJustified /\ RefundJustified
    /\ ConfirmedIsPaid /\ ShipmentIsConfirmed /\ RefundIsPaid /\ CompletedIsDelivered

-----------------------------------------------------------------------------
(* What holds as long as certain mishaps stay away.  Each property names    *)
(* those that break it, and holds under all the others.                    *)

Never(kinds) == \A k \in kinds : faults[k] = 0

Release(c, s) == c.type = "inventory.release_stock" /\ c.saga = s

OrderSagas == {s \in Sagas : sagaType[s] = "ORDER_SAGA"}
\* No second saga was started by an order.created that is handled again when the
\* first one has ended: the two would take each other's events.
OneSaga == \A s, t \in OrderSagas : s = t

\* A saga that compensates is always being moved on by somebody: a handler or
\* the cron about to ask for the release, inventory-service about to answer,
\* or the answer about to be handled.  None waits for a message nobody sends.
CompensationUnderWay ==
    Never({"outage", "crash", "drop", "late"}) /\ OneSaga =>
    \A s \in Sagas : status[s] = "COMPENSATING" =>
        \/ consumer # Idle /\ consumer.saga = s /\ consumer.at \in {"http", "publish"}
        \/ \E c \in cmdbox : Release(c, s)
        \/ \E e \in inbox : e = Event("inventory.stock_released", s)
        \/ \E j \in Jobs : comp[j] # CompIdle /\ comp[j].saga = s

\* A saga that ended in cancellation holds no stock, although processes restart
\* and messages are lost, repeated or late.  An outage lets the compensation
\* cron cancel too early; and a recovery command that overtakes the first one
\* reserves after a refusal.
CancelledHoldsNoStock ==
    Never({"outage", "slow"}) /\ OneSaga =>
    \A s \in Sagas : status[s] = "COMPENSATED" => reservation[s] # "HELD"

\* The steps of the order saga in their order.
Position == [none |-> 0, RESERVE_INVENTORY |-> 1, AWAIT_PAYMENT |-> 2,
             CONFIRM_INVENTORY |-> 3, CREATE_SHIPPING |-> 4, AWAIT_DELIVERY |-> 5,
             COMPLETE_ORDER |-> 6]
Forward(s) == /\ sagaType[s] = "ORDER_SAGA" /\ status[s] = "RUNNING"
              /\ status'[s] \in {"RUNNING", "COMPLETED"}

\* A running order saga never returns to an earlier step, unless an event is
\* handled twice: no handler compares its step with the saga's.
SagaNeverMovesBack ==
    [][Never({"crash", "redeliver"})' =>
       \A s \in Sagas : Forward(s) =>
          Position[currentStep[s]] <= Position[currentStep'[s]]]_vars

\* A saga that completed or was compensated keeps that outcome, unless the
\* dead-lettering of its last event marks it FAILED.
OutcomeIsFinal ==
    [][Never({"outage"})' =>
       \A s \in Sagas : status[s] \in {"COMPLETED", "COMPENSATED"}
                        => status'[s] = status[s]]_vars

-----------------------------------------------------------------------------
(* Why OutcomeIsFinal holds: a handler finishes only the saga its lookup    *)
(* accepted, and the crons take up only what an outage left FAILED.         *)

\* Rows have a status; the compensation cron works on sagas that failed and
\* that no handler's lookup takes for running; and the consumer, until it has
\* written the saga row, on one that is as the lookup found it.
SagaLife ==
    /\ \A s \in Sagas : sagaType[s] = "none" => status[s] = "none"
    /\ \A j \in Jobs : comp[j] # CompIdle =>
          \A s \in Sagas \intersect (comp[j].todo \union {comp[j].saga}) :
             status[s] \in {"FAILED", "COMPENSATING", "COMPENSATED"}
    /\ consumer # Idle /\ consumer.at \in {"steps", "saga"} =>
          IF Program.in = "RUNNING"
          THEN status[consumer.saga] = "RUNNING"
          ELSE status[consumer.saga] \in {"COMPENSATING", "COMPENSATED"}

\* Without an outage no handler throws, no saga is marked FAILED, and the
\* compensation cron finds nothing.
NothingFailed ==
    Never({"outage"}) =>
        /\ consumer # Idle => consumer.tries = 1
        /\ \A s \in Sagas : status[s] # "FAILED"
        /\ \A j \in Jobs : comp[j] = CompIdle

-----------------------------------------------------------------------------
(* Why SagaNeverMovesBack holds: the events that move the saga on are       *)
(* published in the order of its steps, each once, and each only when the   *)
(* one before it is in the consumer's hands or committed.                   *)

Arrived(t) == \E e \in events : e.type = t
Waits(t) == \E e \in inbox : e.type = t
\* What is left of the topic is in the consumer's hands.
Reached(t) == Arrived(t) /\ \A e \in inbox : e.type = t => consumer # Idle /\ consumer.ev = e

Settled == {"CONFIRMED", "RELEASED"}

\* Where order sagas, reservations and the events about them come from.
Origins ==
    /\ Arrived("order.created") => orderStatus # "none"
    /\ OrderSagas # {} => Arrived("order.created")
    /\ consumer # Idle /\ consumer.at \in {"steps", "saga", "http", "publish"}
          /\ Program.starts # "none" => sagaType[consumer.saga] = Program.starts
    /\ \A c \in commands : c.type = "inventory.reserve_stock" => c.saga \in OrderSagas
    /\ \A s \in Sagas : reservation[s] # "none" => s \in OrderSagas
    /\ vnpay # "none" \/ expiring => intent # "none"
    /\ \A e \in events :
          /\ e.type \in {"inventory.stock_reserved", "inventory.stock_confirmed"}
                => e.saga \in OrderSagas /\ reservation[e.saga] # "none"
          /\ e.type = "inventory.stock_confirmed" => reservation[e.saga] \in Settled
          /\ e.type = "payment.completed" => webhook /\ vnpay # "none"
    /\ \A e, f \in events :
          e.type = f.type /\ e.type \in {"order.created", "payment.completed"} => e = f

\* There is one order saga, and order.created is done with when it moves on.
OneOrderSaga ==
    /\ OneSaga
    /\ consumer # Idle => consumer.ev \in inbox
    /\ OrderSagas # {} => \A e \in inbox : e.type = "order.created" =>
          /\ consumer # Idle /\ consumer.ev = e /\ consumer.at # "insert"
          /\ \A s \in OrderSagas :
                status[s] = "RUNNING" /\ currentStep[s] = "RESERVE_INVENTORY"

\* Whatever stands behind the event of a step has reached the step before it.
StepsInOrder ==
    /\ intent # "none" => Reached("inventory.stock_reserved")
    /\ Arrived("inventory.stock_confirmed") => Reached("payment.completed")
    /\ Arrived("shipping.label_created") => Reached("inventory.stock_confirmed")
    /\ \A c \in commands :
          /\ c.type = "inventory.confirm_stock" => Reached("payment.completed")
          /\ c.type = "shipping.create_label" => Reached("inventory.stock_confirmed")
    /\ \A s \in Sagas :
          /\ currentStep[s] = "CONFIRM_INVENTORY" => Reached("payment.completed")
          /\ currentStep[s] = "CREATE_SHIPPING" => Reached("inventory.stock_confirmed")
          /\ currentStep[s] = "AWAIT_DELIVERY" => Arrived("shipping.label_created")

\* No event waits that would take the saga back.
NothingBehind ==
    \A s \in OrderSagas : status[s] = "RUNNING" =>
        /\ currentStep[s] \in OrderSteps
        /\ Position[currentStep[s]] > 2 => ~Waits("inventory.stock_reserved")
        /\ Position[currentStep[s]] > 3 => ~Waits("payment.completed")
        /\ Position[currentStep[s]] > 4 => ~Waits("inventory.stock_confirmed")

HistoryInv ==
    /\ SagaLife /\ NothingFailed /\ Origins
    /\ Never({"crash", "redeliver"}) => OneOrderSaga /\ StepsInOrder /\ NothingBehind

-----------------------------------------------------------------------------
(* Why CompensationUnderWay and CancelledHoldsNoStock hold.                 *)

PaymentLost(t) == t \in {"payment.failed", "payment.timeout"}
PaymentIsLost == \E e \in events : PaymentLost(e.type)

\* A refund saga is one of a paid order; and the reservation of which the
\* intent was made stays on the books.
PaymentOrigins ==
    /\ Arrived("refund.requested") => Paid
    /\ \A s \in Sagas : sagaType[s] = "REFUND_SAGA" => Paid
    /\ intent # "none" => Arrived("inventory.stock_reserved")
    /\ \A s \in Sagas : reservation[s] = "RELEASED" =>
          \E c \in commands : Release(c, s)
    /\ \A e \in events : e.type = "inventory.stock_released" =>
          e.saga \in OrderSagas /\ reservation[e.saga] \in Settled

\* If nobody pays late and no notification is lost, the payment is either
\* made, or refused, or timed out.
OneOutcome ==
    /\ vnpay # "lost"
    /\ vnpay # "none" => ~expiring /\ intent # "EXPIRED"
    /\ expiring => intent = "PENDING"
    /\ Arrived("payment.timeout") => intent = "EXPIRED"
    /\ Arrived("payment.failed") => vnpay = "failed"

\* Release is asked for once the saga compensates, and answered.
ReleaseUnderWay ==
    /\ (\E c \in commands : c.type = "inventory.release_stock") =>
          PaymentIsLost /\ \A s \in OrderSagas : status[s] # "RUNNING"
    /\ /\ consumer # Idle
       /\ PaymentLost(consumer.ev.type)
       /\ consumer.at \in {"http", "publish"}
       => status[consumer.saga] # "RUNNING"
    /\ \A s \in Sagas : status[s] = "COMPENSATING" =>
          /\ PaymentIsLost
          /\ \/ /\ consumer # Idle /\ consumer.saga = s /\ PaymentLost(consumer.ev.type)
                /\ consumer.at \in {"http", "publish"}
                /\ \A c \in commands : c.type # "inventory.release_stock"
             \/ reservation[s] = "HELD" /\ \E c \in cmdbox : Release(c, s)
             \/ Event("inventory.stock_released", s) \in inbox
          /\ consumer # Idle /\ consumer.ev.type = "inventory.stock_released" =>
                consumer.at \in {"lookup", "steps", "saga"}

\* The stock is asked for once at a time, and not again after an answer: the
\* answer waits as long as the saga is in its first step.
ReserveIsPending(c) == c \in cmdbox /\ c.type = "inventory.reserve_stock"
Reserving(s) == status[s] = "RUNNING" /\ currentStep[s] = "RESERVE_INVENTORY"
ReserveOnce ==
    /\ \A c, d \in cmdbox : ReserveIsPending(c) /\ ReserveIsPending(d) => c = d
    /\ (\E c \in cmdbox : ReserveIsPending(c)) =>
          /\ ~Arrived("inventory.stock_insufficient")
          /\ \A s \in Sagas : reservation[s] = "none"
    /\ \A s \in Sagas : reservation[s] # "none" => Arrived("inventory.stock_reserved")
    /\ Arrived("inventory.stock_reserved") \/ Arrived("inventory.stock_insufficient")
          => \E c \in commands : c.type = "inventory.reserve_stock"
    /\ /\ consumer # Idle
       /\ consumer.ev.type = "order.created"
       /\ consumer.at \in {"steps", "saga", "http", "publish"}
       => \A c \in commands : c.type # "inventory.reserve_stock"
    /\ /\ consumer # Idle
       /\ consumer.ev.type \in {"inventory.stock_reserved", "inventory.stock_insufficient"}
       /\ consumer.at \in {"http", "publish", "done"}
       => \A s \in OrderSagas : ~Reserving(s)
    /\ \A s \in OrderSagas : Reserving(s) =>
          /\ intent = "none"
          /\ Arrived("inventory.stock_reserved") => Waits("inventory.stock_reserved")
          /\ Arrived("inventory.stock_insufficient") => Waits("inventory.stock_insufficient")

\* What was refused is not reserved later, and what was answered stays settled.
CancelledIsSettled ==
    /\ Arrived("inventory.stock_insufficient") => \A s \in Sagas : reservation[s] = "none"
    /\ \A s \in OrderSagas : status[s] = "COMPENSATED" =>
          Arrived("inventory.stock_insufficient") \/ reservation[s] \in Settled

SettlementInv ==
    /\ PaymentOrigins
    /\ Never({"late", "drop"}) => OneOutcome
    /\ Never({"outage", "crash", "drop", "late"}) /\ OneSaga => ReleaseUnderWay
    /\ Never({"outage", "slow"}) /\ OneSaga => ReserveOnce /\ CancelledIsSettled

-----------------------------------------------------------------------------
(* Progress.                                                               *)

Running(s) == sagaType[s] = "ORDER_SAGA" /\ status[s] = "RUNNING"
InStep(s, n) == Running(s) /\ currentStep[s] = n

\* Without mishaps every order saga ends, in a delivery or in a cancellation.
OrderSagaEnds ==
    []Never(Kinds) =>
        \A s \in Sagas : Running(s) ~> status[s] \in {"COMPLETED", "COMPENSATED"}

\* A saga never stays in a step of which the recovery cron knows the command,
\* although commands are lost and the payment may come late.
RecoverableStepEnds ==
    \A s \in Sagas : (Running(s) /\ currentStep[s] \in DOMAIN RECOVERABLE_STEPS)
                     ~> ~(Running(s) /\ currentStep[s] \in DOMAIN RECOVERABLE_STEPS)

-----------------------------------------------------------------------------
(* What the comments and the documentation say.                            *)

\* api-gateway/README.md, table of compensations: payment.timeout and
\* payment.failed lead through the release of the stock to the cancellation.
CompensationEnds ==
    \A s \in Sagas : status[s] = "COMPENSATING" ~> status[s] = "COMPENSATED"

\* saga-compensation.job.ts: the steps that need a refund are those that
\* "indicate payment was already received"; so when the cron is past its
\* refund and the saga's payment step is complete, the refund was asked for.
ReceivedPaymentIsRefunded ==
    \A j \in Jobs : comp[j].at \in {"release", "cancel"}
                    /\ step[comp[j].saga]["AWAIT_PAYMENT"] = "COMPLETED"
                    => Command("payment.refund_requested", comp[j].saga) \in commands
=============================================================================
