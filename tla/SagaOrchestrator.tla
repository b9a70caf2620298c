-------------------------- MODULE SagaOrchestrator --------------------------
(***************************************************************************)
(* The saga orchestrator of the shop (apps/orchestrator-service): its      *)
(* Kafka consumer with retry and dead-letter handling, the handlers of     *)
(* OrderSagaService, the recovery cron and the compensation cron.          *)
(*                                                                         *)
(* One order is followed: every lookup of the orchestrator is keyed by     *)
(* orderId, so orders do not interact in it.  Several saga rows may exist  *)
(* for that order: there is no uniqueness constraint on saga_instance.     *)
(*                                                                         *)
(* A handler runs in stages, one per group of awaited calls, in the order  *)
(* of the source: look the saga up, (insert it,) write the step rows,      *)
(* write the saga row, call a service over HTTP, publish the command.  A   *)
(* failure or a crash may strike before every stage.  What each handler    *)
(* does in its stages is a record: its program.                            *)
(***************************************************************************)
EXTENDS Integers, FiniteSets

CONSTANTS
    Sagas,   \* identities available to saga_instance rows
    Jobs,    \* invocations of the compensation cron that may overlap
    NoSaga,  \* "no row": an event without sagaId, a consumer without saga
    Budgets  \* the combinations of mishaps that are followed, as bounds by kind

\* outage:    the orchestrator's database or its broker fails a handler;
\* crash:     a process restarts;
\* redeliver: a committed event is delivered once more;
\* http:      an HTTP call of the orchestrator fails;
\* drop:      a consumer of commands fails on one and moves past it;
\* slow:      the recovery cron steps in although something is in flight;
\* late:      the customer pays around or after the deadline;
\* refund:    the customer asks for a refund (no mishap, but a choice).
Kinds == {"outage", "crash", "redeliver", "http", "drop", "slow", "late", "refund"}

ASSUME NoSagaAssumption == NoSaga \notin Sagas
ASSUME BudgetsAssumption == Budgets \subseteq [Kinds -> Nat]

-----------------------------------------------------------------------------
(* Saga rows, step rows and messages.                                      *)

SagaTypes == {"ORDER_SAGA", "REFUND_SAGA"}
SagaStatus == {"RUNNING", "COMPLETED", "COMPENSATING", "COMPENSATED", "FAILED"}

OrderSteps == {"RESERVE_INVENTORY", "AWAIT_PAYMENT", "CONFIRM_INVENTORY",
               "CREATE_SHIPPING", "AWAIT_DELIVERY"}
StepNames == OrderSteps \union {"VALIDATE_REFUND", "PROCESS_REFUND",
                                "REJECT_REFUND", "COMPLETE_REFUND"}
\* "absent": the row does not exist.
SagaStepStatus == {"absent", "IN_PROGRESS", "COMPLETED", "FAILED"}
\* currentStep is "FAILED" for every `FAILED:<eventType>` of the source.
CurrentSteps == StepNames \union {"none", "COMPLETE_ORDER", "CANCELLED", "FAILED"}

OrderStatus == {"none", "PENDING_PAYMENT", "PAYMENT_RECEIVED", "CONFIRMED",
                "PREPARING", "SHIPPED", "DELIVERED", "CANCELLED", "REFUNDED"}
PaymentStatus == {"none", "PENDING", "COMPLETED", "FAILED", "EXPIRED", "REFUNDED"}

\* The payload variants of a topic that a handler tells apart are topics of
\* their own: refund.validated is approved or rejected, and
\* shipping.status_updated carries PICKED_UP or IN_TRANSIT.
EventTypes ==
    {"order.created", "inventory.stock_reserved", "inventory.stock_insufficient",
     "inventory.stock_confirmed", "inventory.stock_released",
     "payment.completed", "payment.failed", "payment.timeout", "payment.refunded",
     "shipping.label_created", "shipping.picked_up", "shipping.in_transit",
     "shipping.delivered",
     "refund.requested", "refund.approved", "refund.rejected"}
Events == [type : EventTypes, saga : Sagas \union {NoSaga}]

CommandTypes ==
    {"inventory.reserve_stock", "inventory.confirm_stock", "inventory.release_stock",
     "shipping.create_label", "payment.refund_requested",
     "refund.status_refunded", "refund.status_rejected"}
\* again: published once more by the recovery cron, with a new eventId.
Commands == [type : CommandTypes, saga : Sagas, again : BOOLEAN]

-----------------------------------------------------------------------------
VARIABLES
    sagaType,     \* saga_instance.sagaType, "none" where there is no row
    status,       \* saga_instance.status
    currentStep,  \* saga_instance.currentStep
    step,         \* saga_step: status of each step row of each saga
    consumer,     \* the message the consumer is working on
    comp,         \* the invocations of the compensation cron
    events,       \* every event published so far
    inbox,        \* events the orchestrator's group has not committed yet
    commands,     \* every command published so far
    cmdbox,       \* commands their consumers have not taken yet
    orderStatus,  \* order.status in order-service, reached over HTTP
    intent,       \* payment_intent.status in payment-service, reached over HTTP
    intentSaga,   \* payment_intent.sagaId
    faults        \* how often each kind of mishap has happened

sagaVars == <<sagaType, status, currentStep, step>>
remoteVars == <<orderStatus, intent, intentSaga>>
orchVars == <<sagaType, status, currentStep, step, consumer, comp, events, inbox,
              commands, cmdbox, orderStatus, intent, intentSaga, faults>>

Stages == {"lookup", "insert", "steps", "saga", "http", "publish", "done"}
MAX_RETRIES == 3

Idle == [at |-> "idle"]
Working == [at : Stages, ev : Events, tries : 1..MAX_RETRIES,
            saga : Sagas \union {NoSaga}]

CompStages == {"next", "refund", "release", "cancel", "close"}
CompIdle == [at |-> "idle"]
CompBusy == [at : CompStages, todo : SUBSET Sagas,
             saga : Sagas \union {NoSaga}, release : BOOLEAN]

OrchTypeOK ==
    /\ sagaType \in [Sagas -> SagaTypes \union {"none"}]
    /\ status \in [Sagas -> SagaStatus \union {"none"}]
    /\ currentStep \in [Sagas -> CurrentSteps]
    /\ step \in [Sagas -> [StepNames -> SagaStepStatus]]
    /\ consumer \in Working \union {Idle}
    /\ comp \in [Jobs -> CompBusy \union {CompIdle}]
    /\ events \subseteq Events /\ inbox \subseteq events
    /\ commands \subseteq Commands /\ cmdbox \subseteq commands
    /\ orderStatus \in OrderStatus
    /\ intent \in PaymentStatus /\ intentSaga \in Sagas \union {NoSaga}
    /\ faults \in [Kinds -> Nat]

OrchInit ==
    /\ sagaType = [s \in Sagas |-> "none"]
    /\ status = [s \in Sagas |-> "none"]
    /\ currentStep = [s \in Sagas |-> "none"]
    /\ step = [s \in Sagas |-> [n \in StepNames |-> "absent"]]
    /\ consumer = Idle
    /\ comp = [j \in Jobs |-> CompIdle]
    /\ events = {} /\ inbox = {} /\ commands = {} /\ cmdbox = {}
    /\ orderStatus = "none" /\ intent = "none" /\ intentSaga = NoSaga
    /\ faults = [k \in Kinds |-> 0]

Spend(k) == /\ faults' = [faults EXCEPT ![k] = @ + 1]
            /\ \E b \in Budgets : \A n \in Kinds : faults'[n] <= b[n]

\* Kafka appends the messages to their topics.
PublishEvents(es) == /\ events' = events \union es
                     /\ inbox' = inbox \union es
PublishCommands(cs) == /\ commands' = commands \union cs
                       /\ cmdbox' = cmdbox \union cs
Command(t, s) == [type |-> t, saga |-> s, again |-> FALSE]

-----------------------------------------------------------------------------
(* The programs of the handlers.                                           *)
(*   types, in:  the sagas the lookup accepts, by sagaType and status      *)
(*   starts:     the sagaType of the row to insert when there is none      *)
(*   complete, fail, create: step rows updated (if present), added (if     *)
(*               absent); finish: added rows completed with the saga row   *)
(*   status, current: what is written to the saga row ("keep": nothing)    *)
(*   order:      the status PATCHed to order-service ("none": no call)     *)
(*   qr:         whether payment-service is asked for a payment QR         *)
(*   emit:       the command published                                     *)
(*   notifiesLast: a notification is published after everything else, so   *)
(*               the handler can still throw once its own work is done     *)

Keep == "keep"
NoEffect == [types |-> SagaTypes, in |-> "RUNNING", starts |-> "none",
             complete |-> {}, fail |-> {}, create |-> {}, finish |-> {},
             status |-> Keep, current |-> Keep,
             order |-> "none", qr |-> FALSE, emit |-> {}, notifiesLast |-> FALSE]

StartSaga ==
    [NoEffect EXCEPT !.starts = "ORDER_SAGA", !.create = {"RESERVE_INVENTORY"},
                     !.current = "RESERVE_INVENTORY",
                     !.emit = {"inventory.reserve_stock"}, !.notifiesLast = TRUE]

OnInventoryReserved ==
    [NoEffect EXCEPT !.complete = {"RESERVE_INVENTORY"}, !.create = {"AWAIT_PAYMENT"},
                     !.current = "AWAIT_PAYMENT", !.qr = TRUE]

OnInventoryInsufficient ==
    [NoEffect EXCEPT !.fail = {"RESERVE_INVENTORY"}, !.status = "COMPENSATED",
                     !.current = "CANCELLED", !.order = "CANCELLED",
                     !.notifiesLast = TRUE]

\* Mutant: the label is ordered without waiting for the confirmation.
OnPaymentCompletedShips ==
    [NoEffect EXCEPT !.complete = {"AWAIT_PAYMENT"}, !.create = {"CONFIRM_INVENTORY"},
                     !.current = "CONFIRM_INVENTORY", !.order = "PAYMENT_RECEIVED",
                     !.emit = {"shipping.create_label"}]

OnPaymentCompleted ==
    [NoEffect EXCEPT !.complete = {"AWAIT_PAYMENT"}, !.create = {"CONFIRM_INVENTORY"},
                     !.current = "CONFIRM_INVENTORY", !.order = "PAYMENT_RECEIVED",
                     !.emit = {"inventory.confirm_stock"}]

\* Mutants: the release is forgotten; the answer to it is not awaited.
OnPaymentTimeoutWithoutRelease ==
    [NoEffect EXCEPT !.fail = {"AWAIT_PAYMENT"}, !.status = "COMPENSATING"]
OnPaymentTimeoutAtOnce ==
    [NoEffect EXCEPT !.fail = {"AWAIT_PAYMENT"}, !.status = "COMPENSATED",
                     !.current = "CANCELLED", !.emit = {"inventory.release_stock"}]

OnPaymentTimeout ==
    [NoEffect EXCEPT !.fail = {"AWAIT_PAYMENT"}, !.status = "COMPENSATING",
                     !.emit = {"inventory.release_stock"}]

\* Mutant: the release is forgotten.
OnPaymentFailedWithoutRelease ==
    [NoEffect EXCEPT !.fail = {"AWAIT_PAYMENT"}, !.status = "COMPENSATING"]

OnPaymentFailed ==
    [NoEffect EXCEPT !.fail = {"AWAIT_PAYMENT"}, !.status = "COMPENSATING",
                     !.emit = {"inventory.release_stock"}]

OnInventoryConfirmed ==
    [NoEffect EXCEPT !.complete = {"CONFIRM_INVENTORY"}, !.create = {"CREATE_SHIPPING"},
                     !.current = "CREATE_SHIPPING", !.order = "CONFIRMED",
                     !.emit = {"shipping.create_label"}]

\* Mutant: the saga ends with the label.
OnShippingLabelCreatedCompletes ==
    [NoEffect EXCEPT !.complete = {"CREATE_SHIPPING"}, !.status = "COMPLETED",
                     !.current = "COMPLETE_ORDER", !.order = "PREPARING",
                     !.notifiesLast = TRUE]

OnShippingLabelCreated ==
    [NoEffect EXCEPT !.complete = {"CREATE_SHIPPING"}, !.create = {"AWAIT_DELIVERY"},
                     !.current = "AWAIT_DELIVERY", !.order = "PREPARING",
                     !.notifiesLast = TRUE]

OnShippingInTransit ==
    [NoEffect EXCEPT !.types = {"ORDER_SAGA"}, !.order = "SHIPPED",
                     !.notifiesLast = TRUE]

OnShippingDelivered ==
    [NoEffect EXCEPT !.complete = {"AWAIT_DELIVERY"}, !.status = "COMPLETED",
                     !.current = "COMPLETE_ORDER", !.order = "DELIVERED",
                     !.notifiesLast = TRUE]

OnStockReleased ==
    [NoEffect EXCEPT !.in = "COMPENSATING", !.status = "COMPENSATED",
                     !.current = "CANCELLED", !.order = "CANCELLED",
                     !.notifiesLast = TRUE]

OnRefundRequested ==
    [NoEffect EXCEPT !.types = {"REFUND_SAGA"}, !.starts = "REFUND_SAGA",
                     !.create = {"VALIDATE_REFUND"}, !.current = "VALIDATE_REFUND"]

OnRefundApproved ==
    [NoEffect EXCEPT !.types = {"REFUND_SAGA"}, !.complete = {"VALIDATE_REFUND"},
                     !.create = {"PROCESS_REFUND"}, !.current = "PROCESS_REFUND",
                     !.emit = {"payment.refund_requested"}]

OnRefundRejected ==
    [NoEffect EXCEPT !.types = {"REFUND_SAGA"}, !.complete = {"VALIDATE_REFUND"},
                     !.create = {"REJECT_REFUND"}, !.finish = {"REJECT_REFUND"},
                     !.status = "COMPLETED", !.current = "REJECT_REFUND",
                     !.emit = {"refund.status_rejected"}, !.notifiesLast = TRUE]

OnPaymentRefunded ==
    [NoEffect EXCEPT !.types = {"REFUND_SAGA"}, !.complete = {"PROCESS_REFUND"},
                     !.create = {"COMPLETE_REFUND"}, !.finish = {"COMPLETE_REFUND"},
                     !.status = "COMPLETED", !.current = "COMPLETE_REFUND",
                     !.order = "REFUNDED", !.emit = {"refund.status_refunded"},
                     !.notifiesLast = TRUE]

\* shipping.status_updated with another status than IN_TRANSIT returns at once.
Route(t) ==
    CASE t = "order.created"                -> StartSaga
      [] t = "inventory.stock_reserved"     -> OnInventoryReserved
      [] t = "inventory.stock_insufficient" -> OnInventoryInsufficient
      [] t = "inventory.stock_confirmed"    -> OnInventoryConfirmed
      [] t = "inventory.stock_released"     -> OnStockReleased
      [] t = "payment.completed"            -> OnPaymentCompleted
      [] t = "payment.failed"               -> OnPaymentFailed
      [] t = "payment.timeout"              -> OnPaymentTimeout
      [] t = "payment.refunded"             -> OnPaymentRefunded
      [] t = "shipping.label_created"       -> OnShippingLabelCreated
      [] t = "shipping.in_transit"          -> OnShippingInTransit
      [] t = "shipping.delivered"           -> OnShippingDelivered
      [] t = "refund.requested"             -> OnRefundRequested
      [] t = "refund.approved"              -> OnRefundApproved
      [] t = "refund.rejected"              -> OnRefundRejected
      [] t = "shipping.picked_up"           -> NoEffect

Program == Route(consumer.ev.type)

-----------------------------------------------------------------------------
(* The consumer: one message at a time, offset committed when the handler  *)
(* (or its dead-lettering) resolves.                                       *)

Receive(e) ==
    /\ consumer = Idle
    /\ e \in inbox
    /\ consumer' = [at |-> IF e.type = "shipping.picked_up" THEN "done" ELSE "lookup",
                    ev |-> e, tries |-> 1, saga |-> NoSaga]
    /\ UNCHANGED <<sagaVars, comp, events, inbox, commands, cmdbox, remoteVars, faults>>

\* Mutant: the lookup forgets the status.
MatchingAnyStatus(p) == {s \in Sagas : sagaType[s] \in p.types /\ status[s] # "none"}
Matching(p) == {s \in Sagas : sagaType[s] \in p.types /\ status[s] = p.in}

\* findOne without an order: any matching row.  Without a match a starting
\* handler goes on to insert, and the others return; with one it is reversed.
Lookup ==
    /\ consumer.at = "lookup"
    /\ LET p == Program
           starting == p.starts # "none"
       IN \/ /\ Matching(p) # {} /\ ~starting
             /\ \E s \in Matching(p) :
                  consumer' = [consumer EXCEPT !.at = "steps", !.saga = s]
          \/ /\ Matching(p) = {} /\ starting
             /\ consumer' = [consumer EXCEPT !.at = "insert"]
          \/ /\ (Matching(p) = {}) # starting
             /\ consumer' = [consumer EXCEPT !.at = "done"]
    /\ UNCHANGED <<sagaVars, comp, events, inbox, commands, cmdbox, remoteVars, faults>>

InsertSaga ==
    /\ consumer.at = "insert"
    /\ \E s \in Sagas :
         /\ sagaType[s] = "none"
         /\ sagaType' = [sagaType EXCEPT ![s] = Program.starts]
         /\ status' = [status EXCEPT ![s] = "RUNNING"]
         /\ currentStep' = [currentStep EXCEPT ![s] = Program.current]
         /\ consumer' = [consumer EXCEPT !.at = "steps", !.saga = s]
    /\ UNCHANGED <<step, comp, events, inbox, commands, cmdbox, remoteVars, faults>>

\* completeStep and failStep update a row if it is there; createStep adds it
\* if it is not.
WriteSteps ==
    /\ consumer.at = "steps"
    /\ LET p == Program
           After(n, old) ==
             CASE n \in p.complete /\ old # "absent" -> "COMPLETED"
               [] n \in p.fail /\ old # "absent"     -> "FAILED"
               [] n \in p.create /\ old = "absent"   -> "IN_PROGRESS"
               [] OTHER                              -> old
       IN step' = [step EXCEPT ![consumer.saga] =
                      [n \in StepNames |-> After(n, @[n])]]
    /\ consumer' = [consumer EXCEPT !.at = "saga"]
    /\ UNCHANGED <<sagaType, status, currentStep, comp, events, inbox, commands,
                   cmdbox, remoteVars, faults>>

WriteSaga ==
    /\ consumer.at = "saga"
    /\ LET p == Program
           s == consumer.saga
       IN /\ status' = [status EXCEPT ![s] = IF p.status = Keep THEN @ ELSE p.status]
          /\ currentStep' =
               [currentStep EXCEPT ![s] = IF p.current = Keep THEN @ ELSE p.current]
          /\ step' = [step EXCEPT ![s] =
               [n \in StepNames |-> IF n \in p.finish THEN "COMPLETED" ELSE @[n]]]
    /\ consumer' = [consumer EXCEPT !.at = "http"]
    /\ UNCHANGED <<sagaType, comp, events, inbox, commands, cmdbox, remoteVars, faults>>

\* PATCH /orders/:id/status and POST /payment/create-qr on the other side:
\* the order's status is overwritten whatever it is, the intent is created
\* once.
PatchOrder(st) == orderStatus' = IF st = "none" THEN orderStatus ELSE st
CreateQR(s) == IF intent = "none"
               THEN intent' = "PENDING" /\ intentSaga' = s
               ELSE UNCHANGED <<intent, intentSaga>>

\* Errors of the HTTP calls (an open breaker, a timeout) are logged and
\* swallowed: the handler goes on.
CallServices ==
    /\ consumer.at = "http"
    /\ \/ /\ PatchOrder(Program.order)
          /\ IF Program.qr THEN CreateQR(consumer.saga)
                           ELSE UNCHANGED <<intent, intentSaga>>
          /\ UNCHANGED faults
       \/ /\ Program.qr \/ Program.order # "none"
          /\ Spend("http")
          /\ UNCHANGED remoteVars
    /\ consumer' = [consumer EXCEPT !.at = "publish"]
    /\ UNCHANGED <<sagaVars, comp, events, inbox, commands, cmdbox>>

PublishCommand ==
    /\ consumer.at = "publish"
    /\ PublishCommands({Command(t, consumer.saga) : t \in Program.emit})
    /\ consumer' = [consumer EXCEPT !.at = "done"]
    /\ UNCHANGED <<sagaVars, comp, events, inbox, remoteVars, faults>>

Commit ==
    /\ consumer.at = "done"
    /\ inbox' = inbox \ {consumer.ev}
    /\ consumer' = Idle
    /\ UNCHANGED <<sagaVars, comp, events, commands, cmdbox, remoteVars, faults>>

\* The database or the broker is unavailable, and the handler has just called
\* it: it throws.
CanThrow ==
    \/ consumer.at \in {"lookup", "insert"}
    \/ consumer.at = "steps" /\ Program.complete \union Program.fail \union Program.create # {}
    \/ consumer.at = "saga" /\ (Program.status # Keep \/ Program.current # Keep)
    \/ consumer.at = "publish" /\ Program.emit # {}
    \/ consumer.at = "done" /\ consumer.saga # NoSaga /\ Program.notifiesLast

\* The first failure of a message starts an outage; it lasts for as many of
\* the message's attempts as it likes.
Outage == IF consumer.tries = 1 THEN Spend("outage") ELSE UNCHANGED faults

\* withRetry runs the handler again from its start.
Retry ==
    /\ CanThrow
    /\ consumer.tries < MAX_RETRIES
    /\ Outage
    /\ consumer' = [consumer EXCEPT !.at = "lookup", !.tries = @ + 1, !.saga = NoSaga]
    /\ UNCHANGED <<sagaVars, comp, events, inbox, commands, cmdbox, remoteVars>>

\* Retries exhausted: the message goes to the dead-letter topic and the saga
\* is marked FAILED whatever its status, found by sagaId or, without one, by
\* orderId.  When the marking itself throws, the offset is not committed but
\* the consumer moves on all the same.
DeadLetter ==
    /\ CanThrow
    /\ consumer.tries = MAX_RETRIES
    /\ Outage
    /\ LET rows == {s \in Sagas : sagaType[s] # "none"}
           found == IF consumer.ev.saga \in Sagas
                    THEN rows \intersect {consumer.ev.saga} ELSE rows
       IN \/ \E s \in found :
               /\ status' = [status EXCEPT ![s] = "FAILED"]
               /\ currentStep' = [currentStep EXCEPT ![s] = "FAILED"]
          \/ UNCHANGED <<status, currentStep>>
    /\ inbox' = inbox \ {consumer.ev}
    /\ consumer' = Idle
    /\ UNCHANGED <<sagaType, step, comp, events, commands, cmdbox, remoteVars>>

\* The process restarts: the message in hand was not committed and comes
\* back, the cron invocations are gone.
Crash ==
    /\ consumer # Idle \/ \E j \in Jobs : comp[j] # CompIdle
    /\ Spend("crash")
    /\ consumer' = Idle
    /\ comp' = [j \in Jobs |-> CompIdle]
    /\ UNCHANGED <<sagaVars, events, inbox, commands, cmdbox, remoteVars>>

\* An event is delivered again: its offset was not committed, or the outbox
\* worker that sent it died before marking it published.
Redeliver(e) ==
    /\ e \in events \ inbox
    /\ Spend("redeliver")
    /\ inbox' = inbox \union {e}
    /\ UNCHANGED <<sagaVars, consumer, comp, events, commands, cmdbox, remoteVars>>

-----------------------------------------------------------------------------
(* The recovery cron.                                                      *)

\* Mutant: a step is mapped to its predecessor's command.
RECOVERABLE_STEPS_SHIFTED ==
    [RESERVE_INVENTORY |-> "inventory.reserve_stock",
     CONFIRM_INVENTORY |-> "inventory.confirm_stock",
     CREATE_SHIPPING   |-> "inventory.confirm_stock"]

RECOVERABLE_STEPS ==
    [RESERVE_INVENTORY |-> "inventory.reserve_stock",
     CONFIRM_INVENTORY |-> "inventory.confirm_stock",
     CREATE_SHIPPING   |-> "shipping.create_label"]

\* No activity for ten minutes: nothing is being done about the saga, and
\* unless delivery is slow nothing is in flight either.
Stuck == /\ consumer = Idle
         /\ \/ inbox = {} /\ cmdbox = {} /\ UNCHANGED faults
            \/ inbox \union cmdbox # {} /\ Spend("slow")

RecoverStuckSaga(s) ==
    /\ sagaType[s] = "ORDER_SAGA" /\ status[s] = "RUNNING"
    /\ currentStep[s] \in DOMAIN RECOVERABLE_STEPS
    /\ Stuck
    /\ PublishCommands({[type |-> RECOVERABLE_STEPS[currentStep[s]],
                         saga |-> s, again |-> TRUE]})
    /\ UNCHANGED <<sagaVars, consumer, comp, events, inbox, remoteVars>>

-----------------------------------------------------------------------------
(* The compensation cron.                                                  *)

STEP_NEEDS_STOCK_RELEASE ==
    {"AWAIT_PAYMENT", "CONFIRM_INVENTORY", "CREATE_SHIPPING", "AWAIT_DELIVERY"}
\* Mutant: the steps that hold stock, from the reservation on, are refunded.
STEP_NEEDS_REFUND_EARLY ==
    {"RESERVE_INVENTORY", "CONFIRM_INVENTORY", "CREATE_SHIPPING", "AWAIT_DELIVERY"}
STEP_NEEDS_REFUND == {"CONFIRM_INVENTORY", "CREATE_SHIPPING", "AWAIT_DELIVERY"}

CompletedSteps(s) == {n \in StepNames : step[s][n] = "COMPLETED"}

FindFailedSagas(j) ==
    /\ comp[j] = CompIdle
    /\ LET failed == {s \in Sagas : sagaType[s] = "ORDER_SAGA" /\ status[s] = "FAILED"}
       IN /\ failed # {}
          /\ comp' = [comp EXCEPT ![j] = [at |-> "next", todo |-> failed,
                                          saga |-> NoSaga, release |-> FALSE]]
    /\ UNCHANGED <<sagaVars, consumer, events, inbox, commands, cmdbox, remoteVars, faults>>

\* compensate(saga), first part: read the completed steps, decide, mark.  The
\* saga comes from the list read at the start; its status is not read again.
BeginCompensation(j, s) ==
    /\ comp[j].at = "next" /\ s \in comp[j].todo
    /\ LET needsRefund == CompletedSteps(s) \intersect STEP_NEEDS_REFUND # {}
           needsRelease == CompletedSteps(s) \intersect STEP_NEEDS_STOCK_RELEASE # {}
       IN comp' = [comp EXCEPT ![j] =
                     [at |-> CASE needsRefund -> "refund"
                               [] ~needsRefund /\ needsRelease -> "release"
                               [] OTHER -> "cancel",
                      todo |-> @.todo \ {s}, saga |-> s, release |-> needsRelease]]
    /\ status' = [status EXCEPT ![s] = "COMPENSATING"]
    /\ UNCHANGED <<sagaType, currentStep, step, consumer, events, inbox, commands,
                   cmdbox, remoteVars, faults>>

CompNext(j) == [comp[j] EXCEPT !.at = "next", !.saga = NoSaga, !.release = FALSE]

EmitRefund(j) ==
    /\ comp[j].at = "refund"
    /\ PublishCommands({Command("payment.refund_requested", comp[j].saga)})
    /\ comp' = [comp EXCEPT ![j].at = IF comp[j].release THEN "release" ELSE "cancel"]
    /\ UNCHANGED <<sagaVars, consumer, events, inbox, remoteVars, faults>>

EmitRelease(j) ==
    /\ comp[j].at = "release"
    /\ PublishCommands({Command("inventory.release_stock", comp[j].saga)})
    /\ comp' = [comp EXCEPT ![j] = CompNext(j)]
    /\ UNCHANGED <<sagaVars, consumer, events, inbox, remoteVars, faults>>

CancelOrder(j) ==
    /\ comp[j].at = "cancel"
    /\ \/ PatchOrder("CANCELLED") /\ UNCHANGED faults
       \/ Spend("http") /\ UNCHANGED orderStatus
    /\ comp' = [comp EXCEPT ![j].at = "close"]
    /\ UNCHANGED <<sagaVars, consumer, events, inbox, commands, cmdbox,
                   intent, intentSaga>>

CloseSaga(j) ==
    /\ comp[j].at = "close"
    /\ status' = [status EXCEPT ![comp[j].saga] = "COMPENSATED"]
    /\ currentStep' = [currentStep EXCEPT ![comp[j].saga] = "CANCELLED"]
    /\ comp' = [comp EXCEPT ![j] = CompNext(j)]
    /\ UNCHANGED <<sagaType, step, consumer, events, inbox, commands, cmdbox,
                   remoteVars, faults>>

\* An exception inside compensate() is logged and the loop goes on with the
\* next saga.
CompensationThrows(j) ==
    /\ comp[j].at \in {"refund", "release", "close"}
    /\ Spend("outage")
    /\ comp' = [comp EXCEPT ![j] = CompNext(j)]
    /\ UNCHANGED <<sagaVars, consumer, events, inbox, commands, cmdbox, remoteVars>>

EndCompensation(j) ==
    /\ comp[j].at = "next" /\ comp[j].todo = {}
    /\ comp' = [comp EXCEPT ![j] = CompIdle]
    /\ UNCHANGED <<sagaVars, consumer, events, inbox, commands, cmdbox, remoteVars, faults>>

Consume == \/ Lookup \/ InsertSaga \/ WriteSteps \/ WriteSaga \/ CallServices
           \/ PublishCommand \/ Commit
CompensationJob(j) ==
    \/ FindFailedSagas(j) \/ \E s \in Sagas : BeginCompensation(j, s)
    \/ EmitRefund(j) \/ EmitRelease(j) \/ CancelOrder(j) \/ CloseSaga(j)
    \/ EndCompensation(j)
OrchFaults == \/ Retry \/ DeadLetter \/ Crash
              \/ \E e \in events : Redeliver(e)
              \/ \E j \in Jobs : CompensationThrows(j)

OrchNext ==
    \/ \E e \in inbox : Receive(e)
    \/ Consume
    \/ \E s \in Sagas : RecoverStuckSaga(s)
    \/ \E j \in Jobs : CompensationJob(j)
    \/ OrchFaults
=============================================================================
