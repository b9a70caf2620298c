--------------------------- MODULE OrderFlowProofs ---------------------------
(***************************************************************************)
(* What no fault can do to an order, proved for any number of saga rows,   *)
(* of overlapping compensation jobs and of faults of every kind.           *)
(*                                                                         *)
(* The invariant IInv of OrderFlow says that whatever may lead to a        *)
(* confirmation, a shipment, a refund or a completion (an event, a         *)
(* command, a step row, a stage of the compensation cron) exists only once *)
(* its cause does; causes are never undone.  The orchestrator's steps are  *)
(* treated apart from those of the other services: the former hand causes  *)
(* on, the latter create them.                                             *)
(*                                                                         *)
(* What holds while certain mishaps stay away rests on two more            *)
(* invariants: HistoryInv (in which order events come, and who works on a  *)
(* saga) for the outcome being final and the saga never moving back, and   *)
(* SettlementInv (who owes the next message about the stock) for the       *)
(* compensation being under way and the cancelled saga holding no stock.   *)
(***************************************************************************)
EXTENDS OrderFlow, TLAPS

\* What a handler of OrderSagaService can be made of.
Programs ==
    [types : SUBSET SagaTypes, in : SagaStatus, starts : SagaTypes \union {"none"},
     complete : SUBSET StepNames, fail : SUBSET StepNames,
     create : SUBSET StepNames, finish : SUBSET StepNames,
     status : SagaStatus \union {Keep}, current : CurrentSteps \union {Keep},
     order : OrderStatus, qr : BOOLEAN, emit : SUBSET CommandTypes,
     notifiesLast : BOOLEAN]

\* Every topic of the consumer's route table leads to such a handler.
LEMMA RouteType == ASSUME NEW t \in EventTypes PROVE Route(t) \in Programs
  <1> USE DEF Programs, NoEffect, SagaTypes, SagaStatus, StepNames, OrderSteps,
              CurrentSteps, OrderStatus, CommandTypes, Keep
  <1>0. NoEffect \in Programs OBVIOUS
  <1>1. StartSaga \in Programs BY DEF StartSaga
  <1>2. OnInventoryReserved \in Programs BY DEF OnInventoryReserved
  <1>3. OnInventoryInsufficient \in Programs BY DEF OnInventoryInsufficient
  <1>4. OnPaymentCompleted \in Programs BY DEF OnPaymentCompleted
  <1>5. OnPaymentTimeout \in Programs BY DEF OnPaymentTimeout
  <1>6. OnPaymentFailed \in Programs BY DEF OnPaymentFailed
  <1>7. OnInventoryConfirmed \in Programs BY DEF OnInventoryConfirmed
  <1>8. OnShippingLabelCreated \in Programs BY DEF OnShippingLabelCreated
  <1>9. OnShippingInTransit \in Programs BY DEF OnShippingInTransit
  <1>10. OnShippingDelivered \in Programs BY DEF OnShippingDelivered
  <1>11. OnStockReleased \in Programs BY DEF OnStockReleased
  <1>12. OnRefundRequested \in Programs BY DEF OnRefundRequested
  <1>13. OnRefundApproved \in Programs BY DEF OnRefundApproved
  <1>14. OnRefundRejected \in Programs BY DEF OnRefundRejected
  <1>15. OnPaymentRefunded \in Programs BY DEF OnPaymentRefunded
  <1> HIDE DEF Programs, NoEffect, SagaTypes, SagaStatus, StepNames, OrderSteps,
              CurrentSteps, OrderStatus, CommandTypes, Keep
  <1> QED
    BY <1>0, <1>1, <1>2, <1>3, <1>4, <1>5, <1>6, <1>7, <1>8, <1>9, <1>10, <1>11,
       <1>12, <1>13, <1>14, <1>15 DEF Route, EventTypes

\* While the consumer works (kafka.consumer.ts, eachMessage), it has a message,
\* an attempt number within MAX_RETRIES and a handler.
LEMMA AtWork ==
    ASSUME OrchTypeOK, consumer.at \in Stages
    PROVE  /\ consumer \in Working
           /\ consumer.ev \in Events /\ consumer.ev.type \in EventTypes
           /\ consumer.tries \in 1..MAX_RETRIES
           /\ consumer.saga \in Sagas \union {NoSaga}
           /\ Program \in Programs
  <1>1. consumer \in Working
    BY DEF OrchTypeOK, Idle, Stages
  <1>2. consumer.ev \in Events /\ consumer.ev.type \in EventTypes
    BY <1>1 DEF Working, Events
  <1> QED
    BY <1>1, <1>2, RouteType DEF Working, Program

\* What a message may bring about, message by message.
Justified(t, p) ==
    /\ p.starts # "none" => p.starts \in p.types /\ p.current \in CurrentSteps
    /\ "inventory.confirm_stock" \in p.emit => t = "payment.completed"
    /\ "payment.refund_requested" \in p.emit => t = "refund.approved"
    /\ "shipping.create_label" \in p.emit => t = "inventory.stock_confirmed"
    /\ p.current = "CONFIRM_INVENTORY" => t = "payment.completed"
    /\ p.current = "CREATE_SHIPPING" => t = "inventory.stock_confirmed"
    /\ "CONFIRM_INVENTORY" \in p.create => t = "payment.completed"
    /\ "CREATE_SHIPPING" \in p.create => t = "inventory.stock_confirmed"
    /\ "AWAIT_DELIVERY" \in p.create => t = "shipping.label_created"
    /\ p.finish \intersect STEP_NEEDS_REFUND = {}
    /\ p.order = "DELIVERED" => t = "shipping.delivered"
    /\ p.status = "COMPLETED" /\ "ORDER_SAGA" \in p.types => t = "shipping.delivered"

\* The route table hands causes on: confirm_stock only for payment.completed, a
\* label only for stock_confirmed, a refund only for an approved one, DELIVERED
\* and the saga's completion only for shipping.delivered.
LEMMA RouteJustified == ASSUME NEW t \in EventTypes PROVE Justified(t, Route(t))
  <1> USE DEF Justified, NoEffect, SagaTypes, CurrentSteps, StepNames, OrderSteps, Keep,
              STEP_NEEDS_REFUND
  <1>0. Justified(t, NoEffect) OBVIOUS
  <1>1. Justified(t, StartSaga) BY DEF StartSaga
  <1>2. Justified(t, OnInventoryReserved) BY DEF OnInventoryReserved
  <1>3. Justified(t, OnInventoryInsufficient) BY DEF OnInventoryInsufficient
  <1>4. Justified("payment.completed", OnPaymentCompleted) BY DEF OnPaymentCompleted
  <1>5. Justified(t, OnPaymentTimeout) BY DEF OnPaymentTimeout
  <1>6. Justified(t, OnPaymentFailed) BY DEF OnPaymentFailed
  <1>7. Justified("inventory.stock_confirmed", OnInventoryConfirmed)
    BY DEF OnInventoryConfirmed
  <1>8. Justified("shipping.label_created", OnShippingLabelCreated)
    BY DEF OnShippingLabelCreated
  <1>9. Justified(t, OnShippingInTransit) BY DEF OnShippingInTransit
  <1>10. Justified("shipping.delivered", OnShippingDelivered) BY DEF OnShippingDelivered
  <1>11. Justified(t, OnStockReleased) BY DEF OnStockReleased
  <1>12. Justified(t, OnRefundRequested) BY DEF OnRefundRequested
  <1>13. Justified("refund.approved", OnRefundApproved) BY DEF OnRefundApproved
  <1>14. Justified(t, OnRefundRejected) BY DEF OnRefundRejected
  <1>15. Justified(t, OnPaymentRefunded) BY DEF OnPaymentRefunded
  <1> HIDE DEF Justified, NoEffect, SagaTypes, CurrentSteps, StepNames, OrderSteps, Keep,
               STEP_NEEDS_REFUND
  <1> QED
    BY <1>0, <1>1, <1>2, <1>3, <1>4, <1>5, <1>6, <1>7, <1>8, <1>9, <1>10, <1>11,
       <1>12, <1>13, <1>14, <1>15 DEF Route, EventTypes

\* Handlers, dead-lettering, recovery and compensation keep rows, messages and
\* stages within their types.
LEMMA OrchTypeStep ==
    ASSUME TypeOK, ConsumerBound, CompBound, OrchNext, UNCHANGED partyVars
    PROVE  TypeOK'
  <1>1. OrchTypeOK' => TypeOK'
    BY DEF TypeOK, partyVars
  <1>2. OrchTypeOK BY DEF TypeOK
  <1> SUFFICES OrchTypeOK' BY <1>1
  <1> USE <1>2 DEF Idle, CompIdle, sagaVars, remoteVars
  <1>3. ASSUME NEW e \in inbox, Receive(e) PROVE OrchTypeOK'
    BY <1>3 DEF OrchTypeOK, Receive, Working, Stages, MAX_RETRIES
  <1>4. CASE Lookup
    <2>1. consumer \in Working
      BY <1>4, AtWork DEF Lookup, Stages
    <2>2. consumer' \in Working
      BY <1>4, <2>1 DEF Lookup, Working, Stages, Matching
    <2> QED
      BY <1>4, <2>2 DEF OrchTypeOK, Lookup
  <1>5. CASE InsertSaga
    <2>1. consumer \in Working /\ Program \in Programs
      BY <1>5, AtWork DEF InsertSaga, Stages
    <2>2. consumer' \in Working
      BY <1>5, <2>1 DEF InsertSaga, Working, Stages
    <2>3. Program.starts # "none" /\ Program.current \in CurrentSteps
      BY <1>5, AtWork, RouteJustified
      DEF InsertSaga, ConsumerBound, Program, Justified, Stages
    <2>4. /\ sagaType' \in [Sagas -> SagaTypes \union {"none"}]
          /\ status' \in [Sagas -> SagaStatus \union {"none"}]
          /\ currentStep' \in [Sagas -> CurrentSteps]
      BY <1>5, <2>1, <2>3 DEF OrchTypeOK, InsertSaga, Programs, SagaStatus
    <2> QED
      BY <1>5, <2>2, <2>4 DEF OrchTypeOK, InsertSaga
  <1>6. CASE WriteSteps
    <2>1. consumer \in Working
      BY <1>6, AtWork DEF WriteSteps, Stages
    <2>2. consumer' \in Working
      BY <1>6, <2>1 DEF WriteSteps, Working, Stages
    <2>3. step' \in [Sagas -> [StepNames -> SagaStepStatus]]
      BY <1>6 DEF OrchTypeOK, WriteSteps, SagaStepStatus
    <2> QED
      BY <1>6, <2>2, <2>3 DEF OrchTypeOK, WriteSteps
  <1>7. CASE WriteSaga
    <2>1. consumer \in Working /\ Program \in Programs
      BY <1>7, AtWork DEF WriteSaga, Stages
    <2>2. consumer' \in Working
      BY <1>7, <2>1 DEF WriteSaga, Working, Stages
    <2>3. /\ status' \in [Sagas -> SagaStatus \union {"none"}]
          /\ currentStep' \in [Sagas -> CurrentSteps]
      BY <1>7, <2>1 DEF OrchTypeOK, WriteSaga, Programs
    <2>4. step' \in [Sagas -> [StepNames -> SagaStepStatus]]
      BY <1>7 DEF OrchTypeOK, WriteSaga, SagaStepStatus
    <2> QED
      BY <1>7, <2>2, <2>3, <2>4 DEF OrchTypeOK, WriteSaga
  <1>8. CASE CallServices
    <2>1. consumer \in Working /\ Program \in Programs
      BY <1>8, AtWork DEF CallServices, Stages
    <2>2. consumer' \in Working
      BY <1>8, <2>1 DEF CallServices, Working, Stages
    <2>3. orderStatus' \in OrderStatus
      BY <1>8, <2>1 DEF OrchTypeOK, CallServices, PatchOrder, Programs
    <2>4. intent' \in PaymentStatus /\ intentSaga' \in Sagas \union {NoSaga}
      BY <1>8, <2>1 DEF OrchTypeOK, CallServices, CreateQR, Working, PaymentStatus
    <2>5. faults' \in [Kinds -> Nat]
      BY <1>8 DEF OrchTypeOK, CallServices, Spend, Kinds
    <2> QED
      BY <1>8, <2>2, <2>3, <2>4, <2>5 DEF OrchTypeOK, CallServices
  <1>9. CASE PublishCommand
    <2>1. consumer \in Working /\ Program \in Programs
      BY <1>9, AtWork DEF PublishCommand, Stages
    <2>2. consumer' \in Working
      BY <1>9, <2>1 DEF PublishCommand, Working, Stages
    <2>3. consumer.saga \in Sagas
      BY <1>9 DEF PublishCommand, ConsumerBound
    <2>4. {Command(t, consumer.saga) : t \in Program.emit} \subseteq Commands
      <3>1. ASSUME NEW t \in Program.emit PROVE Command(t, consumer.saga) \in Commands
        <4>1. t \in CommandTypes
          BY <2>1 DEF Programs
        <4> QED
          BY <2>3, <4>1 DEF Command, Commands
      <3> QED
        BY <3>1
    <2>5. commands' \subseteq Commands /\ cmdbox' \subseteq commands'
      BY <1>9, <2>4 DEF OrchTypeOK, PublishCommand, PublishCommands
    <2> QED
      BY <1>9, <2>2, <2>5 DEF OrchTypeOK, PublishCommand
  <1>10. CASE Commit
    BY <1>10 DEF OrchTypeOK, Commit
  <1>11. CASE Retry
    <2>1. consumer \in Working
      BY <1>11, AtWork DEF Retry, CanThrow, Stages
    <2>2. consumer.tries + 1 \in 1..MAX_RETRIES
      BY <1>11, <2>1 DEF Retry, Working, MAX_RETRIES
    <2>3. consumer' \in Working
      BY <1>11, <2>1, <2>2 DEF Retry, Working, Stages
    <2>4. faults' \in [Kinds -> Nat]
      BY <1>11 DEF OrchTypeOK, Retry, Outage, Spend, Kinds
    <2> QED
      BY <1>11, <2>3, <2>4 DEF OrchTypeOK, Retry
  <1>12. CASE DeadLetter
    <2>1. faults' \in [Kinds -> Nat]
      BY <1>12 DEF OrchTypeOK, DeadLetter, Outage, Spend, Kinds
    <2>2. /\ status' \in [Sagas -> SagaStatus \union {"none"}]
          /\ currentStep' \in [Sagas -> CurrentSteps]
      BY <1>12 DEF OrchTypeOK, DeadLetter, SagaStatus, CurrentSteps
    <2> QED
      BY <1>12, <2>1, <2>2 DEF OrchTypeOK, DeadLetter
  <1>13. CASE Crash
    <2>1. faults' \in [Kinds -> Nat]
      BY <1>13 DEF OrchTypeOK, Crash, Spend, Kinds
    <2> QED
      BY <1>13, <2>1 DEF OrchTypeOK, Crash
  <1>14. ASSUME NEW e \in events, Redeliver(e) PROVE OrchTypeOK'
    <2>1. faults' \in [Kinds -> Nat]
      BY <1>14 DEF OrchTypeOK, Redeliver, Spend, Kinds
    <2> QED
      BY <1>14, <2>1 DEF OrchTypeOK, Redeliver
  <1>15. ASSUME NEW s \in Sagas, RecoverStuckSaga(s) PROVE OrchTypeOK'
    <2>1. RECOVERABLE_STEPS[currentStep[s]] \in CommandTypes
      BY <1>15 DEF RecoverStuckSaga, RECOVERABLE_STEPS, CommandTypes
    <2>2. [type |-> RECOVERABLE_STEPS[currentStep[s]], saga |-> s, again |-> TRUE]
             \in Commands
      BY <2>1 DEF Commands
    <2>3. commands' \subseteq Commands /\ cmdbox' \subseteq commands'
      BY <1>15, <2>2 DEF OrchTypeOK, RecoverStuckSaga, PublishCommands
    <2>4. faults' \in [Kinds -> Nat]
      BY <1>15 DEF OrchTypeOK, RecoverStuckSaga, Stuck, Spend, Kinds
    <2> QED
      BY <1>15, <2>3, <2>4 DEF OrchTypeOK, RecoverStuckSaga
  <1>16. ASSUME NEW j \in Jobs, CompensationJob(j) PROVE OrchTypeOK'
    <2>1. comp[j].at \in CompStages => comp[j] \in CompBusy
      BY DEF OrchTypeOK, CompStages
    <2>2. CompNext(j) \in CompBusy \/ comp[j].at \notin CompStages
      BY <2>1 DEF CompNext, CompBusy, CompStages
    <2>3. CASE FindFailedSagas(j)
      BY <2>3 DEF OrchTypeOK, FindFailedSagas, CompBusy, CompStages
    <2>4. ASSUME NEW s \in Sagas, BeginCompensation(j, s) PROVE OrchTypeOK'
      <3>1. comp'[j] \in CompBusy
        BY <2>1, <2>4 DEF OrchTypeOK, BeginCompensation, CompBusy, CompStages
      <3>2. comp' \in [Jobs -> CompBusy \union {CompIdle}]
        BY <2>4, <3>1 DEF OrchTypeOK, BeginCompensation
      <3>3. status' \in [Sagas -> SagaStatus \union {"none"}]
        BY <2>4 DEF OrchTypeOK, BeginCompensation, SagaStatus
      <3> QED
        BY <2>4, <3>2, <3>3 DEF OrchTypeOK, BeginCompensation
    <2>5. CASE EmitRefund(j)
      <3>1. comp[j] \in CompBusy /\ comp[j].saga \in Sagas
        BY <2>1, <2>5 DEF EmitRefund, CompStages, CompBound
      <3>2. comp' \in [Jobs -> CompBusy \union {CompIdle}]
        BY <2>5, <3>1 DEF OrchTypeOK, EmitRefund, CompBusy, CompStages
      <3>3. Command("payment.refund_requested", comp[j].saga) \in Commands
        BY <3>1 DEF Command, Commands, CommandTypes
      <3>4. commands' \subseteq Commands /\ cmdbox' \subseteq commands'
        BY <2>5, <3>3 DEF OrchTypeOK, EmitRefund, PublishCommands
      <3> QED
        BY <2>5, <3>2, <3>4 DEF OrchTypeOK, EmitRefund
    <2>6. CASE EmitRelease(j)
      <3>1. comp[j] \in CompBusy /\ comp[j].saga \in Sagas
        BY <2>1, <2>6 DEF EmitRelease, CompStages, CompBound
      <3>2. comp' \in [Jobs -> CompBusy \union {CompIdle}]
        BY <2>2, <2>6 DEF OrchTypeOK, EmitRelease, CompStages
      <3>3. Command("inventory.release_stock", comp[j].saga) \in Commands
        BY <3>1 DEF Command, Commands, CommandTypes
      <3>4. commands' \subseteq Commands /\ cmdbox' \subseteq commands'
        BY <2>6, <3>3 DEF OrchTypeOK, EmitRelease, PublishCommands
      <3> QED
        BY <2>6, <3>2, <3>4 DEF OrchTypeOK, EmitRelease
    <2>7. CASE CancelOrder(j)
      <3>1. comp' \in [Jobs -> CompBusy \union {CompIdle}]
        BY <2>1, <2>7 DEF OrchTypeOK, CancelOrder, CompBusy, CompStages
      <3>2. orderStatus' \in OrderStatus
        BY <2>7 DEF OrchTypeOK, CancelOrder, PatchOrder, OrderStatus
      <3>3. faults' \in [Kinds -> Nat]
        BY <2>7 DEF OrchTypeOK, CancelOrder, Spend, Kinds
      <3> QED
        BY <2>7, <3>1, <3>2, <3>3 DEF OrchTypeOK, CancelOrder
    <2>8. CASE CloseSaga(j)
      <3>1. comp' \in [Jobs -> CompBusy \union {CompIdle}]
        BY <2>2, <2>8 DEF OrchTypeOK, CloseSaga, CompStages
      <3>2. /\ status' \in [Sagas -> SagaStatus \union {"none"}]
            /\ currentStep' \in [Sagas -> CurrentSteps]
        BY <2>8 DEF OrchTypeOK, CloseSaga, SagaStatus, CurrentSteps
      <3> QED
        BY <2>8, <3>1, <3>2 DEF OrchTypeOK, CloseSaga
    <2>9. CASE EndCompensation(j)
      BY <2>9 DEF OrchTypeOK, EndCompensation
    <2> QED
      BY <1>16, <2>3, <2>4, <2>5, <2>6, <2>7, <2>8, <2>9 DEF CompensationJob
  <1>17. ASSUME NEW j \in Jobs, CompensationThrows(j) PROVE OrchTypeOK'
    <2>0. comp[j] \in CompBusy
      BY <1>17 DEF OrchTypeOK, CompensationThrows
    <2>1. CompNext(j) \in CompBusy
      BY <2>0 DEF CompNext, CompBusy, CompStages
    <2>2. faults' \in [Kinds -> Nat]
      BY <1>17 DEF OrchTypeOK, CompensationThrows, Spend, Kinds
    <2> QED
      BY <1>17, <2>1, <2>2 DEF OrchTypeOK, CompensationThrows
  <1> QED
    BY <1>3, <1>4, <1>5, <1>6, <1>7, <1>8, <1>9, <1>10, <1>11, <1>12, <1>13, <1>14,
       <1>15, <1>16, <1>17 DEF OrchNext, Consume, OrchFaults

\* They also keep to the message received and to the saga the lookup accepted
\* (findRunningSaga, the rows of the compensation cron).
LEMMA OrchBoundStep ==
    ASSUME TypeOK, ConsumerBound, CompBound, OrchNext
    PROVE  ConsumerBound' /\ CompBound'
  <1> USE DEF Idle, CompIdle, sagaVars, remoteVars, Program
  <1>1. OrchTypeOK BY DEF TypeOK
  <1>2. ASSUME UNCHANGED <<consumer, sagaType>>, events \subseteq events'
        PROVE  ConsumerBound'
    BY <1>2 DEF ConsumerBound
  <1>3. UNCHANGED comp => CompBound'
    BY DEF CompBound
  <1>4. ASSUME NEW e \in inbox, Receive(e) PROVE ConsumerBound' /\ CompBound'
    BY <1>1, <1>3, <1>4 DEF Receive, ConsumerBound, OrchTypeOK
  <1>5. CASE Lookup
    <2>0. consumer.at = "lookup"
      BY <1>5 DEF Lookup
    <2>1. consumer # Idle
      BY <2>0
    <2>2. consumer \in Working /\ consumer.ev \in events
      BY <1>1, <2>0, <2>1, AtWork DEF ConsumerBound, Stages
    <2>3. ConsumerBound'
      <3>1. CASE consumer'.at = "steps"
        BY <1>5, <2>2, <3>1 DEF Lookup, ConsumerBound, Matching, Working
      <3>2. CASE consumer'.at # "steps"
        BY <1>5, <2>2, <3>2 DEF Lookup, ConsumerBound, Working
      <3> QED
        BY <3>1, <3>2
    <2> QED
      BY <1>3, <1>5, <2>3 DEF Lookup
  <1>6. CASE InsertSaga
    <2>1. Program.starts \in Program.types
      BY <1>1, <1>6, AtWork, RouteJustified
      DEF InsertSaga, ConsumerBound, Justified, Stages
    <2> QED
      BY <1>1, <1>3, <1>6, <2>1 DEF InsertSaga, ConsumerBound, OrchTypeOK
  <1>7. CASE WriteSteps
    BY <1>1, <1>3, <1>7, AtWork DEF WriteSteps, ConsumerBound, Stages, Working
  <1>8. CASE WriteSaga
    BY <1>1, <1>3, <1>8, AtWork DEF WriteSaga, ConsumerBound, Stages, Working
  <1>9. CASE CallServices
    BY <1>1, <1>3, <1>9, AtWork DEF CallServices, ConsumerBound, Stages, Working
  <1>10. CASE PublishCommand
    BY <1>1, <1>3, <1>10, AtWork DEF PublishCommand, ConsumerBound, Stages, Working
  <1>11. CASE Commit
    BY <1>3, <1>11 DEF Commit, ConsumerBound
  <1>12. CASE Retry
    BY <1>1, <1>3, <1>12, AtWork DEF Retry, CanThrow, ConsumerBound, Stages, Working
  <1>13. CASE DeadLetter
    BY <1>3, <1>13 DEF DeadLetter, ConsumerBound
  <1>14. CASE Crash
    BY <1>14 DEF Crash, ConsumerBound, CompBound
  <1>15. ASSUME NEW e \in events, Redeliver(e) PROVE ConsumerBound' /\ CompBound'
    BY <1>2, <1>3, <1>15 DEF Redeliver
  <1>16. ASSUME NEW s \in Sagas, RecoverStuckSaga(s) PROVE ConsumerBound' /\ CompBound'
    BY <1>2, <1>3, <1>16 DEF RecoverStuckSaga
  <1>17. ASSUME NEW j \in Jobs, CompensationJob(j) PROVE ConsumerBound' /\ CompBound'
    <2>1. UNCHANGED <<consumer, sagaType, events>>
      BY <1>17 DEF CompensationJob, FindFailedSagas, BeginCompensation, EmitRefund,
                   EmitRelease, CancelOrder, CloseSaga, EndCompensation
    <2>2. CompBound'
      <3> USE <1>1 DEF CompBound, OrchTypeOK
      <3>1. CASE FindFailedSagas(j)
        BY <3>1 DEF FindFailedSagas
      <3>2. ASSUME NEW s \in Sagas, BeginCompensation(j, s) PROVE CompBound'
        BY <3>2 DEF BeginCompensation
      <3>3. CASE EmitRefund(j)
        BY <3>3 DEF EmitRefund
      <3>4. CASE EmitRelease(j)
        BY <3>4 DEF EmitRelease, CompNext
      <3>5. CASE CancelOrder(j)
        BY <3>5 DEF CancelOrder
      <3>6. CASE CloseSaga(j)
        BY <3>6 DEF CloseSaga, CompNext
      <3>7. CASE EndCompensation(j)
        BY <3>7 DEF EndCompensation
      <3> QED
        BY <1>17, <3>1, <3>2, <3>3, <3>4, <3>5, <3>6, <3>7 DEF CompensationJob
    <2> QED
      BY <1>2, <2>1, <2>2
  <1>18. ASSUME NEW j \in Jobs, CompensationThrows(j) PROVE ConsumerBound' /\ CompBound'
    BY <1>1, <1>2, <1>18 DEF CompensationThrows, CompNext, CompBound, OrchTypeOK
  <1> QED
    BY <1>4, <1>5, <1>6, <1>7, <1>8, <1>9, <1>10, <1>11, <1>12, <1>13, <1>14, <1>15,
       <1>16, <1>17, <1>18 DEF OrchNext, Consume, OrchFaults

\* The two halves of the invariant besides its types.
Justifications == EventsJustified /\ CommandsJustified /\ RowsJustified /\ RefundJustified
Promises == ConfirmedIsPaid /\ ShipmentIsConfirmed /\ RefundIsPaid /\ CompletedIsDelivered

\* An orchestrator step (a handler's stage, a retry, a cron) changes none of the
\* causes, and what it publishes or writes has one.
LEMMA OrchJustifiedStep ==
    ASSUME IInv, OrchNext, UNCHANGED partyVars
    PROVE  Justifications' /\ Promises'
  <1> USE DEF Idle, CompIdle, sagaVars, remoteVars
  <1>1. OrchTypeOK BY DEF IInv, TypeOK
  <1>2. /\ ConsumerBound /\ CompBound /\ EventsJustified /\ CommandsJustified
        /\ RowsJustified /\ RefundJustified
        /\ ConfirmedIsPaid /\ ShipmentIsConfirmed /\ RefundIsPaid /\ CompletedIsDelivered
    BY DEF IInv
  <1>3. UNCHANGED <<reservation, vnpay, webhook, shipment, refundBox>>
    BY DEF partyVars
  <1>0. UNCHANGED events
    BY DEF OrchNext, Consume, OrchFaults, Receive, Lookup, InsertSaga, WriteSteps, WriteSaga,
           CallServices, PublishCommand, Commit, Retry, DeadLetter, Crash, Redeliver,
           RecoverStuckSaga, CompensationJob, CompensationThrows, FindFailedSagas,
           BeginCompensation, EmitRefund, EmitRelease, CancelOrder, CloseSaga,
           EndCompensation
  <1>4. Paid' = Paid /\ SomeConfirmed' = SomeConfirmed
    BY <1>0, <1>3 DEF Paid, SomeConfirmed, Confirmed, SettledTwice, Event
  <1>5. ConfirmedIsPaid' /\ ShipmentIsConfirmed'
    BY <1>2, <1>3, <1>4 DEF ConfirmedIsPaid, ShipmentIsConfirmed
  <1>6. UNCHANGED events => EventsJustified'
    BY <1>2, <1>3, <1>4 DEF EventsJustified
  <1>7. UNCHANGED commands => CommandsJustified'
    BY <1>2, <1>4 DEF CommandsJustified
  <1>8. UNCHANGED <<currentStep, step>> => RowsJustified'
    BY <1>2, <1>4 DEF RowsJustified
  <1>9. UNCHANGED <<orderStatus, comp>> => RefundJustified'
    BY <1>2, <1>3, <1>4 DEF RefundJustified
  <1>10. UNCHANGED intent => RefundIsPaid'
    BY <1>2, <1>4 DEF RefundIsPaid
  <1>11. UNCHANGED <<sagaType, status>> => CompletedIsDelivered'
    BY <1>2, <1>3 DEF CompletedIsDelivered
  <1> DEFINE Goal == /\ EventsJustified' /\ CommandsJustified' /\ RowsJustified'
                     /\ RefundJustified' /\ RefundIsPaid' /\ CompletedIsDelivered'
  <1> SUFFICES Goal BY <1>5 DEF Justifications, Promises
  <1> USE <1>6, <1>7, <1>8, <1>9, <1>10, <1>11
  <1>12. ASSUME consumer.at \in Stages
         PROVE  /\ consumer.ev \in events /\ Justified(consumer.ev.type, Program)
                /\ Program \in Programs
    <2>1. consumer # Idle
      BY <1>12 DEF Stages
    <2> QED
      BY <1>1, <1>2, <1>12, <2>1, AtWork, RouteJustified DEF ConsumerBound, Program
  <1>13. ASSUME NEW e \in inbox, Receive(e) PROVE Goal
    BY <1>13 DEF Receive
  <1>14. CASE Lookup
    BY <1>14 DEF Lookup
  <1>15. CASE InsertSaga
    <2>1. UNCHANGED <<step, events, commands, orderStatus, comp, intent>>
      BY <1>15 DEF InsertSaga
    <2>2. consumer.at = "insert"
      BY <1>15 DEF InsertSaga
    <2>3. consumer.ev \in events /\ Justified(consumer.ev.type, Program)
      BY <1>12, <2>2 DEF Stages
    <2>4. RowsJustified'
      BY <1>1, <1>2, <1>4, <1>15, <2>1, <2>3
      DEF InsertSaga, OrchTypeOK, RowsJustified, EventsJustified, Justified
    <2>5. CompletedIsDelivered'
      BY <1>1, <1>2, <1>3, <1>15 DEF InsertSaga, OrchTypeOK, CompletedIsDelivered
    <2> QED
      BY <2>1, <2>4, <2>5
  <1>16. CASE WriteSteps
    <2>1. UNCHANGED <<currentStep, events, commands, orderStatus, comp, intent, sagaType, status>>
      BY <1>16 DEF WriteSteps
    <2>2. consumer.at = "steps"
      BY <1>16 DEF WriteSteps
    <2>3. consumer.ev \in events /\ Justified(consumer.ev.type, Program)
      BY <1>12, <2>2 DEF Stages
    <2>4. ASSUME NEW s \in Sagas, NEW n \in STEP_NEEDS_REFUND, step'[s][n] # "absent"
          PROVE  step[s][n] # "absent" \/ n \in Program.create
      BY <1>1, <1>16, <2>4 DEF WriteSteps, OrchTypeOK, STEP_NEEDS_REFUND, StepNames, OrderSteps
    <2>5. ASSUME NEW n \in STEP_NEEDS_REFUND, n \in Program.create
          PROVE  Paid
      BY <1>2, <2>3, <2>5
      DEF STEP_NEEDS_REFUND, Justified, EventsJustified, ConfirmedIsPaid
    <2>6. RowsJustified'
      BY <1>2, <1>4, <2>1, <2>4, <2>5 DEF RowsJustified
    <2> QED
      BY <2>1, <2>6
  <1>17. CASE WriteSaga
    <2>1. UNCHANGED <<events, commands, orderStatus, comp, intent, sagaType>>
      BY <1>17 DEF WriteSaga
    <2>2. consumer.at = "saga"
      BY <1>17 DEF WriteSaga
    <2>3. /\ consumer.ev \in events /\ Justified(consumer.ev.type, Program)
          /\ consumer.saga \in Sagas /\ sagaType[consumer.saga] \in Program.types
      BY <1>2, <1>12, <2>2 DEF Stages, ConsumerBound
    <2>4. \A s \in Sagas, n \in STEP_NEEDS_REFUND :
             step'[s][n] = step[s][n]
      BY <1>1, <1>17, <2>3
      DEF WriteSaga, OrchTypeOK, Justified, STEP_NEEDS_REFUND, StepNames, OrderSteps
    <2>5. \A s \in Sagas : currentStep'[s] \in {currentStep[s], Program.current}
      BY <1>1, <1>17 DEF WriteSaga, OrchTypeOK
    <2>6. \A s \in Sagas : status'[s] # status[s]
                            => s = consumer.saga /\ status'[s] = Program.status
      <3>1. status' = [status EXCEPT ![consumer.saga] =
                          IF Program.status = Keep THEN @ ELSE Program.status]
        BY <1>17 DEF WriteSaga
      <3> QED
        BY <1>1, <3>1 DEF OrchTypeOK
    <2>7. RowsJustified'
      BY <1>2, <1>4, <2>3, <2>4, <2>5 DEF RowsJustified, Justified, EventsJustified
    <2>8. CompletedIsDelivered'
      BY <1>2, <1>3, <2>1, <2>3, <2>6
      DEF CompletedIsDelivered, Justified, EventsJustified
    <2> QED
      BY <2>1, <2>7, <2>8
  <1>18. CASE CallServices
    <2>1. UNCHANGED <<currentStep, step, events, commands, comp, sagaType, status>>
      BY <1>18 DEF CallServices
    <2>2. consumer.at = "http"
      BY <1>18 DEF CallServices
    <2>3. /\ consumer.ev \in events /\ Justified(consumer.ev.type, Program)
      BY <1>12, <2>2 DEF Stages
    <2>4. orderStatus' = orderStatus \/ orderStatus' = Program.order
      BY <1>18 DEF CallServices, PatchOrder
    <2>5. orderStatus' = "DELIVERED" => Paid
      BY <1>2, <2>3, <2>4 DEF Justified, EventsJustified, RefundJustified,
         ShipmentIsConfirmed, ConfirmedIsPaid
    <2>6. RefundJustified'
      BY <1>2, <1>3, <1>4, <2>1, <2>5 DEF RefundJustified
    <2>7. intent' = intent \/ intent' = "PENDING"
      BY <1>18 DEF CallServices, CreateQR
    <2>8. RefundIsPaid'
      BY <1>2, <1>4, <2>7 DEF RefundIsPaid
    <2> QED
      BY <2>1, <2>6, <2>8
  <1>19. CASE PublishCommand
    <2>1. UNCHANGED <<currentStep, step, events, comp, sagaType, status, orderStatus, intent>>
      BY <1>19 DEF PublishCommand
    <2>2. consumer.at = "publish"
      BY <1>19 DEF PublishCommand
    <2>3. /\ consumer.ev \in events /\ Justified(consumer.ev.type, Program)
      BY <1>12, <2>2 DEF Stages
    <2>4. ASSUME NEW c \in commands' PROVE c \in commands \/ c.type \in Program.emit
      BY <1>19, <2>4 DEF PublishCommand, PublishCommands, Command
    <2>5. CommandsJustified'
      BY <1>2, <1>4, <2>3, <2>4 DEF CommandsJustified, Justified, EventsJustified
    <2> QED
      BY <2>1, <2>5
  <1>20. CASE Commit
    BY <1>20 DEF Commit
  <1>21. CASE Retry
    BY <1>21 DEF Retry
  <1>22. CASE DeadLetter
    <2>1. UNCHANGED <<step, events, commands, orderStatus, comp, intent, sagaType>>
      BY <1>22 DEF DeadLetter
    <2>2. RowsJustified'
      BY <1>1, <1>2, <1>4, <1>22, <2>1 DEF DeadLetter, OrchTypeOK, RowsJustified
    <2>3. CompletedIsDelivered'
      BY <1>1, <1>2, <1>3, <1>22, <2>1 DEF DeadLetter, OrchTypeOK, CompletedIsDelivered
    <2> QED
      BY <2>1, <2>2, <2>3
  <1>23. CASE Crash
    <2>1. RefundJustified'
      BY <1>2, <1>3, <1>4, <1>23 DEF Crash, RefundJustified
    <2> QED
      BY <1>23, <2>1 DEF Crash
  <1>24. ASSUME NEW e \in events, Redeliver(e) PROVE Goal
    BY <1>24 DEF Redeliver
  <1>25. ASSUME NEW s \in Sagas, RecoverStuckSaga(s) PROVE Goal
    <2>1. ASSUME NEW c \in commands', c \notin commands
          PROVE  /\ c.type = "inventory.confirm_stock" => currentStep[s] = "CONFIRM_INVENTORY"
                 /\ c.type = "shipping.create_label" => currentStep[s] = "CREATE_SHIPPING"
                 /\ c.type # "payment.refund_requested"
      BY <1>25, <2>1 DEF RecoverStuckSaga, PublishCommands, RECOVERABLE_STEPS
    <2>2. CommandsJustified'
      BY <1>2, <1>4, <2>1 DEF CommandsJustified, RowsJustified
    <2> QED
      BY <1>25, <2>2 DEF RecoverStuckSaga
  <1>26. ASSUME NEW j \in Jobs, CompensationJob(j) PROVE Goal
    <2> USE <1>1 DEF OrchTypeOK
    <2>1. CASE FindFailedSagas(j)
      <3>1. RefundJustified'
        BY <1>2, <1>3, <1>4, <2>1 DEF FindFailedSagas, RefundJustified
      <3> QED
        BY <2>1, <3>1 DEF FindFailedSagas
    <2>2. ASSUME NEW s \in Sagas, BeginCompensation(j, s) PROVE Goal
      <3>1. comp'[j].at = "refund" => CompletedSteps(s) \intersect STEP_NEEDS_REFUND # {}
        BY <2>2 DEF BeginCompensation
      <3>2. comp'[j].at = "refund" => Paid
        BY <1>2, <3>1 DEF CompletedSteps, RowsJustified
      <3>3. RefundJustified'
        BY <1>2, <1>3, <1>4, <2>2, <3>2 DEF BeginCompensation, RefundJustified
      <3>4. CompletedIsDelivered'
        BY <1>2, <1>3, <2>2 DEF BeginCompensation, CompletedIsDelivered
      <3> QED
        BY <2>2, <3>3, <3>4 DEF BeginCompensation
    <2>3. CASE EmitRefund(j)
      <3>1. RefundJustified'
        BY <1>2, <1>3, <1>4, <2>3 DEF EmitRefund, RefundJustified
      <3>2. CommandsJustified'
        BY <1>2, <1>4, <2>3
        DEF EmitRefund, PublishCommands, Command, CommandsJustified, RefundJustified
      <3> QED
        BY <2>3, <3>1, <3>2 DEF EmitRefund
    <2>4. CASE EmitRelease(j)
      <3>1. RefundJustified'
        BY <1>2, <1>3, <1>4, <2>4 DEF EmitRelease, CompNext, RefundJustified
      <3>2. CommandsJustified'
        BY <1>2, <1>4, <2>4 DEF EmitRelease, PublishCommands, Command, CommandsJustified
      <3> QED
        BY <2>4, <3>1, <3>2 DEF EmitRelease
    <2>5. CASE CancelOrder(j)
      <3>1. RefundJustified'
        BY <1>2, <1>3, <1>4, <2>5 DEF CancelOrder, PatchOrder, RefundJustified
      <3> QED
        BY <2>5, <3>1 DEF CancelOrder
    <2>6. CASE CloseSaga(j)
      <3>1. RefundJustified'
        BY <1>2, <1>3, <1>4, <2>6 DEF CloseSaga, CompNext, RefundJustified
      <3>2. RowsJustified'
        BY <1>2, <1>4, <2>6 DEF CloseSaga, RowsJustified
      <3>3. CompletedIsDelivered'
        BY <1>2, <1>3, <2>6 DEF CloseSaga, CompletedIsDelivered
      <3> QED
        BY <2>6, <3>1, <3>2, <3>3 DEF CloseSaga
    <2>7. CASE EndCompensation(j)
      <3>1. RefundJustified'
        BY <1>2, <1>3, <1>4, <2>7 DEF EndCompensation, RefundJustified
      <3> QED
        BY <2>7, <3>1 DEF EndCompensation
    <2> QED
      BY <1>26, <2>1, <2>2, <2>3, <2>4, <2>5, <2>6, <2>7 DEF CompensationJob
  <1>27. ASSUME NEW j \in Jobs, CompensationThrows(j) PROVE Goal
    <2>1. RefundJustified'
      BY <1>1, <1>2, <1>3, <1>4, <1>27
      DEF CompensationThrows, CompNext, OrchTypeOK, RefundJustified
    <2> QED
      BY <1>27, <2>1 DEF CompensationThrows
  <1> QED
    BY <1>13, <1>14, <1>15, <1>16, <1>17, <1>18, <1>19, <1>20, <1>21, <1>22, <1>23,
       <1>24, <1>25, <1>26, <1>27 DEF OrchNext, Consume, OrchFaults

\* The actions of the other services and of the customer.
PartyStep ==
    \/ CreateOrder \/ \E t \in StatusUpdates : OrderConsumes(t)
    \/ \E c \in cmdbox : HandleCommand(c) \/ DropCommand(c)
    \/ \E c, d \in cmdbox : SettleBoth(c, d)
    \/ \E o \in {"paid", "failed"} : CustomerPays(o)
    \/ ProcessIpn \/ DropIpn \/ ListExpired \/ ExpireIntent
    \/ SimulateDelivery \/ ShippingCrash
    \/ CreateRefund \/ \E a \in BOOLEAN : ValidateAndEmit(a)

\* They touch no saga row, publish no command and unpublish no event: only the
\* orchestrator does the former, and Kafka keeps its log.
LEMMA PartyFrame ==
    ASSUME PartyStep
    PROVE  /\ UNCHANGED <<sagaType, status, currentStep, step, consumer, comp, commands>>
           /\ events \subseteq events'
  <1> USE DEF orchestratorOnly, sagaVars, InventoryFrame, PaymentFrame, ShippingFrame,
              RefundFrame, PublishEvents, NoEvent, HandleCommand
  <1> QED
    BY DEF PartyStep, CreateOrder, OrderConsumes, DropCommand, CustomerPays, ProcessIpn,
           DropIpn, ListExpired, ExpireIntent, SimulateDelivery, Advance,
           ShippingCrash, CreateRefund, ValidateAndEmit, ReserveStock, RefuseStock,
           ReserveAgain, ConfirmStock, ReleaseStock, Settle, SettleBoth, ProcessRefund, CreateLabel,
           UpdateRefundStatus

\* What has caused something is never undone: processed_webhook rows stay, a
\* reservation that was CONFIRMED stays so, a delivered shipment stays delivered.
LEMMA CausesLast ==
    ASSUME TypeOK, PartyStep
    PROVE  /\ Paid => Paid'
           /\ SomeConfirmed => SomeConfirmed'
           /\ shipment = "DELIVERED" => shipment' = "DELIVERED"
  <1> USE DEF InventoryFrame, PaymentFrame, ShippingFrame, RefundFrame, HandleCommand,
              partyVars, paymentVars, inventoryVars, shippingVars
  <1>1. Paid => Paid'
    BY DEF Paid, PartyStep, CreateOrder, OrderConsumes, DropCommand, CustomerPays, ProcessIpn,
           DropIpn, ListExpired, ExpireIntent, SimulateDelivery, Advance,
           ShippingCrash, CreateRefund, ValidateAndEmit, ReserveStock, RefuseStock,
           ReserveAgain, ConfirmStock, ReleaseStock, Settle, SettleBoth, ProcessRefund, CreateLabel,
           UpdateRefundStatus
  <1>2. SomeConfirmed => SomeConfirmed'
    <2>1. \A s \in Sagas : reservation[s] = "CONFIRMED" => reservation'[s] = "CONFIRMED"
      BY DEF TypeOK, PartyStep, CreateOrder, OrderConsumes, DropCommand,
           CustomerPays, ProcessIpn, DropIpn, ListExpired, ExpireIntent, SimulateDelivery, Advance,
           ShippingCrash, CreateRefund, ValidateAndEmit, ReserveStock, RefuseStock,
           ReserveAgain, ConfirmStock, ReleaseStock, Settle, SettleBoth, ProcessRefund,
           CreateLabel, UpdateRefundStatus
    <2>2. \A s \in Sagas : SettledTwice(s) => SettledTwice(s)'
      BY PartyFrame DEF SettledTwice, Event
    <2> QED
      BY <2>1, <2>2 DEF SomeConfirmed, Confirmed
  <1>3. shipment = "DELIVERED" => shipment' = "DELIVERED"
    BY DEF PartyStep, CreateOrder, OrderConsumes, DropCommand, CustomerPays, ProcessIpn,
           DropIpn, ListExpired, ExpireIntent, SimulateDelivery, Advance,
           ShippingCrash, CreateRefund, ValidateAndEmit, ReserveStock, RefuseStock,
           ReserveAgain, ConfirmStock, ReleaseStock, Settle, SettleBoth, ProcessRefund, CreateLabel,
           UpdateRefundStatus
  <1> QED
    BY <1>1, <1>2, <1>3

\* Only a confirmation announces one or turns a reservation CONFIRMED.
LEMMA ApartFromConfirm ==
    ASSUME TypeOK, PartyStep, ~ \E c \in cmdbox : ConfirmStock(c),
           ~ \E c, d \in cmdbox : SettleBoth(c, d)
    PROVE  /\ \A s \in Sagas : reservation'[s] = "CONFIRMED" => reservation[s] = "CONFIRMED"
           /\ \A e \in events' : e.type = "inventory.stock_confirmed" => e \in events
  <1> USE DEF orchestratorOnly, sagaVars, partyVars, inventoryVars, paymentVars, shippingVars,
              refundVars, remoteVars, PaymentFrame, InventoryFrame, ShippingFrame,
              RefundFrame, NoEvent, PublishEvents, Event
  <1>1. reservation \in [Sagas -> ReservationStatus]
    BY DEF TypeOK
  <1>2. CASE CreateOrder \/ \E t \in StatusUpdates : OrderConsumes(t)
    BY <1>2 DEF CreateOrder, OrderConsumes
  <1>3. CASE \E c \in cmdbox : HandleCommand(c) \/ DropCommand(c)
    BY <1>1, <1>3 DEF HandleCommand, DropCommand, ReserveStock, RefuseStock, ReserveAgain,
                ReleaseStock, Settle, ProcessRefund, CreateLabel, UpdateRefundStatus
  <1>4. CASE \/ \E o \in {"paid", "failed"} : CustomerPays(o)
             \/ ProcessIpn \/ DropIpn \/ ListExpired \/ ExpireIntent
    BY <1>4 DEF CustomerPays, ProcessIpn, DropIpn, ListExpired, ExpireIntent
  <1>5. CASE SimulateDelivery \/ ShippingCrash
    BY <1>5 DEF SimulateDelivery, Advance, ShippingCrash
  <1>6. CASE CreateRefund \/ \E a \in BOOLEAN : ValidateAndEmit(a)
    BY <1>6 DEF CreateRefund, ValidateAndEmit
  <1> QED
    BY <1>2, <1>3, <1>4, <1>5, <1>6 DEF PartyStep

\* So nothing is confirmed that was not paid, whether a release overlaps or not.
LEMMA PartyConfirmed ==
    ASSUME IInv, PartyStep
    PROVE  ConfirmedIsPaid'
  <1>1. /\ TypeOK /\ EventsJustified /\ CommandsJustified /\ ConfirmedIsPaid
        /\ cmdbox \subseteq commands
    BY DEF IInv, TypeOK, OrchTypeOK
  <1>2. Paid => Paid'
    BY <1>1, CausesLast
  <1>3. CASE \/ \E c \in cmdbox : ConfirmStock(c)
             \/ \E c, d \in cmdbox : SettleBoth(c, d)
    <2>1. \E c \in commands : c.type = "inventory.confirm_stock"
      BY <1>1, <1>3 DEF ConfirmStock, Settle, SettleBoth
    <2> QED
      BY <1>1, <1>2, <2>1 DEF CommandsJustified, ConfirmedIsPaid
  <1>4. CASE ~ \/ \E c \in cmdbox : ConfirmStock(c)
               \/ \E c, d \in cmdbox : SettleBoth(c, d)
    <2>1. /\ \A s \in Sagas : reservation'[s] = "CONFIRMED" => reservation[s] = "CONFIRMED"
          /\ \A e \in events' : e.type = "inventory.stock_confirmed" => e \in events
      BY <1>1, <1>4, ApartFromConfirm
    <2>2. \A s \in Sagas : SettledTwice(s)' => SomeConfirmed
      BY <1>1, <2>1 DEF SettledTwice, Event, EventsJustified
    <2>3. SomeConfirmed' => SomeConfirmed
      BY <2>1, <2>2 DEF SomeConfirmed, Confirmed
    <2> QED
      BY <1>1, <1>2, <2>3 DEF ConfirmedIsPaid
  <1> QED
    BY <1>3, <1>4

\* A step of order-, inventory-, payment-, shipping- or refund-service keeps the
\* invariant: its handlers publish what the row they just wrote entitles them to.
LEMMA PartyStepInv == ASSUME IInv, PartyStep PROVE IInv'
  <1>1. /\ TypeOK /\ OrchTypeOK /\ ConsumerBound /\ CompBound
        /\ EventsJustified /\ CommandsJustified /\ RowsJustified /\ RefundJustified
        /\ ConfirmedIsPaid /\ ShipmentIsConfirmed /\ RefundIsPaid /\ CompletedIsDelivered
    BY DEF IInv, TypeOK
  <1>2. /\ UNCHANGED <<sagaType, status, currentStep, step, consumer, comp, commands>>
        /\ events \subseteq events'
    BY PartyFrame
  <1>3. /\ Paid => Paid'
        /\ SomeConfirmed => SomeConfirmed'
        /\ shipment = "DELIVERED" => shipment' = "DELIVERED"
    BY <1>1, CausesLast
  <1>4. ConsumerBound' /\ CompBound'
    BY <1>1, <1>2 DEF ConsumerBound, CompBound, Program
  <1>5. CommandsJustified' /\ RowsJustified' /\ CompletedIsDelivered'
    BY <1>1, <1>2, <1>3 DEF CommandsJustified, RowsJustified, CompletedIsDelivered
  <1> DEFINE Goal == /\ TypeOK' /\ EventsJustified' /\ RefundJustified'
                     /\ ShipmentIsConfirmed' /\ RefundIsPaid'
  <1> SUFFICES Goal BY <1>4, <1>5, PartyConfirmed DEF IInv
  <1>6. ASSUME NEW e, PublishEvents({e}),
               e.type \in {"payment.completed", "refund.approved"} => Paid',
               e.type \in {"inventory.stock_confirmed", "shipping.label_created"}
                 => SomeConfirmed',
               e.type = "shipping.delivered" => shipment' = "DELIVERED"
        PROVE  EventsJustified'
    <2>1. \A f \in events' : f \in events \/ f = e
      BY <1>6 DEF PublishEvents
    <2> QED
      BY <1>1, <1>3, <1>6, <2>1 DEF EventsJustified
  <1>7. UNCHANGED events => EventsJustified'
    BY <1>1, <1>3 DEF EventsJustified
  <1>8. UNCHANGED <<orderStatus, refundBox>> => RefundJustified'
    BY <1>1, <1>2, <1>3 DEF RefundJustified
  <1>9. UNCHANGED shipment => ShipmentIsConfirmed'
    BY <1>1, <1>3 DEF ShipmentIsConfirmed
  <1>10. UNCHANGED intent => RefundIsPaid'
    BY <1>1, <1>3 DEF RefundIsPaid
  <1>11. \A t \in EventTypes, s \in Sagas \union {NoSaga} : Event(t, s) \in Events
    BY DEF Event, Events
  <1> USE <1>1, <1>8, <1>9, <1>10 DEF TypeOK, sagaVars, remoteVars,
      orchestratorOnly, partyVars, inventoryVars, paymentVars, shippingVars, refundVars
  <1>12. ASSUME NEW c \in cmdbox, NEW d \in cmdbox, SettleBoth(c, d) PROVE Goal
    <2> USE <1>12 DEF SettleBoth, InventoryFrame
    <2>1. c.saga \in Sagas
      BY DEF OrchTypeOK, Commands
    <2>2. /\ Event("inventory.stock_confirmed", c.saga) \in Events
          /\ Event("inventory.stock_released", c.saga) \in Events
      BY <1>11, <2>1 DEF EventTypes
    <2>3. TypeOK'
      <3>1. reservation' \in [Sagas -> ReservationStatus]
        BY <2>1 DEF ReservationStatus
      <3>2. events' \subseteq Events /\ inbox' \subseteq events'
        BY <2>2 DEF OrchTypeOK, PublishEvents
      <3>3. cmdbox' \subseteq commands'
        BY <1>2 DEF OrchTypeOK
      <3> QED
        BY <3>1, <3>2, <3>3 DEF OrchTypeOK
    <2>4. EventsJustified'
      <3>1. SomeConfirmed'
        BY <2>1 DEF SomeConfirmed, Confirmed, SettledTwice, PublishEvents, Event
      <3>2. \A e \in events' : \/ e \in events
                              \/ e.type \in {"inventory.stock_confirmed",
                                             "inventory.stock_released"}
        BY DEF PublishEvents, Event
      <3> QED
        BY <1>3, <3>1, <3>2 DEF EventsJustified
    <2> QED
      BY <2>3, <2>4
  <1>13. CASE CreateOrder
    <2>1. Event("order.created", NoSaga) \in Events
      BY <1>11 DEF EventTypes
    <2>2. TypeOK'
      BY <1>13, <2>1 DEF CreateOrder, OrchTypeOK, PublishEvents, OrderStatus
    <2>3. EventsJustified'
      BY <1>6, <1>13 DEF CreateOrder, Event
    <2>4. RefundJustified'
      BY <1>2, <1>3, <1>13 DEF CreateOrder, RefundJustified
    <2> QED
      BY <1>13, <2>2, <2>3, <2>4 DEF CreateOrder
  <1>14. ASSUME NEW t \in StatusUpdates, OrderConsumes(t) PROVE Goal
    <2>1. TypeOK'
      BY <1>14 DEF OrderConsumes, OrchTypeOK, OrderStatus, NoEvent
    <2>2. RefundJustified'
      BY <1>2, <1>3, <1>14 DEF OrderConsumes, RefundJustified
    <2> QED
      BY <1>7, <1>14, <2>1, <2>2 DEF OrderConsumes, NoEvent
  <1>15. ASSUME NEW c \in cmdbox, HandleCommand(c) PROVE Goal
    <2>1. /\ c \in commands /\ c \in Commands
          /\ c.type \in CommandTypes /\ c.saga \in Sagas /\ c.again \in BOOLEAN
      BY DEF OrchTypeOK, Commands
    <2>2. \A t \in EventTypes : Event(t, c.saga) \in Events
      BY <1>11, <2>1
    <2>3. CASE ReserveStock(c)
      <3> USE <2>3 DEF ReserveStock, Remembered, InventoryFrame, Take
      <3>1. Event("inventory.stock_reserved", c.saga) \in Events
        BY <2>2 DEF EventTypes
      <3>2. TypeOK'
        BY <2>1, <3>1 DEF OrchTypeOK, PublishEvents, ReservationStatus
      <3>3. EventsJustified'
        BY <1>6 DEF Event
      <3> QED
        BY <3>2, <3>3
    <2>4. CASE RefuseStock(c)
      <3> USE <2>4 DEF RefuseStock, Remembered, InventoryFrame, Take
      <3>1. Event("inventory.stock_insufficient", c.saga) \in Events
        BY <2>2 DEF EventTypes
      <3>2. faults' \in [Kinds -> Nat]
        BY DEF OrchTypeOK, Spend, Kinds
      <3>3. TypeOK'
        BY <2>1, <3>1, <3>2 DEF OrchTypeOK, PublishEvents, NoEvent
      <3>4. EventsJustified'
        BY <1>6, <1>7 DEF Event, NoEvent
      <3> QED
        BY <3>3, <3>4
    <2>5. CASE ReserveAgain(c)
      <3> USE <2>5 DEF ReserveAgain, InventoryFrame, Take, NoEvent
      <3>1. TypeOK'
        BY DEF OrchTypeOK
      <3> QED
        BY <1>7, <3>1
    <2>6. CASE ConfirmStock(c)
      <3> USE <2>6 DEF ConfirmStock, Settle, InventoryFrame, Take, NoEvent
      <3>1. Event("inventory.stock_confirmed", c.saga) \in Events
        BY <2>2 DEF EventTypes
      <3>2. TypeOK'
        <4>1. reservation' \in [Sagas -> ReservationStatus]
          BY <2>1 DEF ReservationStatus
        <4>2. events' \subseteq Events /\ inbox' \subseteq events'
          BY <2>1, <3>1 DEF OrchTypeOK, PublishEvents
        <4>3. cmdbox' \subseteq commands'
          BY <1>2 DEF OrchTypeOK
        <4> QED
          BY <4>1, <4>2, <4>3 DEF OrchTypeOK
      <3>3. EventsJustified'
        <4>1. CASE reservation[c.saga] = "HELD"
          <5>1. SomeConfirmed'
            BY <2>1, <4>1 DEF SomeConfirmed, Confirmed
          <5> QED
            BY <1>6, <4>1, <5>1 DEF Event
        <4>2. CASE reservation[c.saga] # "HELD"
          BY <1>7, <4>2
        <4> QED
          BY <4>1, <4>2
      <3> QED
        BY <3>2, <3>3
    <2>7. CASE ReleaseStock(c)
      <3> USE <2>7 DEF ReleaseStock, Settle, InventoryFrame, Take, NoEvent
      <3>1. Event("inventory.stock_released", c.saga) \in Events
        BY <2>2 DEF EventTypes
      <3>2. TypeOK'
        <4>1. reservation' \in [Sagas -> ReservationStatus]
          BY <2>1 DEF ReservationStatus
        <4>2. events' \subseteq Events /\ inbox' \subseteq events'
          BY <2>1, <3>1 DEF OrchTypeOK, PublishEvents
        <4>3. cmdbox' \subseteq commands'
          BY <1>2 DEF OrchTypeOK
        <4> QED
          BY <4>1, <4>2, <4>3 DEF OrchTypeOK
      <3>3. EventsJustified'
        BY <1>6, <1>7 DEF Event
      <3> QED
        BY <3>2, <3>3
    <2>8. CASE ProcessRefund(c)
      <3> USE <2>8 DEF ProcessRefund, PaymentFrame, Take, NoEvent
      <3>1. Event("payment.refunded", intentSaga) \in Events
        BY <1>11 DEF EventTypes, OrchTypeOK
      <3>2. TypeOK'
        BY <3>1 DEF OrchTypeOK, PublishEvents, PaymentStatus
      <3>3. EventsJustified'
        BY <1>6, <1>7 DEF Event
      <3>4. RefundIsPaid'
        BY <1>3, <2>1 DEF RefundIsPaid, CommandsJustified
      <3> QED
        BY <3>2, <3>3, <3>4
    <2>9. CASE CreateLabel(c)
      <3> USE <2>9 DEF CreateLabel, ShippingFrame, Take, NoEvent
      <3>1. Event("shipping.label_created", c.saga) \in Events
        BY <2>2 DEF EventTypes
      <3>2. faults' \in [Kinds -> Nat]
        BY DEF OrchTypeOK, Spend, Kinds
      <3>3. TypeOK'
        <4>1. /\ shipment' \in ShipmentStatus /\ simulating' \in BOOLEAN
              /\ shipmentSaga' \in Sagas \union {NoSaga}
          BY <2>1 DEF ShipmentStatus, PublishEvents
        <4>2. events' \subseteq Events /\ inbox' \subseteq events'
          BY <3>1 DEF OrchTypeOK, PublishEvents
        <4>3. cmdbox' \subseteq commands'
          BY DEF OrchTypeOK
        <4> QED
          BY <3>2, <4>1, <4>2, <4>3 DEF OrchTypeOK
      <3>4. SomeConfirmed'
        BY <1>3, <2>1 DEF CommandsJustified
      <3>5. EventsJustified'
        BY <1>6, <1>7, <3>4 DEF Event
      <3>6. ShipmentIsConfirmed'
        BY <3>4 DEF ShipmentIsConfirmed
      <3> QED
        BY <3>3, <3>5, <3>6
    <2>10. CASE UpdateRefundStatus(c)
      <3> USE <2>10 DEF UpdateRefundStatus, RefundFrame, Take, NoEvent
      <3>1. TypeOK'
        BY DEF OrchTypeOK, RefundStatus
      <3> QED
        BY <1>7, <3>1
    <2> QED
      BY <1>15, <2>3, <2>4, <2>5, <2>6, <2>7, <2>8, <2>9, <2>10 DEF HandleCommand
  <1>16. ASSUME NEW c \in cmdbox, DropCommand(c) PROVE Goal
    <2>1. faults' \in [Kinds -> Nat]
      BY <1>16 DEF DropCommand, OrchTypeOK, Spend, Kinds
    <2>2. TypeOK'
      BY <1>16, <2>1 DEF DropCommand, OrchTypeOK, NoEvent, Take
    <2> QED
      BY <1>7, <1>16, <2>2 DEF DropCommand, NoEvent
  <1>17. ASSUME NEW o \in {"paid", "failed"}, CustomerPays(o) PROVE Goal
    <2>0. faults' \in [Kinds -> Nat]
      BY <1>17 DEF CustomerPays, OrchTypeOK, Spend, Kinds
    <2>1. TypeOK'
      BY <1>17, <2>0 DEF CustomerPays, PaymentFrame, OrchTypeOK, NoEvent
    <2> QED
      BY <1>7, <1>17, <2>1 DEF CustomerPays, PaymentFrame, NoEvent
  <1>18. CASE ProcessIpn
    <2>1. Event("payment.completed", intentSaga) \in Events
          /\ Event("payment.failed", intentSaga) \in Events
      BY <1>11 DEF EventTypes, OrchTypeOK
    <2>2. TypeOK'
      BY <1>18, <2>1 DEF ProcessIpn, PaymentFrame, OrchTypeOK, PublishEvents, PaymentStatus
    <2>3. vnpay = "paid" => Paid'
      BY <1>18 DEF ProcessIpn, Paid
    <2>4. EventsJustified'
      BY <1>6, <1>18, <2>3 DEF ProcessIpn, Event
    <2>5. RefundIsPaid'
      BY <1>18 DEF ProcessIpn, RefundIsPaid
    <2> QED
      BY <1>18, <2>2, <2>4, <2>5 DEF ProcessIpn, PaymentFrame
  <1>19. CASE ListExpired
    <2>0. faults' \in [Kinds -> Nat]
      <3>1. UNCHANGED faults \/ Spend("late")
        BY <1>19 DEF ListExpired
      <3> QED
        BY <3>1 DEF OrchTypeOK, Spend, Kinds
    <2>1. TypeOK'
      BY <1>19, <2>0 DEF ListExpired, PaymentFrame, OrchTypeOK, NoEvent
    <2> QED
      BY <1>7, <1>19, <2>1 DEF ListExpired, PaymentFrame, NoEvent
  <1>20. CASE ExpireIntent
    <2>1. Event("payment.timeout", intentSaga) \in Events
      BY <1>11 DEF EventTypes, OrchTypeOK
    <2>2. TypeOK'
      BY <1>20, <2>1 DEF ExpireIntent, PaymentFrame, OrchTypeOK, PublishEvents, PaymentStatus
    <2>3. EventsJustified'
      BY <1>6, <1>20 DEF ExpireIntent, Event
    <2>4. RefundIsPaid'
      BY <1>20 DEF ExpireIntent, RefundIsPaid
    <2> QED
      BY <1>20, <2>2, <2>3, <2>4 DEF ExpireIntent, PaymentFrame
  <1>21. CASE SimulateDelivery
    <2>1. PICK from, to, topic : /\ Advance(from, to, topic)
                                 /\ from # "none"
                                 /\ to \in ShipmentStatus
                                 /\ topic \in StatusUpdates \union {"shipping.delivered"}
                                 /\ topic = "shipping.delivered" => to = "DELIVERED"
      BY <1>21 DEF SimulateDelivery, ShipmentStatus, StatusUpdates
    <2>2. Event(topic, shipmentSaga) \in Events
      BY <1>11, <2>1 DEF EventTypes, StatusUpdates
    <2>3. TypeOK'
      BY <2>1, <2>2 DEF Advance, ShippingFrame, OrchTypeOK, PublishEvents
    <2>4. EventsJustified'
      BY <1>6, <2>1 DEF Advance, Event, StatusUpdates
    <2>5. ShipmentIsConfirmed'
      BY <1>3, <2>1 DEF Advance, ShipmentIsConfirmed
    <2> QED
      BY <2>1, <2>3, <2>4, <2>5 DEF Advance, ShippingFrame
  <1>22. CASE ShippingCrash
    <2>1. faults' \in [Kinds -> Nat]
      BY <1>22 DEF ShippingCrash, OrchTypeOK, Spend, Kinds
    <2>2. TypeOK'
      BY <1>22, <2>1 DEF ShippingCrash, ShippingFrame, OrchTypeOK, NoEvent
    <2> QED
      BY <1>7, <1>22, <2>2 DEF ShippingCrash, ShippingFrame, NoEvent
  <1>23. CASE CreateRefund
    <2>1. Event("refund.requested", NoSaga) \in Events
      BY <1>11 DEF EventTypes
    <2>0. faults' \in [Kinds -> Nat]
      BY <1>23 DEF CreateRefund, OrchTypeOK, Spend, Kinds
    <2>2. TypeOK'
      BY <1>23, <2>0, <2>1 DEF CreateRefund, RefundFrame, OrchTypeOK, PublishEvents, RefundStatus
    <2>3. EventsJustified'
      BY <1>6, <1>23 DEF CreateRefund, Event
    <2>4. RefundJustified'
      BY <1>2, <1>3, <1>23 DEF CreateRefund, RefundFrame, RefundJustified
    <2> QED
      BY <1>23, <2>2, <2>3, <2>4 DEF CreateRefund, RefundFrame
  <1>24. ASSUME NEW a \in BOOLEAN, ValidateAndEmit(a) PROVE Goal
    <2>1. Event("refund.approved", NoSaga) \in Events
          /\ Event("refund.rejected", NoSaga) \in Events
      BY <1>11 DEF EventTypes
    <2>2. TypeOK'
      BY <1>24, <2>1 DEF ValidateAndEmit, RefundFrame, OrchTypeOK, PublishEvents, RefundStatus
    <2>3. Paid'
      BY <1>3, <1>24 DEF ValidateAndEmit, RefundJustified
    <2>4. EventsJustified'
      BY <1>6, <1>24, <2>3 DEF ValidateAndEmit, Event
    <2>5. RefundJustified'
      BY <1>2, <1>3, <1>24, <2>3 DEF ValidateAndEmit, RefundFrame, RefundJustified
    <2> QED
      BY <1>24, <2>2, <2>4, <2>5 DEF ValidateAndEmit, RefundFrame
  <1>25. CASE DropIpn
    <2>0. faults' \in [Kinds -> Nat]
      BY <1>25 DEF DropIpn, OrchTypeOK, Spend, Kinds
    <2>1. TypeOK'
      BY <1>25, <2>0 DEF DropIpn, PaymentFrame, OrchTypeOK, NoEvent
    <2>2. Paid' = Paid
      BY <1>25 DEF DropIpn, Paid
    <2> QED
      BY <1>7, <1>25, <2>1, <2>2 DEF DropIpn, PaymentFrame, NoEvent
  <1> QED
    BY <1>12, <1>13, <1>14, <1>15, <1>16, <1>17, <1>18, <1>19, <1>20, <1>21, <1>22, <1>23,
       <1>24, <1>25 DEF PartyStep

\* Before the order exists there is nothing to justify.
LEMMA InitInv == Init => IInv
  <1> SUFFICES ASSUME Init PROVE IInv
    OBVIOUS
  <1> USE DEF Init, OrchInit, Idle, CompIdle
  <1>1. TypeOK
    BY DEF TypeOK, OrchTypeOK, CurrentSteps, SagaStepStatus, OrderStatus, PaymentStatus,
           Kinds, ReservationStatus, ShipmentStatus, RefundStatus
  <1>2. ConsumerBound /\ CompBound
    BY DEF ConsumerBound, CompBound
  <1>3. EventsJustified /\ CommandsJustified /\ RowsJustified /\ RefundJustified
    BY DEF EventsJustified, CommandsJustified, RowsJustified, RefundJustified,
           STEP_NEEDS_REFUND, StepNames, OrderSteps
  <1>4. ConfirmedIsPaid /\ ShipmentIsConfirmed /\ RefundIsPaid /\ CompletedIsDelivered
    BY DEF ConfirmedIsPaid, SomeConfirmed, Confirmed, SettledTwice, ShipmentIsConfirmed,
           RefundIsPaid, CompletedIsDelivered
  <1> QED
    BY <1>1, <1>2, <1>3, <1>4 DEF IInv

\* Every step of the system keeps the invariant.
LEMMA StepInv == IInv /\ [Next]_vars => IInv'
  <1>1. ASSUME IInv, OrchNext, UNCHANGED partyVars PROVE IInv'
    <2>1. TypeOK'
      BY <1>1, OrchTypeStep DEF IInv
    <2>2. ConsumerBound' /\ CompBound'
      BY <1>1, OrchBoundStep DEF IInv
    <2>3. Justifications' /\ Promises'
      BY <1>1, OrchJustifiedStep
    <2> QED
      BY <2>1, <2>2, <2>3 DEF IInv, Justifications, Promises
  <1>2. ASSUME IInv, PartyStep PROVE IInv'
    BY <1>2, PartyStepInv
  <1>3. ASSUME IInv, UNCHANGED vars PROVE IInv'
    <2>1. /\ UNCHANGED <<sagaType, status, currentStep, step, consumer, comp, events, commands,
                         orderStatus, intent, refundBox, shipment, vnpay, webhook,
                         reservation>>
          /\ TypeOK' = TypeOK
      BY <1>3 DEF vars, TypeOK, OrchTypeOK
    <2>2. Paid' = Paid /\ SomeConfirmed' = SomeConfirmed
      BY <2>1 DEF Paid, SomeConfirmed, Confirmed, SettledTwice, Event
    <2> QED
      BY <1>3, <2>1, <2>2 DEF IInv, ConsumerBound, CompBound, Program, EventsJustified,
         CommandsJustified, RowsJustified, RefundJustified, ConfirmedIsPaid,
         ShipmentIsConfirmed, RefundIsPaid, CompletedIsDelivered
  <1> QED
    BY <1>1, <1>2, <1>3 DEF Next, Orchestrate, PartyStep

\* The inductive invariant holds in every behaviour, whatever is lost, repeated,
\* retried or restarted.
THEOREM Invariance == Spec => []IInv
  BY InitInv, StepInv, PTL DEF Spec

\* Rows, messages and stages keep their types: no handler of the orchestrator
\* writes a status its entity does not have.
THEOREM TypeCorrect == Spec => []TypeOK
  <1>1. IInv => TypeOK BY DEF IInv
  <1> QED
    BY <1>1, Invariance, PTL

\* A reservation is confirmed (confirmStock) only for an order whose success
\* IPN was recorded by processSuccess.
THEOREM StockLeavesOnlyPaid == Spec => []ConfirmedIsPaid
  <1>1. IInv => ConfirmedIsPaid BY DEF IInv
  <1> QED
    BY <1>1, Invariance, PTL

\* createLabel saves a shipment only for an order whose stock was confirmed,
\* although the recovery cron publishes create_label on its own account.
THEOREM ShipsOnlyConfirmed == Spec => []ShipmentIsConfirmed
  <1>1. IInv => ShipmentIsConfirmed BY DEF IInv
  <1> QED
    BY <1>1, Invariance, PTL

\* processRefund turns only the intent of a paid order REFUNDED, although it
\* looks at no status and the compensation cron decides by step rows.
THEOREM RefundsOnlyPaid == Spec => []RefundIsPaid
  <1>1. IInv => RefundIsPaid BY DEF IInv
  <1> QED
    BY <1>1, Invariance, PTL

\* onShippingDelivered is reached only after the simulation delivered: an order
\* saga is COMPLETED only then.
THEOREM CompletesOnlyDelivered == Spec => []CompletedIsDelivered
  <1>1. IInv => CompletedIsDelivered BY DEF IInv
  <1> QED
    BY <1>1, Invariance, PTL

-----------------------------------------------------------------------------
(* Mishaps are counted; what a handler may end in, and where it moves on.  *)

\* What is known of a kind of mishap that has not happened after a step.
LEMMA Spending ==
    ASSUME faults \in [Kinds -> Nat], NEW k \in Kinds, Spend(k)
    PROVE  faults'[k] # 0 /\ \A n \in Kinds : faults'[n] = 0 => faults[n] = 0
  BY DEF Spend

\* Mishaps are counted and never forgotten.
LEMMA FaultsGrow ==
    ASSUME TypeOK, Next, NEW n \in Kinds, faults'[n] = 0
    PROVE  faults[n] = 0
  <1>1. faults \in [Kinds -> Nat]
    BY DEF TypeOK, OrchTypeOK
  <1> SUFFICES UNCHANGED faults \/ \E k \in Kinds : Spend(k)
    BY <1>1, Spending
  <1>2. /\ "outage" \in Kinds /\ "crash" \in Kinds /\ "redeliver" \in Kinds
        /\ "http" \in Kinds /\ "drop" \in Kinds /\ "slow" \in Kinds
        /\ "late" \in Kinds /\ "refund" \in Kinds
    BY DEF Kinds
  <1> HIDE DEF Kinds
  <1>3. CASE Orchestrate
    <2>1. CASE \E e \in inbox : Receive(e)
      BY <2>1 DEF Receive
    <2>2. CASE Consume
      BY <1>2, <2>2 DEF Consume, Lookup, InsertSaga, WriteSteps, WriteSaga, CallServices,
                  PublishCommand, Commit
    <2>3. CASE \E s \in Sagas : RecoverStuckSaga(s)
      BY <1>2, <2>3 DEF RecoverStuckSaga, Stuck
    <2>4. CASE \E j \in Jobs : CompensationJob(j)
      BY <1>2, <2>4 DEF CompensationJob, FindFailedSagas, BeginCompensation, EmitRefund,
                   EmitRelease, CancelOrder, CloseSaga, EndCompensation
    <2>5. CASE OrchFaults
      BY <1>2, <2>5 DEF OrchFaults, Retry, DeadLetter, Outage, Crash, Redeliver,
                        CompensationThrows
    <2> QED
      BY <1>3, <2>1, <2>2, <2>3, <2>4, <2>5 DEF Orchestrate, OrchNext
  <1>4. CASE PartyStep
    <2>1. CASE \E c \in cmdbox : HandleCommand(c) \/ DropCommand(c)
      BY <1>2, <2>1 DEF HandleCommand, DropCommand, ReserveStock, RefuseStock, ReserveAgain,
          ConfirmStock, ReleaseStock, Settle, ProcessRefund, CreateLabel, UpdateRefundStatus
    <2>2. CASE ~ \E c \in cmdbox : HandleCommand(c) \/ DropCommand(c)
      BY <1>2, <1>4, <2>2 DEF PartyStep, SettleBoth, CreateOrder, OrderConsumes, CustomerPays, ProcessIpn,
          DropIpn, ListExpired, ExpireIntent, SimulateDelivery, Advance, ShippingCrash,
          CreateRefund, ValidateAndEmit
    <2> QED
      BY <2>1, <2>2
  <1> QED
    BY <1>3, <1>4 DEF Next, PartyStep

\* How a handler's lookup and its outcome go together: only a running saga is
\* started or moved on, and one that compensates only ends.
Ends(p) ==
    /\ p.in \in {"RUNNING", "COMPENSATING"}
    /\ p.starts # "none" => p.in = "RUNNING"
    /\ p.in # "RUNNING" => p.status = "COMPENSATED"
    /\ p.status \notin {"RUNNING", "FAILED"}

\* Every handler of the route table does.
LEMMA RouteEnds == ASSUME NEW t \in EventTypes PROVE Ends(Route(t))
  <1> USE DEF Ends, NoEffect, Keep
  <1>0. Ends(NoEffect) OBVIOUS
  <1>1. Ends(StartSaga) BY DEF StartSaga
  <1>2. Ends(OnInventoryReserved) BY DEF OnInventoryReserved
  <1>3. Ends(OnInventoryInsufficient) BY DEF OnInventoryInsufficient
  <1>4. Ends(OnPaymentCompleted) BY DEF OnPaymentCompleted
  <1>5. Ends(OnPaymentTimeout) BY DEF OnPaymentTimeout
  <1>6. Ends(OnPaymentFailed) BY DEF OnPaymentFailed
  <1>7. Ends(OnInventoryConfirmed) BY DEF OnInventoryConfirmed
  <1>8. Ends(OnShippingLabelCreated) BY DEF OnShippingLabelCreated
  <1>9. Ends(OnShippingInTransit) BY DEF OnShippingInTransit
  <1>10. Ends(OnShippingDelivered) BY DEF OnShippingDelivered
  <1>11. Ends(OnStockReleased) BY DEF OnStockReleased
  <1>12. Ends(OnRefundRequested) BY DEF OnRefundRequested
  <1>13. Ends(OnRefundApproved) BY DEF OnRefundApproved
  <1>14. Ends(OnRefundRejected) BY DEF OnRefundRejected
  <1>15. Ends(OnPaymentRefunded) BY DEF OnPaymentRefunded
  <1> HIDE DEF Ends, NoEffect, Keep
  <1> QED
    BY <1>0, <1>1, <1>2, <1>3, <1>4, <1>5, <1>6, <1>7, <1>8, <1>9, <1>10, <1>11,
       <1>12, <1>13, <1>14, <1>15 DEF Route, EventTypes

\* What moves a saga on, event by event.
Moves(t, p) ==
    /\ p.starts = "ORDER_SAGA" <=> t = "order.created"
    /\ p.starts \in SagaTypes => p.starts \in p.types
    /\ "inventory.reserve_stock" \in p.emit => t = "order.created"
    /\ p.qr => t = "inventory.stock_reserved"
    /\ t = "order.created" => p.status = Keep
    /\ p.current = "AWAIT_DELIVERY" => t = "shipping.label_created"
    /\ "ORDER_SAGA" \in p.types /\ p.status \in {Keep, "COMPLETED"} /\ p.in = "RUNNING" =>
         \/ p.current = Keep /\ p.status = Keep /\ t # "order.created"
         \/ p.current = "RESERVE_INVENTORY" /\ p.status = Keep /\ t = "order.created"
         \/ p.current = "AWAIT_PAYMENT" /\ p.status = Keep /\ t = "inventory.stock_reserved"
         \/ p.current = "CONFIRM_INVENTORY" /\ p.status = Keep /\ t = "payment.completed"
         \/ p.current = "CREATE_SHIPPING" /\ p.status = Keep /\ t = "inventory.stock_confirmed"
         \/ p.current = "AWAIT_DELIVERY" /\ p.status = Keep /\ t = "shipping.label_created"
         \/ p.current = "COMPLETE_ORDER" /\ p.status = "COMPLETED" /\ t = "shipping.delivered"

\* The handlers that move an order saga on, and those that do not.
LEMMA RouteMoves == ASSUME NEW t \in EventTypes PROVE Moves(t, Route(t))
  <1> USE DEF Moves, NoEffect, SagaTypes, Keep
  <1>0. t # "order.created" => Moves(t, NoEffect) OBVIOUS
  <1>1. Moves("order.created", StartSaga) BY DEF StartSaga
  <1>2. Moves("inventory.stock_reserved", OnInventoryReserved) BY DEF OnInventoryReserved
  <1>3. t # "order.created" => Moves(t, OnInventoryInsufficient) BY DEF OnInventoryInsufficient
  <1>4. Moves("payment.completed", OnPaymentCompleted) BY DEF OnPaymentCompleted
  <1>5. t # "order.created" => Moves(t, OnPaymentTimeout) BY DEF OnPaymentTimeout
  <1>6. t # "order.created" => Moves(t, OnPaymentFailed) BY DEF OnPaymentFailed
  <1>7. Moves("inventory.stock_confirmed", OnInventoryConfirmed) BY DEF OnInventoryConfirmed
  <1>8. Moves("shipping.label_created", OnShippingLabelCreated) BY DEF OnShippingLabelCreated
  <1>9. t # "order.created" => Moves(t, OnShippingInTransit) BY DEF OnShippingInTransit
  <1>10. Moves("shipping.delivered", OnShippingDelivered) BY DEF OnShippingDelivered
  <1>11. t # "order.created" => Moves(t, OnStockReleased) BY DEF OnStockReleased
  <1>12. t # "order.created" => Moves(t, OnRefundRequested) BY DEF OnRefundRequested
  <1>13. t # "order.created" => Moves(t, OnRefundApproved) BY DEF OnRefundApproved
  <1>14. t # "order.created" => Moves(t, OnRefundRejected) BY DEF OnRefundRejected
  <1>15. t # "order.created" => Moves(t, OnPaymentRefunded) BY DEF OnPaymentRefunded
  <1> HIDE DEF Moves, NoEffect, SagaTypes, Keep
  <1> QED
    BY <1>0, <1>1, <1>2, <1>3, <1>4, <1>5, <1>6, <1>7, <1>8, <1>9, <1>10, <1>11,
       <1>12, <1>13, <1>14, <1>15 DEF Route, EventTypes

-----------------------------------------------------------------------------
(* Why an outcome is final: SagaLife and NothingFailed.                    *)

\* The handler at hand, and how it ends.
LEMMA AtWorkEnds ==
    ASSUME OrchTypeOK, consumer.at \in Stages
    PROVE  consumer \in Working /\ Ends(Program)
  BY AtWork, RouteEnds DEF Program

\* Handlers, retries and crons keep to the sagas they found.
LEMMA LifeStep ==
    ASSUME IInv, SagaLife, OrchNext
    PROVE  SagaLife'
  <1> USE DEF Idle, CompIdle, sagaVars, remoteVars
  <1>1. OrchTypeOK /\ ConsumerBound /\ CompBound
    BY DEF IInv, TypeOK
  <1> DEFINE Rows == \A s \in Sagas : sagaType[s] = "none" => status[s] = "none"
             Jobbed == \A j \in Jobs : comp[j] # CompIdle =>
                         \A s \in Sagas \intersect (comp[j].todo \union {comp[j].saga}) :
                            status[s] \in {"FAILED", "COMPENSATING", "COMPENSATED"}
             Handled == consumer # Idle /\ consumer.at \in {"steps", "saga"} =>
                          IF Program.in = "RUNNING"
                          THEN status[consumer.saga] = "RUNNING"
                          ELSE status[consumer.saga] \in {"COMPENSATING", "COMPENSATED"}
  <1>2. Rows /\ Jobbed /\ Handled
    BY DEF SagaLife
  <1> SUFFICES Rows' /\ Jobbed' /\ Handled'
    BY DEF SagaLife
  <1>3. UNCHANGED <<sagaType, status>> => Rows'
    BY <1>2
  <1>4. UNCHANGED <<comp, status>> => Jobbed'
    BY <1>2
  <1>5. UNCHANGED <<consumer, status>> => Handled'
    BY <1>2 DEF Program
  <1>6. consumer' = Idle => Handled'
    OBVIOUS
  <1>7. ASSUME consumer.at \in {"steps", "saga"}
        PROVE  /\ consumer \in Working /\ Ends(Program)
               /\ consumer.saga \in Sagas /\ sagaType[consumer.saga] \in Program.types
               /\ IF Program.in = "RUNNING"
                  THEN status[consumer.saga] = "RUNNING"
                  ELSE status[consumer.saga] \in {"COMPENSATING", "COMPENSATED"}
    <2>1. consumer.at \in Stages /\ consumer # Idle
      BY <1>7 DEF Stages
    <2> QED
      BY <1>1, <1>2, <1>7, <2>1, AtWorkEnds DEF ConsumerBound
  <1>8. ASSUME NEW e \in inbox, Receive(e) PROVE Rows' /\ Jobbed' /\ Handled'
    <2>1. Handled'
      BY <1>8 DEF Receive
    <2> QED
      BY <1>3, <1>4, <1>8, <2>1 DEF Receive
  <1>9. CASE Lookup
    <2>1. consumer \in Working /\ Ends(Program)
      BY <1>1, <1>9, AtWorkEnds DEF Lookup, Stages
    <2>2. Program' = Program
      BY <1>9, <2>1 DEF Lookup, Program, Working
    <2>3. ASSUME consumer'.at = "steps"
          PROVE  consumer'.saga \in Sagas /\ status[consumer'.saga] = Program.in
      BY <1>9, <2>1, <2>3 DEF Lookup, Matching, Working
    <2>4. consumer'.at # "saga"
      BY <1>9, <2>1 DEF Lookup, Working
    <2>5. Handled'
      BY <1>9, <2>1, <2>2, <2>3, <2>4 DEF Lookup, Ends
    <2> QED
      BY <1>3, <1>4, <1>9, <2>5 DEF Lookup
  <1>10. CASE InsertSaga
    <2>0. consumer.at = "insert" /\ consumer.at \in Stages /\ consumer # Idle
      BY <1>10 DEF InsertSaga, Stages
    <2>1. consumer \in Working /\ Ends(Program) /\ Program.starts # "none"
      BY <1>1, <2>0, AtWorkEnds DEF ConsumerBound
    <2>2. PICK s \in Sagas :
             /\ sagaType[s] = "none"
             /\ sagaType' = [sagaType EXCEPT ![s] = Program.starts]
             /\ status' = [status EXCEPT ![s] = "RUNNING"]
             /\ consumer' = [consumer EXCEPT !.at = "steps", !.saga = s]
      BY <1>10 DEF InsertSaga
    <2>3. UNCHANGED comp
      BY <1>10 DEF InsertSaga
    <2>4. Rows'
      BY <1>1, <1>2, <2>1, <2>2 DEF OrchTypeOK
    <2>5. status[s] = "none"
      BY <1>2, <2>2
    <2>6. Jobbed'
      BY <1>1, <1>2, <2>2, <2>3, <2>5 DEF OrchTypeOK
    <2>7. Program' = Program /\ consumer'.saga = s
      BY <2>1, <2>2 DEF Program, Working
    <2>8. Handled'
      BY <1>1, <2>1, <2>2, <2>7 DEF OrchTypeOK, Ends
    <2> QED
      BY <2>4, <2>6, <2>8
  <1>11. CASE WriteSteps
    <2>1. consumer \in Working /\ consumer.at = "steps"
      BY <1>7, <1>11 DEF WriteSteps
    <2>2. consumer' = [consumer EXCEPT !.at = "saga"] /\ UNCHANGED status
      BY <1>11 DEF WriteSteps
    <2>3. Program' = Program /\ consumer'.saga = consumer.saga
      BY <2>1, <2>2 DEF Program, Working
    <2>4. Handled'
      BY <1>7, <2>1, <2>2, <2>3
    <2> QED
      BY <1>3, <1>4, <1>11, <2>4 DEF WriteSteps
  <1>12. CASE WriteSaga
    <2>1. consumer.at = "saga" /\ UNCHANGED <<sagaType, comp>>
      BY <1>12 DEF WriteSaga
    <2>2. consumer'.at = "http"
      BY <1>7, <1>12, <2>1 DEF WriteSaga, Working
    <2>3. Handled'
      BY <2>2
    <2>4. \A s \in Sagas : s # consumer.saga => status'[s] = status[s]
      BY <1>1, <1>12 DEF WriteSaga, OrchTypeOK
    <2>5. status'[consumer.saga] = status[consumer.saga]
            \/ status'[consumer.saga] = Program.status
      BY <1>1, <1>7, <1>12, <2>1 DEF WriteSaga, OrchTypeOK
    <2>6. Rows'
      BY <1>1, <1>2, <1>7, <2>1, <2>4, AtWork DEF OrchTypeOK, Stages, Programs, SagaTypes
    <2>7. Jobbed'
      BY <1>2, <1>7, <2>1, <2>4, <2>5 DEF Ends
    <2> QED
      BY <2>3, <2>6, <2>7
  <1>13. CASE CallServices
    <2>1. consumer.at = "http" /\ consumer.at \in Stages
      BY <1>13 DEF CallServices, Stages
    <2>2. Handled'
      BY <1>1, <1>13, <2>1, AtWork DEF CallServices, Working
    <2> QED
      BY <1>3, <1>4, <1>13, <2>2 DEF CallServices
  <1>14. CASE PublishCommand
    <2>1. consumer.at = "publish" /\ consumer.at \in Stages
      BY <1>14 DEF PublishCommand, Stages
    <2>2. Handled'
      BY <1>1, <1>14, <2>1, AtWork DEF PublishCommand, Working
    <2> QED
      BY <1>3, <1>4, <1>14, <2>2 DEF PublishCommand
  <1>15. CASE Commit
    BY <1>3, <1>4, <1>6, <1>15 DEF Commit
  <1>16. CASE Retry
    <2>1. consumer.at \in Stages
      BY <1>16 DEF Retry, CanThrow, Stages
    <2>2. Handled'
      BY <1>1, <1>16, <2>1, AtWork DEF Retry, Working
    <2> QED
      BY <1>3, <1>4, <1>16, <2>2 DEF Retry
  <1>17. CASE DeadLetter
    <2>1. UNCHANGED <<sagaType, comp>> /\ consumer' = Idle
      BY <1>17 DEF DeadLetter
    <2>2. \A s \in Sagas : \/ status'[s] = status[s]
                           \/ status'[s] = "FAILED" /\ sagaType[s] # "none"
      BY <1>1, <1>17 DEF DeadLetter, OrchTypeOK
    <2> QED
      BY <1>2, <1>6, <2>1, <2>2
  <1>18. CASE Crash
    <2>1. Jobbed'
      BY <1>18 DEF Crash
    <2> QED
      BY <1>3, <1>6, <1>18, <2>1 DEF Crash
  <1>19. ASSUME NEW e \in events, Redeliver(e) PROVE Rows' /\ Jobbed' /\ Handled'
    BY <1>3, <1>4, <1>5, <1>19 DEF Redeliver
  <1>20. ASSUME NEW s \in Sagas, RecoverStuckSaga(s) PROVE Rows' /\ Jobbed' /\ Handled'
    BY <1>3, <1>4, <1>5, <1>20 DEF RecoverStuckSaga
  <1>21. ASSUME NEW j \in Jobs, CompensationJob(j) \/ CompensationThrows(j)
         PROVE  Rows' /\ Jobbed' /\ Handled'
    <2>1. UNCHANGED <<sagaType, consumer>>
      BY <1>21 DEF CompensationJob, FindFailedSagas, BeginCompensation, EmitRefund,
                   EmitRelease, CancelOrder, CloseSaga, EndCompensation, CompensationThrows
    <2>2. ASSUME NEW s \in Sagas, BeginCompensation(j, s) PROVE Rows' /\ Jobbed' /\ Handled'
      <3>1. /\ comp[j] # CompIdle /\ s \in comp[j].todo
            /\ status' = [status EXCEPT ![s] = "COMPENSATING"]
        BY <2>2 DEF BeginCompensation
      <3>2. status[s] \in {"FAILED", "COMPENSATING", "COMPENSATED"}
        BY <1>2, <3>1
      <3>3. comp'[j].todo \subseteq comp[j].todo /\ comp'[j].saga = s
        BY <1>1, <2>2 DEF BeginCompensation, OrchTypeOK
      <3>4. \A i \in Jobs : i # j => comp'[i] = comp[i]
        BY <1>1, <2>2 DEF BeginCompensation, OrchTypeOK
      <3>5. \A r \in Sagas : status'[r] = IF r = s THEN "COMPENSATING" ELSE status[r]
        BY <1>1, <3>1 DEF OrchTypeOK
      <3>6. Rows'
        BY <1>2, <2>1, <3>2, <3>5
      <3>7. Jobbed'
        BY <1>2, <3>1, <3>2, <3>3, <3>4, <3>5
      <3>8. Program' = Program
        BY <2>1 DEF Program
      <3>9. Handled'
        BY <1>2, <1>7, <2>1, <3>2, <3>5, <3>8
      <3> QED
        BY <3>6, <3>7, <3>9
    <2>3. CASE FindFailedSagas(j)
      <3>1. UNCHANGED status
        BY <2>3 DEF FindFailedSagas
      <3>2. /\ \A s \in comp'[j].todo : status[s] = "FAILED"
            /\ comp'[j].saga \notin Sagas
            /\ \A i \in Jobs : i # j => comp'[i] = comp[i]
        BY <1>1, <2>3, NoSagaAssumption DEF FindFailedSagas, OrchTypeOK
      <3>3. Jobbed'
        BY <1>2, <3>1, <3>2
      <3> QED
        BY <1>3, <1>5, <2>1, <3>1, <3>3
    <2>4. CASE CloseSaga(j)
      <3>1. comp[j] # CompIdle /\ comp[j].saga \in Sagas
        BY <1>1, <2>4 DEF CloseSaga, CompBound
      <3>2. status[comp[j].saga] \in {"FAILED", "COMPENSATING", "COMPENSATED"}
        BY <1>2, <3>1
      <3>3. \A r \in Sagas : status'[r] = IF r = comp[j].saga THEN "COMPENSATED" ELSE status[r]
        BY <1>1, <2>4 DEF CloseSaga, OrchTypeOK
      <3>4. /\ comp'[j].todo = comp[j].todo /\ comp'[j].saga \notin Sagas
            /\ \A i \in Jobs : i # j => comp'[i] = comp[i]
        BY <1>1, <2>4, <3>1, NoSagaAssumption DEF CloseSaga, CompNext, OrchTypeOK, CompBusy
      <3>5. Rows'
        BY <1>2, <2>1, <3>2, <3>3
      <3>6. Jobbed'
        BY <1>2, <3>1, <3>2, <3>3, <3>4
      <3>7. Program' = Program
        BY <2>1 DEF Program
      <3>8. Handled'
        BY <1>2, <1>7, <2>1, <3>2, <3>3, <3>7
      <3> QED
        BY <3>5, <3>6, <3>8
    <2>5. CASE EmitRefund(j) \/ EmitRelease(j) \/ CancelOrder(j) \/ CompensationThrows(j)
      <3>1. UNCHANGED status
        BY <2>5 DEF EmitRefund, EmitRelease, CancelOrder, CompensationThrows
      <3>2. comp[j] \in CompBusy
        BY <1>1, <2>5 DEF OrchTypeOK, EmitRefund, EmitRelease, CancelOrder, CompensationThrows
      <3>3. /\ comp'[j].todo = comp[j].todo
            /\ comp'[j].saga \in {comp[j].saga, NoSaga}
            /\ \A i \in Jobs : i # j => comp'[i] = comp[i]
        <4> USE <1>1, <3>2 DEF OrchTypeOK, CompBusy
        <4>1. CASE EmitRefund(j)
          BY <4>1 DEF EmitRefund
        <4>2. CASE EmitRelease(j)
          BY <4>2 DEF EmitRelease, CompNext
        <4>3. CASE CancelOrder(j)
          BY <4>3 DEF CancelOrder
        <4>4. CASE CompensationThrows(j)
          BY <4>4 DEF CompensationThrows, CompNext
        <4> QED
          BY <2>5, <4>1, <4>2, <4>3, <4>4
      <3>4. comp[j] # CompIdle
        BY <2>5 DEF EmitRefund, EmitRelease, CancelOrder, CompensationThrows
      <3>5. Jobbed'
        BY <1>2, <3>1, <3>3, <3>4, NoSagaAssumption
      <3> QED
        BY <1>3, <1>5, <2>1, <3>1, <3>5
    <2>6. CASE EndCompensation(j)
      <3>1. UNCHANGED status /\ comp' = [comp EXCEPT ![j] = CompIdle]
        BY <2>6 DEF EndCompensation
      <3>2. Jobbed'
        BY <1>1, <1>2, <3>1 DEF OrchTypeOK
      <3> QED
        BY <1>3, <1>5, <2>1, <3>1, <3>2
    <2> QED
      BY <1>21, <2>2, <2>3, <2>4, <2>5, <2>6 DEF CompensationJob
  <1> HIDE DEF Rows, Jobbed, Handled
  <1> QED
    BY <1>8, <1>9, <1>10, <1>11, <1>12, <1>13, <1>14, <1>15, <1>16, <1>17, <1>18, <1>19,
       <1>20, <1>21 DEF OrchNext, Consume, OrchFaults

\* The consumer works on something when a handler throws.
LEMMA ThrowsAtWork ==
    ASSUME OrchTypeOK, CanThrow
    PROVE  consumer # Idle /\ consumer \in Working
  <1>1. consumer.at \in Stages
    BY DEF CanThrow, Stages
  <1> QED
    BY <1>1, AtWork DEF Idle, Stages

\* Without an outage nothing is tried twice and nothing is compensated by the
\* cron.
LEMMA FailureStep ==
    ASSUME IInv, NothingFailed, Next, Never({"outage"})'
    PROVE  /\ consumer' # Idle => consumer'.tries = 1
           /\ \A s \in Sagas : status'[s] # "FAILED"
           /\ \A j \in Jobs : comp'[j] = CompIdle
           /\ ~Retry /\ ~DeadLetter
           /\ \A j \in Jobs : /\ ~CompensationJob(j)
                              /\ ~CompensationThrows(j)
  <1> USE DEF sagaVars, remoteVars
  <1>1. OrchTypeOK
    BY DEF IInv, TypeOK
  <1>2. "outage" \in Kinds /\ faults \in [Kinds -> Nat] /\ faults'["outage"] = 0
    BY <1>1 DEF Kinds, OrchTypeOK, Never
  <1>3. faults["outage"] = 0
    BY <1>2, FaultsGrow DEF IInv
  <1>4. Never({"outage"})
    BY <1>3 DEF Never
  <1>5. /\ consumer # Idle => consumer.tries = 1
        /\ \A s \in Sagas : status[s] # "FAILED"
        /\ \A j \in Jobs : comp[j] = CompIdle
    BY <1>4 DEF NothingFailed
  <1>6. ~Spend("outage")
    BY <1>2, Spending
  <1>7. ~Retry /\ ~DeadLetter
    BY <1>1, <1>5, <1>6, ThrowsAtWork DEF Retry, DeadLetter, Outage, MAX_RETRIES
  <1>8. \A j \in Jobs : ~CompensationJob(j) /\ ~CompensationThrows(j)
    BY <1>5 DEF CompensationJob, CompensationThrows, FindFailedSagas, BeginCompensation,
       EmitRefund, EmitRelease, CancelOrder, CloseSaga, EndCompensation, CompIdle
  <1> DEFINE Goal == /\ consumer' # Idle => consumer'.tries = 1
                     /\ \A s \in Sagas : status'[s] # "FAILED"
                     /\ \A j \in Jobs : comp'[j] = CompIdle
  <1> SUFFICES Goal
    BY <1>7, <1>8
  <1>9. ASSUME OrchNext PROVE Goal
    <2>1. ASSUME NEW e \in inbox, Receive(e) PROVE Goal
      BY <1>5, <2>1 DEF Receive
    <2>2. CASE Consume
      <3>0. consumer.at \in Stages
        BY <2>2 DEF Consume, Lookup, InsertSaga, WriteSteps, WriteSaga, CallServices,
                    PublishCommand, Commit, Stages
      <3>1. consumer.at \in Stages /\ consumer # Idle
        BY <3>0 DEF Stages, Idle
      <3>2. consumer \in Working /\ Ends(Program)
        BY <1>1, <3>1, AtWorkEnds
      <3>3. UNCHANGED comp
        BY <2>2 DEF Consume, Lookup, InsertSaga, WriteSteps, WriteSaga, CallServices,
                    PublishCommand, Commit
      <3>4. consumer' # Idle => consumer'.tries = consumer.tries
        BY <2>2, <3>2 DEF Consume, Lookup, InsertSaga, WriteSteps, WriteSaga, CallServices,
                          PublishCommand, Commit, Working
      <3>5. \A s \in Sagas : status'[s] # "FAILED"
        <4>1. CASE InsertSaga
          BY <1>1, <1>5, <4>1 DEF InsertSaga, OrchTypeOK
        <4>2. CASE WriteSaga
          BY <1>1, <1>5, <3>2, <4>2 DEF WriteSaga, OrchTypeOK, Ends
        <4>3. CASE ~InsertSaga /\ ~WriteSaga
          BY <1>5, <2>2, <4>3 DEF Consume, Lookup, WriteSteps, CallServices,
                                  PublishCommand, Commit
        <4> QED
          BY <4>1, <4>2, <4>3
      <3> QED
        BY <1>5, <3>1, <3>3, <3>4, <3>5
    <2>3. ASSUME NEW s \in Sagas, RecoverStuckSaga(s) PROVE Goal
      BY <1>5, <2>3 DEF RecoverStuckSaga
    <2>4. CASE Crash
      BY <1>5, <2>4 DEF Crash
    <2>5. ASSUME NEW e \in events, Redeliver(e) PROVE Goal
      BY <1>5, <2>5 DEF Redeliver
    <2> QED
      BY <1>7, <1>8, <1>9, <2>1, <2>2, <2>3, <2>4, <2>5 DEF OrchNext, OrchFaults
  <1>10. ASSUME PartyStep PROVE Goal
    BY <1>5, <1>10, PartyFrame
  <1> QED
    BY <1>9, <1>10 DEF Next, Orchestrate, PartyStep

\* In the beginning nothing has failed.
LEMMA FailureInit == Init => SagaLife /\ NothingFailed
  BY DEF Init, OrchInit, SagaLife, NothingFailed

\* Both parts of the history hold in every behaviour.
LEMMA FailureNext ==
    ASSUME IInv, SagaLife, NothingFailed, [Next]_vars
    PROVE  SagaLife' /\ NothingFailed'
  <1>1. CASE UNCHANGED vars
    BY <1>1 DEF vars, SagaLife, NothingFailed, Never, Program
  <1>2. CASE Next
    <2>1. NothingFailed'
      BY <1>2, FailureStep DEF NothingFailed
    <2>2. CASE OrchNext
      BY <2>1, <2>2, LifeStep
    <2>3. CASE PartyStep
      BY <2>1, <2>3, PartyFrame DEF SagaLife, Program
    <2> QED
      BY <1>2, <2>2, <2>3 DEF Next, Orchestrate, PartyStep
  <1> QED
    BY <1>1, <1>2

\* In every behaviour: handlers work on sagas as their lookup found them, the
\* compensation cron on failed ones, and without an outage nothing fails.
THEOREM Failures == Spec => [](SagaLife /\ NothingFailed)
  <1>1. Init => SagaLife /\ NothingFailed
    BY FailureInit
  <1>2. IInv /\ SagaLife /\ NothingFailed /\ [Next]_vars => (SagaLife /\ NothingFailed)'
    BY FailureNext
  <1> QED
    BY <1>1, <1>2, Invariance, PTL DEF Spec

\* A step leaves the outcome of a saga alone.
LEMMA OutcomeStep ==
    ASSUME IInv, SagaLife, NothingFailed, [Next]_vars, Never({"outage"})',
           NEW s \in Sagas, status[s] \in {"COMPLETED", "COMPENSATED"}
    PROVE  status'[s] = status[s]
  <1>1. OrchTypeOK /\ ConsumerBound
    BY DEF IInv, TypeOK
  <1>2. CASE UNCHANGED vars
    BY <1>2 DEF vars
  <1>3. CASE PartyStep
    BY <1>3, PartyFrame
  <1>4. ASSUME OrchNext, Next PROVE status'[s] = status[s]
    <2>1. ~Retry /\ ~DeadLetter
          /\ \A j \in Jobs : ~CompensationJob(j) /\ ~CompensationThrows(j)
      BY <1>4, FailureStep
    <2>2. CASE InsertSaga
      BY <1>1, <2>2 DEF InsertSaga, SagaLife, OrchTypeOK
    <2>3. CASE WriteSaga
      <3>1. consumer.at = "saga" /\ consumer # Idle /\ consumer.at \in Stages
        BY <2>3 DEF WriteSaga, Idle, Stages
      <3>2. Ends(Program) /\ consumer.saga \in Sagas
        BY <1>1, <3>1, AtWorkEnds DEF ConsumerBound
      <3>3. s = consumer.saga =>
              Program.in # "RUNNING" /\ status[s] \in {"COMPENSATING", "COMPENSATED"}
        BY <3>1 DEF SagaLife
      <3> QED
        BY <1>1, <2>3, <3>2, <3>3 DEF WriteSaga, Ends, OrchTypeOK
    <2>4. CASE ~InsertSaga /\ ~WriteSaga
      BY <1>4, <2>1, <2>4 DEF OrchNext, OrchFaults, Consume, Receive, Lookup, WriteSteps,
         CallServices, PublishCommand, Commit, RecoverStuckSaga, Crash, Redeliver, sagaVars
    <2> QED
      BY <2>2, <2>3, <2>4
  <1> QED
    BY <1>2, <1>3, <1>4 DEF Next, Orchestrate, PartyStep

\* Whatever is lost, repeated or restarted, a saga that the handlers completed
\* or compensated stays so, unless an outage lets one of them be dead-lettered
\* (onShippingDelivered, onStockReleased, markSagaFailed).
THEOREM KeepsOutcome == Spec => OutcomeIsFinal
  <1>1. IInv /\ SagaLife /\ NothingFailed /\ [Next]_vars
        => (Never({"outage"})' =>
              \A s \in Sagas : status[s] \in {"COMPLETED", "COMPENSATED"}
                               => status'[s] = status[s])
    BY OutcomeStep
  <1> QED
    BY <1>1, Invariance, Failures, PTL DEF Spec, OutcomeIsFinal

-----------------------------------------------------------------------------
(* Where events come from: what the other services publish, and when.      *)

\* What a step of another service needs to publish an event.
Fresh(e) ==
    /\ e.type = "order.created" =>
          e.saga = NoSaga /\ orderStatus = "none" /\ orderStatus' # "none"
    /\ e.type = "inventory.stock_reserved" =>
          /\ \E c \in commands : c.type = "inventory.reserve_stock" /\ c.saga = e.saga
          /\ e.saga \in Sagas /\ reservation[e.saga] = "none"
          /\ reservation' = [reservation EXCEPT ![e.saga] = "HELD"]
    /\ e.type = "inventory.stock_confirmed" =>
          /\ \E c \in commands : c.type = "inventory.confirm_stock" /\ c.saga = e.saga
          /\ e.saga \in Sagas /\ reservation[e.saga] = "HELD"
          /\ reservation'[e.saga] \in Settled
    /\ e.type = "payment.completed" =>
          e.saga = intentSaga /\ ~webhook /\ webhook' /\ vnpay # "none" /\ vnpay' # "none"
    /\ e.type = "shipping.label_created" =>
          \E c \in commands : c.type = "shipping.create_label" /\ c.saga = e.saga

\* What the other services remember.
Remembers ==
    /\ orderStatus # "none" => orderStatus' # "none"
    /\ intent' = "none" <=> intent = "none"
    /\ vnpay # "none" => vnpay' # "none"
    /\ vnpay' # "none" \/ expiring' => vnpay # "none" \/ expiring \/ intent # "none"
    /\ webhook => webhook'
    /\ \A s \in Sagas :
          /\ reservation[s] # "none" => reservation'[s] # "none"
          /\ reservation[s] \in Settled => reservation'[s] = reservation[s]
          /\ reservation'[s] # "none" => \/ reservation[s] # "none"
                                         \/ \E c \in commands :
                                              c.type = "inventory.reserve_stock" /\ c.saga = s

\* What is published, and what it is.
Publishes ==
    /\ events \subseteq events' /\ inbox \subseteq inbox' /\ inbox' \subseteq events'
    /\ \A e \in events' : e \in events \/ Fresh(e)
    /\ \A e \in inbox' : e \in inbox \/ Fresh(e)

\* The other services forget nothing, and publish only what they have a reason for.
LEMMA PartyMemory ==
    ASSUME TypeOK, PartyStep, vnpay # "none" \/ expiring => intent # "none"
    PROVE  Remembers /\ Publishes
  <1>1. /\ reservation \in [Sagas -> ReservationStatus] /\ OrchTypeOK
        /\ inbox \subseteq events /\ cmdbox \subseteq commands /\ commands \subseteq Commands
        /\ webhook \in BOOLEAN
    BY DEF TypeOK, OrchTypeOK
  <1> USE <1>1 DEF sagaVars, remoteVars, orchestratorOnly, partyVars, inventoryVars,
          paymentVars, shippingVars, refundVars, PaymentFrame, InventoryFrame, ShippingFrame,
          RefundFrame, NoEvent, Take
  <1>2. ASSUME NoEvent PROVE Publishes
    BY <1>2 DEF Publishes
  <1>3. ASSUME NEW f, PublishEvents({f}), Fresh(f) PROVE Publishes
    BY <1>3 DEF Publishes, PublishEvents
  <1>4. ASSUME UNCHANGED <<orderStatus, intent, vnpay, expiring, webhook, reservation>>
        PROVE  Remembers
    BY <1>4 DEF Remembers
  <1>5. CASE CreateOrder
    <2>1. Remembers
      BY <1>5 DEF CreateOrder, Remembers
    <2>2. Publishes
      BY <1>3, <1>5 DEF CreateOrder, Fresh, Event
    <2> QED
      BY <2>1, <2>2
  <1>6. ASSUME NEW t \in StatusUpdates, OrderConsumes(t) PROVE Remembers /\ Publishes
    BY <1>2, <1>6 DEF OrderConsumes, Remembers
  <1>7. ASSUME NEW c \in cmdbox, HandleCommand(c) PROVE Remembers /\ Publishes
    <2>1. c \in commands /\ c.saga \in Sagas
      BY DEF Commands
    <2>2. CASE ReserveStock(c)
      <3>1. Remembers
        BY <2>1, <2>2 DEF ReserveStock, Settled, Remembers
      <3>2. Fresh(Event("inventory.stock_reserved", c.saga))
        BY <2>1, <2>2 DEF ReserveStock, Fresh, Event
      <3> QED
        BY <1>3, <2>2, <3>1, <3>2 DEF ReserveStock
    <2>3. CASE RefuseStock(c)
      <3>1. Remembers
        BY <1>4, <2>3 DEF RefuseStock
      <3>2. Fresh(Event("inventory.stock_insufficient", c.saga))
        BY DEF Fresh, Event
      <3> QED
        BY <1>2, <1>3, <2>3, <3>1, <3>2 DEF RefuseStock
    <2>4. CASE ReserveAgain(c)
      BY <1>2, <1>4, <2>4 DEF ReserveAgain
    <2>5. CASE ConfirmStock(c)
      <3>1. Remembers
        BY <2>1, <2>5 DEF ConfirmStock, Settle, Settled, Remembers
      <3>2. CASE reservation[c.saga] = "HELD"
        <4>1. Fresh(Event("inventory.stock_confirmed", c.saga))
          BY <2>1, <2>5, <3>2 DEF ConfirmStock, Settle, Settled, Fresh, Event
        <4> QED
          BY <1>3, <2>5, <3>1, <3>2, <4>1 DEF ConfirmStock, Settle
      <3>3. CASE reservation[c.saga] # "HELD"
        BY <1>2, <2>5, <3>1, <3>3 DEF ConfirmStock, Settle
      <3> QED
        BY <3>2, <3>3
    <2>6. CASE ReleaseStock(c)
      <3>1. Remembers
        BY <2>1, <2>6 DEF ReleaseStock, Settle, Settled, Remembers
      <3>2. Fresh(Event("inventory.stock_released", c.saga))
        BY DEF Fresh, Event
      <3> QED
        BY <1>2, <1>3, <2>6, <3>1, <3>2 DEF ReleaseStock, Settle
    <2>7. CASE ProcessRefund(c)
      <3>1. Remembers
        BY <2>7 DEF ProcessRefund, Remembers
      <3>2. Fresh(Event("payment.refunded", intentSaga))
        BY DEF Fresh, Event
      <3> QED
        BY <1>2, <1>3, <2>7, <3>1, <3>2 DEF ProcessRefund
    <2>8. CASE CreateLabel(c)
      <3>1. Remembers
        BY <1>4, <2>8 DEF CreateLabel
      <3>2. Fresh(Event("shipping.label_created", c.saga))
        BY <2>1, <2>8 DEF CreateLabel, Fresh, Event
      <3> QED
        BY <1>2, <1>3, <2>8, <3>1, <3>2 DEF CreateLabel
    <2>9. CASE UpdateRefundStatus(c)
      BY <1>2, <1>4, <2>9 DEF UpdateRefundStatus
    <2> QED
      BY <1>7, <2>2, <2>3, <2>4, <2>5, <2>6, <2>7, <2>8, <2>9 DEF HandleCommand
  <1>8. ASSUME NEW c \in cmdbox, DropCommand(c) PROVE Remembers /\ Publishes
    BY <1>2, <1>4, <1>8 DEF DropCommand
  <1>9. ASSUME NEW o \in {"paid", "failed"}, CustomerPays(o) PROVE Remembers /\ Publishes
    BY <1>2, <1>9 DEF CustomerPays, Remembers
  <1>10. CASE ProcessIpn
    <2>1. Remembers
      BY <1>10 DEF ProcessIpn, Remembers
    <2>2. Fresh(Event("payment.completed", intentSaga)) /\ Fresh(Event("payment.failed", intentSaga))
      BY <1>10 DEF ProcessIpn, Fresh, Event
    <2> QED
      BY <1>3, <1>10, <2>1, <2>2 DEF ProcessIpn
  <1>11. CASE DropIpn
    BY <1>2, <1>11 DEF DropIpn, Remembers
  <1>12. CASE ListExpired
    BY <1>2, <1>12 DEF ListExpired, Remembers
  <1>13. CASE ExpireIntent
    <2>1. Fresh(Event("payment.timeout", intentSaga))
      BY DEF Fresh, Event
    <2>2. PublishEvents({Event("payment.timeout", intentSaga)})
      BY <1>13 DEF ExpireIntent
    <2> QED
      BY <1>3, <1>13, <2>1, <2>2 DEF ExpireIntent, Remembers
  <1>14. CASE SimulateDelivery
    <2>1. ASSUME NEW from, NEW to, NEW topic, Advance(from, to, topic),
                 topic \in {"shipping.picked_up", "shipping.in_transit", "shipping.delivered"}
          PROVE  Remembers /\ Publishes
      <3>1. Fresh(Event(topic, shipmentSaga))
        BY <2>1 DEF Fresh, Event
      <3> QED
        BY <1>3, <1>4, <2>1, <3>1 DEF Advance
    <2> QED
      BY <1>14, <2>1 DEF SimulateDelivery
  <1>15. CASE ShippingCrash
    BY <1>2, <1>4, <1>15 DEF ShippingCrash
  <1>16. CASE CreateRefund
    <2>1. Fresh(Event("refund.requested", NoSaga))
      BY DEF Fresh, Event
    <2> QED
      BY <1>3, <1>4, <1>16, <2>1 DEF CreateRefund
  <1>17. ASSUME NEW a \in BOOLEAN, ValidateAndEmit(a) PROVE Remembers /\ Publishes
    <2>1. Fresh(Event("refund.approved", NoSaga)) /\ Fresh(Event("refund.rejected", NoSaga))
      BY DEF Fresh, Event
    <2> QED
      BY <1>3, <1>4, <1>17, <2>1 DEF ValidateAndEmit
  <1>18. ASSUME NEW c \in cmdbox, NEW d \in cmdbox, SettleBoth(c, d)
         PROVE  Remembers /\ Publishes
    <2>1. c \in commands /\ c.saga \in Sagas
      BY DEF Commands
    <2>2. Remembers
      BY <1>18, <2>1 DEF SettleBoth, Settled, Remembers
    <2>3. /\ Fresh(Event("inventory.stock_confirmed", c.saga))
          /\ Fresh(Event("inventory.stock_released", c.saga))
      BY <1>18, <2>1 DEF SettleBoth, Settled, Fresh, Event
    <2>4. Publishes
      BY <1>18, <2>3 DEF SettleBoth, Publishes, PublishEvents
    <2> QED
      BY <2>2, <2>4
  <1> QED
    BY <1>5, <1>6, <1>7, <1>8, <1>9, <1>10, <1>11, <1>12, <1>13, <1>14, <1>15, <1>16,
       <1>17, <1>18 DEF PartyStep

\* What a handler does until its offset is committed.
Handling == \/ Lookup \/ InsertSaga \/ WriteSteps \/ WriteSaga \/ CallServices
            \/ PublishCommand \/ Retry

\* It keeps its message.
LEMMA HandlingKeeps ==
    ASSUME OrchTypeOK, Handling
    PROVE  /\ consumer \in Working /\ consumer # Idle /\ Ends(Program)
           /\ Moves(consumer.ev.type, Program) /\ Program \in Programs
           /\ consumer' # Idle /\ consumer'.ev = consumer.ev /\ Program' = Program
           /\ UNCHANGED <<inbox, events>>
  <1>1. consumer.at \in Stages
    BY DEF Handling, Lookup, InsertSaga, WriteSteps, WriteSaga, CallServices,
           PublishCommand, Retry, CanThrow, Stages
  <1>2. /\ consumer \in Working /\ consumer # Idle /\ Ends(Program)
        /\ Moves(consumer.ev.type, Program) /\ Program \in Programs
    BY <1>1, AtWork, AtWorkEnds, RouteMoves DEF Program, Stages, Idle
  <1>3. \E a \in Stages : consumer'.at = a
    BY <1>2 DEF Handling, Lookup, InsertSaga, WriteSteps, WriteSaga, CallServices,
                PublishCommand, Retry, Stages, Working
  <1>4. consumer'.ev = consumer.ev
    BY <1>2 DEF Handling, Lookup, InsertSaga, WriteSteps, WriteSaga, CallServices,
                PublishCommand, Retry, Working
  <1>5. UNCHANGED <<inbox, events>>
    BY DEF Handling, Lookup, InsertSaga, WriteSteps, WriteSaga, CallServices,
           PublishCommand, Retry
  <1>6. consumer' # Idle
    BY <1>3 DEF Stages, Idle
  <1> QED
    BY <1>2, <1>4, <1>5, <1>6 DEF Program

\* The steps of the crons, which leave the consumer's rows and messages alone.
CronStep == \/ \E s \in Sagas : RecoverStuckSaga(s)
            \/ \E j \in Jobs : CompensationJob(j) \/ CompensationThrows(j)

\* Neither cron touches the consumer or its topics.
LEMMA CronFrame == CronStep => UNCHANGED <<sagaType, consumer, inbox, events>>
  BY DEF CronStep, RecoverStuckSaga, CompensationJob, CompensationThrows, FindFailedSagas,
         BeginCompensation, EmitRefund, EmitRelease, CancelOrder, CloseSaga, EndCompensation,
         sagaVars

\* What the orchestrator can do, told by what becomes of its message.
LEMMA OrchCases ==
    ASSUME OrchNext
    PROVE  \/ \E e \in inbox : Receive(e)
           \/ Handling
           \/ Commit \/ DeadLetter
           \/ CronStep
           \/ Crash
           \/ \E e \in events : Redeliver(e)
  BY DEF OrchNext, Consume, OrchFaults, Handling, CronStep

\* The orchestrator publishes no events, takes no saga row back, and sets up an
\* intent only for stock_reserved.
LEMMA OrchMemory ==
    ASSUME OrchTypeOK, OrchNext
    PROVE  /\ UNCHANGED events
           /\ orderStatus # "none" => orderStatus' # "none"
           /\ intent # "none" => intent' # "none"
           /\ intent' # "none" => \/ intent # "none"
                                  \/ CallServices /\ Program.qr
           /\ \A s \in Sagas : sagaType[s] # "none" => sagaType'[s] = sagaType[s]
  <1> USE DEF sagaVars, remoteVars
  <1>1. CASE CallServices
    BY <1>1 DEF CallServices, PatchOrder, CreateQR
  <1>2. CASE InsertSaga
    BY <1>2 DEF InsertSaga, OrchTypeOK
  <1>3. CASE \E j \in Jobs : CancelOrder(j)
    BY <1>3 DEF CancelOrder, PatchOrder
  <1>4. CASE ~CallServices /\ ~InsertSaga /\ ~(\E j \in Jobs : CancelOrder(j))
    <2>1. UNCHANGED <<events, sagaType, orderStatus, intent>>
      <3>1. CASE Handling
        BY <1>4, <3>1 DEF Handling, Lookup, WriteSteps, WriteSaga, PublishCommand, Retry
      <3>2. CASE CronStep
        BY <1>4, <3>2 DEF CronStep, RecoverStuckSaga, CompensationJob, CompensationThrows,
           FindFailedSagas, BeginCompensation, EmitRefund, EmitRelease, CloseSaga,
           EndCompensation
      <3> QED
        BY <3>1, <3>2, OrchCases DEF Receive, Commit, DeadLetter, Crash, Redeliver
    <2> QED
      BY <2>1
  <1> QED
    BY <1>1, <1>2, <1>3, <1>4

\* The consumer holds its message until the offset is committed.
LEMMA InHandStep ==
    ASSUME OrchTypeOK, OrchNext, consumer # Idle => consumer.ev \in inbox,
           ~Crash, \A e \in events : ~Redeliver(e)
    PROVE  /\ inbox' \subseteq inbox
           /\ consumer' # Idle => consumer'.ev \in inbox'
           /\ \A e \in inbox' : consumer # Idle /\ consumer.ev = e
                                => consumer' # Idle /\ consumer'.ev = e
  <1>1. CASE \E e \in inbox : Receive(e)
    BY <1>1 DEF Receive
  <1>2. CASE Handling
    BY <1>2, HandlingKeeps
  <1>3. CASE Commit \/ DeadLetter
    BY <1>3 DEF Commit, DeadLetter
  <1>4. CASE CronStep
    BY <1>4, CronFrame
  <1> QED
    BY <1>1, <1>2, <1>3, <1>4, OrchCases

\* So a topic that has been reached stays so.
LEMMA ReachedStep ==
    ASSUME OrchTypeOK, OrchNext, consumer # Idle => consumer.ev \in inbox,
           ~Crash, \A e \in events : ~Redeliver(e), NEW t, Reached(t)
    PROVE  Reached(t)'
  <1>1. UNCHANGED events
    BY OrchMemory
  <1> QED
    BY <1>1, InHandStep DEF Reached, Arrived

\* Other services do not change what is in hand; a topic of which they publish
\* nothing more stays reached.
LEMMA ReachedApart ==
    ASSUME TypeOK, PartyStep, Publishes, NEW t, Reached(t),
           \A e \in inbox' : Fresh(e) => e.type # t
    PROVE  Reached(t)'
  BY PartyFrame DEF Publishes, Reached, Arrived

\* Each of the events that move a saga on is published once.
LEMMA NotTwice ==
    ASSUME IInv, Origins, OneOrderSaga, NEW e, Fresh(e),
           e.type \in {"inventory.stock_reserved", "payment.completed",
                       "inventory.stock_confirmed"}
    PROVE  ~Arrived(e.type)
  BY DEF Origins, OneOrderSaga, OneSaga, Fresh, Arrived, Settled

\* So two events of such a topic are the same.
LEMMA Once ==
    ASSUME IInv, Origins, OneOrderSaga, NEW e \in events, NEW f \in events, e.type = f.type,
           e.type \in {"order.created", "inventory.stock_reserved", "payment.completed",
                       "inventory.stock_confirmed"}
    PROVE  e = f
  <1>1. e \in Events /\ f \in Events
    BY DEF IInv, TypeOK, OrchTypeOK
  <1>2. e.saga = f.saga => e = f
    BY <1>1 DEF Events
  <1> QED
    BY <1>2 DEF Origins, OneOrderSaga, OneSaga

\* A topic whose event is in hand has been reached.
LEMMA HeldReached ==
    ASSUME IInv, Origins, OneOrderSaga, consumer # Idle,
           consumer.ev.type \in {"order.created", "inventory.stock_reserved",
                                 "payment.completed", "inventory.stock_confirmed"}
    PROVE  Reached(consumer.ev.type)
  <1>1. consumer.ev \in events /\ inbox \subseteq events
    BY DEF IInv, TypeOK, OrchTypeOK, ConsumerBound
  <1> QED
    BY <1>1, Once DEF Reached, Arrived

\* The events of the later steps follow those of the earlier ones.
LEMMA Chain ==
    ASSUME Origins, StepsInOrder
    PROVE  /\ Arrived("payment.completed") => Reached("inventory.stock_reserved")
           /\ Arrived("inventory.stock_confirmed") =>
                 Reached("payment.completed") /\ Reached("inventory.stock_reserved")
           /\ Arrived("shipping.label_created") =>
                 /\ Reached("inventory.stock_confirmed") /\ Reached("payment.completed")
                 /\ Reached("inventory.stock_reserved")
  <1>1. Arrived("payment.completed") => Reached("inventory.stock_reserved")
    BY DEF Origins, StepsInOrder, Arrived
  <1>2. Arrived("inventory.stock_confirmed") => Reached("payment.completed")
    BY DEF StepsInOrder
  <1>3. Arrived("shipping.label_created") => Reached("inventory.stock_confirmed")
    BY DEF StepsInOrder
  <1> QED
    BY <1>1, <1>2, <1>3 DEF Reached

\* Handlers and crons name the saga that was started.
LEMMA OrchOrigins ==
    ASSUME IInv, Origins, OrchNext, UNCHANGED partyVars
    PROVE  Origins'
  <1> USE DEF sagaVars, remoteVars
  <1>1. OrchTypeOK /\ ConsumerBound
    BY DEF IInv, TypeOK
  <1>2. UNCHANGED <<reservation, vnpay, webhook, expiring, events>>
    BY <1>1, OrchMemory DEF partyVars
  <1>3. \A s \in Sagas : sagaType[s] # "none" => sagaType'[s] = sagaType[s]
    BY <1>1, OrchMemory
  <1>4. OrderSagas \subseteq OrderSagas'
    BY <1>3 DEF OrderSagas
  <1>5. /\ Arrived("order.created")' => orderStatus' # "none"
        /\ vnpay' # "none" \/ expiring' => intent' # "none"
    BY <1>1, <1>2, OrchMemory DEF Origins, Arrived
  <1>6. /\ \A s \in Sagas : reservation'[s] # "none" => s \in OrderSagas'
        /\ \A e \in events' :
             /\ e.type \in {"inventory.stock_reserved", "inventory.stock_confirmed"}
                   => e.saga \in OrderSagas' /\ reservation'[e.saga] # "none"
             /\ e.type = "inventory.stock_confirmed" => reservation'[e.saga] \in Settled
             /\ e.type = "payment.completed" => webhook' /\ vnpay' # "none"
        /\ \A e, f \in events' :
             e.type = f.type /\ e.type \in {"order.created", "payment.completed"} => e = f
    BY <1>2, <1>4 DEF Origins
  <1>7. OrderSagas' # {} => Arrived("order.created")'
    <2>1. CASE InsertSaga
      <3>1. Handling /\ consumer.at = "insert" /\ consumer # Idle
        BY <1>1, <2>1, HandlingKeeps DEF Handling, InsertSaga
      <3>2. consumer.ev \in events /\ Moves(consumer.ev.type, Program)
        BY <1>1, <3>1, HandlingKeeps DEF ConsumerBound
      <3>3. CASE Program.starts = "ORDER_SAGA"
        BY <1>2, <3>2, <3>3 DEF Moves, Arrived
      <3>4. CASE Program.starts # "ORDER_SAGA"
        <4>1. OrderSagas' = OrderSagas
          BY <1>1, <2>1, <3>4 DEF InsertSaga, OrchTypeOK, OrderSagas
        <4> QED
          BY <1>2, <4>1 DEF Origins, Arrived
      <3> QED
        BY <3>3, <3>4
    <2>2. CASE ~InsertSaga
      <3>1. UNCHANGED sagaType
        BY <2>2, OrchCases, CronFrame DEF Receive, Handling, Lookup, WriteSteps, WriteSaga,
           CallServices, PublishCommand, Retry, Commit, DeadLetter, Crash, Redeliver
      <3> QED
        BY <1>2, <3>1 DEF Origins, OrderSagas, Arrived
    <2> QED
      BY <2>1, <2>2
  <1>8. consumer' # Idle /\ consumer'.at \in {"steps", "saga", "http", "publish"}
          /\ Program'.starts # "none" => sagaType'[consumer'.saga] = Program'.starts
    <2>1. CASE \E e \in inbox : Receive(e)
      BY <2>1 DEF Receive
    <2>2. CASE Handling
      <3>1. /\ consumer \in Working /\ consumer # Idle /\ Program' = Program
            /\ Moves(consumer.ev.type, Program) /\ Program \in Programs
        BY <1>1, <2>2, HandlingKeeps
      <3>2. CASE Lookup
        BY <3>1, <3>2 DEF Lookup, Working
      <3>3. CASE InsertSaga
        <4>1. PICK s \in Sagas :
                 /\ sagaType' = [sagaType EXCEPT ![s] = Program.starts]
                 /\ consumer' = [consumer EXCEPT !.at = "steps", !.saga = s]
          BY <3>3 DEF InsertSaga
        <4>2. consumer'.saga = s
          BY <3>1, <4>1 DEF Working
        <4> QED
          BY <1>1, <3>1, <4>1, <4>2 DEF OrchTypeOK
      <3>4. CASE WriteSteps \/ WriteSaga \/ CallServices \/ PublishCommand
        <4>1. /\ UNCHANGED sagaType /\ consumer'.saga = consumer.saga
              /\ consumer.at \in {"steps", "saga", "http", "publish"}
          BY <3>1, <3>4 DEF WriteSteps, WriteSaga, CallServices, PublishCommand, Working
        <4> QED
          BY <3>1, <4>1 DEF Origins
      <3>5. CASE Retry
        BY <3>1, <3>5 DEF Retry, Working
      <3> QED
        BY <2>2, <3>2, <3>3, <3>4, <3>5 DEF Handling
    <2>3. CASE Commit \/ DeadLetter \/ Crash
      BY <2>3 DEF Commit, DeadLetter, Crash
    <2>4. CASE CronStep
      BY <2>4, CronFrame DEF Origins, Program
    <2>5. CASE \E e \in events : Redeliver(e)
      BY <2>5 DEF Redeliver, Origins, Program
    <2> QED
      BY <2>1, <2>2, <2>3, <2>4, <2>5, OrchCases
  <1>9. ASSUME NEW c \in commands', c.type = "inventory.reserve_stock"
        PROVE  c.saga \in OrderSagas'
    <2>1. CASE c \in commands
      BY <1>4, <1>9, <2>1 DEF Origins
    <2>2. CASE c \notin commands /\ PublishCommand
      <3>1. Handling /\ consumer.at = "publish"
        BY <2>2 DEF Handling, PublishCommand
      <3>2. consumer # Idle /\ Moves(consumer.ev.type, Program)
        BY <1>1, <3>1, HandlingKeeps
      <3>3. c.type \in Program.emit /\ c.saga = consumer.saga
        BY <2>2 DEF PublishCommand, PublishCommands, Command
      <3>4. Program.starts = "ORDER_SAGA"
        BY <1>9, <3>2, <3>3 DEF Moves
      <3>5. consumer.saga \in Sagas /\ sagaType[consumer.saga] = "ORDER_SAGA"
        BY <1>1, <3>1, <3>2, <3>4 DEF Origins, ConsumerBound
      <3> QED
        BY <1>4, <3>3, <3>5 DEF OrderSagas
    <2>3. CASE c \notin commands /\ CronStep
      <3>1. ASSUME NEW s \in Sagas, RecoverStuckSaga(s) PROVE c.saga \in OrderSagas
        BY <2>3, <3>1 DEF RecoverStuckSaga, PublishCommands, OrderSagas
      <3>2. ASSUME NEW j \in Jobs, CompensationJob(j) \/ CompensationThrows(j) PROVE FALSE
        BY <1>9, <2>3, <3>2 DEF CompensationJob, CompensationThrows, FindFailedSagas,
           BeginCompensation, EmitRefund, EmitRelease, CancelOrder, CloseSaga,
           EndCompensation, PublishCommands, Command
      <3> QED
        BY <1>4, <2>3, <3>1, <3>2 DEF CronStep
    <2>4. CASE c \notin commands /\ ~PublishCommand /\ ~CronStep
      <3>1. UNCHANGED commands
        BY <2>4, OrchCases DEF Receive, Handling, Lookup, InsertSaga, WriteSteps, WriteSaga,
           CallServices, Retry, Commit, DeadLetter, Crash, Redeliver
      <3> QED
        BY <2>4, <3>1
    <2> QED
      BY <2>1, <2>2, <2>3, <2>4
  <1> QED
    BY <1>5, <1>6, <1>7, <1>8, <1>9 DEF Origins

\* The other services add to it what they promise.
LEMMA PartyOrigins ==
    ASSUME IInv, Origins, PartyStep
    PROVE  Origins'
  <1>1. Remembers /\ Publishes
    BY PartyMemory DEF IInv, Origins
  <1>2. UNCHANGED <<sagaType, consumer, commands>>
    BY PartyFrame
  <1>3. OrderSagas' = OrderSagas /\ Program' = Program
    BY <1>2 DEF OrderSagas, Program
  <1>4. /\ events \subseteq events' /\ \A e \in events' : e \in events \/ Fresh(e)
        /\ reservation \in [Sagas -> ReservationStatus] /\ commands \subseteq Commands
    BY <1>1 DEF Publishes, IInv, TypeOK, OrchTypeOK
  <1>5. /\ Arrived("order.created")' => orderStatus' # "none"
        /\ OrderSagas' # {} => Arrived("order.created")'
        /\ vnpay' # "none" \/ expiring' => intent' # "none"
    BY <1>1, <1>3, <1>4 DEF Origins, Arrived, Remembers, Fresh
  <1>6. \A s \in Sagas : reservation'[s] # "none" => s \in OrderSagas'
    BY <1>1, <1>3 DEF Origins, Remembers
  <1>7. ASSUME NEW e \in events'
        PROVE  /\ e.type \in {"inventory.stock_reserved", "inventory.stock_confirmed"}
                     => e.saga \in OrderSagas' /\ reservation'[e.saga] # "none"
               /\ e.type = "inventory.stock_confirmed" => reservation'[e.saga] \in Settled
               /\ e.type = "payment.completed" => webhook' /\ vnpay' # "none"
    <2>1. CASE e \in events
      BY <1>1, <1>3, <2>1 DEF Origins, Remembers, OrderSagas
    <2>2. CASE Fresh(e)
      BY <1>3, <1>4, <2>2 DEF Origins, Fresh, Settled
    <2> QED
      BY <1>4, <2>1, <2>2
  <1>8. ASSUME NEW e \in events', NEW f \in events', e.type = f.type,
               e.type \in {"order.created", "payment.completed"}
        PROVE  e = f
    <2>0. e \in Events /\ f \in Events
      BY PartyStepInv DEF IInv, TypeOK, OrchTypeOK
    <2>1. e.saga = f.saga => e = f
      BY <1>8, <2>0 DEF Events
    <2>2. CASE e \in events /\ f \in events
      BY <1>8, <2>2 DEF Origins
    <2>3. CASE Fresh(e) /\ f \in events
      BY <1>8, <2>3 DEF Origins, Fresh, Arrived
    <2>4. CASE e \in events /\ Fresh(f)
      BY <1>8, <2>4 DEF Origins, Fresh, Arrived
    <2>5. CASE Fresh(e) /\ Fresh(f)
      BY <1>8, <2>1, <2>5 DEF Fresh
    <2> QED
      BY <1>4, <2>2, <2>3, <2>4, <2>5
  <1>9. /\ consumer' # Idle /\ consumer'.at \in {"steps", "saga", "http", "publish"}
             /\ Program'.starts # "none" => sagaType'[consumer'.saga] = Program'.starts
        /\ \A c \in commands' : c.type = "inventory.reserve_stock" => c.saga \in OrderSagas'
    BY <1>2, <1>3 DEF Origins
  <1> QED
    BY <1>5, <1>6, <1>7, <1>8, <1>9 DEF Origins

-----------------------------------------------------------------------------
(* Why a saga never moves back: one order saga, its steps in order.        *)

\* The handlers' part: the second saga is not inserted, because the first is
\* still running while order.created is being handled.
LEMMA OrchOneSaga ==
    ASSUME IInv, SagaLife, Origins, OneOrderSaga, OrchNext,
           ~Crash, \A e \in events : ~Redeliver(e)
    PROVE  OneOrderSaga'
  <1> USE DEF sagaVars, remoteVars
  <1>1. OrchTypeOK /\ ConsumerBound
    BY DEF IInv, TypeOK
  <1>2. /\ inbox' \subseteq inbox
        /\ consumer' # Idle => consumer'.ev \in inbox'
        /\ \A e \in inbox' : consumer # Idle /\ consumer.ev = e
                             => consumer' # Idle /\ consumer'.ev = e
    BY <1>1, InHandStep DEF OneOrderSaga
  <1> DEFINE InTime(e) == /\ consumer # Idle /\ consumer.ev = e /\ consumer.at # "insert"
                          /\ \A s \in OrderSagas :
                                status[s] = "RUNNING" /\ currentStep[s] = "RESERVE_INVENTORY"
  <1>3. OrderSagas # {} => \A e \in inbox : e.type = "order.created" => InTime(e)
    BY DEF OneOrderSaga, OneSaga
  <1> SUFFICES /\ \A s, t \in OrderSagas' : s = t
               /\ OrderSagas' # {} => \A e \in inbox' : e.type = "order.created" => InTime(e)'
    BY <1>2 DEF OneOrderSaga, OneSaga
  <1>4. ASSUME OrderSagas' = OrderSagas,
               \A e \in inbox' : e.type = "order.created" /\ InTime(e) =>
                  /\ consumer'.at # "insert"
                  /\ \A s \in OrderSagas :
                        status'[s] = "RUNNING" /\ currentStep'[s] = "RESERVE_INVENTORY"
        PROVE  /\ \A s, t \in OrderSagas' : s = t
               /\ OrderSagas' # {} => \A e \in inbox' : e.type = "order.created" => InTime(e)'
    BY <1>2, <1>3, <1>4 DEF OneOrderSaga, OneSaga
  <1>5. CASE InsertSaga
    <2>1. Handling /\ consumer.at = "insert"
      BY <1>5 DEF Handling, InsertSaga
    <2>2. /\ consumer \in Working /\ consumer # Idle
          /\ Moves(consumer.ev.type, Program) /\ Program \in Programs
          /\ consumer' # Idle /\ consumer'.ev = consumer.ev /\ UNCHANGED inbox
      BY <1>1, <2>1, HandlingKeeps
    <2>3. PICK r \in Sagas :
             /\ sagaType[r] = "none"
             /\ sagaType' = [sagaType EXCEPT ![r] = Program.starts]
             /\ status' = [status EXCEPT ![r] = "RUNNING"]
             /\ currentStep' = [currentStep EXCEPT ![r] = Program.current]
             /\ consumer' = [consumer EXCEPT !.at = "steps", !.saga = r]
      BY <1>5 DEF InsertSaga
    <2>4. consumer'.at = "steps"
      BY <2>2, <2>3 DEF Working
    <2>5. Program.starts \in SagaTypes
      BY <1>1, <2>1, <2>2 DEF ConsumerBound, Programs
    <2>6. CASE Program.starts = "ORDER_SAGA"
      <3>1. consumer.ev \in inbox /\ consumer.ev.type = "order.created"
        BY <2>2, <2>6 DEF OneOrderSaga, OneSaga, Moves
      <3>2. OrderSagas = {}
        BY <1>3, <2>1, <3>1
      <3>3. OrderSagas' = {r}
        BY <1>1, <2>3, <2>6, <3>2 DEF OrderSagas, OrchTypeOK
      <3>4. Program.current = "RESERVE_INVENTORY"
        BY <2>2, <2>5, <2>6, <3>1, HandlingKeeps, <2>1, <1>1 DEF Moves, Ends
      <3>5. status'[r] = "RUNNING" /\ currentStep'[r] = "RESERVE_INVENTORY"
        BY <1>1, <2>3, <3>4 DEF OrchTypeOK
      <3>6. \A e \in inbox' : e.type = "order.created" => e = consumer.ev
        BY <1>1, <2>2, <3>1, Once DEF OrchTypeOK
      <3> QED
        BY <2>2, <2>4, <3>3, <3>5, <3>6
    <2>7. CASE Program.starts # "ORDER_SAGA"
      <3>1. OrderSagas' = OrderSagas /\ r \notin OrderSagas
        BY <1>1, <2>3, <2>7 DEF OrderSagas, OrchTypeOK
      <3>2. \A s \in OrderSagas : status'[s] = status[s] /\ currentStep'[s] = currentStep[s]
        BY <1>1, <2>3, <3>1 DEF OrchTypeOK, OrderSagas
      <3> QED
        BY <1>4, <2>4, <3>1, <3>2
    <2> QED
      BY <2>6, <2>7
  <1>6. CASE WriteSaga
    <2>1. Handling /\ consumer.at = "saga"
      BY <1>6 DEF Handling, WriteSaga
    <2>2. /\ consumer \in Working /\ consumer # Idle /\ Ends(Program)
          /\ Moves(consumer.ev.type, Program) /\ Program \in Programs
      BY <1>1, <2>1, HandlingKeeps
    <2>3. consumer'.at = "http" /\ OrderSagas' = OrderSagas
      BY <1>6, <2>2 DEF WriteSaga, Working, OrderSagas
    <2>4. consumer.saga \in Sagas /\ sagaType[consumer.saga] \in Program.types
      BY <1>1, <2>1, <2>2 DEF ConsumerBound
    <2>5. ASSUME consumer.ev.type = "order.created", NEW s \in OrderSagas,
                 status[s] = "RUNNING" /\ currentStep[s] = "RESERVE_INVENTORY"
          PROVE  status'[s] = "RUNNING" /\ currentStep'[s] = "RESERVE_INVENTORY"
      <3>1. Program.status = Keep /\ Program.in = "RUNNING"
            /\ Program.current = "RESERVE_INVENTORY"
        BY <2>2, <2>5 DEF Moves, Ends, SagaTypes, Programs
      <3>2. /\ status' = [status EXCEPT ![consumer.saga] = @]
            /\ currentStep' = [currentStep EXCEPT ![consumer.saga] = "RESERVE_INVENTORY"]
        BY <1>6, <3>1 DEF WriteSaga, Keep
      <3> QED
        BY <1>1, <2>5, <3>2 DEF OrchTypeOK, OrderSagas
    <2> QED
      BY <1>4, <2>3, <2>5
  <1>7. CASE Lookup
    <2>1. Handling /\ consumer.at = "lookup"
      BY <1>7 DEF Handling, Lookup
    <2>2. /\ consumer \in Working /\ consumer # Idle /\ Ends(Program)
          /\ Moves(consumer.ev.type, Program) /\ Program \in Programs
      BY <1>1, <2>1, HandlingKeeps
    <2>3. UNCHANGED <<sagaType, status, currentStep>>
      BY <1>7 DEF Lookup
    <2>4. OrderSagas' = OrderSagas
      BY <2>3 DEF OrderSagas
    <2>5. ASSUME consumer.ev.type = "order.created", NEW s \in OrderSagas,
                 status[s] = "RUNNING"
          PROVE  consumer'.at # "insert"
      <3>1. s \in Matching(Program)
        BY <2>2, <2>5 DEF Matching, Moves, Ends, SagaTypes, OrderSagas
      <3> QED
        BY <1>7, <2>2, <3>1 DEF Lookup, Working
    <2>6. ASSUME NEW e \in inbox', e.type = "order.created", InTime(e), OrderSagas # {}
          PROVE  consumer'.at # "insert"
      BY <2>5, <2>6
    <2>7. CASE OrderSagas = {}
      BY <2>4, <2>7
    <2>8. CASE OrderSagas # {}
      BY <1>4, <2>3, <2>4, <2>6, <2>8
    <2> QED
      BY <2>7, <2>8
  <1>8. CASE Handling /\ ~InsertSaga /\ ~WriteSaga /\ ~Lookup
    <2>1. UNCHANGED <<sagaType, status, currentStep>>
      BY <1>8 DEF Handling, WriteSteps, CallServices, PublishCommand, Retry
    <2>2. consumer'.at # "insert"
      BY <1>1, <1>8, HandlingKeeps
      DEF Handling, WriteSteps, CallServices, PublishCommand, Retry, Working
    <2> QED
      BY <1>4, <2>1, <2>2 DEF OrderSagas
  <1>9. CASE \E e \in inbox : Receive(e)
    <2>1. UNCHANGED <<sagaType, status, currentStep>> /\ consumer = Idle
      BY <1>9 DEF Receive
    <2> QED
      BY <1>4, <2>1 DEF OrderSagas
  <1>10. CASE Commit \/ DeadLetter
    <2>1. UNCHANGED sagaType /\ inbox' = inbox \ {consumer.ev}
      BY <1>10 DEF Commit, DeadLetter
    <2> QED
      BY <1>4, <2>1 DEF OrderSagas
  <1>11. CASE CronStep
    <2>1. UNCHANGED <<sagaType, consumer, inbox>>
      BY <1>11, CronFrame
    <2>2. ASSUME NEW s \in Sagas, status[s] = "RUNNING"
          PROVE  status'[s] = status[s] /\ currentStep'[s] = currentStep[s]
      <3>1. ASSUME NEW j \in Jobs, NEW r \in Sagas, BeginCompensation(j, r)
            PROVE  status'[s] = status[s] /\ currentStep'[s] = currentStep[s]
        <4>1. r # s
          BY <2>2, <3>1 DEF BeginCompensation, SagaLife, CompIdle
        <4> QED
          BY <1>1, <3>1, <4>1 DEF BeginCompensation, OrchTypeOK
      <3>2. ASSUME NEW j \in Jobs, CloseSaga(j)
            PROVE  status'[s] = status[s] /\ currentStep'[s] = currentStep[s]
        <4>1. comp[j].saga # s
          BY <2>2, <3>2 DEF CloseSaga, SagaLife, CompIdle
        <4> QED
          BY <1>1, <3>2, <4>1 DEF CloseSaga, OrchTypeOK
      <3>3. CASE UNCHANGED <<status, currentStep>>
        BY <3>3
      <3> QED
        BY <1>11, <3>1, <3>2, <3>3 DEF CronStep, RecoverStuckSaga, CompensationJob,
           CompensationThrows, FindFailedSagas, EmitRefund, EmitRelease, CancelOrder,
           EndCompensation
    <2> QED
      BY <1>4, <2>1, <2>2 DEF OrderSagas
  <1> HIDE DEF InTime
  <1> QED
    BY <1>5, <1>6, <1>7, <1>8, <1>9, <1>10, <1>11, OrchCases

\* The other services publish order.created only before there is a saga.
LEMMA PartyOneSaga ==
    ASSUME IInv, Origins, OneOrderSaga, PartyStep
    PROVE  OneOrderSaga'
  <1>1. Publishes
    BY PartyMemory DEF IInv, Origins
  <1>2. UNCHANGED <<sagaType, status, currentStep, consumer>>
    BY PartyFrame
  <1>3. OrderSagas' = OrderSagas
    BY <1>2 DEF OrderSagas
  <1>4. OrderSagas # {} => \A e \in inbox' : e.type = "order.created" => e \in inbox
    BY <1>1 DEF Origins, Publishes, Fresh
  <1> QED
    BY <1>1, <1>2, <1>3, <1>4 DEF OneOrderSaga, OneSaga, Publishes

\* A handler's command and row are those of the event in hand, and the recovery
\* cron's those of the saga's step.
LEMMA OrchStepsInOrder ==
    ASSUME IInv, Origins, OneOrderSaga, StepsInOrder, OrchNext,
           ~Crash, \A e \in events : ~Redeliver(e)
    PROVE  StepsInOrder'
  <1> USE DEF sagaVars, remoteVars
  <1>1. OrchTypeOK /\ ConsumerBound
    BY DEF IInv, TypeOK
  <1>2. \A t : Reached(t) => Reached(t)'
    BY <1>1, ReachedStep DEF OneOrderSaga
  <1>3. \A t : Arrived(t)' <=> Arrived(t)
    BY <1>1, OrchMemory DEF Arrived
  <1>4. ASSUME Handling
        PROVE  /\ consumer # Idle /\ consumer \in Working /\ Program \in Programs
               /\ consumer.ev \in events /\ consumer.ev.type \in EventTypes
               /\ Moves(consumer.ev.type, Program) /\ Justified(consumer.ev.type, Program)
    <2>1. /\ consumer # Idle /\ consumer \in Working /\ Program \in Programs
          /\ Moves(consumer.ev.type, Program)
      BY <1>1, <1>4, HandlingKeeps
    <2>2. consumer.ev \in events /\ consumer.ev.type \in EventTypes
      BY <1>1, <2>1 DEF ConsumerBound, Working, Events
    <2> QED
      BY <2>1, <2>2, RouteJustified DEF Program
  <1>5. intent' # "none" => Reached("inventory.stock_reserved")'
    <2>1. ASSUME CallServices, Program.qr PROVE Reached("inventory.stock_reserved")
      <3>1. Handling
        BY <2>1 DEF Handling
      <3> QED
        BY <1>4, <2>1, <3>1, HeldReached DEF Moves
    <2> QED
      BY <1>1, <1>2, <2>1, OrchMemory DEF StepsInOrder
  <1>6. ASSUME NEW c \in commands'
        PROVE  /\ c.type = "inventory.confirm_stock" => Reached("payment.completed")
               /\ c.type = "shipping.create_label" => Reached("inventory.stock_confirmed")
    <2>1. CASE c \in commands
      BY <2>1 DEF StepsInOrder
    <2>2. CASE c \notin commands /\ PublishCommand
      <3>1. Handling
        BY <2>2 DEF Handling
      <3>2. c.type \in Program.emit
        BY <2>2 DEF PublishCommand, PublishCommands, Command
      <3> QED
        BY <1>4, <3>1, <3>2, HeldReached DEF Justified
    <2>3. CASE c \notin commands /\ CronStep
      <3>1. ASSUME NEW s \in Sagas, RecoverStuckSaga(s)
            PROVE  /\ c.type = "inventory.confirm_stock" => currentStep[s] = "CONFIRM_INVENTORY"
                   /\ c.type = "shipping.create_label" => currentStep[s] = "CREATE_SHIPPING"
        BY <2>3, <3>1 DEF RecoverStuckSaga, PublishCommands, RECOVERABLE_STEPS
      <3>2. ASSUME NEW j \in Jobs, CompensationJob(j) \/ CompensationThrows(j)
            PROVE  c.type \in {"payment.refund_requested", "inventory.release_stock"}
        BY <2>3, <3>2 DEF CompensationJob, CompensationThrows, FindFailedSagas,
           BeginCompensation, EmitRefund, EmitRelease, CancelOrder, CloseSaga,
           EndCompensation, PublishCommands, Command
      <3> QED
        BY <2>3, <3>1, <3>2 DEF CronStep, StepsInOrder
    <2>4. CASE c \notin commands /\ ~PublishCommand /\ ~CronStep
      <3>1. UNCHANGED commands
        BY <2>4, OrchCases DEF Receive, Handling, Lookup, InsertSaga, WriteSteps, WriteSaga,
           CallServices, Retry, Commit, DeadLetter, Crash, Redeliver
      <3> QED
        BY <2>4, <3>1
    <2> QED
      BY <2>1, <2>2, <2>3, <2>4
  <1> DEFINE Behind(x) == /\ x = "CONFIRM_INVENTORY" => Reached("payment.completed")
                          /\ x = "CREATE_SHIPPING" => Reached("inventory.stock_confirmed")
                          /\ x = "AWAIT_DELIVERY" => Arrived("shipping.label_created")
  <1>7. ASSUME NEW s \in Sagas PROVE Behind(currentStep'[s])
    <2>1. Behind(currentStep[s])
      BY DEF StepsInOrder
    <2>2. CASE InsertSaga \/ WriteSaga
      <3>1. Handling
        BY <2>2 DEF Handling
      <3>2. currentStep'[s] \in {currentStep[s], Program.current}
        BY <1>1, <2>2 DEF InsertSaga, WriteSaga, OrchTypeOK
      <3>3. Behind(Program.current)
        BY <1>4, <3>1, HeldReached DEF Justified, Moves, Arrived
      <3> QED
        BY <2>1, <3>2, <3>3
    <2>3. CASE ~InsertSaga /\ ~WriteSaga
      <3>1. currentStep'[s] \in {currentStep[s], "FAILED", "CANCELLED"}
        <4>1. CASE DeadLetter
          BY <1>1, <4>1 DEF DeadLetter, OrchTypeOK
        <4>2. ASSUME NEW j \in Jobs, CloseSaga(j)
              PROVE  currentStep'[s] \in {currentStep[s], "CANCELLED"}
          BY <1>1, <4>2 DEF CloseSaga, OrchTypeOK
        <4>3. CASE ~DeadLetter /\ \A j \in Jobs : ~CloseSaga(j)
          <5>1. UNCHANGED currentStep
            BY <2>3, <4>3, OrchCases DEF Receive, Handling, Lookup, WriteSteps, CallServices,
               PublishCommand, Retry, Commit, Crash, Redeliver, CronStep, RecoverStuckSaga,
               CompensationJob, CompensationThrows, FindFailedSagas, BeginCompensation,
               EmitRefund, EmitRelease, CancelOrder, EndCompensation
          <5> QED
            BY <5>1
        <4> QED
          BY <4>1, <4>2, <4>3
      <3> QED
        BY <2>1, <3>1
    <2> QED
      BY <2>2, <2>3
  <1>8. /\ Arrived("inventory.stock_confirmed")' => Reached("payment.completed")'
        /\ Arrived("shipping.label_created")' => Reached("inventory.stock_confirmed")'
    BY <1>2, <1>3 DEF StepsInOrder
  <1> QED
    BY <1>2, <1>3, <1>5, <1>6, <1>7, <1>8 DEF StepsInOrder

\* The other services answer what they were asked for, and only once where it
\* moves the saga on.
LEMMA PartyStepsInOrder ==
    ASSUME IInv, Origins, OneOrderSaga, StepsInOrder, PartyStep
    PROVE  StepsInOrder'
  <1>1. Remembers /\ Publishes
    BY PartyMemory DEF IInv, Origins
  <1>2. UNCHANGED <<currentStep, commands>> /\ TypeOK
    BY PartyFrame DEF IInv
  <1>3. \A t \in {"inventory.stock_reserved", "payment.completed",
                  "inventory.stock_confirmed"} : Reached(t) => Reached(t)'
    BY <1>1, <1>2, ReachedApart, NotTwice DEF Reached
  <1>4. \A t : Arrived(t) => Arrived(t)'
    BY <1>1 DEF Publishes, Arrived
  <1>5. ASSUME Arrived("inventory.stock_confirmed")' PROVE Reached("payment.completed")
    BY <1>1, <1>5 DEF Publishes, Arrived, Fresh, StepsInOrder
  <1>6. ASSUME Arrived("shipping.label_created")' PROVE Reached("inventory.stock_confirmed")
    BY <1>1, <1>6 DEF Publishes, Arrived, Fresh, StepsInOrder
  <1>7. intent' # "none" => Reached("inventory.stock_reserved")
    BY <1>1 DEF Remembers, StepsInOrder
  <1> QED
    BY <1>2, <1>3, <1>4, <1>5, <1>6, <1>7 DEF StepsInOrder

\* The numbers of the steps.
LEMMA Positions ==
    /\ Position["RESERVE_INVENTORY"] = 1 /\ Position["AWAIT_PAYMENT"] = 2
    /\ Position["CONFIRM_INVENTORY"] = 3 /\ Position["CREATE_SHIPPING"] = 4
    /\ Position["AWAIT_DELIVERY"] = 5 /\ Position["COMPLETE_ORDER"] = 6
  BY DEF Position

\* What a handler makes of a running order saga: it keeps its step, or it takes
\* the step of its event, before which no event is left.
LEMMA MovesOn ==
    ASSUME IInv, SagaLife, Origins, OneOrderSaga, StepsInOrder, NothingBehind, WriteSaga,
           NEW s \in OrderSagas, status[s] = "RUNNING", status'[s] \in {"RUNNING", "COMPLETED"}
    PROVE  \/ /\ status'[s] = "RUNNING" /\ currentStep'[s] = currentStep[s]
           \/ /\ status'[s] = "RUNNING" /\ currentStep'[s] \in OrderSteps
              /\ Position[currentStep[s]] <= Position[currentStep'[s]]
              /\ Position[currentStep'[s]] > 2 => ~Waits("inventory.stock_reserved")
              /\ Position[currentStep'[s]] > 3 => ~Waits("payment.completed")
              /\ Position[currentStep'[s]] > 4 => ~Waits("inventory.stock_confirmed")
           \/ /\ status'[s] = "COMPLETED" /\ currentStep'[s] = "COMPLETE_ORDER"
  <1>1. OrchTypeOK /\ ConsumerBound /\ s \in Sagas /\ sagaType[s] = "ORDER_SAGA"
    BY DEF IInv, TypeOK, OrderSagas
  <1>2. Handling /\ consumer.at = "saga"
    BY DEF Handling, WriteSaga
  <1>3. /\ consumer \in Working /\ consumer # Idle /\ Ends(Program)
        /\ Moves(consumer.ev.type, Program) /\ Program \in Programs
    BY <1>1, <1>2, HandlingKeeps
  <1>4. consumer.ev \in inbox /\ consumer.ev \in events /\ sagaType[consumer.saga] \in Program.types
    BY <1>1, <1>2, <1>3 DEF OneOrderSaga, OneSaga, ConsumerBound
  <1>5. /\ status' = [status EXCEPT ![consumer.saga] =
                        IF Program.status = Keep THEN @ ELSE Program.status]
        /\ currentStep' = [currentStep EXCEPT ![consumer.saga] =
                        IF Program.current = Keep THEN @ ELSE Program.current]
    BY DEF WriteSaga
  <1>6. CASE s # consumer.saga
    BY <1>1, <1>5, <1>6 DEF OrchTypeOK
  <1>7. CASE s = consumer.saga
    <2>1. Program.in = "RUNNING" /\ "ORDER_SAGA" \in Program.types
      BY <1>1, <1>2, <1>3, <1>4, <1>7 DEF SagaLife
    <2>2. Program.status \in {Keep, "COMPLETED"}
      BY <1>1, <1>3, <1>5, <1>7 DEF OrchTypeOK, Ends
    <2>3. /\ status'[s] = IF Program.status = Keep THEN "RUNNING" ELSE Program.status
          /\ currentStep'[s] = IF Program.current = Keep THEN currentStep[s] ELSE Program.current
      BY <1>1, <1>5, <1>7 DEF OrchTypeOK
    <2>4. ASSUME NEW t, Reached(t), consumer.ev.type # t PROVE ~Waits(t)
      BY <2>4 DEF Reached, Waits
    <2>5. /\ currentStep[s] \in OrderSteps
          /\ Position[currentStep[s]] > 2 => ~Waits("inventory.stock_reserved")
          /\ Position[currentStep[s]] > 3 => ~Waits("payment.completed")
          /\ Position[currentStep[s]] > 4 => ~Waits("inventory.stock_confirmed")
      BY DEF NothingBehind
    <2>6. Position[currentStep[s]] \in 1..5
      BY <2>5, Positions DEF OrderSteps
    <2>7. \A t : consumer.ev.type = t => Waits(t) /\ Arrived(t)
      BY <1>4 DEF Waits, Arrived
    <2>8. CASE Program.current = Keep /\ Program.status = Keep
      BY <2>3, <2>8
    <2>9. CASE /\ Program.current = "RESERVE_INVENTORY" /\ Program.status = Keep
               /\ consumer.ev.type = "order.created"
      <3>1. currentStep[s] = "RESERVE_INVENTORY"
        BY <1>4, <2>9 DEF OneOrderSaga, OneSaga
      <3> QED
        BY <2>3, <2>9, <3>1 DEF Keep
    <2>10. CASE /\ Program.current = "AWAIT_PAYMENT" /\ Program.status = Keep
                /\ consumer.ev.type = "inventory.stock_reserved"
      <3>1. currentStep'[s] = "AWAIT_PAYMENT" /\ status'[s] = "RUNNING"
        BY <2>3, <2>10 DEF Keep
      <3> QED
        BY <2>5, <2>6, <2>7, <2>10, <3>1, Positions DEF OrderSteps
    <2>11. CASE /\ Program.current = "CONFIRM_INVENTORY" /\ Program.status = Keep
                /\ consumer.ev.type = "payment.completed"
      <3>1. currentStep'[s] = "CONFIRM_INVENTORY" /\ status'[s] = "RUNNING"
        BY <2>3, <2>11 DEF Keep
      <3>2. ~Waits("inventory.stock_reserved")
        BY <2>4, <2>7, <2>11, Chain
      <3> QED
        BY <2>5, <2>6, <2>7, <2>11, <3>1, <3>2, Positions DEF OrderSteps
    <2>12. CASE /\ Program.current = "CREATE_SHIPPING" /\ Program.status = Keep
                /\ consumer.ev.type = "inventory.stock_confirmed"
      <3>1. currentStep'[s] = "CREATE_SHIPPING" /\ status'[s] = "RUNNING"
        BY <2>3, <2>12 DEF Keep
      <3>2. ~Waits("inventory.stock_reserved") /\ ~Waits("payment.completed")
        BY <2>4, <2>7, <2>12, Chain
      <3> QED
        BY <2>5, <2>6, <2>7, <2>12, <3>1, <3>2, Positions DEF OrderSteps
    <2>13. CASE /\ Program.current = "AWAIT_DELIVERY" /\ Program.status = Keep
                /\ consumer.ev.type = "shipping.label_created"
      <3>1. currentStep'[s] = "AWAIT_DELIVERY" /\ status'[s] = "RUNNING"
        BY <2>3, <2>13 DEF Keep
      <3>2. /\ ~Waits("inventory.stock_reserved") /\ ~Waits("payment.completed")
            /\ ~Waits("inventory.stock_confirmed")
        BY <2>4, <2>7, <2>13, Chain
      <3> QED
        BY <2>5, <2>6, <3>1, <3>2, Positions DEF OrderSteps
    <2>14. CASE Program.current = "COMPLETE_ORDER" /\ Program.status = "COMPLETED"
      BY <2>3, <2>14 DEF Keep
    <2> QED
      BY <1>3, <2>1, <2>2, <2>8, <2>9, <2>10, <2>11, <2>12, <2>13, <2>14 DEF Moves
  <1> QED
    BY <1>6, <1>7

\* What the orchestrator's other steps make of it: they leave it as it is, or
\* it runs no longer.
LEMMA StaysPut ==
    ASSUME IInv, SagaLife, OrchNext, ~WriteSaga,
           NEW s \in Sagas, status[s] = "RUNNING"
    PROVE  \/ status'[s] = status[s] /\ currentStep'[s] = currentStep[s]
           \/ status'[s] = "FAILED"
  <1> USE DEF sagaVars
  <1>1. OrchTypeOK
    BY DEF IInv, TypeOK
  <1>2. CASE InsertSaga
    BY <1>1, <1>2 DEF InsertSaga, OrchTypeOK, SagaLife
  <1>3. CASE DeadLetter
    BY <1>1, <1>3 DEF DeadLetter, OrchTypeOK
  <1>4. ASSUME NEW j \in Jobs, NEW r \in Sagas, BeginCompensation(j, r)
        PROVE  status'[s] = status[s] /\ currentStep'[s] = currentStep[s]
    <2>1. r # s
      BY <1>4 DEF BeginCompensation, SagaLife, CompIdle
    <2> QED
      BY <1>1, <1>4, <2>1 DEF BeginCompensation, OrchTypeOK
  <1>5. ASSUME NEW j \in Jobs, CloseSaga(j)
        PROVE  status'[s] = status[s] /\ currentStep'[s] = currentStep[s]
    <2>1. comp[j].saga # s
      BY <1>5 DEF CloseSaga, SagaLife, CompIdle
    <2> QED
      BY <1>1, <1>5, <2>1 DEF CloseSaga, OrchTypeOK
  <1>6. CASE /\ ~InsertSaga /\ ~DeadLetter
             /\ \A j \in Jobs : ~CloseSaga(j) /\ \A r \in Sagas : ~BeginCompensation(j, r)
    <2>1. UNCHANGED <<status, currentStep>>
      <3>1. CASE Handling
        BY <1>6, <3>1 DEF Handling, Lookup, WriteSteps, CallServices, PublishCommand, Retry
      <3>2. CASE CronStep
        BY <1>6, <3>2 DEF CronStep, RecoverStuckSaga, CompensationJob, CompensationThrows,
           FindFailedSagas, EmitRefund, EmitRelease, CancelOrder, EndCompensation
      <3> QED
        BY <1>6, <3>1, <3>2, OrchCases DEF Receive, Commit, Crash, Redeliver
    <2> QED
      BY <2>1
  <1> QED
    BY <1>2, <1>3, <1>4, <1>5, <1>6

\* No step makes a saga RUNNING but its insertion.
LEMMA RunsOn ==
    ASSUME OrchTypeOK, OrchNext, NEW s \in Sagas, sagaType[s] # "none", status'[s] = "RUNNING"
    PROVE  status[s] = "RUNNING"
  <1> USE DEF OrchTypeOK, sagaVars
  <1>1. CASE InsertSaga
    BY <1>1 DEF InsertSaga
  <1>2. CASE WriteSaga
    <2>1. Ends(Program)
      BY <1>2, HandlingKeeps DEF Handling
    <2> QED
      BY <1>2, <2>1 DEF WriteSaga, Ends
  <1>3. CASE DeadLetter
    BY <1>3 DEF DeadLetter
  <1>4. ASSUME NEW j \in Jobs, CompensationJob(j) \/ CompensationThrows(j)
        PROVE  status[s] = "RUNNING"
    BY <1>4 DEF CompensationJob, CompensationThrows, FindFailedSagas, BeginCompensation,
       EmitRefund, EmitRelease, CancelOrder, CloseSaga, EndCompensation
  <1>5. CASE ~InsertSaga /\ ~WriteSaga /\ ~DeadLetter /\ ~CronStep
    BY <1>5, OrchCases DEF Handling, Lookup, WriteSteps, CallServices, PublishCommand, Retry,
       Receive, Commit, Crash, Redeliver
  <1> QED
    BY <1>1, <1>2, <1>3, <1>4, <1>5 DEF CronStep, RecoverStuckSaga

\* While nothing is handled twice, nothing has been.
LEMMA Calm ==
    ASSUME IInv, HistoryInv, Next, Never({"crash", "redeliver"})'
    PROVE  /\ OneOrderSaga /\ StepsInOrder /\ NothingBehind
           /\ ~Crash /\ \A e \in events : ~Redeliver(e)
  <1>1. /\ "crash" \in Kinds /\ "redeliver" \in Kinds /\ faults \in [Kinds -> Nat] /\ TypeOK
        /\ faults'["crash"] = 0 /\ faults'["redeliver"] = 0
    BY DEF Kinds, IInv, TypeOK, OrchTypeOK, Never
  <1>2. Never({"crash", "redeliver"})
    BY <1>1, FaultsGrow DEF Never
  <1>3. ~Spend("crash") /\ ~Spend("redeliver")
    BY <1>1, Spending
  <1> QED
    BY <1>2, <1>3 DEF HistoryInv, Crash, Redeliver

\* The handlers' part: a saga that moves on has its event in hand.
LEMMA OrchNothingBehind ==
    ASSUME IInv, SagaLife, Origins, OneOrderSaga, StepsInOrder, NothingBehind, OrchNext,
           ~Crash, \A e \in events : ~Redeliver(e)
    PROVE  NothingBehind'
  <1>1. OrchTypeOK /\ ConsumerBound
    BY DEF IInv, TypeOK
  <1>2. inbox' \subseteq inbox
    BY <1>1, InHandStep DEF OneOrderSaga
  <1>3. \A t : ~Waits(t) => ~Waits(t)'
    BY <1>2 DEF Waits
  <1> DEFINE Ahead(x) == /\ x \in OrderSteps
                         /\ Position[x] > 2 => ~Waits("inventory.stock_reserved")
                         /\ Position[x] > 3 => ~Waits("payment.completed")
                         /\ Position[x] > 4 => ~Waits("inventory.stock_confirmed")
  <1>4. ASSUME NEW s \in OrderSagas', status'[s] = "RUNNING" PROVE Ahead(currentStep'[s])
    <2>0. s \in Sagas
      BY DEF OrderSagas
    <2>1. CASE sagaType[s] = "none"
      <3>1. status[s] = "none"
        BY <2>0, <2>1 DEF SagaLife
      <3>2. sagaType'[s] # sagaType[s]
        BY <2>1 DEF OrderSagas
      <3>3. InsertSaga
        BY <3>2, OrchCases, CronFrame DEF Receive, Handling, Lookup, WriteSteps, WriteSaga,
           CallServices, PublishCommand, Retry, Commit, DeadLetter, Crash, Redeliver, sagaVars
      <3>4. /\ sagaType'[s] = Program.starts /\ currentStep'[s] = Program.current
            /\ Handling
        BY <1>1, <2>0, <3>2, <3>3 DEF InsertSaga, OrchTypeOK, Handling
      <3>5. /\ Moves(consumer.ev.type, Program) /\ Ends(Program) /\ Program \in Programs
        BY <1>1, <3>4, HandlingKeeps
      <3>6. Program.starts = "ORDER_SAGA"
        BY <3>4 DEF OrderSagas
      <3>7. Program.current = "RESERVE_INVENTORY"
        BY <3>5, <3>6 DEF Moves, Ends, SagaTypes
      <3> QED
        BY <3>4, <3>7, Positions DEF OrderSteps
    <2>2. CASE sagaType[s] # "none"
      <3>1. s \in OrderSagas
        BY <1>1, <2>0, <2>2, OrchMemory DEF OrderSagas
      <3>2. CASE WriteSaga
        <4>1. status[s] = "RUNNING"
          <5>1. Handling /\ consumer.at = "saga"
            BY <3>2 DEF Handling, WriteSaga
          <5>2. Ends(Program)
            BY <1>1, <5>1, HandlingKeeps
          <5> QED
            BY <1>1, <1>4, <2>0, <3>2, <5>2 DEF WriteSaga, OrchTypeOK, Ends
        <4> QED
          BY <1>4, <3>1, <3>2, <4>1, MovesOn DEF NothingBehind
      <3>3. CASE ~WriteSaga
        <4>1. status[s] = "RUNNING"
          BY <1>1, <1>4, <2>0, <2>2, <3>3, RunsOn
        <4>2. currentStep'[s] = currentStep[s]
          BY <1>4, <2>0, <3>3, <4>1, StaysPut
        <4> QED
          BY <3>1, <4>1, <4>2 DEF NothingBehind
      <3> QED
        BY <3>2, <3>3
    <2> QED
      BY <2>1, <2>2
  <1> QED
    BY <1>3, <1>4 DEF NothingBehind

\* The part of the other services: a new event is of a later step.
LEMMA PartyNothingBehind ==
    ASSUME IInv, Origins, OneOrderSaga, StepsInOrder, NothingBehind, PartyStep
    PROVE  NothingBehind'
  <1>1. Publishes
    BY PartyMemory DEF IInv, Origins
  <1>2. UNCHANGED <<sagaType, status, currentStep>>
    BY PartyFrame
  <1>3. OrderSagas' = OrderSagas
    BY <1>2 DEF OrderSagas
  <1>4. \A t \in {"inventory.stock_reserved", "payment.completed", "inventory.stock_confirmed"} :
           Arrived(t) /\ ~Waits(t) => ~Waits(t)'
    BY <1>1, NotTwice DEF Publishes, Waits
  <1>5. ASSUME NEW s \in OrderSagas, status[s] = "RUNNING"
        PROVE  /\ currentStep[s] \in OrderSteps
               /\ Position[currentStep[s]] > 2 => ~Waits("inventory.stock_reserved")'
               /\ Position[currentStep[s]] > 3 => ~Waits("payment.completed")'
               /\ Position[currentStep[s]] > 4 => ~Waits("inventory.stock_confirmed")'
    <2>1. /\ currentStep[s] \in OrderSteps /\ s \in Sagas
          /\ Position[currentStep[s]] > 2 => ~Waits("inventory.stock_reserved")
          /\ Position[currentStep[s]] > 3 => ~Waits("payment.completed")
          /\ Position[currentStep[s]] > 4 => ~Waits("inventory.stock_confirmed")
      BY <1>5 DEF NothingBehind, OrderSagas
    <2>2. /\ currentStep[s] = "CONFIRM_INVENTORY" => Arrived("payment.completed")
          /\ currentStep[s] = "CREATE_SHIPPING" => Arrived("inventory.stock_confirmed")
          /\ currentStep[s] = "AWAIT_DELIVERY" => Arrived("shipping.label_created")
      BY <2>1 DEF StepsInOrder, Reached
    <2>3. /\ Position[currentStep[s]] > 2 => Arrived("inventory.stock_reserved")
          /\ Position[currentStep[s]] > 3 => Arrived("payment.completed")
          /\ Position[currentStep[s]] > 4 => Arrived("inventory.stock_confirmed")
      BY <2>1, <2>2, Chain, Positions DEF OrderSteps, Reached
    <2> QED
      BY <1>4, <2>1, <2>3
  <1> QED
    BY <1>2, <1>3, <1>5 DEF NothingBehind

\* The history holds in every behaviour.
LEMMA HistoryInit == Init => HistoryInv
  <1>1. Init => SagaLife /\ NothingFailed
    BY FailureInit
  <1> QED
    BY <1>1 DEF Init, OrchInit, HistoryInv, Origins, OneOrderSaga, OneSaga, StepsInOrder,
       NothingBehind, OrderSagas, Arrived, Waits, Reached, Idle

\* It holds after every step.
LEMMA HistoryNext ==
    ASSUME IInv, HistoryInv, [Next]_vars
    PROVE  HistoryInv'
  <1>1. CASE UNCHANGED vars
    BY <1>1 DEF vars, HistoryInv, SagaLife, NothingFailed, Origins, OneOrderSaga, OneSaga,
       StepsInOrder, NothingBehind, OrderSagas, Arrived, Waits, Reached, Never, Program
  <1>2. CASE Next
    <2>1. SagaLife' /\ NothingFailed'
      BY FailureNext DEF HistoryInv
    <2>2. Origins'
      BY <1>2, OrchOrigins, PartyOrigins DEF Next, Orchestrate, PartyStep, HistoryInv
    <2>3. ASSUME Never({"crash", "redeliver"})'
          PROVE  OneOrderSaga' /\ StepsInOrder' /\ NothingBehind'
      <3>1. /\ OneOrderSaga /\ StepsInOrder /\ NothingBehind
            /\ ~Crash /\ \A e \in events : ~Redeliver(e)
        BY <1>2, <2>3, Calm
      <3>2. CASE OrchNext
        BY <3>1, <3>2, OrchOneSaga, OrchStepsInOrder, OrchNothingBehind DEF HistoryInv
      <3>3. CASE PartyStep
        BY <3>1, <3>3, PartyOneSaga, PartyStepsInOrder, PartyNothingBehind DEF HistoryInv
      <3> QED
        BY <1>2, <3>2, <3>3 DEF Next, Orchestrate, PartyStep
    <2> QED
      BY <2>1, <2>2, <2>3 DEF HistoryInv, Never
  <1> QED
    BY <1>1, <1>2

\* In every behaviour the events of the steps come from their causes, and as long
\* as each is handled once they reach the saga in the order of its steps.
THEOREM History == Spec => []HistoryInv
  <1>1. IInv /\ HistoryInv /\ [Next]_vars => HistoryInv'
    BY HistoryNext
  <1> QED
    BY <1>1, HistoryInit, Invariance, PTL DEF Spec

\* A step moves a running order saga forward, or leaves it where it is.
LEMMA ForwardStep ==
    ASSUME IInv, HistoryInv, [Next]_vars, Never({"crash", "redeliver"})',
           NEW s \in Sagas, Forward(s)
    PROVE  Position[currentStep[s]] <= Position[currentStep'[s]]
  <1>1. /\ s \in OrderSagas /\ status[s] = "RUNNING" /\ status'[s] \in {"RUNNING", "COMPLETED"}
    BY DEF Forward, OrderSagas
  <1>2. ASSUME NothingBehind PROVE Position[currentStep[s]] \in 1..5
    <2>1. currentStep[s] \in OrderSteps
      BY <1>1, <1>2 DEF NothingBehind
    <2> QED
      BY <2>1, Positions DEF OrderSteps
  <1>3. CASE UNCHANGED vars
    <2>1. Never({"crash", "redeliver"})
      BY <1>3 DEF vars, Never
    <2>2. Position[currentStep[s]] \in 1..5
      BY <1>2, <2>1 DEF HistoryInv
    <2> QED
      BY <1>3, <2>2 DEF vars
  <1>4. CASE Next
    <2>1. /\ OneOrderSaga /\ StepsInOrder /\ NothingBehind
      BY <1>4, Calm
    <2>2. Position[currentStep[s]] \in 1..5
      BY <1>2, <2>1
    <2>3. CASE OrchNext /\ WriteSaga
      BY <1>1, <2>1, <2>2, <2>3, MovesOn, Positions DEF HistoryInv
    <2>4. CASE OrchNext /\ ~WriteSaga
      <3>1. currentStep'[s] = currentStep[s]
        BY <1>1, <2>4, StaysPut DEF HistoryInv
      <3> QED
        BY <2>2, <3>1
    <2>5. CASE PartyStep
      BY <2>2, <2>5, PartyFrame
    <2> QED
      BY <1>4, <2>3, <2>4, <2>5 DEF Next, Orchestrate, PartyStep
  <1> QED
    BY <1>3, <1>4

\* The handlers compare no step with the saga's, yet they move a running order
\* saga only forward as long as each event is handled once: each of the events
\* that move it on is published once, and only when the one before it is in the
\* consumer's hands (findRunningSaga and the route table).
THEOREM MovesOnlyForward == Spec => SagaNeverMovesBack
  <1>1. IInv /\ HistoryInv /\ [Next]_vars
        => (Never({"crash", "redeliver"})' =>
              \A s \in Sagas : Forward(s) =>
                 Position[currentStep[s]] <= Position[currentStep'[s]])
    BY ForwardStep
  <1> QED
    BY <1>1, Invariance, History, PTL DEF Spec, SagaNeverMovesBack

-----------------------------------------------------------------------------
(* Where refunds and releases come from, and what becomes of the payment.  *)

\* What a handler does about stock and payment, told by its topic.
Settles(t, p) ==
    /\ p.in = "COMPENSATING" <=> t = "inventory.stock_released"
    /\ p.status = "COMPENSATED"
          <=> t \in {"inventory.stock_insufficient", "inventory.stock_released"}
    /\ p.status = "COMPENSATING" <=> PaymentLost(t)
    /\ p.current = "RESERVE_INVENTORY" <=> t = "order.created"
    /\ "inventory.reserve_stock" \in p.emit <=> t = "order.created"
    /\ "inventory.release_stock" \in p.emit <=> PaymentLost(t)
    /\ p.qr <=> t = "inventory.stock_reserved"
    /\ t = "inventory.stock_reserved" => p.current = "AWAIT_PAYMENT"
    /\ t = "order.created" => p.starts = "ORDER_SAGA"
    /\ p.starts = "REFUND_SAGA" => t = "refund.requested"
    /\ t # "order.created" /\ p.starts # "REFUND_SAGA" => p.starts = "none"
    /\ t \in {"inventory.stock_reserved", "inventory.stock_insufficient",
              "inventory.stock_released"} \/ PaymentLost(t) => p.types = SagaTypes

\* Each handler of the route table does so.
LEMMA RouteSettles == ASSUME NEW t \in EventTypes PROVE Settles(t, Route(t))
  <1> DEFINE Apart(u) == u \notin {"order.created", "inventory.stock_reserved",
                                   "inventory.stock_insufficient", "inventory.stock_released",
                                   "payment.failed", "payment.timeout", "refund.requested"}
  <1> USE DEF Settles, NoEffect, SagaTypes, Keep, PaymentLost
  <1>0. Apart(t) => Settles(t, NoEffect) OBVIOUS
  <1>1. Settles("order.created", StartSaga) BY DEF StartSaga
  <1>2. Settles("inventory.stock_reserved", OnInventoryReserved) BY DEF OnInventoryReserved
  <1>3. Settles("inventory.stock_insufficient", OnInventoryInsufficient)
    BY DEF OnInventoryInsufficient
  <1>4. Apart(t) => Settles(t, OnPaymentCompleted) BY DEF OnPaymentCompleted
  <1>5. Settles("payment.timeout", OnPaymentTimeout) BY DEF OnPaymentTimeout
  <1>6. Settles("payment.failed", OnPaymentFailed) BY DEF OnPaymentFailed
  <1>7. Apart(t) => Settles(t, OnInventoryConfirmed) BY DEF OnInventoryConfirmed
  <1>8. Apart(t) => Settles(t, OnShippingLabelCreated) BY DEF OnShippingLabelCreated
  <1>9. Apart(t) => Settles(t, OnShippingInTransit) BY DEF OnShippingInTransit
  <1>10. Apart(t) => Settles(t, OnShippingDelivered) BY DEF OnShippingDelivered
  <1>11. Settles("inventory.stock_released", OnStockReleased) BY DEF OnStockReleased
  <1>12. Settles("refund.requested", OnRefundRequested) BY DEF OnRefundRequested
  <1>13. Apart(t) => Settles(t, OnRefundApproved) BY DEF OnRefundApproved
  <1>14. Apart(t) => Settles(t, OnRefundRejected) BY DEF OnRefundRejected
  <1>15. Apart(t) => Settles(t, OnPaymentRefunded) BY DEF OnPaymentRefunded
  <1> HIDE DEF Settles, NoEffect, SagaTypes, Keep, PaymentLost
  <1> QED
    BY <1>0, <1>1, <1>2, <1>3, <1>4, <1>5, <1>6, <1>7, <1>8, <1>9, <1>10, <1>11,
       <1>12, <1>13, <1>14, <1>15 DEF Route, EventTypes

\* The event in hand has been published, and its handler does so.
LEMMA InHand ==
    ASSUME IInv, Handling
    PROVE  /\ consumer # Idle /\ consumer \in Working /\ consumer.at \in Stages
           /\ consumer.ev \in events /\ consumer.ev \in Events
           /\ Program \in Programs /\ Ends(Program) /\ Settles(consumer.ev.type, Program)
           /\ consumer' # Idle /\ consumer'.ev = consumer.ev /\ Program' = Program
           /\ UNCHANGED <<inbox, events>>
  <1>1. OrchTypeOK /\ ConsumerBound
    BY DEF IInv, TypeOK
  <1>2. /\ consumer # Idle /\ consumer \in Working /\ Program \in Programs /\ Ends(Program)
        /\ consumer' # Idle /\ consumer'.ev = consumer.ev /\ Program' = Program
        /\ UNCHANGED <<inbox, events>>
    BY <1>1, HandlingKeeps
  <1>3. consumer.ev \in events /\ consumer.ev \in Events /\ consumer.at \in Stages
    BY <1>1, <1>2 DEF ConsumerBound, Working
  <1>4. Settles(consumer.ev.type, Program)
    BY <1>3, RouteSettles DEF Events, Program
  <1> QED
    BY <1>2, <1>3, <1>4

\* What inventory-service does with a command.
StockStep(c) == \/ ReserveStock(c) \/ RefuseStock(c) \/ ReserveAgain(c)
                \/ ConfirmStock(c) \/ ReleaseStock(c)
                \/ \E d \in cmdbox : SettleBoth(c, d)
StockTopics == {"inventory.stock_reserved", "inventory.stock_insufficient",
                "inventory.stock_confirmed", "inventory.stock_released"}

\* The other services leave the stock alone, and its commands unless they drop
\* one.
LEMMA ApartFromStock ==
    ASSUME TypeOK, PartyStep, ~ \E c \in cmdbox : StockStep(c)
    PROVE  /\ UNCHANGED reservation
           /\ cmdbox' \subseteq cmdbox
           /\ \A c \in cmdbox : \/ c \in cmdbox' \/ Spend("drop")
                                \/ c.type # "inventory.release_stock"
           /\ inbox \subseteq inbox'
           /\ \A e \in events' : e.type \in StockTopics => e \in events
           /\ \A e \in inbox' : e.type \in StockTopics => e \in inbox
  <1> USE DEF orchestratorOnly, sagaVars, partyVars, inventoryVars, paymentVars,
              shippingVars, refundVars, remoteVars, PaymentFrame, ShippingFrame, RefundFrame,
              NoEvent, Take, PublishEvents, Event, StockTopics
  <1>1. CASE CreateOrder \/ \E t \in StatusUpdates : OrderConsumes(t)
    BY <1>1 DEF CreateOrder, OrderConsumes
  <1>2. ASSUME NEW c \in cmdbox, HandleCommand(c) \/ DropCommand(c)
        PROVE  /\ UNCHANGED reservation
               /\ cmdbox' = cmdbox \ {c}
               /\ c.type # "inventory.release_stock" \/ Spend("drop")
               /\ inbox \subseteq inbox'
               /\ \A e \in events' : e.type \in StockTopics => e \in events
               /\ \A e \in inbox' : e.type \in StockTopics => e \in inbox
    <2>1. ProcessRefund(c) \/ CreateLabel(c) \/ UpdateRefundStatus(c) \/ DropCommand(c)
      BY <1>2 DEF HandleCommand, StockStep
    <2> QED
      BY <2>1 DEF ProcessRefund, CreateLabel, UpdateRefundStatus, DropCommand
  <1>3. CASE \/ \E o \in {"paid", "failed"} : CustomerPays(o)
             \/ ProcessIpn \/ DropIpn \/ ListExpired \/ ExpireIntent
    BY <1>3 DEF CustomerPays, ProcessIpn, DropIpn, ListExpired, ExpireIntent
  <1>4. CASE SimulateDelivery \/ ShippingCrash
    BY <1>4 DEF SimulateDelivery, Advance, ShippingCrash
  <1>5. CASE CreateRefund \/ \E a \in BOOLEAN : ValidateAndEmit(a)
    BY <1>5 DEF CreateRefund, ValidateAndEmit
  <1> QED
    BY <1>1, <1>2, <1>3, <1>4, <1>5 DEF PartyStep, StockStep

\* Of the causes of a refund saga only the customer's request is new.
LEMMA RefundRequests ==
    ASSUME PartyStep, NEW e \in events', e.type = "refund.requested"
    PROVE  e \in events \/ orderStatus = "DELIVERED"
  <1> USE DEF orchestratorOnly, sagaVars, partyVars, inventoryVars, paymentVars,
              shippingVars, refundVars, remoteVars, PaymentFrame, InventoryFrame, ShippingFrame,
              RefundFrame, NoEvent, PublishEvents, Event
  <1>1. CASE CreateOrder \/ \E t \in StatusUpdates : OrderConsumes(t)
    BY <1>1 DEF CreateOrder, OrderConsumes
  <1>2. CASE \E c \in cmdbox : HandleCommand(c) \/ DropCommand(c)
    BY <1>2 DEF HandleCommand, DropCommand, ReserveStock, RefuseStock, ReserveAgain,
                ConfirmStock, ReleaseStock, Settle, ProcessRefund, CreateLabel,
                UpdateRefundStatus
  <1>3. CASE \/ \E o \in {"paid", "failed"} : CustomerPays(o)
             \/ ProcessIpn \/ DropIpn \/ ListExpired \/ ExpireIntent
    BY <1>3 DEF CustomerPays, ProcessIpn, DropIpn, ListExpired, ExpireIntent
  <1>4. CASE SimulateDelivery \/ ShippingCrash
    BY <1>4 DEF SimulateDelivery, Advance, ShippingCrash
  <1>5. CASE CreateRefund \/ \E a \in BOOLEAN : ValidateAndEmit(a)
    BY <1>5 DEF CreateRefund, ValidateAndEmit
  <1>6. CASE \E c, d \in cmdbox : SettleBoth(c, d)
    BY <1>6 DEF SettleBoth
  <1> QED
    BY <1>1, <1>2, <1>3, <1>4, <1>5, <1>6 DEF PartyStep

\* Stock that was released was released on command, and what was settled stays so.
LEMMA ReleasedStays ==
    ASSUME TypeOK, PartyStep
    PROVE  /\ \A s \in Sagas :
                 /\ reservation[s] \in Settled => reservation'[s] = reservation[s]
                 /\ reservation'[s] = "RELEASED" =>
                       \/ reservation[s] = "RELEASED"
                       \/ \E c \in commands : Release(c, s)
           /\ \A e \in events' : e.type = "inventory.stock_released" =>
                 \/ e \in events
                 \/ e.saga \in Sagas /\ reservation[e.saga] = "HELD"
                                     /\ reservation'[e.saga] \in Settled
  <1>1. /\ reservation \in [Sagas -> ReservationStatus]
        /\ \A c \in cmdbox : c \in commands /\ c.saga \in Sagas
    BY DEF TypeOK, OrchTypeOK, Commands
  <1>2. ASSUME NEW c \in cmdbox, StockStep(c)
        PROVE  /\ \A s \in Sagas :
                     /\ reservation[s] \in Settled => reservation'[s] = reservation[s]
                     /\ reservation'[s] = "RELEASED" =>
                           \/ reservation[s] = "RELEASED"
                           \/ \E d \in commands : Release(d, s)
               /\ \A e \in events' : e.type = "inventory.stock_released" =>
                     \/ e \in events
                     \/ e.saga \in Sagas /\ reservation[e.saga] = "HELD"
                                         /\ reservation'[e.saga] \in Settled
    <2> USE DEF NoEvent, PublishEvents, Event, ReservationStatus, Settled
    <2>1. CASE ReserveStock(c)
      BY <1>1, <2>1 DEF ReserveStock
    <2>2. CASE RefuseStock(c)
      BY <1>1, <2>2 DEF RefuseStock
    <2>3. CASE ReserveAgain(c)
      BY <1>1, <2>3 DEF ReserveAgain, inventoryVars
    <2>4. CASE ConfirmStock(c)
      BY <1>1, <2>4 DEF ConfirmStock, Settle
    <2>5. CASE ReleaseStock(c)
      BY <1>1, <2>5 DEF ReleaseStock, Settle, Release
    <2>6. ASSUME NEW d \in cmdbox, SettleBoth(c, d)
          PROVE  /\ \A s \in Sagas :
                       /\ reservation[s] \in Settled => reservation'[s] = reservation[s]
                       /\ s # c.saga => reservation'[s] = reservation[s]
                 /\ Release(d, c.saga) /\ d \in commands /\ c.saga \in Sagas
                 /\ reservation[c.saga] = "HELD" /\ reservation'[c.saga] \in Settled
                 /\ \A e \in events' : e.type = "inventory.stock_released" =>
                       e \in events \/ e.saga = c.saga
      BY <1>1, <2>6 DEF SettleBoth, Release
    <2> QED
      BY <1>2, <2>1, <2>2, <2>3, <2>4, <2>5, <2>6 DEF StockStep
  <1>3. CASE \E c \in cmdbox : StockStep(c)
    BY <1>1, <1>2, <1>3 DEF Release
  <1>4. CASE ~ \E c \in cmdbox : StockStep(c)
    BY <1>1, <1>4, ApartFromStock DEF StockTopics
  <1> QED
    BY <1>3, <1>4

\* The other services keep to where refunds and releases come from.
LEMMA PartyPaymentOrigins ==
    ASSUME IInv, Origins, PaymentOrigins, PartyStep
    PROVE  PaymentOrigins'
  <1>1. TypeOK /\ RefundJustified
    BY DEF IInv
  <1>2. /\ UNCHANGED <<sagaType, commands>> /\ events \subseteq events'
        /\ Paid => Paid'
        /\ OrderSagas' = OrderSagas
    BY <1>1, PartyFrame, CausesLast DEF OrderSagas
  <1>3. /\ Arrived("refund.requested")' => Paid'
        /\ \A s \in Sagas : sagaType'[s] = "REFUND_SAGA" => Paid'
    BY <1>1, <1>2, RefundRequests DEF PaymentOrigins, Arrived, RefundJustified
  <1>4. intent' # "none" => Arrived("inventory.stock_reserved")'
    BY <1>1, <1>2, PartyMemory DEF PaymentOrigins, Arrived, Origins, Remembers
  <1>5. \A s \in Sagas : reservation'[s] = "RELEASED" => \E c \in commands' : Release(c, s)
    BY <1>1, <1>2, ReleasedStays DEF PaymentOrigins
  <1>6. ASSUME NEW e \in events', e.type = "inventory.stock_released"
        PROVE  e.saga \in OrderSagas' /\ reservation'[e.saga] \in Settled
    <2>1. CASE e \in events
      BY <1>1, <1>2, <1>6, <2>1, ReleasedStays DEF PaymentOrigins, OrderSagas
    <2>2. CASE e \notin events
      <3>1. e.saga \in Sagas /\ reservation[e.saga] = "HELD" /\ reservation'[e.saga] \in Settled
        BY <1>1, <1>6, <2>2, ReleasedStays
      <3>2. e.saga \in OrderSagas
        BY <3>1 DEF Origins
      <3> QED
        BY <1>2, <3>1, <3>2
    <2> QED
      BY <2>1, <2>2
  <1> QED
    BY <1>3, <1>4, <1>5, <1>6 DEF PaymentOrigins

\* And so do the handlers.
LEMMA OrchPaymentOrigins ==
    ASSUME IInv, PaymentOrigins, OrchNext, UNCHANGED partyVars
    PROVE  PaymentOrigins'
  <1> USE DEF sagaVars, remoteVars
  <1>1. OrchTypeOK /\ ConsumerBound
    BY DEF IInv, TypeOK
  <1>2. /\ UNCHANGED <<reservation, events, vnpay, webhook>> /\ OrderSagas \subseteq OrderSagas'
    BY <1>1, OrchMemory DEF partyVars, OrderSagas
  <1>3. Arrived("refund.requested") => Paid
    BY DEF PaymentOrigins
  <1>4. ASSUME NEW s \in Sagas, sagaType'[s] = "REFUND_SAGA" PROVE Paid
    <2>1. CASE InsertSaga
      <3>1. Handling /\ consumer.at = "insert"
        BY <2>1 DEF Handling, InsertSaga
      <3>2. consumer.ev \in events /\ Settles(consumer.ev.type, Program)
        BY <3>1, InHand
      <3>3. sagaType[s] = "REFUND_SAGA" \/ Program.starts = "REFUND_SAGA"
        BY <1>1, <1>4, <2>1 DEF InsertSaga, OrchTypeOK
      <3> QED
        BY <1>3, <3>2, <3>3 DEF PaymentOrigins, Settles, Arrived
    <2>2. CASE ~InsertSaga
      <3>1. UNCHANGED sagaType
        BY <2>2, OrchCases, CronFrame DEF Receive, Handling, Lookup, WriteSteps, WriteSaga,
           CallServices, PublishCommand, Retry, Commit, DeadLetter, Crash, Redeliver
      <3> QED
        BY <1>4, <3>1 DEF PaymentOrigins
    <2> QED
      BY <2>1, <2>2
  <1>5. intent' # "none" => Arrived("inventory.stock_reserved")
    <2>1. ASSUME CallServices, Program.qr PROVE Arrived("inventory.stock_reserved")
      <3>1. Handling
        BY <2>1 DEF Handling
      <3> QED
        BY <2>1, <3>1, InHand DEF Settles, Arrived
    <2> QED
      BY <1>1, <2>1, OrchMemory DEF PaymentOrigins
  <1>6. commands \subseteq commands'
    BY OrchCases DEF Receive, Handling, Lookup, InsertSaga, WriteSteps, WriteSaga,
       CallServices, PublishCommand, Retry, Commit, DeadLetter, Crash, Redeliver, CronStep,
       RecoverStuckSaga, CompensationJob, CompensationThrows, FindFailedSagas,
       BeginCompensation, EmitRefund, EmitRelease, CancelOrder, CloseSaga, EndCompensation,
       PublishCommands
  <1> QED
    BY <1>2, <1>3, <1>4, <1>5, <1>6 DEF PaymentOrigins, Arrived, Paid

\* What happens to the payment of an order.
PaymentStep == \/ \E o \in {"paid", "failed"} : CustomerPays(o)
               \/ ProcessIpn \/ DropIpn \/ ListExpired \/ ExpireIntent
               \/ \E c \in cmdbox : ProcessRefund(c)

\* The other services leave the payment alone.
LEMMA ApartFromPayment ==
    ASSUME PartyStep, ~PaymentStep
    PROVE  /\ UNCHANGED <<vnpay, webhook, expiring, intent>>
           /\ \A e \in events' : PaymentLost(e.type) => e \in events
  <1> USE DEF orchestratorOnly, sagaVars, partyVars, inventoryVars, paymentVars,
              shippingVars, refundVars, remoteVars, InventoryFrame, ShippingFrame,
              RefundFrame, NoEvent, PublishEvents, Event, PaymentLost
  <1>1. CASE CreateOrder \/ \E t \in StatusUpdates : OrderConsumes(t)
    BY <1>1 DEF CreateOrder, OrderConsumes
  <1>2. CASE \E c \in cmdbox : HandleCommand(c) \/ DropCommand(c)
    <2>1. PICK c \in cmdbox : HandleCommand(c) \/ DropCommand(c)
      BY <1>2
    <2>2. ~ProcessRefund(c)
      BY DEF PaymentStep
    <2> QED
      BY <2>1, <2>2 DEF HandleCommand, DropCommand, ReserveStock, RefuseStock, ReserveAgain,
                ConfirmStock, ReleaseStock, Settle, CreateLabel, UpdateRefundStatus
  <1>3. CASE SimulateDelivery \/ ShippingCrash
    BY <1>3 DEF SimulateDelivery, Advance, ShippingCrash
  <1>4. CASE CreateRefund \/ \E a \in BOOLEAN : ValidateAndEmit(a)
    BY <1>4 DEF CreateRefund, ValidateAndEmit
  <1>5. CASE \E c, d \in cmdbox : SettleBoth(c, d)
    BY <1>5 DEF SettleBoth
  <1> QED
    BY <1>1, <1>2, <1>3, <1>4, <1>5 DEF PartyStep, PaymentStep

\* Of paying, being refused and timing out only one happens, unless the customer
\* pays late or the notification is dropped.
LEMMA PartyOneOutcome ==
    ASSUME IInv, Origins, OneOutcome, PartyStep, Never({"late", "drop"})'
    PROVE  OneOutcome'
  <1>1. /\ TypeOK /\ CommandsJustified
        /\ faults \in [Kinds -> Nat] /\ vnpay \in {"none", "paid", "failed", "lost"}
        /\ webhook \in BOOLEAN /\ expiring \in BOOLEAN
        /\ "late" \in Kinds /\ "drop" \in Kinds
        /\ \A c \in cmdbox : c \in commands
    BY DEF IInv, TypeOK, OrchTypeOK, Kinds
  <1>2. ~Spend("late") /\ ~Spend("drop")
    BY <1>1, Spending DEF Never
  <1> USE <1>1, <1>2 DEF OneOutcome, Arrived, NoEvent, PublishEvents, Event
  <1>3. CASE ~PaymentStep
    BY <1>3, ApartFromPayment DEF PaymentLost
  <1>4. ASSUME NEW o \in {"paid", "failed"}, CustomerPays(o) PROVE OneOutcome'
    BY <1>4 DEF CustomerPays
  <1>5. CASE ProcessIpn
    BY <1>5 DEF ProcessIpn
  <1>6. CASE DropIpn
    BY <1>6 DEF DropIpn
  <1>7. CASE ListExpired
    BY <1>7 DEF ListExpired
  <1>8. CASE ExpireIntent
    BY <1>8 DEF ExpireIntent
  <1>9. ASSUME NEW c \in cmdbox, ProcessRefund(c) PROVE OneOutcome'
    <2>1. vnpay = "paid"
      BY <1>9 DEF ProcessRefund, CommandsJustified, Paid
    <2> QED
      BY <1>9, <2>1 DEF ProcessRefund, paymentVars
  <1> QED
    BY <1>3, <1>4, <1>5, <1>6, <1>7, <1>8, <1>9 DEF PaymentStep

\* The orchestrator sets up the intent and leaves the rest to payment-service.
LEMMA OrchOneOutcome ==
    ASSUME IInv, Origins, OneOutcome, OrchNext, UNCHANGED partyVars
    PROVE  OneOutcome'
  <1>1. UNCHANGED <<events, vnpay, expiring>>
    BY OrchMemory DEF IInv, TypeOK, partyVars
  <1>2. intent # "none" => UNCHANGED intent
    <2>1. CASE CallServices
      BY <2>1 DEF CallServices, CreateQR, remoteVars
    <2>2. CASE ~CallServices
      BY <2>2, OrchCases DEF Receive, Handling, Lookup, InsertSaga, WriteSteps, WriteSaga,
         PublishCommand, Retry, Commit, DeadLetter, Crash, Redeliver, CronStep,
         RecoverStuckSaga, CompensationJob, CompensationThrows, FindFailedSagas,
         BeginCompensation, EmitRefund, EmitRelease, CancelOrder, CloseSaga,
         EndCompensation, remoteVars
    <2> QED
      BY <2>1, <2>2
  <1>3. Arrived("payment.timeout") => intent = "EXPIRED"
    BY DEF OneOutcome
  <1>4. vnpay # "none" \/ expiring => intent # "none"
    BY DEF Origins
  <1> QED
    BY <1>1, <1>2, <1>3, <1>4 DEF OneOutcome, Arrived

\* Once the payment is lost nothing is paid, and stock has been reserved.
LEMMA LostIsUnpaid ==
    ASSUME Origins, PaymentOrigins, OneOutcome, PaymentIsLost
    PROVE  /\ ~Paid /\ Arrived("inventory.stock_reserved")
           /\ \A s \in Sagas : sagaType[s] # "REFUND_SAGA"
  <1>1. Arrived("payment.failed") \/ Arrived("payment.timeout")
    BY DEF PaymentIsLost, PaymentLost, Arrived
  <1>2. ~Paid /\ intent # "none"
    BY <1>1 DEF OneOutcome, Origins, Paid
  <1> QED
    BY <1>2 DEF PaymentOrigins

-----------------------------------------------------------------------------
(* Why a cancelled order holds no stock.                                   *)

\* inventory-service answers the one command that asks for the stock.
LEMMA StockReserveOnce ==
    ASSUME IInv, ReserveOnce, CancelledIsSettled, PartyStep,
           NEW c \in cmdbox, StockStep(c)
    PROVE  ReserveOnce' /\ CancelledIsSettled'
  <1>1. /\ reservation \in [Sagas -> ReservationStatus]
        /\ \A d \in cmdbox : d \in commands /\ d.saga \in Sagas
        /\ inbox \subseteq events
    BY DEF IInv, TypeOK, OrchTypeOK, Commands
  <1>2. /\ UNCHANGED <<sagaType, status, currentStep, consumer, commands>>
        /\ OrderSagas' = OrderSagas
    BY PartyFrame DEF OrderSagas
  <1>3. \A s \in Sagas : Reserving(s)' <=> Reserving(s)
    BY <1>2 DEF Reserving
  <1>4. /\ UNCHANGED intent /\ events \subseteq events' /\ inbox \subseteq inbox'
        /\ cmdbox' \subseteq cmdbox \ {c}
    BY DEF StockStep, ReserveStock, RefuseStock, ReserveAgain, ConfirmStock, ReleaseStock,
           Settle, SettleBoth, InventoryFrame, remoteVars, Take, PublishEvents, NoEvent
  <1>5. /\ \A d, e \in cmdbox' : ReserveIsPending(d)' /\ ReserveIsPending(e)' => d = e
        /\ consumer' # Idle /\ consumer'.ev.type = "order.created"
             /\ consumer'.at \in {"steps", "saga", "http", "publish"}
           => \A d \in commands' : d.type # "inventory.reserve_stock"
        /\ consumer' # Idle
             /\ consumer'.ev.type \in {"inventory.stock_reserved", "inventory.stock_insufficient"}
             /\ consumer'.at \in {"http", "publish", "done"}
           => \A s \in OrderSagas' : ~Reserving(s)'
    BY <1>2, <1>3, <1>4 DEF ReserveOnce, ReserveIsPending, OrderSagas
  <1> DEFINE Answered ==
        /\ (\E d \in cmdbox' : ReserveIsPending(d)') =>
              /\ ~Arrived("inventory.stock_insufficient")'
              /\ \A s \in Sagas : reservation'[s] = "none"
        /\ \A s \in Sagas : reservation'[s] # "none" => Arrived("inventory.stock_reserved")'
        /\ Arrived("inventory.stock_reserved")' \/ Arrived("inventory.stock_insufficient")'
              => \E d \in commands : d.type = "inventory.reserve_stock"
        /\ Arrived("inventory.stock_reserved")' =>
              Arrived("inventory.stock_reserved") \/ Waits("inventory.stock_reserved")'
        /\ Arrived("inventory.stock_insufficient")' =>
              Arrived("inventory.stock_insufficient") \/ Waits("inventory.stock_insufficient")'
        /\ Arrived("inventory.stock_insufficient")' =>
              \A s \in Sagas : reservation'[s] = "none"
        /\ \A s \in OrderSagas : status[s] = "COMPENSATED" =>
              Arrived("inventory.stock_insufficient")' \/ reservation'[s] \in Settled
  <1>6. ASSUME Answered PROVE ReserveOnce' /\ CancelledIsSettled'
    <2>1. \A s \in OrderSagas' : Reserving(s)' =>
             /\ intent' = "none"
             /\ Arrived("inventory.stock_reserved")' => Waits("inventory.stock_reserved")'
             /\ Arrived("inventory.stock_insufficient")' => Waits("inventory.stock_insufficient")'
      BY <1>2, <1>3, <1>4, <1>6 DEF ReserveOnce, Waits, OrderSagas
    <2> QED
      BY <1>2, <1>5, <1>6, <2>1 DEF ReserveOnce, CancelledIsSettled
  <1>7. CASE c.type = "inventory.reserve_stock"
    <2>1. /\ \A s \in Sagas : reservation[s] = "none"
          /\ ~Arrived("inventory.stock_insufficient")
          /\ ~ \E d \in cmdbox' : ReserveIsPending(d)'
      BY <1>4, <1>7 DEF ReserveOnce, ReserveIsPending
    <2>2. \A s \in OrderSagas : status[s] # "COMPENSATED"
      BY <2>1 DEF CancelledIsSettled, Settled, OrderSagas
    <2>3. c \in commands
      BY <1>1
    <2>4. CASE ReserveStock(c)
      <3>1. /\ Event("inventory.stock_reserved", c.saga) \in inbox'
            /\ events' = events \union {Event("inventory.stock_reserved", c.saga)}
        BY <2>4 DEF ReserveStock, PublishEvents
      <3>2. /\ Arrived("inventory.stock_reserved")' /\ Waits("inventory.stock_reserved")'
            /\ ~Arrived("inventory.stock_insufficient")'
        BY <1>1, <2>1, <3>1 DEF Arrived, Waits, Event
      <3>3. Answered
        BY <1>7, <2>1, <2>2, <2>3, <3>2
      <3> QED
        BY <1>6, <3>3
    <2>5. CASE RefuseStock(c) \/ ReserveAgain(c)
      <3>1. UNCHANGED reservation
        BY <2>5 DEF RefuseStock, ReserveAgain, inventoryVars
      <3>2. \/ UNCHANGED <<events, inbox>>
            \/ /\ Event("inventory.stock_insufficient", c.saga) \in inbox'
               /\ events' = events \union {Event("inventory.stock_insufficient", c.saga)}
        BY <2>5 DEF RefuseStock, ReserveAgain, NoEvent, PublishEvents
      <3>3. /\ Arrived("inventory.stock_reserved")' => Arrived("inventory.stock_reserved")
            /\ Arrived("inventory.stock_insufficient")' => Waits("inventory.stock_insufficient")'
        BY <2>1, <3>2 DEF Arrived, Waits, Event
      <3>4. Answered
        BY <1>7, <2>1, <2>2, <2>3, <3>1, <3>3
      <3> QED
        BY <1>6, <3>4
    <2>6. ~ConfirmStock(c) /\ ~ReleaseStock(c) /\ \A d \in cmdbox : ~SettleBoth(c, d)
      BY <1>7 DEF ConfirmStock, ReleaseStock, Settle, SettleBoth
    <2> QED
      BY <2>4, <2>5, <2>6 DEF StockStep
  <1>8. CASE c.type # "inventory.reserve_stock"
    <2>1. ConfirmStock(c) \/ ReleaseStock(c) \/ \E d \in cmdbox : SettleBoth(c, d)
      BY <1>8 DEF StockStep, ReserveStock, RefuseStock, ReserveAgain
    <2>2. PICK new \in Settled :
             IF reservation[c.saga] = "HELD"
             THEN reservation' = [reservation EXCEPT ![c.saga] = new]
             ELSE UNCHANGED reservation
      BY <2>1 DEF ConfirmStock, ReleaseStock, Settle, SettleBoth, Settled
    <2>3. \A d \in cmdbox' : ReserveIsPending(d)' => d \in cmdbox /\ ReserveIsPending(d)
      BY <1>4 DEF ReserveIsPending
    <2>4. \A t \in {"inventory.stock_reserved", "inventory.stock_insufficient"} :
             Arrived(t)' <=> Arrived(t)
      BY <2>1 DEF ConfirmStock, ReleaseStock, Settle, SettleBoth, NoEvent, PublishEvents,
                  Event, Arrived
    <2>5. CASE reservation[c.saga] = "HELD"
      <3>1. ~Arrived("inventory.stock_insufficient")
        BY <1>1, <2>5 DEF CancelledIsSettled
      <3>2. ~ \E d \in cmdbox' : ReserveIsPending(d)'
        BY <1>1, <2>3, <2>5 DEF ReserveOnce
      <3>3. Arrived("inventory.stock_reserved")
        BY <1>1, <2>5 DEF ReserveOnce
      <3>4. \A s \in OrderSagas : status[s] = "COMPENSATED" => reservation[s] \in Settled
        BY <3>1 DEF CancelledIsSettled
      <3>5. reservation' = [reservation EXCEPT ![c.saga] = new]
        BY <2>2, <2>5
      <3>6. \A s \in OrderSagas : status[s] = "COMPENSATED" => reservation'[s] \in Settled
        BY <1>1, <2>2, <3>4, <3>5 DEF OrderSagas
      <3>7. Arrived("inventory.stock_reserved") => \E d \in commands : d.type = "inventory.reserve_stock"
        BY DEF ReserveOnce
      <3>8. Answered
        BY <2>4, <3>1, <3>2, <3>3, <3>6, <3>7
      <3> QED
        BY <1>6, <3>8
    <2>6. CASE reservation[c.saga] # "HELD"
      <3>1. UNCHANGED reservation
        BY <2>2, <2>6
      <3>2. Answered
        BY <1>4, <2>3, <2>4, <3>1 DEF ReserveOnce, CancelledIsSettled
      <3> QED
        BY <1>6, <3>2
    <2> QED
      BY <2>5, <2>6
  <1> QED
    BY <1>7, <1>8

\* The other services take no part in it.
LEMMA PartyReserveOnce ==
    ASSUME IInv, Origins, ReserveOnce, CancelledIsSettled, PartyStep
    PROVE  ReserveOnce' /\ CancelledIsSettled'
  <1>1. CASE \E c \in cmdbox : StockStep(c)
    BY <1>1, StockReserveOnce
  <1>2. CASE ~ \E c \in cmdbox : StockStep(c)
    <2>1. TypeOK
      BY DEF IInv
    <2>2. /\ UNCHANGED <<sagaType, status, currentStep, consumer, commands, reservation>>
          /\ events \subseteq events' /\ OrderSagas' = OrderSagas
      BY <1>2, <2>1, PartyFrame, ApartFromStock DEF OrderSagas
    <2>3. \A s \in Sagas : Reserving(s)' <=> Reserving(s)
      BY <2>2 DEF Reserving
    <2>4. intent' = "none" <=> intent = "none"
      BY <2>1, PartyMemory DEF Origins, Remembers
    <2>5. \A t \in {"inventory.stock_reserved", "inventory.stock_insufficient"} :
             /\ Arrived(t)' <=> Arrived(t)
             /\ Waits(t) => Waits(t)'
      BY <1>2, <2>1, <2>2, ApartFromStock DEF Arrived, Waits, StockTopics
    <2>6. \A d : ReserveIsPending(d)' => ReserveIsPending(d)
      BY <1>2, <2>1, ApartFromStock DEF ReserveIsPending
    <2>7. cmdbox' \subseteq cmdbox
      BY <1>2, <2>1, ApartFromStock
    <2>8. CancelledIsSettled'
      BY <2>2, <2>5 DEF CancelledIsSettled
    <2>9. \A s \in OrderSagas' : Reserving(s)' =>
             /\ intent' = "none"
             /\ Arrived("inventory.stock_reserved")' => Waits("inventory.stock_reserved")'
             /\ Arrived("inventory.stock_insufficient")' => Waits("inventory.stock_insufficient")'
      BY <2>2, <2>3, <2>4, <2>5 DEF ReserveOnce, OrderSagas
    <2>10. (\E d \in cmdbox' : ReserveIsPending(d)') =>
              /\ ~Arrived("inventory.stock_insufficient")'
              /\ \A s \in Sagas : reservation'[s] = "none"
      BY <2>2, <2>5, <2>6, <2>7 DEF ReserveOnce
    <2>11. \A d, e \in cmdbox' : ReserveIsPending(d)' /\ ReserveIsPending(e)' => d = e
      BY <2>6, <2>7 DEF ReserveOnce
    <2>12. /\ consumer' # Idle /\ consumer'.ev.type = "order.created"
                /\ consumer'.at \in {"steps", "saga", "http", "publish"}
              => \A d \in commands' : d.type # "inventory.reserve_stock"
           /\ consumer' # Idle
                /\ consumer'.ev.type \in {"inventory.stock_reserved",
                                          "inventory.stock_insufficient"}
                /\ consumer'.at \in {"http", "publish", "done"}
              => \A s \in OrderSagas' : ~Reserving(s)'
      BY <2>2, <2>3 DEF ReserveOnce, OrderSagas
    <2>13. /\ \A s \in Sagas : reservation'[s] # "none" => Arrived("inventory.stock_reserved")'
           /\ Arrived("inventory.stock_reserved")' \/ Arrived("inventory.stock_insufficient")'
                 => \E c \in commands' : c.type = "inventory.reserve_stock"
      BY <2>2, <2>5 DEF ReserveOnce
    <2> QED
      BY <2>8, <2>9, <2>10, <2>11, <2>12, <2>13 DEF ReserveOnce
  <1> QED
    BY <1>1, <1>2

\* No saga row vanishes or changes its type, so one order saga now was one before.
LEMMA OneBefore ==
    ASSUME OrchTypeOK, OrchNext, OneSaga'
    PROVE  OneSaga /\ OrderSagas \subseteq OrderSagas'
  <1>1. OrderSagas \subseteq OrderSagas'
    BY OrchMemory DEF OrderSagas
  <1> QED
    BY <1>1 DEF OneSaga

\* As long as the stock is being reserved there is no refund saga: the handler
\* of an answer that finds a running saga finds the order's.
LEMMA AnswerFinds ==
    ASSUME IInv, Origins, PaymentOrigins, OneSaga,
           consumer # Idle, consumer.saga \in Sagas,
           sagaType[consumer.saga] \in SagaTypes,
           NEW s \in OrderSagas, intent = "none"
    PROVE  consumer.saga = s
  <1>1. ~Paid
    BY DEF Origins, Paid
  <1>2. sagaType[consumer.saga] # "REFUND_SAGA"
    BY <1>1 DEF PaymentOrigins
  <1>3. consumer.saga \in OrderSagas
    BY <1>2 DEF SagaTypes, OrderSagas
  <1> QED
    BY <1>3 DEF OneSaga

\* The saga row is written: an answer ends the first step, and only an answer
\* that settles the stock cancels the saga.
LEMMA WriteReserveOnce ==
    ASSUME IInv, Origins, PaymentOrigins, ReserveOnce, CancelledIsSettled, OneSaga,
           WriteSaga, UNCHANGED partyVars
    PROVE  ReserveOnce' /\ CancelledIsSettled'
  <1> USE DEF sagaVars, remoteVars
  <1>1. OrchTypeOK /\ ConsumerBound
    BY DEF IInv, TypeOK
  <1>2. Handling /\ consumer.at = "saga"
    BY DEF Handling, WriteSaga
  <1>3. /\ consumer # Idle /\ consumer \in Working /\ consumer.ev \in events
        /\ Program \in Programs /\ Ends(Program) /\ Settles(consumer.ev.type, Program)
        /\ consumer' # Idle /\ consumer'.ev = consumer.ev /\ UNCHANGED <<inbox, events>>
    BY <1>2, InHand
  <1>4. consumer.saga \in Sagas /\ sagaType[consumer.saga] \in Program.types
        /\ Program.types \subseteq SagaTypes
    BY <1>1, <1>2, <1>3 DEF ConsumerBound, Programs
  <1>5. /\ UNCHANGED <<sagaType, reservation, commands, cmdbox, intent>>
        /\ OrderSagas' = OrderSagas /\ consumer'.at = "http"
    BY <1>3 DEF WriteSaga, partyVars, OrderSagas, Working
  <1>6. /\ \A s \in Sagas \ {consumer.saga} :
              status'[s] = status[s] /\ currentStep'[s] = currentStep[s]
        /\ status'[consumer.saga] =
              IF Program.status = Keep THEN status[consumer.saga] ELSE Program.status
        /\ currentStep'[consumer.saga] =
              IF Program.current = Keep THEN currentStep[consumer.saga] ELSE Program.current
    BY <1>1, <1>4 DEF WriteSaga, OrchTypeOK
  <1>7. Program.status # "RUNNING"
    BY <1>3 DEF Ends
  <1>8. ASSUME NEW s \in OrderSagas, Reserving(s)', ~Reserving(s)
        PROVE  \A c \in commands : c.type # "inventory.reserve_stock"
    <2>1. s \in Sagas
      BY DEF OrderSagas
    <2>2. s = consumer.saga /\ Program.current = "RESERVE_INVENTORY"
      BY <1>6, <1>7, <1>8, <2>1 DEF Reserving
    <2>3. consumer.ev.type = "order.created"
      BY <1>3, <2>2 DEF Settles
    <2> QED
      BY <1>2, <1>3, <2>3 DEF ReserveOnce
  <1>9. ASSUME NEW s \in OrderSagas, Reserving(s)'
        PROVE  /\ intent = "none"
               /\ Arrived("inventory.stock_reserved") => Waits("inventory.stock_reserved")
               /\ Arrived("inventory.stock_insufficient") => Waits("inventory.stock_insufficient")
    <2>1. CASE Reserving(s)
      BY <2>1 DEF ReserveOnce
    <2>2. CASE ~Reserving(s)
      <3>1. ~Arrived("inventory.stock_reserved") /\ ~Arrived("inventory.stock_insufficient")
        BY <1>8, <1>9, <2>2 DEF ReserveOnce
      <3> QED
        BY <3>1 DEF PaymentOrigins
    <2> QED
      BY <2>1, <2>2
  <1>10. ASSUME consumer.ev.type \in {"inventory.stock_reserved", "inventory.stock_insufficient"},
                NEW s \in OrderSagas
         PROVE  ~Reserving(s)'
    <2>0. SUFFICES ASSUME Reserving(s)' PROVE FALSE
      OBVIOUS
    <2>1. intent = "none"
      BY <1>9, <2>0
    <2>2. s = consumer.saga
      BY <1>3, <1>4, <2>1, AnswerFinds
    <2>3. \/ Program.status = "COMPENSATED"
          \/ Program.current = "AWAIT_PAYMENT"
      BY <1>3, <1>10 DEF Settles
    <2> QED
      BY <1>6, <2>0, <2>2, <2>3 DEF Reserving, Keep
  <1>11. ASSUME NEW s \in OrderSagas, status'[s] = "COMPENSATED"
         PROVE  Arrived("inventory.stock_insufficient") \/ reservation[s] \in Settled
    <2>1. s \in Sagas
      BY DEF OrderSagas
    <2>2. CASE status[s] = "COMPENSATED"
      BY <2>2 DEF CancelledIsSettled
    <2>3. CASE status[s] # "COMPENSATED"
      <3>1. s = consumer.saga /\ Program.status = "COMPENSATED"
        BY <1>6, <1>11, <2>1, <2>3
      <3>2. consumer.ev.type \in {"inventory.stock_insufficient", "inventory.stock_released"}
        BY <1>3, <3>1 DEF Settles
      <3>3. CASE consumer.ev.type = "inventory.stock_insufficient"
        BY <1>3, <3>3 DEF Arrived
      <3>4. CASE consumer.ev.type = "inventory.stock_released"
        BY <1>3, <3>4 DEF PaymentOrigins, OneSaga
      <3> QED
        BY <3>2, <3>3, <3>4
    <2> QED
      BY <2>2, <2>3
  <1>12. /\ \A t : Arrived(t)' <=> Arrived(t)
         /\ \A t : Waits(t)' <=> Waits(t)
         /\ \A c : ReserveIsPending(c)' <=> ReserveIsPending(c)
    BY <1>3, <1>5 DEF Arrived, Waits, ReserveIsPending
  <1>13. CancelledIsSettled'
    BY <1>5, <1>11, <1>12 DEF CancelledIsSettled
  <1>14. \A s \in OrderSagas' : Reserving(s)' =>
            /\ intent' = "none"
            /\ Arrived("inventory.stock_reserved")' => Waits("inventory.stock_reserved")'
            /\ Arrived("inventory.stock_insufficient")' => Waits("inventory.stock_insufficient")'
    BY <1>5, <1>9, <1>12
  <1>15. /\ consumer'.ev.type = "order.created"
               => \A c \in commands' : c.type # "inventory.reserve_stock"
         /\ consumer'.ev.type \in {"inventory.stock_reserved", "inventory.stock_insufficient"}
               => \A s \in OrderSagas' : ~Reserving(s)'
    BY <1>2, <1>3, <1>5, <1>10 DEF ReserveOnce
  <1> QED
    BY <1>5, <1>12, <1>13, <1>14, <1>15 DEF ReserveOnce

\* The saga row is inserted: nothing has been asked for or answered yet.
LEMMA InsertReserveOnce ==
    ASSUME IInv, Origins, PaymentOrigins, ReserveOnce, CancelledIsSettled, OneSaga',
           InsertSaga, OrchNext, UNCHANGED partyVars
    PROVE  ReserveOnce' /\ CancelledIsSettled'
  <1> USE DEF sagaVars, remoteVars
  <1>1. OrchTypeOK /\ ConsumerBound
    BY DEF IInv, TypeOK
  <1>2. Handling /\ consumer.at = "insert"
    BY DEF Handling, InsertSaga
  <1>3. /\ consumer # Idle /\ consumer \in Working
        /\ Program \in Programs /\ Settles(consumer.ev.type, Program)
        /\ consumer' # Idle /\ consumer'.ev = consumer.ev /\ UNCHANGED <<inbox, events>>
    BY <1>2, InHand
  <1>4. Program.starts # "none"
    BY <1>1, <1>2, <1>3 DEF ConsumerBound
  <1>5. PICK r \in Sagas :
           /\ sagaType[r] = "none"
           /\ sagaType' = [sagaType EXCEPT ![r] = Program.starts]
           /\ status' = [status EXCEPT ![r] = "RUNNING"]
           /\ currentStep' = [currentStep EXCEPT ![r] = Program.current]
           /\ consumer' = [consumer EXCEPT !.at = "steps", !.saga = r]
    BY DEF InsertSaga
  <1>6. /\ UNCHANGED <<reservation, commands, cmdbox, intent>>
        /\ consumer'.at = "steps"
    BY <1>3, <1>5 DEF InsertSaga, partyVars, Working
  <1>7. \A s \in OrderSagas : s \in Sagas /\ s # r
    BY <1>5 DEF OrderSagas
  <1>8. \A s \in OrderSagas : /\ status'[s] = status[s] /\ (Reserving(s)' <=> Reserving(s))
                              /\ s \in OrderSagas'
    BY <1>1, <1>5, <1>7 DEF OrchTypeOK, Reserving, OrderSagas
  <1>9. status'[r] = "RUNNING"
    BY <1>1, <1>5 DEF OrchTypeOK
  <1>10. \A s \in OrderSagas' : s \in OrderSagas \/ s = r
    BY <1>1, <1>5 DEF OrderSagas, OrchTypeOK
  <1>11. ASSUME r \in OrderSagas'
         PROVE  /\ OrderSagas = {} /\ \A c \in commands : c.type # "inventory.reserve_stock"
                /\ ~Arrived("inventory.stock_reserved") /\ ~Arrived("inventory.stock_insufficient")
                /\ intent = "none"
    <2>1. OrderSagas = {}
      BY <1>7, <1>8, <1>11 DEF OneSaga
    <2>2. \A c \in commands : c.type # "inventory.reserve_stock"
      BY <2>1 DEF Origins
    <2>3. ~Arrived("inventory.stock_reserved") /\ ~Arrived("inventory.stock_insufficient")
      BY <2>2 DEF ReserveOnce
    <2> QED
      BY <2>1, <2>2, <2>3 DEF PaymentOrigins
  <1>12. consumer.ev.type = "order.created" => r \in OrderSagas'
    BY <1>1, <1>3, <1>5 DEF Settles, OrderSagas, OrchTypeOK
  <1>13. /\ \A t : Arrived(t)' <=> Arrived(t)
         /\ \A t : Waits(t)' <=> Waits(t)
         /\ \A c : ReserveIsPending(c)' <=> ReserveIsPending(c)
    BY <1>3, <1>6 DEF Arrived, Waits, ReserveIsPending
  <1>14. CancelledIsSettled'
    BY <1>6, <1>8, <1>9, <1>10, <1>13 DEF CancelledIsSettled
  <1>15. \A s \in OrderSagas' : Reserving(s)' =>
            /\ intent' = "none"
            /\ Arrived("inventory.stock_reserved")' => Waits("inventory.stock_reserved")'
            /\ Arrived("inventory.stock_insufficient")' => Waits("inventory.stock_insufficient")'
    BY <1>6, <1>8, <1>10, <1>11, <1>13 DEF ReserveOnce
  <1>16. consumer'.ev.type = "order.created"
            => \A c \in commands' : c.type # "inventory.reserve_stock"
    BY <1>3, <1>6, <1>11, <1>12
  <1> QED
    BY <1>6, <1>13, <1>14, <1>15, <1>16 DEF ReserveOnce

\* The other stages of a handler, the recovery cron, a crash and a repetition.
LEMMA RestReserveOnce ==
    ASSUME IInv, SagaLife, Origins, PaymentOrigins, ReserveOnce, CancelledIsSettled, OneSaga,
           ~WriteSaga, ~InsertSaga, ~Retry, ~DeadLetter, ~Spend("slow"),
           \A j \in Jobs : ~CompensationJob(j) /\ ~CompensationThrows(j),
           OrchNext, UNCHANGED partyVars
    PROVE  ReserveOnce' /\ CancelledIsSettled'
  <1> USE DEF sagaVars, remoteVars
  <1>1. OrchTypeOK /\ ConsumerBound
    BY DEF IInv, TypeOK
  <1>2. \/ \E e \in inbox : Receive(e)
        \/ Lookup \/ WriteSteps \/ CallServices \/ PublishCommand \/ Commit
        \/ \E s \in Sagas : RecoverStuckSaga(s)
        \/ Crash \/ \E e \in events : Redeliver(e)
    BY OrchCases DEF Handling, CronStep
  <1>3. UNCHANGED <<sagaType, status, currentStep, events, reservation>>
    BY <1>2 DEF Receive, Lookup, WriteSteps, CallServices, PublishCommand, Commit,
                RecoverStuckSaga, Crash, Redeliver, partyVars
  <1>4. /\ OrderSagas' = OrderSagas
        /\ \A t : Arrived(t)' <=> Arrived(t)
        /\ \A s \in Sagas : Reserving(s)' <=> Reserving(s)
    BY <1>3 DEF OrderSagas, Arrived, Reserving
  <1>5. \A s \in OrderSagas : s \in Sagas
    BY DEF OrderSagas
  <1>6. CancelledIsSettled'
    BY <1>3, <1>4 DEF CancelledIsSettled
  <1> DEFINE Asked ==
        /\ \A c, d \in cmdbox' : ReserveIsPending(c)' /\ ReserveIsPending(d)' => c = d
        /\ (\E c \in cmdbox' : ReserveIsPending(c)') =>
              /\ ~Arrived("inventory.stock_insufficient")
              /\ \A s \in Sagas : reservation[s] = "none"
        /\ commands \subseteq commands'
      Taken ==
        /\ consumer' # Idle /\ consumer'.ev.type = "order.created"
             /\ consumer'.at \in {"steps", "saga", "http", "publish"}
           => \A c \in commands' : c.type # "inventory.reserve_stock"
        /\ consumer' # Idle
             /\ consumer'.ev.type \in {"inventory.stock_reserved", "inventory.stock_insufficient"}
             /\ consumer'.at \in {"http", "publish", "done"}
           => \A s \in OrderSagas : ~Reserving(s)
      Waiting ==
        \A s \in OrderSagas : Reserving(s) =>
           /\ intent' = "none"
           /\ \A t \in {"inventory.stock_reserved", "inventory.stock_insufficient"} :
                 Arrived(t) => Waits(t)'
  <1>7. ASSUME Asked, Taken, Waiting PROVE ReserveOnce'
    <2>1. /\ \A s \in Sagas : reservation'[s] # "none" => Arrived("inventory.stock_reserved")'
          /\ Arrived("inventory.stock_reserved")' \/ Arrived("inventory.stock_insufficient")'
               => \E c \in commands' : c.type = "inventory.reserve_stock"
      BY <1>3, <1>4, <1>7 DEF ReserveOnce
    <2>2. \A s \in OrderSagas' : Reserving(s)' =>
             /\ intent' = "none"
             /\ Arrived("inventory.stock_reserved")' => Waits("inventory.stock_reserved")'
             /\ Arrived("inventory.stock_insufficient")' => Waits("inventory.stock_insufficient")'
      BY <1>4, <1>5, <1>7
    <2>3. \A s \in OrderSagas' : ~Reserving(s)' <=> ~Reserving(s)
      BY <1>4, <1>5
    <2> QED
      BY <1>3, <1>4, <1>7, <2>1, <2>2, <2>3 DEF ReserveOnce
  <1>8. UNCHANGED <<commands, cmdbox>> => Asked
    BY DEF ReserveOnce, ReserveIsPending
  <1>9. inbox \subseteq inbox' /\ UNCHANGED intent => Waiting
    BY DEF ReserveOnce, Waits
  <1>10. ASSUME NEW e \in inbox, Receive(e) PROVE Taken /\ UNCHANGED <<inbox, intent, commands, cmdbox>>
    BY <1>10 DEF Receive
  <1>11. CASE Handling
    <2>1. /\ consumer # Idle /\ consumer \in Working /\ consumer.ev \in events
          /\ Program \in Programs /\ Ends(Program) /\ Settles(consumer.ev.type, Program)
          /\ consumer' # Idle /\ consumer'.ev = consumer.ev /\ UNCHANGED <<inbox, events>>
      BY <1>11, InHand
    <2>2. CASE Lookup
      <3>1. UNCHANGED <<commands, cmdbox, intent, inbox>>
        BY <2>2 DEF Lookup
      <3>2. CASE consumer.ev.type = "order.created"
        <4>1. Program.starts # "none"
          BY <2>1, <3>2 DEF Settles
        <4>2. consumer'.at \notin {"steps", "saga", "http", "publish"}
          BY <2>1, <2>2, <4>1 DEF Lookup, Working
        <4> QED
          BY <1>7, <1>6, <1>8, <1>9, <2>1, <3>1, <3>2, <4>2
      <3>3. CASE consumer.ev.type \in {"inventory.stock_reserved", "inventory.stock_insufficient"}
        <4>1. Program.starts = "none" /\ Program.types = SagaTypes /\ Program.in = "RUNNING"
          BY <2>1, <3>3 DEF Settles, Ends
        <4>2. consumer'.at \in {"http", "publish", "done"} => Matching(Program) = {}
          BY <2>1, <2>2, <4>1 DEF Lookup, Working
        <4>3. consumer'.at \in {"http", "publish", "done"}
                 => \A s \in OrderSagas : ~Reserving(s)
          BY <4>1, <4>2 DEF Matching, SagaTypes, OrderSagas, Reserving
        <4> QED
          BY <1>7, <1>6, <1>8, <1>9, <2>1, <3>1, <3>3, <4>3
      <3>4. CASE consumer.ev.type \notin {"order.created", "inventory.stock_reserved",
                                          "inventory.stock_insufficient"}
        BY <1>7, <1>6, <1>8, <1>9, <2>1, <3>1, <3>4
      <3> QED
        BY <3>2, <3>3, <3>4
    <2>3. CASE WriteSteps
      <3>1. UNCHANGED <<commands, cmdbox, intent, inbox>> /\ consumer.at = "steps"
            /\ consumer'.at = "saga"
        BY <2>1, <2>3 DEF WriteSteps, Working
      <3>2. Taken
        BY <2>1, <3>1 DEF ReserveOnce
      <3> QED
        BY <1>6, <1>7, <1>8, <1>9, <3>1, <3>2
    <2>4. CASE CallServices
      <3>1. UNCHANGED <<commands, cmdbox, inbox>> /\ consumer.at = "http"
            /\ consumer'.at = "publish"
        BY <2>1, <2>4 DEF CallServices, Working
      <3>2. Taken
        BY <2>1, <3>1 DEF ReserveOnce
      <3>3. Waiting
        <4>1. CASE Program.qr
          <5>1. consumer.ev.type = "inventory.stock_reserved"
            BY <2>1, <4>1 DEF Settles
          <5> QED
            BY <2>1, <3>1, <5>1 DEF ReserveOnce
        <4>2. CASE ~Program.qr
          BY <1>9, <2>4, <3>1, <4>2 DEF CallServices
        <4> QED
          BY <4>1, <4>2
      <3> QED
        BY <1>6, <1>7, <1>8, <3>1, <3>2, <3>3
    <2>5. CASE PublishCommand
      <3>1. UNCHANGED <<intent, inbox>> /\ consumer.at = "publish" /\ consumer'.at = "done"
        BY <2>1, <2>5 DEF PublishCommand, Working
      <3>2. Taken
        BY <2>1, <3>1 DEF ReserveOnce
      <3>3. Asked
        <4>1. /\ commands' = commands \union {Command(t, consumer.saga) : t \in Program.emit}
              /\ cmdbox' = cmdbox \union {Command(t, consumer.saga) : t \in Program.emit}
          BY <2>5 DEF PublishCommand, PublishCommands
        <4>2. CASE consumer.ev.type = "order.created"
          <5>1. \A c \in commands : c.type # "inventory.reserve_stock"
            BY <2>1, <3>1, <4>2 DEF ReserveOnce
          <5>2. cmdbox \subseteq commands
            BY <1>1 DEF OrchTypeOK
          <5>3. \A c \in cmdbox' : ReserveIsPending(c)' =>
                   c = Command("inventory.reserve_stock", consumer.saga)
            BY <4>1, <5>1, <5>2 DEF ReserveIsPending, Command
          <5>4. /\ ~Arrived("inventory.stock_insufficient")
                /\ \A s \in Sagas : reservation[s] = "none"
            BY <5>1 DEF ReserveOnce
          <5> QED
            BY <4>1, <5>3, <5>4
        <4>3. CASE consumer.ev.type # "order.created"
          <5>1. "inventory.reserve_stock" \notin Program.emit
            BY <2>1, <4>3 DEF Settles
          <5>2. \A c \in cmdbox' : ReserveIsPending(c)' => c \in cmdbox /\ ReserveIsPending(c)
            BY <4>1, <5>1 DEF ReserveIsPending, Command
          <5> QED
            BY <4>1, <5>2 DEF ReserveOnce
        <4> QED
          BY <4>2, <4>3
      <3> QED
        BY <1>6, <1>7, <1>9, <3>1, <3>2, <3>3
    <2> QED
      BY <1>11, <2>2, <2>3, <2>4, <2>5 DEF Handling
  <1>12. CASE Commit
    <2>1. /\ UNCHANGED <<commands, cmdbox, intent>> /\ consumer' = Idle /\ consumer.at = "done"
          /\ inbox' = inbox \ {consumer.ev} /\ consumer # Idle
      BY <1>12 DEF Commit, Idle
    <2>2. ASSUME NEW s \in OrderSagas, Reserving(s),
                 NEW t \in {"inventory.stock_reserved", "inventory.stock_insufficient"}, Arrived(t)
          PROVE  Waits(t)'
      <3>1. consumer.ev.type # t
        BY <2>1, <2>2 DEF ReserveOnce
      <3>2. Waits(t)
        BY <2>2 DEF ReserveOnce
      <3> QED
        BY <2>1, <3>1, <3>2 DEF Waits
    <2>3. Waiting
      BY <2>1, <2>2 DEF ReserveOnce
    <2> QED
      BY <1>6, <1>7, <1>8, <2>1, <2>3
  <1>13. ASSUME NEW s \in Sagas, RecoverStuckSaga(s) PROVE ReserveOnce'
    <2>1. /\ consumer = Idle /\ consumer' = Idle /\ UNCHANGED <<inbox, intent>>
          /\ inbox = {} /\ cmdbox = {} /\ s \in OrderSagas
      BY <1>13 DEF RecoverStuckSaga, Stuck, OrderSagas
    <2> DEFINE cmd == [type |-> RECOVERABLE_STEPS[currentStep[s]], saga |-> s, again |-> TRUE]
    <2>2. commands' = commands \union {cmd} /\ cmdbox' = {cmd}
      BY <1>13, <2>1 DEF RecoverStuckSaga, PublishCommands
    <2>3. ASSUME cmd.type = "inventory.reserve_stock"
          PROVE  /\ ~Arrived("inventory.stock_insufficient")
                 /\ \A x \in Sagas : reservation[x] = "none"
      <3>1. Reserving(s)
        BY <1>13, <2>3 DEF RecoverStuckSaga, RECOVERABLE_STEPS, Reserving
      <3>2. ~Arrived("inventory.stock_insufficient") /\ ~Arrived("inventory.stock_reserved")
        BY <2>1, <3>1 DEF ReserveOnce, Waits
      <3> QED
        BY <3>2 DEF ReserveOnce
    <2>4. Asked
      BY <2>2, <2>3 DEF ReserveIsPending
    <2> QED
      BY <1>7, <1>9, <2>1, <2>4
  <1>14. CASE Crash
    BY <1>6, <1>7, <1>8, <1>9, <1>14 DEF Crash
  <1>15. ASSUME NEW e \in events, Redeliver(e) PROVE ReserveOnce'
    <2>1. UNCHANGED <<commands, cmdbox, intent, consumer>> /\ inbox \subseteq inbox'
      BY <1>15 DEF Redeliver
    <2>2. Taken
      BY <2>1 DEF ReserveOnce
    <2> QED
      BY <1>7, <1>8, <1>9, <2>1, <2>2
  <1> QED
    BY <1>2, <1>6, <1>7, <1>8, <1>9, <1>10, <1>11, <1>12, <1>13, <1>14, <1>15 DEF Handling

-----------------------------------------------------------------------------
(* Why a compensation is always under way.                                 *)

\* The release is answered: inventory-service finds the stock held.
LEMMA PartyReleaseUnderWay ==
    ASSUME IInv, Origins, PaymentOrigins, OneOutcome, ReleaseUnderWay, PartyStep,
           ~Spend("drop")
    PROVE  ReleaseUnderWay'
  <1>1. /\ TypeOK /\ CommandsJustified
        /\ reservation \in [Sagas -> ReservationStatus]
        /\ \A c \in cmdbox : c \in commands /\ c.saga \in Sagas
    BY DEF IInv, TypeOK, OrchTypeOK, Commands
  <1>2. /\ UNCHANGED <<sagaType, status, consumer, commands>>
        /\ OrderSagas' = OrderSagas /\ events \subseteq events' /\ inbox \subseteq inbox'
    BY <1>1, PartyFrame, PartyMemory DEF OrderSagas, Publishes, Origins
  <1>3. PaymentIsLost => PaymentIsLost'
    BY <1>2 DEF PaymentIsLost
  <1>4. ASSUME NEW s \in Sagas, PaymentIsLost, reservation[s] = "HELD",
               NEW r \in cmdbox, Release(r, s)
        PROVE  \/ reservation'[s] = "HELD" /\ \E c \in cmdbox' : Release(c, s)
               \/ Event("inventory.stock_released", s) \in inbox'
    <2>1. \A c \in commands : c.type # "inventory.confirm_stock"
      BY <1>1, <1>4, LostIsUnpaid DEF CommandsJustified
    <2>2. ASSUME NEW c \in cmdbox, StockStep(c)
          PROVE  \/ reservation'[s] = "HELD" /\ \E d \in cmdbox' : Release(d, s)
                 \/ Event("inventory.stock_released", s) \in inbox'
      <3>1. CASE ReserveStock(c)
        BY <1>1, <1>4, <3>1 DEF ReserveStock, Take, Release
      <3>2. CASE RefuseStock(c) \/ ReserveAgain(c)
        BY <1>1, <1>4, <3>2 DEF RefuseStock, ReserveAgain, Take, Release, inventoryVars
      <3>3. ~ConfirmStock(c) /\ \A d \in cmdbox : ~SettleBoth(c, d)
        BY <1>1, <2>1 DEF ConfirmStock, Settle, SettleBoth
      <3>4. CASE ReleaseStock(c)
        <4>1. CASE c.saga = s
          BY <1>4, <3>4, <4>1 DEF ReleaseStock, Settle, PublishEvents
        <4>2. CASE c.saga # s
          BY <1>1, <1>4, <3>4, <4>2 DEF ReleaseStock, Settle, Take, Release
        <4> QED
          BY <4>1, <4>2
      <3> QED
        BY <2>2, <3>1, <3>2, <3>3, <3>4 DEF StockStep
    <2>3. CASE ~ \E c \in cmdbox : StockStep(c)
      BY <1>1, <1>4, <2>3, ApartFromStock DEF Release
    <2> QED
      BY <2>2, <2>3
  <1>5. ASSUME NEW s \in Sagas, status[s] = "COMPENSATING"
        PROVE  /\ PaymentIsLost
               /\ \/ /\ consumer # Idle /\ consumer.saga = s /\ PaymentLost(consumer.ev.type)
                     /\ consumer.at \in {"http", "publish"}
                     /\ \A c \in commands : c.type # "inventory.release_stock"
                  \/ reservation'[s] = "HELD" /\ \E c \in cmdbox' : Release(c, s)
                  \/ Event("inventory.stock_released", s) \in inbox'
               /\ consumer # Idle /\ consumer.ev.type = "inventory.stock_released" =>
                     consumer.at \in {"lookup", "steps", "saga"}
    <2>1. /\ PaymentIsLost
          /\ \/ /\ consumer # Idle /\ consumer.saga = s /\ PaymentLost(consumer.ev.type)
                /\ consumer.at \in {"http", "publish"}
                /\ \A c \in commands : c.type # "inventory.release_stock"
             \/ reservation[s] = "HELD" /\ \E c \in cmdbox : Release(c, s)
             \/ Event("inventory.stock_released", s) \in inbox
          /\ consumer # Idle /\ consumer.ev.type = "inventory.stock_released" =>
                consumer.at \in {"lookup", "steps", "saga"}
      BY <1>5 DEF ReleaseUnderWay
    <2> QED
      BY <1>2, <1>4, <2>1
  <1>6. /\ (\E c \in commands : c.type = "inventory.release_stock") =>
              PaymentIsLost /\ \A s \in OrderSagas : status[s] # "RUNNING"
        /\ /\ consumer # Idle
           /\ PaymentLost(consumer.ev.type)
           /\ consumer.at \in {"http", "publish"}
           => status[consumer.saga] # "RUNNING"
    BY DEF ReleaseUnderWay
  <1>7. \A s \in Sagas : Event("inventory.stock_released", s)' = Event("inventory.stock_released", s)
    BY DEF Event
  <1>8. \A c, s : Release(c, s)' <=> Release(c, s)
    BY DEF Release
  <1> QED
    BY <1>2, <1>3, <1>5, <1>6, <1>7, <1>8 DEF ReleaseUnderWay

\* With the payment lost, a saga that a handler of either type of saga works on,
\* or that compensates, is the order's.
LEMMA LostIsOrders ==
    ASSUME Origins, PaymentOrigins, OneOutcome, PaymentIsLost,
           NEW s \in Sagas, sagaType[s] \in SagaTypes
    PROVE  s \in OrderSagas
  BY LostIsUnpaid DEF SagaTypes, OrderSagas

\* The saga row is written: it compensates once its payment is lost, and stops
\* doing so when the release is answered.
LEMMA WriteReleaseUnderWay ==
    ASSUME IInv, SagaLife, Origins, PaymentOrigins, OneOutcome, ReleaseUnderWay, OneSaga,
           WriteSaga, UNCHANGED partyVars
    PROVE  ReleaseUnderWay'
  <1> USE DEF sagaVars, remoteVars
  <1>1. OrchTypeOK /\ ConsumerBound
    BY DEF IInv, TypeOK
  <1>2. Handling /\ consumer.at = "saga"
    BY DEF Handling, WriteSaga
  <1>3. /\ consumer # Idle /\ consumer \in Working /\ consumer.ev \in events
        /\ Program \in Programs /\ Ends(Program) /\ Settles(consumer.ev.type, Program)
        /\ consumer' # Idle /\ consumer'.ev = consumer.ev /\ UNCHANGED <<inbox, events>>
    BY <1>2, InHand
  <1>4. consumer.saga \in Sagas /\ sagaType[consumer.saga] \in SagaTypes
    BY <1>1, <1>2, <1>3 DEF ConsumerBound, Programs
  <1>5. /\ UNCHANGED <<sagaType, reservation, commands, cmdbox>>
        /\ OrderSagas' = OrderSagas /\ consumer'.at = "http" /\ consumer'.saga = consumer.saga
    BY <1>3 DEF WriteSaga, partyVars, OrderSagas, Working
  <1>6. /\ \A s \in Sagas \ {consumer.saga} : status'[s] = status[s]
        /\ status'[consumer.saga] =
              IF Program.status = Keep THEN status[consumer.saga] ELSE Program.status
    BY <1>1, <1>4 DEF WriteSaga, OrchTypeOK
  <1>7. Program.status # "RUNNING"
    BY <1>3 DEF Ends
  <1>8. PaymentIsLost' <=> PaymentIsLost
    BY <1>3 DEF PaymentIsLost
  <1>9. (\E c \in commands : c.type = "inventory.release_stock") =>
           PaymentIsLost /\ \A s \in OrderSagas : status'[s] # "RUNNING"
    BY <1>6, <1>7 DEF ReleaseUnderWay, OrderSagas
  <1>10. PaymentLost(consumer.ev.type) =>
            /\ Program.status = "COMPENSATING" /\ status'[consumer.saga] = "COMPENSATING"
            /\ status[consumer.saga] = "RUNNING"
    BY <1>2, <1>3, <1>6 DEF Settles, Ends, SagaLife, Keep
  <1>11. ASSUME NEW s \in Sagas, status'[s] = "COMPENSATING"
         PROVE  /\ PaymentIsLost
                /\ \/ /\ consumer.saga = s /\ PaymentLost(consumer.ev.type)
                      /\ \A c \in commands : c.type # "inventory.release_stock"
                   \/ reservation[s] = "HELD" /\ \E c \in cmdbox : Release(c, s)
                   \/ Event("inventory.stock_released", s) \in inbox
                /\ consumer.ev.type # "inventory.stock_released"
    <2>1. CASE status[s] = "COMPENSATING"
      <3>1. /\ PaymentIsLost
            /\ \/ reservation[s] = "HELD" /\ \E c \in cmdbox : Release(c, s)
               \/ Event("inventory.stock_released", s) \in inbox
        BY <1>2, <2>1 DEF ReleaseUnderWay
      <3>2. ASSUME consumer.ev.type = "inventory.stock_released" PROVE FALSE
        <4>1. Program.status = "COMPENSATED" /\ Program.status # Keep
          BY <1>3, <3>2 DEF Settles, Keep
        <4>2. s # consumer.saga
          BY <1>6, <1>11, <4>1
        <4>3. sagaType[s] \in SagaTypes
          BY <1>1, <2>1 DEF SagaLife, OrchTypeOK
        <4> QED
          BY <1>4, <3>1, <4>2, <4>3, LostIsOrders DEF OneSaga
      <3> QED
        BY <3>1, <3>2
    <2>2. CASE status[s] # "COMPENSATING"
      <3>1. s = consumer.saga /\ Program.status = "COMPENSATING"
        BY <1>6, <1>11, <2>2
      <3>2. PaymentLost(consumer.ev.type)
        BY <1>3, <3>1 DEF Settles
      <3>3. PaymentIsLost
        BY <1>3, <3>2 DEF PaymentIsLost
      <3>4. s \in OrderSagas /\ status[s] = "RUNNING"
        BY <1>4, <1>10, <3>1, <3>2, <3>3, LostIsOrders
      <3>5. \A c \in commands : c.type # "inventory.release_stock"
        BY <3>4 DEF ReleaseUnderWay
      <3> QED
        BY <3>1, <3>2, <3>3, <3>5 DEF PaymentLost
    <2> QED
      BY <2>1, <2>2
  <1>12. \A s \in Sagas : Event("inventory.stock_released", s)' = Event("inventory.stock_released", s)
    BY DEF Event
  <1>13. \A c, s : Release(c, s)' <=> Release(c, s)
    BY DEF Release
  <1> QED
    BY <1>3, <1>5, <1>8, <1>9, <1>10, <1>11, <1>12, <1>13 DEF ReleaseUnderWay

\* The saga row is inserted: no payment is lost that has not been asked for.
LEMMA InsertReleaseUnderWay ==
    ASSUME IInv, SagaLife, Origins, PaymentOrigins, OneOutcome, ReleaseUnderWay, OneSaga',
           InsertSaga, OrchNext, UNCHANGED partyVars
    PROVE  ReleaseUnderWay'
  <1> USE DEF sagaVars, remoteVars
  <1>1. OrchTypeOK
    BY DEF IInv, TypeOK
  <1>2. Handling /\ consumer.at = "insert"
    BY DEF Handling, InsertSaga
  <1>3. /\ consumer # Idle /\ consumer \in Working
        /\ consumer' # Idle /\ consumer'.ev = consumer.ev /\ UNCHANGED <<inbox, events>>
    BY <1>2, InHand
  <1>4. PICK r \in Sagas :
           /\ sagaType[r] = "none"
           /\ sagaType' = [sagaType EXCEPT ![r] = Program.starts]
           /\ status' = [status EXCEPT ![r] = "RUNNING"]
           /\ consumer' = [consumer EXCEPT !.at = "steps", !.saga = r]
    BY DEF InsertSaga
  <1>5. /\ UNCHANGED <<reservation, commands, cmdbox>> /\ consumer'.at = "steps"
    BY <1>3, <1>4 DEF InsertSaga, partyVars, Working
  <1>6. PaymentIsLost' <=> PaymentIsLost
    BY <1>3 DEF PaymentIsLost
  <1>7. ASSUME PaymentIsLost PROVE r \notin OrderSagas'
    <2>1. Arrived("inventory.stock_reserved")
      BY <1>7, LostIsUnpaid
    <2>2. PICK e \in events : e.type = "inventory.stock_reserved"
      BY <2>1 DEF Arrived
    <2>3. e.saga \in OrderSagas
      BY <2>2 DEF Origins
    <2>4. e.saga # r /\ e.saga \in OrderSagas'
      BY <1>1, <1>4, <2>3, OneBefore DEF OrderSagas
    <2> QED
      BY <2>4 DEF OneSaga
  <1>8. \A s \in OrderSagas' : s # r => s \in OrderSagas /\ status'[s] = status[s]
    <2>1. \A s \in Sagas : s # r => status'[s] = status[s] /\ sagaType'[s] = sagaType[s]
      BY <1>1, <1>4 DEF OrchTypeOK
    <2> QED
      BY <2>1 DEF OrderSagas
  <1>9. (\E c \in commands : c.type = "inventory.release_stock") =>
           PaymentIsLost /\ \A s \in OrderSagas' : status'[s] # "RUNNING"
    BY <1>7, <1>8 DEF ReleaseUnderWay
  <1>10. \A s \in Sagas : status'[s] = "COMPENSATING" => status[s] = "COMPENSATING"
    BY <1>1, <1>4 DEF OrchTypeOK
  <1>11. ASSUME NEW s \in Sagas, status'[s] = "COMPENSATING"
         PROVE  /\ PaymentIsLost
                /\ \/ reservation[s] = "HELD" /\ \E c \in cmdbox : Release(c, s)
                   \/ Event("inventory.stock_released", s) \in inbox
    BY <1>2, <1>10, <1>11 DEF ReleaseUnderWay
  <1>12. \A s \in Sagas : Event("inventory.stock_released", s)' = Event("inventory.stock_released", s)
    BY DEF Event
  <1>13. \A c, s : Release(c, s)' <=> Release(c, s)
    BY DEF Release
  <1> QED
    BY <1>3, <1>5, <1>6, <1>9, <1>11, <1>12, <1>13 DEF ReleaseUnderWay

\* The release is asked for: the stock that was reserved is still held.
LEMMA StillHeld ==
    ASSUME IInv, SagaLife, Origins, PaymentOrigins, OneOutcome, OneSaga, PaymentIsLost,
           \A c \in commands : c.type # "inventory.release_stock",
           NEW s \in OrderSagas
    PROVE  reservation[s] = "HELD"
  <1>1. s \in Sagas /\ reservation \in [Sagas -> ReservationStatus] /\ ConfirmedIsPaid
    BY DEF OrderSagas, IInv, TypeOK
  <1>2. ~Paid /\ Arrived("inventory.stock_reserved")
    BY LostIsUnpaid
  <1>3. reservation[s] # "none"
    BY <1>2 DEF Arrived, Origins, OneSaga
  <1>4. reservation[s] # "CONFIRMED"
    BY <1>1, <1>2 DEF ConfirmedIsPaid, SomeConfirmed, Confirmed
  <1>5. reservation[s] # "RELEASED"
    BY <1>1 DEF PaymentOrigins, Release
  <1> QED
    BY <1>1, <1>3, <1>4, <1>5 DEF ReservationStatus

\* The other stages of a handler, the recovery cron and a repetition.
LEMMA RestReleaseUnderWay ==
    ASSUME IInv, SagaLife, Origins, PaymentOrigins, OneOutcome, ReleaseUnderWay, OneSaga,
           ~WriteSaga, ~InsertSaga, ~Retry, ~DeadLetter, ~Crash,
           \A j \in Jobs : ~CompensationJob(j) /\ ~CompensationThrows(j),
           OrchNext, UNCHANGED partyVars
    PROVE  ReleaseUnderWay'
  <1> USE DEF sagaVars, remoteVars
  <1>1. OrchTypeOK /\ ConsumerBound
    BY DEF IInv, TypeOK
  <1>2. \/ \E e \in inbox : Receive(e)
        \/ Lookup \/ WriteSteps \/ CallServices \/ PublishCommand \/ Commit
        \/ \E s \in Sagas : RecoverStuckSaga(s)
        \/ \E e \in events : Redeliver(e)
    BY OrchCases DEF Handling, CronStep
  <1>3. UNCHANGED <<sagaType, status, events, reservation>>
    BY <1>2 DEF Receive, Lookup, WriteSteps, CallServices, PublishCommand, Commit,
                RecoverStuckSaga, Redeliver, partyVars
  <1>4. /\ OrderSagas' = OrderSagas
        /\ PaymentIsLost' <=> PaymentIsLost
        /\ \A s \in Sagas : Event("inventory.stock_released", s)' = Event("inventory.stock_released", s)
        /\ \A c, s : Release(c, s)' <=> Release(c, s)
    BY <1>3 DEF OrderSagas, PaymentIsLost, Event, Release
  <1> DEFINE Asked ==
        (\E c \in commands' : c.type = "inventory.release_stock") =>
           PaymentIsLost /\ \A s \in OrderSagas : status[s] # "RUNNING"
      Marked ==
        /\ consumer' # Idle
        /\ PaymentLost(consumer'.ev.type)
        /\ consumer'.at \in {"http", "publish"}
        => status[consumer'.saga] # "RUNNING"
      Moving(s) ==
        /\ \/ /\ consumer' # Idle /\ consumer'.saga = s /\ PaymentLost(consumer'.ev.type)
              /\ consumer'.at \in {"http", "publish"}
              /\ \A c \in commands' : c.type # "inventory.release_stock"
           \/ reservation[s] = "HELD" /\ \E c \in cmdbox' : Release(c, s)
           \/ Event("inventory.stock_released", s) \in inbox'
        /\ consumer' # Idle /\ consumer'.ev.type = "inventory.stock_released" =>
              consumer'.at \in {"lookup", "steps", "saga"}
  <1>5. ASSUME Asked, Marked, \A s \in Sagas : status[s] = "COMPENSATING" => Moving(s)
        PROVE  ReleaseUnderWay'
    <2>1. \A s \in Sagas : status[s] = "COMPENSATING" => PaymentIsLost
      BY DEF ReleaseUnderWay
    <2> QED
      BY <1>3, <1>4, <1>5, <2>1 DEF ReleaseUnderWay
  <1>6. UNCHANGED commands => Asked
    BY DEF ReleaseUnderWay
  <1>7. ASSUME cmdbox \subseteq cmdbox', inbox \subseteq inbox', NEW s \in Sagas,
               status[s] = "COMPENSATING", consumer.at \notin {"http", "publish"}
        PROVE  \/ reservation[s] = "HELD" /\ \E c \in cmdbox' : Release(c, s)
               \/ Event("inventory.stock_released", s) \in inbox'
    BY <1>7 DEF ReleaseUnderWay
  <1>8. ASSUME NEW e \in inbox, Receive(e) PROVE ReleaseUnderWay'
    <2>1. /\ UNCHANGED <<inbox, commands, cmdbox>> /\ consumer.at \notin {"http", "publish"}
          /\ consumer'.ev = e /\ consumer'.at \notin {"http", "publish"}
          /\ e.type # "shipping.picked_up" => consumer'.at = "lookup"
      BY <1>8 DEF Receive, Idle
    <2> QED
      BY <1>5, <1>6, <1>7, <2>1
  <1>9. CASE Handling
    <2>1. /\ consumer # Idle /\ consumer \in Working /\ consumer.ev \in events
          /\ Program \in Programs /\ Ends(Program) /\ Settles(consumer.ev.type, Program)
          /\ consumer' # Idle /\ consumer'.ev = consumer.ev /\ UNCHANGED <<inbox, events>>
      BY <1>9, InHand
    <2>2. CASE Lookup
      <3>1. /\ UNCHANGED <<commands, cmdbox>> /\ consumer.at = "lookup"
            /\ consumer'.at \in {"steps", "insert", "done"}
        BY <2>1, <2>2 DEF Lookup, Working
      <3>2. ASSUME NEW s \in Sagas, status[s] = "COMPENSATING",
                   consumer.ev.type = "inventory.stock_released"
            PROVE  consumer'.at = "steps"
        <4>1. Program.starts = "none" /\ Program.types = SagaTypes /\ Program.in = "COMPENSATING"
          BY <2>1, <3>2 DEF Settles
        <4>2. s \in Matching(Program)
          BY <1>1, <3>2, <4>1 DEF SagaLife, OrchTypeOK, Matching
        <4> QED
          BY <2>1, <2>2, <4>1, <4>2 DEF Lookup, Working
      <3> QED
        BY <1>5, <1>6, <1>7, <2>1, <3>1, <3>2
    <2>3. CASE WriteSteps
      <3>1. UNCHANGED <<commands, cmdbox>> /\ consumer.at = "steps" /\ consumer'.at = "saga"
        BY <2>1, <2>3 DEF WriteSteps, Working
      <3> QED
        BY <1>5, <1>6, <1>7, <2>1, <3>1
    <2>4. CASE CallServices
      <3>1. /\ UNCHANGED <<commands, cmdbox>> /\ consumer.at = "http"
            /\ consumer'.at = "publish" /\ consumer'.saga = consumer.saga
        BY <2>1, <2>4 DEF CallServices, Working
      <3>2. \A s \in Sagas : status[s] = "COMPENSATING" => Moving(s)
        BY <2>1, <3>1 DEF ReleaseUnderWay
      <3>3. Marked
        BY <2>1, <3>1 DEF ReleaseUnderWay
      <3> QED
        BY <1>5, <1>6, <3>1, <3>2, <3>3
    <2>5. CASE PublishCommand
      <3>1. consumer.at = "publish" /\ consumer'.at = "done"
        BY <2>1, <2>5 DEF PublishCommand, Working
      <3>2. /\ commands' = commands \union {Command(t, consumer.saga) : t \in Program.emit}
            /\ cmdbox' = cmdbox \union {Command(t, consumer.saga) : t \in Program.emit}
        BY <2>5 DEF PublishCommand, PublishCommands
      <3>3. consumer.saga \in Sagas /\ sagaType[consumer.saga] \in SagaTypes
        BY <1>1, <2>1, <3>1 DEF ConsumerBound, Programs
      <3>4. Asked
        <4>1. ASSUME NEW c \in commands', c.type = "inventory.release_stock", c \notin commands
              PROVE  PaymentIsLost /\ \A s \in OrderSagas : status[s] # "RUNNING"
          <5>1. PaymentLost(consumer.ev.type)
            BY <2>1, <3>2, <4>1 DEF Settles, Command
          <5>2. PaymentIsLost
            BY <2>1, <5>1 DEF PaymentIsLost
          <5>3. consumer.saga \in OrderSagas /\ status[consumer.saga] # "RUNNING"
            BY <2>1, <3>1, <3>3, <5>1, <5>2, LostIsOrders DEF ReleaseUnderWay
          <5> QED
            BY <5>2, <5>3 DEF OneSaga
        <4> QED
          BY <4>1 DEF ReleaseUnderWay
      <3>5. ASSUME NEW s \in Sagas, status[s] = "COMPENSATING" PROVE Moving(s)
        <4>1. PaymentIsLost /\ consumer.ev.type # "inventory.stock_released"
          BY <2>1, <3>1, <3>5 DEF ReleaseUnderWay
        <4>2. CASE /\ consumer.saga = s /\ PaymentLost(consumer.ev.type)
                   /\ \A c \in commands : c.type # "inventory.release_stock"
          <5>1. s \in OrderSagas
            BY <3>3, <4>1, <4>2, LostIsOrders
          <5>2. reservation[s] = "HELD"
            BY <4>1, <4>2, <5>1, StillHeld
          <5>3. "inventory.release_stock" \in Program.emit
            BY <2>1, <4>2 DEF Settles
          <5>4. Command("inventory.release_stock", s) \in cmdbox'
            BY <3>2, <4>2, <5>3
          <5> QED
            BY <2>1, <4>1, <5>2, <5>4 DEF Release, Command
        <4>3. CASE \/ reservation[s] = "HELD" /\ \E c \in cmdbox : Release(c, s)
                   \/ Event("inventory.stock_released", s) \in inbox
          BY <2>1, <3>2, <4>1, <4>3
        <4> QED
          BY <3>5, <4>2, <4>3 DEF ReleaseUnderWay
      <3> QED
        BY <1>5, <3>1, <3>4, <3>5
    <2> QED
      BY <1>9, <2>2, <2>3, <2>4, <2>5 DEF Handling
  <1>10. CASE Commit
    <2>1. /\ UNCHANGED <<commands, cmdbox>> /\ consumer' = Idle /\ consumer.at = "done"
          /\ inbox' = inbox \ {consumer.ev} /\ consumer # Idle
      BY <1>10 DEF Commit, Idle
    <2>2. ASSUME NEW s \in Sagas, status[s] = "COMPENSATING" PROVE Moving(s)
      <3>1. consumer.ev # Event("inventory.stock_released", s)
        BY <2>1, <2>2 DEF ReleaseUnderWay, Event
      <3>2. \/ reservation[s] = "HELD" /\ \E c \in cmdbox : Release(c, s)
            \/ Event("inventory.stock_released", s) \in inbox
        BY <2>1, <2>2 DEF ReleaseUnderWay
      <3> QED
        BY <2>1, <3>1, <3>2
    <2> QED
      BY <1>5, <1>6, <2>1, <2>2
  <1>11. ASSUME NEW s \in Sagas, RecoverStuckSaga(s) PROVE ReleaseUnderWay'
    <2>1. /\ consumer = Idle /\ consumer' = Idle /\ UNCHANGED inbox
          /\ cmdbox \subseteq cmdbox' /\ consumer.at \notin {"http", "publish"}
          /\ \A c \in commands' : c \in commands \/ c.type # "inventory.release_stock"
      BY <1>11 DEF RecoverStuckSaga, Stuck, PublishCommands, RECOVERABLE_STEPS, Idle
    <2>2. Asked
      BY <2>1 DEF ReleaseUnderWay
    <2> QED
      BY <1>5, <1>7, <2>1, <2>2
  <1>12. ASSUME NEW e \in events, Redeliver(e) PROVE ReleaseUnderWay'
    <2>1. UNCHANGED <<commands, cmdbox, consumer>> /\ inbox \subseteq inbox'
      BY <1>12 DEF Redeliver
    <2>2. Marked /\ \A s \in Sagas : status[s] = "COMPENSATING" => Moving(s)
      BY <2>1 DEF ReleaseUnderWay
    <2> QED
      BY <1>5, <1>6, <2>1, <2>2
  <1> QED
    BY <1>2, <1>8, <1>9, <1>10, <1>11, <1>12 DEF Handling

\* In the beginning there is nothing to settle.
LEMMA SettlementInit == Init => SettlementInv
  BY DEF Init, OrchInit, SettlementInv, PaymentOrigins, OneOutcome, ReleaseUnderWay,
         ReserveOnce, CancelledIsSettled, OrderSagas, Arrived, Waits, PaymentIsLost, Idle,
         Reserving, ReserveIsPending

\* As long as no mishap of a kind happens, none happened before, and the actions
\* that are such mishaps are not taken.
LEMMA Spared ==
    ASSUME IInv, NothingFailed, Next, Never({"outage"})', NEW k \in Kinds, faults'[k] = 0
    PROVE  /\ faults[k] = 0 /\ ~Spend(k) /\ Never({"outage"})
           /\ k = "crash" => ~Crash
           /\ ~Retry /\ ~DeadLetter
           /\ \A j \in Jobs : ~CompensationJob(j) /\ ~CompensationThrows(j)
  <1>1. TypeOK /\ faults \in [Kinds -> Nat] /\ "outage" \in Kinds
    BY DEF IInv, TypeOK, OrchTypeOK, Kinds
  <1>2. faults[k] = 0 /\ ~Spend(k)
    BY <1>1, FaultsGrow, Spending
  <1>3. Never({"outage"})
    BY <1>1, FaultsGrow DEF Never
  <1> QED
    BY <1>2, <1>3, FailureStep DEF Crash

\* The settlement is kept by every step.
LEMMA SettlementNext ==
    ASSUME IInv, HistoryInv, SettlementInv, [Next]_vars
    PROVE  SettlementInv'
  <1>1. CASE UNCHANGED vars
    <2>1. /\ PaymentOrigins' <=> PaymentOrigins
          /\ OneOutcome' <=> OneOutcome
          /\ OneSaga' <=> OneSaga
      BY <1>1 DEF vars, PaymentOrigins, OneOutcome, OneSaga, OrderSagas, Arrived, Release, Paid
    <2>2. ReleaseUnderWay' <=> ReleaseUnderWay
      BY <1>1 DEF vars, ReleaseUnderWay, PaymentIsLost, OrderSagas, Release, Event
    <2>3. /\ ReserveOnce' <=> ReserveOnce
          /\ CancelledIsSettled' <=> CancelledIsSettled
      BY <1>1 DEF vars, ReserveOnce, CancelledIsSettled, ReserveIsPending, Reserving, Arrived,
         Waits, OrderSagas
    <2>4. UNCHANGED faults
      BY <1>1 DEF vars
    <2> QED
      BY <2>1, <2>2, <2>3, <2>4 DEF SettlementInv, Never
  <1>2. CASE Next
    <2>0. /\ TypeOK /\ OrchTypeOK /\ SagaLife /\ NothingFailed /\ Origins /\ PaymentOrigins
          /\ "outage" \in Kinds /\ "crash" \in Kinds /\ "drop" \in Kinds /\ "late" \in Kinds
          /\ "slow" \in Kinds
      BY DEF IInv, TypeOK, HistoryInv, SettlementInv, Kinds
    <2>1. (OrchNext /\ UNCHANGED partyVars) \/ PartyStep
      BY <1>2 DEF Next, Orchestrate, PartyStep
    <2>2. PaymentOrigins'
      BY <2>0, <2>1, OrchPaymentOrigins, PartyPaymentOrigins
    <2>3. OneSaga' => OneSaga
      BY <2>0, <2>1, OneBefore, PartyFrame DEF OneSaga, OrderSagas
    <2>4. ASSUME Never({"late", "drop"})' PROVE Never({"late", "drop"}) /\ OneOutcome'
      <3>1. Never({"late", "drop"})
        BY <1>2, <2>0, <2>4, FaultsGrow DEF Never
      <3>2. OneOutcome
        BY <3>1 DEF SettlementInv
      <3> QED
        BY <2>0, <2>1, <2>4, <3>1, <3>2, OrchOneOutcome, PartyOneOutcome
    <2>5. ASSUME Never({"outage", "crash", "drop", "late"})', OneSaga' PROVE ReleaseUnderWay'
      <3>1. /\ Never({"late", "drop"})' /\ Never({"outage"})'
            /\ faults'["crash"] = 0 /\ faults'["drop"] = 0
        BY <2>5 DEF Never
      <3>2. /\ ~Crash /\ ~Spend("drop") /\ ~Retry /\ ~DeadLetter
            /\ \A j \in Jobs : ~CompensationJob(j) /\ ~CompensationThrows(j)
            /\ faults["crash"] = 0 /\ faults["drop"] = 0 /\ Never({"outage"})
        BY <1>2, <2>0, <3>1, Spared
      <3>3. Never({"late", "drop"})
        BY <2>4, <3>1
      <3>4. OneSaga /\ OneOutcome /\ ReleaseUnderWay
        BY <2>3, <2>5, <3>2, <3>3 DEF SettlementInv, Never
      <3>5. CASE OrchNext /\ UNCHANGED partyVars
        BY <2>0, <2>5, <3>2, <3>4, <3>5, WriteReleaseUnderWay, InsertReleaseUnderWay,
           RestReleaseUnderWay
      <3>6. CASE PartyStep
        BY <2>0, <3>2, <3>4, <3>6, PartyReleaseUnderWay
      <3> QED
        BY <2>1, <3>5, <3>6
    <2>6. ASSUME Never({"outage", "slow"})', OneSaga' PROVE ReserveOnce' /\ CancelledIsSettled'
      <3>1. Never({"outage"})' /\ faults'["slow"] = 0
        BY <2>6 DEF Never
      <3>2. /\ ~Spend("slow") /\ ~Retry /\ ~DeadLetter
            /\ \A j \in Jobs : ~CompensationJob(j) /\ ~CompensationThrows(j)
            /\ faults["slow"] = 0 /\ Never({"outage"})
        BY <1>2, <2>0, <3>1, Spared
      <3>3. OneSaga /\ ReserveOnce /\ CancelledIsSettled
        BY <2>3, <2>6, <3>2 DEF SettlementInv, Never
      <3>4. CASE OrchNext /\ UNCHANGED partyVars
        BY <2>0, <2>6, <3>2, <3>3, <3>4, WriteReserveOnce, InsertReserveOnce, RestReserveOnce
      <3>5. CASE PartyStep
        BY <2>0, <3>3, <3>5, PartyReserveOnce
      <3> QED
        BY <2>1, <3>4, <3>5
    <2> QED
      BY <2>2, <2>4, <2>5, <2>6 DEF SettlementInv, Never
  <1> QED
    BY <1>1, <1>2

\* In every behaviour: a refund saga is one of a paid order; the payment has one
\* outcome; while there is one order saga, its stock is asked for once at a
\* time, and its release is under way once it compensates.
THEOREM Settlement == Spec => []SettlementInv
  <1>1. IInv /\ HistoryInv /\ SettlementInv /\ [Next]_vars => SettlementInv'
    BY SettlementNext
  <1> QED
    BY <1>1, SettlementInit, Invariance, History, PTL DEF Spec

\* A saga that onInventoryInsufficient or onStockReleased cancelled holds no
\* stock, whatever is lost, repeated, late or restarted, as long as the recovery
\* cron does not overtake a command and order.created starts one saga.
THEOREM CancelledReturnsStock == Spec => []CancelledHoldsNoStock
  <1>1. ASSUME IInv, HistoryInv, SettlementInv PROVE CancelledHoldsNoStock
    <2> SUFFICES ASSUME Never({"outage", "slow"}), OneSaga, NEW s \in Sagas,
                        status[s] = "COMPENSATED", reservation[s] = "HELD"
                 PROVE  FALSE
      BY DEF CancelledHoldsNoStock
    <2>1. CancelledIsSettled
      BY <1>1 DEF SettlementInv
    <2>2. s \in OrderSagas
      BY <1>1 DEF HistoryInv, Origins
    <2> QED
      BY <2>1, <2>2 DEF CancelledIsSettled, Settled
  <1> QED
    BY <1>1, Invariance, History, Settlement, PTL

\* onPaymentFailed and onPaymentTimeout leave a saga COMPENSATING that somebody
\* moves on: the handler about to publish release_stock, inventory-service with
\* the command and the stock still held, or stock_released about to be handled.
THEOREM CompensationMovesOn == Spec => []CompensationUnderWay
  <1>1. ASSUME SettlementInv PROVE CompensationUnderWay
    <2> SUFFICES ASSUME Never({"outage", "crash", "drop", "late"}), OneSaga,
                        NEW s \in Sagas, status[s] = "COMPENSATING"
                 PROVE  \/ /\ consumer # Idle /\ consumer.saga = s
                           /\ consumer.at \in {"http", "publish"}
                        \/ \E c \in cmdbox : Release(c, s)
                        \/ Event("inventory.stock_released", s) \in inbox
      BY DEF CompensationUnderWay
    <2>1. ReleaseUnderWay
      BY <1>1 DEF SettlementInv
    <2> QED
      BY <2>1 DEF ReleaseUnderWay
  <1> QED
    BY <1>1, Settlement, PTL
=============================================================================
