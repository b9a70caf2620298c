------------------------------ MODULE Inventory ------------------------------
(***************************************************************************)
(* inventory-service: the Kafka workers of its three topics, the Redlock   *)
(* around reserveStock, the counters of one product, the reservations, the *)
(* processed_event table and the outbox.  A worker runs its handler in the *)
(* stages of the source, one per awaited call; a database transaction      *)
(* takes effect when it commits, under READ COMMITTED.                     *)
(*                                                                         *)
(* One product is followed: nothing in the service relates two products.   *)
(***************************************************************************)
EXTENDS Integers, Sequences, FiniteSets

CONSTANTS
    Sagas, Commands,
    Workers,       \* Kafka consumers of the service
    Topic,         \* the topic each of them is subscribed to
    Quantity,      \* what each saga orders
    InitialStock,  \* the seeded stock of the product
    Budgets,       \* bounds on the mishaps of a behaviour: each keeps within one
    NoCommand, NoWorker

VARIABLES
    reservation, processed, outbox,
    totalStock, available, reserved,  \* the counters of inventory_item
    lock,    \* the worker whose Redlock is alive in Redis
    worker,  \* stage, command and item as read, of each worker
    sent,    \* commands published by the orchestrator
    queue,   \* commands whose offset is not committed
    faults   \* mishaps spent so far, by kind

tables == <<reservation, processed, outbox>>
counters == <<totalStock, available, reserved>>
broker == <<sent, queue>>
vars == <<reservation, processed, outbox, totalStock, available, reserved, lock, worker,
          sent, queue, faults>>

\* The settlements under way: their transactions have found a HELD reservation.
Decided == {worker[w].cmd : w \in {v \in Workers : worker[v].at = "settle"}}

\* To the orchestrator the service is its reservations, the commands it has
\* processed, the replies it has queued and the settlements under way.
Promise == INSTANCE Reservations
            WITH Sagas <- Sagas, Commands <- Commands, reservation <- reservation,
                 processed <- processed, outbox <- outbox, decided <- Decided

\* "busy": the lock stayed taken for all retries; "again": a cron publishes a
\* command once more although an earlier one is under way or answered.
Kinds == {"outage", "crash", "stall", "redeliver", "busy", "again"}
Stages == {"idle", "check", "lock", "read", "mark", "reply", "commit", "unlock",
           "find", "settle", "ack"}
\* The stages between the acquisition of the lock and its release.
Section == {"read", "mark", "reply", "commit", "unlock"}

ASSUME CommandsAssumption == Promise!CommandsOK
ASSUME TopicAssumption == Topic \in [Workers -> Promise!CommandTypes]
ASSUME QuantityAssumption == Quantity \in [Sagas -> Nat \ {0}] /\ InitialStock \in Nat
ASSUME InventoryBudgetsAssumption == Budgets \subseteq [Kinds -> Nat]
ASSUME NobodyAssumption == NoCommand \notin Commands /\ NoWorker \notin Workers

TypeOK ==
    /\ reservation \in [Sagas -> Promise!ReservationStatus]
    /\ processed \subseteq Commands
    /\ outbox \in [Commands -> Seq(Promise!Replies)]
    /\ totalStock \in Int /\ available \in Int /\ reserved \in Int
    /\ lock \in Workers \union {NoWorker}
    /\ worker \in [Workers -> [at : Stages, cmd : Commands \union {NoCommand},
                               available : Int, reserved : Int]]
    /\ queue \subseteq sent /\ sent \subseteq Commands
    /\ faults \in [Kinds -> Nat]

IdleWorker == [at |-> "idle", cmd |-> NoCommand, available |-> 0, reserved |-> 0]

Init ==
    /\ worker = [w \in Workers |-> IdleWorker]
    /\ Promise!Init
    /\ totalStock = InitialStock /\ available = InitialStock /\ reserved = 0
    /\ lock = NoWorker
    /\ sent = {} /\ queue = {}
    /\ faults = [k \in Kinds |-> 0]

Spend(k) ==
    /\ faults' = [faults EXCEPT ![k] = @ + 1]
    /\ \E b \in Budgets : \A l \in Kinds : faults'[l] <= b[l]
Goto(w, stage) == worker' = [worker EXCEPT ![w].at = stage]
Working(c) == \E w \in Workers : worker[w].cmd = c

-----------------------------------------------------------------------------
(* The orchestrator: it reserves first and settles once it has heard of    *)
(* the reservation; its crons publish a command again with a new eventId.  *)
(* Confirm and release of one saga are both sent when the payment          *)
(* completes around its deadline.                                          *)

\* An earlier copy of the command has been consumed without an answer.
Lost(c) == \A d \in sent : d.saga = c.saga /\ d.type = c.type =>
              d \notin queue /\ outbox[d] = <<>>

Send(c) ==
    /\ c \notin sent
    /\ c.copy > 1 => [c EXCEPT !.copy = @ - 1] \in sent
    /\ c.type # "reserve_stock" =>
         \E d \in sent : d.saga = c.saga /\ Promise!Answered(d, "stock_reserved")
    /\ sent' = sent \union {c} /\ queue' = queue \union {c}
    /\ IF c.copy > 1 /\ ~Lost(c) THEN Spend("again") ELSE UNCHANGED faults
    /\ UNCHANGED <<tables, counters, lock, worker>>

\* The recovery cron, on a saga that still waits for its reservation.
Recover(s) == \E c \in Commands :
    c.saga = s /\ c.type = "reserve_stock" /\ c.copy > 1 /\ Lost(c) /\ Send(c)

-----------------------------------------------------------------------------
(* Kafka: the messages of an order share a partition, so the commands of   *)
(* one saga and topic are worked on one at a time.                         *)

Receive(w, c) ==
    /\ worker[w].at = "idle"
    /\ c \in queue /\ c.type = Topic[w]
    /\ \A d \in queue : d.type = c.type /\ d.saga = c.saga => ~Working(d)
    /\ worker' = [worker EXCEPT ![w].at = "check", ![w].cmd = c]
    /\ UNCHANGED <<tables, counters, lock, broker, faults>>

\* commitOffsets, once the handler resolved.
Ack(w) ==
    /\ worker[w].at = "ack"
    /\ queue' = queue \ {worker[w].cmd}
    /\ worker' = [worker EXCEPT ![w] = IdleWorker]
    /\ UNCHANGED <<tables, counters, lock, sent, faults>>

\* The handler threw: the commit is skipped, and the consumer goes on with
\* the next message, whose commit passes this one.
SkipMessage(w) ==
    /\ queue' = queue \ {worker[w].cmd}
    /\ worker' = [worker EXCEPT ![w] = IdleWorker]
    /\ UNCHANGED <<tables, counters, sent>>
\* The finally clause: the lock is released if it is still alive.
ReleaseLock(w) == lock' = IF lock = w THEN NoWorker ELSE lock

-----------------------------------------------------------------------------
(* reserveStock                                                            *)

\* Mutant: duplicates are recognised by their saga.
CheckDuplicateBySaga(w) ==
    /\ worker[w].at = "check"
    /\ Goto(w, IF \E c \in processed : c.type = Topic[w] /\ c.saga = worker[w].cmd.saga
               THEN "ack" ELSE IF Topic[w] = "reserve_stock" THEN "lock" ELSE "find")
    /\ UNCHANGED <<tables, counters, lock, broker, faults>>

\* isDuplicate, the first call of every handler.
CheckDuplicate(w) ==
    /\ worker[w].at = "check"
    /\ Goto(w, IF worker[w].cmd \in processed THEN "ack"
               ELSE IF Topic[w] = "reserve_stock" THEN "lock" ELSE "find")
    /\ UNCHANGED <<tables, counters, lock, broker, faults>>

\* Mutant: the lock is not waited for.
AcquireLockAnyway(w) ==
    /\ worker[w].at = "lock"
    /\ lock' = w
    /\ Goto(w, "read")
    /\ UNCHANGED <<tables, counters, broker, faults>>

AcquireLock(w) ==
    /\ worker[w].at = "lock" /\ lock = NoWorker
    /\ lock' = w
    /\ Goto(w, "read")
    /\ UNCHANGED <<tables, counters, broker, faults>>

\* Five retries take less than the five seconds a lock lives, so that others at
\* work, or a dead owner, may outlast them: acquire throws.
LockBusy(w) ==
    /\ worker[w].at = "lock" /\ lock # NoWorker
    /\ Spend("busy")
    /\ SkipMessage(w) /\ UNCHANGED lock

ReadItem(w) ==
    /\ worker[w].at = "read"
    /\ worker' = [worker EXCEPT
         ![w].at = IF available < Quantity[worker[w].cmd.saga] THEN "mark" ELSE "commit",
         ![w].available = available, ![w].reserved = reserved]
    /\ UNCHANGED <<tables, counters, lock, broker, faults>>

MarkProcessed(w) ==
    /\ worker[w].at = "mark"
    /\ processed' = processed \union {worker[w].cmd}
    /\ Goto(w, "reply")
    /\ UNCHANGED <<reservation, outbox, counters, lock, broker, faults>>

QueueRefusal(w) ==
    /\ worker[w].at = "reply"
    /\ Promise!Reply(worker[w].cmd, "stock_insufficient")
    /\ Goto(w, "unlock")
    /\ UNCHANGED <<reservation, processed, counters, lock, broker, faults>>

\* Mutant: the reserved counter is forgotten.
SetAsideForgets(w, q) == /\ available' = worker[w].available - q
                         /\ reserved' = worker[w].reserved

\* The transaction writes the values computed from the item as it was read.
SetAside(w, q) == /\ available' = worker[w].available - q
                  /\ reserved' = worker[w].reserved + q
\* UNIQUE(sagaId, productId) and the unique eventId make it roll back.
Conflict(w) == reservation[worker[w].cmd.saga] # "none" \/ worker[w].cmd \in processed

CommitReserve(w) ==
    LET c == worker[w].cmd
    IN /\ worker[w].at = "commit" /\ ~Conflict(w)
       /\ SetAside(w, Quantity[c.saga])
       /\ reservation' = [reservation EXCEPT ![c.saga] = "HELD"]
       /\ processed' = processed \union {c}
       /\ Promise!Reply(c, "stock_reserved")
       /\ Goto(w, "unlock")
       /\ UNCHANGED <<totalStock, lock, broker, faults>>

RollBack(w) ==
    /\ worker[w].at = "commit" /\ Conflict(w)
    /\ SkipMessage(w) /\ ReleaseLock(w) /\ UNCHANGED faults

\* Releasing a lock that expired throws.
Unlock(w) ==
    /\ worker[w].at = "unlock"
    /\ ReleaseLock(w)
    /\ IF lock = w
       THEN Goto(w, "ack") /\ UNCHANGED <<tables, counters, broker>>
       ELSE SkipMessage(w)
    /\ UNCHANGED faults

-----------------------------------------------------------------------------
(* confirmStock and releaseStock                                           *)

\* Mutant: the reservation is looked up by its saga alone.
FindReservationAnyStatus(w) ==
    /\ worker[w].at = "find"
    /\ Goto(w, IF reservation[worker[w].cmd.saga] # "none" THEN "settle" ELSE "ack")
    /\ UNCHANGED <<tables, counters, lock, broker, faults>>

\* Without a HELD reservation the transaction does nothing.
FindReservation(w) ==
    /\ worker[w].at = "find"
    /\ Goto(w, IF reservation[worker[w].cmd.saga] = "HELD" THEN "settle" ELSE "ack")
    /\ UNCHANGED <<tables, counters, lock, broker, faults>>

Commit(w, type, new, reply) ==
    LET c == worker[w].cmd
    IN /\ worker[w].at = "settle" /\ c.type = type
       /\ c \notin processed
       /\ reservation' = [reservation EXCEPT ![c.saga] = new]
       /\ processed' = processed \union {c}
       /\ Promise!Reply(c, reply)
       /\ Goto(w, "ack")
       /\ UNCHANGED <<lock, broker, faults>>

\* The reservation is updated by its id and the counters relatively, whatever
\* the reservation has become meanwhile.
ConfirmStock(w) ==
    /\ Commit(w, "confirm_stock", "CONFIRMED", "stock_confirmed")
    /\ LET q == Quantity[worker[w].cmd.saga]
       IN reserved' = reserved - q /\ totalStock' = totalStock - q
    /\ UNCHANGED available

ReleaseStock(w) ==
    /\ Commit(w, "release_stock", "RELEASED", "stock_released")
    /\ LET q == Quantity[worker[w].cmd.saga]
       IN available' = available + q /\ reserved' = reserved - q
    /\ UNCHANGED totalStock

-----------------------------------------------------------------------------
(* Faults                                                                  *)

\* The database fails a call of the handler.
Throw(w) ==
    /\ worker[w].at \in Stages \ {"idle", "lock", "unlock", "ack"}
    /\ Spend("outage")
    /\ SkipMessage(w) /\ ReleaseLock(w)

\* The process restarts: what was not committed comes back, the lock stays in
\* Redis.
Crash ==
    /\ \E w \in Workers : worker[w].at # "idle"
    /\ Spend("crash")
    /\ worker' = [w \in Workers |-> IdleWorker]
    /\ UNCHANGED <<tables, counters, lock, broker>>

\* The lock's five seconds are over: its owner died, or stalls.
Expire ==
    /\ lock # NoWorker
    /\ IF worker[lock].at \in Section THEN Spend("stall") ELSE UNCHANGED faults
    /\ lock' = NoWorker
    /\ UNCHANGED <<tables, counters, worker, broker>>

\* A message is delivered again, after a rebalance or a restart.
Redeliver(c) ==
    /\ c \in sent \ queue
    /\ Spend("redeliver")
    /\ queue' = queue \union {c}
    /\ UNCHANGED <<tables, counters, lock, worker, sent>>

Work(w) ==
    \/ \E c \in queue : Receive(w, c)
    \/ Ack(w) \/ CheckDuplicate(w) \/ AcquireLock(w) \/ LockBusy(w) \/ ReadItem(w)
    \/ MarkProcessed(w) \/ QueueRefusal(w) \/ CommitReserve(w) \/ RollBack(w) \/ Unlock(w)
    \/ FindReservation(w) \/ ConfirmStock(w) \/ ReleaseStock(w)

Next ==
    \/ \E c \in Commands : Send(c)
    \/ \E w \in Workers : Work(w) \/ Throw(w)
    \/ Crash \/ Expire \/ \E c \in sent : Redeliver(c)

Spec == Init /\ [][Next]_vars

\* Consumers keep consuming, Redis expires keys and the recovery cron ticks; the
\* orchestrator owes nothing else.
FairSpec == /\ Spec
            /\ \A w \in Workers : WF_vars(Work(w))
            /\ WF_vars(Expire)
            /\ \A s \in Sagas : WF_vars(Recover(s))

-----------------------------------------------------------------------------
(* What holds                                                              *)

\* The pieces that a set of sagas orders.
Pieces(S) == UNION {{s} \X (1..Quantity[s]) : s \in S}
Stock(S) == Cardinality(Pieces(S))

Held == {s \in Sagas : reservation[s] = "HELD"}
Shipped == {s \in Sagas : Promise!Told(s, "stock_confirmed")}
Returned == {s \in Sagas : Promise!Told(s, "stock_released")}
\* A confirmation and a release that overlapped have both taken effect.
Twice == Shipped \intersect Returned

\* As long as no worker stalls longer than its lock lives, the service promises
\* and ships no more than there was, but for the pieces of sagas whose
\* overlapping settlements gave them back as well: lost counter updates only
\* ever make it promise less, and a settlement race costs nothing beyond the
\* saga's own order.
NoOversell ==
    faults["stall"] = 0 => Stock(Held \union Shipped) <= InitialStock + Stock(Twice)

\* The counter of reserved stock then covers every reservation that is held, so
\* that a settlement does not drive it below zero, but for the orders of the
\* sagas settled both ways, whose pieces were subtracted a second time.
ReservedCoversHeld == faults["stall"] = 0 => Stock(Held) <= reserved + Stock(Twice)

\* Every saga that asks for a reservation is answered, with a reservation or a
\* refusal: whatever loses the reply, a busy lock, a restart, a database that
\* fails or a lock that expires, the recovery cron asks again under another
\* eventId.
Asks(s) == {c \in Commands : c.saga = s /\ c.type = "reserve_stock"}
ReserveIsAnswered == \A s \in Sagas :
    Asks(s) \intersect sent # {} ~> \E c \in Asks(s) : outbox[c] # <<>>

\* To the orchestrator the service is what Reservations promises: every step of
\* its workers, under every mishap, is one of those steps or none.
Implements == Promise!Spec

\* No command is answered twice, by the same reply or by different ones, however
\* often it is delivered (isDuplicate, the unique eventId).
OneReply == Promise!OneReply

\* "Double reserve" cannot happen: of all commands published for a saga, at most
\* one is answered stock_reserved, and only with a reservation behind it.
ReservedOnce == Promise!ReservedOnce

\* What the orchestrator was told of a settlement is what happened, once.
SettledAsAnswered == Promise!SettledAsAnswered

-----------------------------------------------------------------------------
(* Why it keeps that promise: what a worker found out about its own command *)
(* is still right when it commits.                                         *)

\* Two workers never work on the same kind of command of the same saga, and a
\* worker's command is not committed by anybody else.
WorkersApart ==
    \A v, w \in Workers :
        worker[v].at # "idle" =>
            /\ worker[v].cmd \in queue /\ worker[v].cmd.type = Topic[v]
            /\ worker[w].at # "idle" /\ v # w /\ Topic[v] = Topic[w]
                 => worker[v].cmd.saga # worker[w].cmd.saga

\* What a worker found out on its way still holds.
Stands(w) ==
    LET c == worker[w].cmd
    IN /\ worker[w].at \in {"lock", "read", "mark", "commit", "find", "settle"}
            => c \notin processed
       /\ worker[w].at \in Section \union {"lock"} => c.type = "reserve_stock"
       /\ worker[w].at \in {"find", "settle"} => c.type # "reserve_stock"
       /\ worker[w].at = "reply" => c \in processed /\ outbox[c] = <<>>
DecisionsStand == \A w \in Workers : Stands(w)

IdleHasNoCommand == \A w \in Workers : (worker[w].at = "idle") <=> (worker[w].cmd = NoCommand)

RepliedIsProcessed == \A c \in Commands : outbox[c] # <<>> => c \in processed

\* A worker between the acquisition of the lock and its release has it.
LockedOut == \A w \in Workers : worker[w].at \in Section => lock = w

\* The stock that can still be promised is on top of what is promised, and what
\* a worker is about to write from the item it has read promises no more than
\* the item as it is now.
Accounted ==
    /\ available >= 0
    /\ available + Stock(Held \union Shipped) <= InitialStock + Stock(Twice)
    /\ Stock(Held) <= reserved + Stock(Twice)
    /\ \A w \in Workers :
         worker[w].at = "commit" =>
            /\ Quantity[worker[w].cmd.saga] <= worker[w].available
            /\ worker[w].available <= available
            /\ reserved <= worker[w].reserved

StockInv == /\ IsFiniteSet(Pieces(Held \union Shipped))
            /\ faults["stall"] = 0 => LockedOut /\ Accounted

IInv == /\ TypeOK /\ WorkersApart /\ DecisionsStand
        /\ IdleHasNoCommand /\ RepliedIsProcessed

=============================================================================
