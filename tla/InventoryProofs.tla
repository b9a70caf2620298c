---------------------------- MODULE InventoryProofs ----------------------------
(***************************************************************************)
(* inventory-service keeps the promise Reservations states, under every    *)
(* mishap the model has, for any number of workers, sagas and commands     *)
(* published again, whichever settlements of a saga are asked for; and     *)
(* what it promises is never more than its stock, but for the sagas        *)
(* settled both ways.                                                      *)
(***************************************************************************)
EXTENDS Inventory, FiniteSetTheorems, TLAPS

\* The fields of a worker that is at work, and what a step may write.
LEMMA Typed ==
    ASSUME IInv
    PROVE  /\ \A s \in Sagas : Quantity[s] \in Int
           /\ \A w \in Workers :
                /\ worker[w].available \in Int /\ worker[w].reserved \in Int
                /\ worker[w].at \in Stages
                /\ worker[w].at # "idle" => /\ worker[w].cmd \in Commands
                                           /\ worker[w].cmd \in sent
                                           /\ worker[w].cmd.type = Topic[w]
           /\ \A c \in Commands : c.saga \in Sagas /\ c.type \in Promise!CommandTypes
  BY CommandsAssumption, QuantityAssumption
  DEF IInv, TypeOK, IdleHasNoCommand, WorkersApart, Promise!CommandsOK

\* Rewriting fields of a worker's record leaves it such a record.
LEMMA Fields ==
    ASSUME NEW S, NEW C, NEW r \in [at : S, cmd : C, available : Int, reserved : Int],
           NEW g \in S, NEW c \in C, NEW a \in Int, NEW b \in Int
    PROVE  /\ [r EXCEPT !.at = g, !.cmd = c]
                \in [at : S, cmd : C, available : Int, reserved : Int]
           /\ [r EXCEPT !.at = g, !.available = a, !.reserved = b]
                \in [at : S, cmd : C, available : Int, reserved : Int]
  OBVIOUS

\* Every step of the service, the broker and the orchestrator writes values of
\* their types.
LEMMA TypeStep == ASSUME IInv, [Next]_vars PROVE TypeOK'
  <1> USE CommandsAssumption, TopicAssumption, QuantityAssumption, NobodyAssumption,
          InventoryBudgetsAssumption, Typed
  <1> DEFINE Records == [at : Stages, cmd : Commands \union {NoCommand},
                         available : Int, reserved : Int]
  <1>1. TypeOK BY DEF IInv
  <1>2. \A k \in Kinds : Spend(k) => faults' \in [Kinds -> Nat]
    BY <1>1 DEF TypeOK, Spend
  <1>3. \A w \in Workers, g \in Stages : Goto(w, g) => worker' \in [Workers -> Records]
    <2>1. worker \in [Workers -> Records]
      BY <1>1 DEF TypeOK
    <2>2. \A w \in Workers, g \in Stages : [worker[w] EXCEPT !.at = g] \in Records
      BY <2>1
    <2> HIDE DEF Records
    <2> QED
      BY <2>1, <2>2 DEF Goto
  <1>4. \A c \in Commands, r \in Promise!Replies : Promise!Reply(c, r) =>
          outbox' \in [Commands -> Seq(Promise!Replies)]
    BY <1>1 DEF TypeOK, Promise!Reply
  <1>5. IdleWorker \in Records
    BY DEF IdleWorker, Stages
  <1>6. ASSUME NEW w \in Workers, SkipMessage(w),
               lock' \in Workers \union {NoWorker}, faults' \in [Kinds -> Nat]
        PROVE  TypeOK'
    BY <1>1, <1>5, <1>6 DEF SkipMessage, TypeOK, tables, counters
  <1>7. \A w \in Workers : ReleaseLock(w) => lock' \in Workers \union {NoWorker}
    BY <1>1 DEF ReleaseLock, TypeOK
  <1> HIDE DEF Records
  <1> USE <1>1 DEF TypeOK, tables, counters, broker
  <1>8. ASSUME NEW c \in Commands, Send(c) PROVE TypeOK'
    <2>1. faults' \in [Kinds -> Nat]
      BY <1>1, <1>2, <1>8 DEF Send, Kinds, TypeOK
    <2> QED
      BY <1>1, <1>8, <2>1 DEF Send, TypeOK
  <1>9. ASSUME NEW w \in Workers, NEW c \in queue, Receive(w, c) PROVE TypeOK'
    <2>1. worker' \in [Workers -> Records]
      <3>1. c \in Commands /\ worker \in [Workers -> Records]
        BY DEF Records
      <3>2. [worker[w] EXCEPT !.at = "check", !.cmd = c] \in Records
        <4>1. worker[w] \in Records /\ "check" \in Stages
          BY <3>1 DEF Stages
        <4> QED
          BY <3>1, <4>1, Fields DEF Records
      <3>3. worker' = [worker EXCEPT ![w] = [worker[w] EXCEPT !.at = "check", !.cmd = c]]
        BY <1>9, <3>1 DEF Receive
      <3> QED
        BY <3>1, <3>2, <3>3
    <2> QED
      BY <1>9, <2>1 DEF Receive, Records
  <1>10. ASSUME NEW w \in Workers, Ack(w) PROVE TypeOK'
    BY <1>5, <1>10 DEF Ack, Records
  <1>11. ASSUME NEW w \in Workers, NEW g \in Stages, Goto(w, g),
                UNCHANGED <<tables, counters, broker, faults>>,
                lock' \in Workers \union {NoWorker}
         PROVE  TypeOK'
    BY <1>3, <1>11 DEF Records
  <1>12. ASSUME NEW w \in Workers, CheckDuplicate(w) PROVE TypeOK'
    BY <1>11, <1>12 DEF CheckDuplicate, Stages
  <1>13. ASSUME NEW w \in Workers, AcquireLock(w) PROVE TypeOK'
    BY <1>11, <1>13 DEF AcquireLock, Stages
  <1>14. ASSUME NEW w \in Workers, LockBusy(w) PROVE TypeOK'
    BY <1>2, <1>6, <1>14 DEF LockBusy, Kinds
  <1>15. ASSUME NEW w \in Workers, ReadItem(w) PROVE TypeOK'
    <2>1. worker' \in [Workers -> Records]
      <3>1. worker \in [Workers -> Records] /\ available \in Int /\ reserved \in Int
        BY DEF Records
      <3>2. \A g \in Stages :
              [worker[w] EXCEPT !.at = g, !.available = available, !.reserved = reserved]
                \in Records
        <4>1. worker[w] \in Records
          BY <3>1
        <4> QED
          BY <3>1, <4>1, Fields DEF Records
      <3>3. PICK g \in {"mark", "commit"} : worker' = [worker EXCEPT ![w] =
              [worker[w] EXCEPT !.at = g, !.available = available, !.reserved = reserved]]
        BY <1>15, <3>1 DEF ReadItem
      <3> QED
        BY <3>1, <3>2, <3>3 DEF Stages
    <2> QED
      BY <1>15, <2>1 DEF ReadItem, Records
  <1>16. ASSUME NEW w \in Workers, MarkProcessed(w) PROVE TypeOK'
    <2>1. worker' \in [Workers -> Records]
      BY <1>3, <1>16 DEF MarkProcessed, Stages
    <2> QED
      BY <1>16, <2>1 DEF MarkProcessed, Records
  <1>17. ASSUME NEW w \in Workers, QueueRefusal(w) PROVE TypeOK'
    <2>1. worker' \in [Workers -> Records]
      BY <1>3, <1>17 DEF QueueRefusal, Stages
    <2>2. outbox' \in [Commands -> Seq(Promise!Replies)]
      BY <1>4, <1>17 DEF QueueRefusal, Promise!Replies
    <2> QED
      BY <1>17, <2>1, <2>2 DEF QueueRefusal, Records
  <1>18. ASSUME NEW w \in Workers, CommitReserve(w) PROVE TypeOK'
    <2>1. worker' \in [Workers -> Records]
      BY <1>3, <1>18 DEF CommitReserve, Stages
    <2>2. outbox' \in [Commands -> Seq(Promise!Replies)]
      BY <1>4, <1>18 DEF CommitReserve, Promise!Replies
    <2>3. available' \in Int /\ reserved' \in Int
      BY <1>18 DEF CommitReserve, SetAside
    <2>4. /\ reservation' \in [Sagas -> Promise!ReservationStatus]
          /\ processed' \subseteq Commands
      BY <1>18 DEF CommitReserve, Promise!ReservationStatus
    <2> QED
      BY <1>18, <2>1, <2>2, <2>3, <2>4 DEF CommitReserve, Records
  <1>19. ASSUME NEW w \in Workers, RollBack(w) PROVE TypeOK'
    BY <1>6, <1>7, <1>19 DEF RollBack
  <1>20. ASSUME NEW w \in Workers, Unlock(w) PROVE TypeOK'
    BY <1>6, <1>7, <1>11, <1>20 DEF Unlock, Stages
  <1>21. ASSUME NEW w \in Workers, FindReservation(w) PROVE TypeOK'
    BY <1>11, <1>21 DEF FindReservation, Stages
  <1>22. ASSUME NEW w \in Workers, NEW type,
                NEW new \in Promise!ReservationStatus, NEW reply \in Promise!Replies,
                Commit(w, type, new, reply),
                totalStock' \in Int, available' \in Int, reserved' \in Int
         PROVE  TypeOK'
    <2>1. worker' \in [Workers -> Records]
      BY <1>3, <1>22 DEF Commit, Stages
    <2>2. outbox' \in [Commands -> Seq(Promise!Replies)]
      BY <1>4, <1>22 DEF Commit
    <2>3. /\ reservation' \in [Sagas -> Promise!ReservationStatus]
          /\ processed' \subseteq Commands
      BY <1>22 DEF Commit
    <2> QED
      BY <1>22, <2>1, <2>2, <2>3 DEF Commit, Records
  <1>23. ASSUME NEW w \in Workers, ConfirmStock(w) PROVE TypeOK'
    <2>1. Quantity[worker[w].cmd.saga] \in Int
      BY <1>23 DEF ConfirmStock, Commit
    <2>2. totalStock' \in Int /\ available' \in Int /\ reserved' \in Int
      BY <1>23, <2>1 DEF ConfirmStock
    <2>3. "CONFIRMED" \in Promise!ReservationStatus /\ "stock_confirmed" \in Promise!Replies
      BY DEF Promise!ReservationStatus, Promise!Replies
    <2>4. Commit(w, "confirm_stock", "CONFIRMED", "stock_confirmed")
      BY <1>23 DEF ConfirmStock
    <2> QED
      BY <1>22, <2>2, <2>3, <2>4
  <1>24. ASSUME NEW w \in Workers, ReleaseStock(w) PROVE TypeOK'
    <2>1. Quantity[worker[w].cmd.saga] \in Int
      BY <1>24 DEF ReleaseStock, Commit
    <2>2. totalStock' \in Int /\ available' \in Int /\ reserved' \in Int
      BY <1>24, <2>1 DEF ReleaseStock
    <2>3. "RELEASED" \in Promise!ReservationStatus /\ "stock_released" \in Promise!Replies
      BY DEF Promise!ReservationStatus, Promise!Replies
    <2>4. Commit(w, "release_stock", "RELEASED", "stock_released")
      BY <1>24 DEF ReleaseStock
    <2> QED
      BY <1>22, <2>2, <2>3, <2>4
  <1>25. ASSUME NEW w \in Workers, Throw(w) PROVE TypeOK'
    BY <1>2, <1>6, <1>7, <1>25 DEF Throw, Kinds
  <1>26. CASE Crash
    BY <1>2, <1>5, <1>26 DEF Crash, Kinds, Records
  <1>27. CASE Expire
    BY <1>2, <1>27 DEF Expire, Kinds
  <1>28. ASSUME NEW c \in sent, Redeliver(c) PROVE TypeOK'
    BY <1>2, <1>28 DEF Redeliver, Kinds
  <1>29. CASE UNCHANGED vars
    BY <1>29 DEF vars
  <1> QED
    BY <1>8, <1>9, <1>10, <1>12, <1>13, <1>14, <1>15, <1>16, <1>17, <1>18, <1>19, <1>20,
       <1>21, <1>23, <1>24, <1>25, <1>26, <1>27, <1>28, <1>29 DEF Next, Work

\* What a handler's step may do, seen by the others: it moves its own worker
\* on or gives the message up, and writes rows of its own command only.
Own(w) ==
    LET c == worker[w].cmd
    IN /\ worker[w].at # "idle"
       /\ worker' \in [Workers -> [at : Stages, cmd : Commands \union {NoCommand},
                                   available : Int, reserved : Int]]
       /\ \A v \in Workers \ {w} : worker'[v] = worker[v]
       /\ \/ worker'[w] = IdleWorker /\ queue' = queue \ {c}
          \/ worker'[w].at # "idle" /\ worker'[w].cmd = c /\ queue' = queue
       /\ sent' = sent
       /\ processed' \in {processed, processed \union {c}}
       /\ \A d \in Commands \ {c} : outbox'[d] = outbox[d]

\* Every step of a handler is such a step.
LEMMA OwnSteps ==
    ASSUME IInv, NEW w \in Workers,
           Work(w) \/ Throw(w), ~\E c \in queue : Receive(w, c)
    PROVE  Own(w)
  <1>1. TypeOK BY DEF IInv
  <1>2. TypeOK'
    BY TypeStep DEF Next
  <1>3. \A v \in Workers : worker[v].at # "idle" => worker[v].cmd \in Commands
    BY Typed
  <1> USE <1>1, <1>2, <1>3 DEF TypeOK, tables, counters, broker, Own
  <1>4. ASSUME NEW g \in Stages \ {"idle"}, worker[w].at # "idle", Goto(w, g), queue' = queue
        PROVE  /\ \A v \in Workers \ {w} : worker'[v] = worker[v]
               /\ worker'[w].at # "idle" /\ worker'[w].cmd = worker[w].cmd
    BY <1>4 DEF Goto
  <1>5. ASSUME SkipMessage(w)
        PROVE  /\ \A v \in Workers \ {w} : worker'[v] = worker[v]
               /\ worker'[w] = IdleWorker /\ queue' = queue \ {worker[w].cmd}
               /\ UNCHANGED <<sent, tables>>
    BY <1>5 DEF SkipMessage
  <1>6. ASSUME NEW c \in Commands, NEW r, Promise!Reply(c, r)
        PROVE  \A d \in Commands \ {c} : outbox'[d] = outbox[d]
    BY <1>6 DEF Promise!Reply
  <1>8. CASE Ack(w)
    BY <1>8 DEF Ack
  <1>9. CASE CheckDuplicate(w)
    BY <1>4, <1>9 DEF CheckDuplicate, Stages
  <1>10. CASE AcquireLock(w)
    BY <1>4, <1>10 DEF AcquireLock, Stages
  <1>11. CASE LockBusy(w)
    BY <1>5, <1>11 DEF LockBusy
  <1>12. CASE ReadItem(w)
    BY <1>12 DEF ReadItem
  <1>13. CASE MarkProcessed(w)
    BY <1>4, <1>13 DEF MarkProcessed, Stages
  <1>14. CASE QueueRefusal(w)
    BY <1>4, <1>6, <1>14 DEF QueueRefusal, Stages
  <1>15. CASE CommitReserve(w)
    BY <1>4, <1>6, <1>15 DEF CommitReserve, Stages
  <1>16. CASE RollBack(w)
    BY <1>5, <1>16 DEF RollBack
  <1>17. CASE Unlock(w)
    BY <1>4, <1>5, <1>17 DEF Unlock, Stages
  <1>18. CASE FindReservation(w)
    BY <1>4, <1>18 DEF FindReservation, Stages
  <1>19. ASSUME NEW type, NEW new, NEW reply, Commit(w, type, new, reply) PROVE Own(w)
    BY <1>4, <1>6, <1>19 DEF Commit, Stages
  <1>20. CASE ConfirmStock(w) \/ ReleaseStock(w)
    BY <1>19, <1>20 DEF ConfirmStock, ReleaseStock
  <1>21. CASE Throw(w)
    BY <1>5, <1>21 DEF Throw
  <1> QED
    BY <1>8, <1>9, <1>10, <1>11, <1>12, <1>13, <1>14, <1>15, <1>16, <1>17, <1>18, <1>20,
       <1>21 DEF Work

\* A handler's step leaves the workers apart and the other workers' decisions
\* standing: nobody else has its command.
LEMMA OwnKeeps ==
    ASSUME IInv, NEW w \in Workers, Own(w)
    PROVE  /\ WorkersApart' /\ IdleHasNoCommand'
           /\ \A v \in Workers \ {w} : Stands(v)'
  <1> DEFINE c == worker[w].cmd
  <1>1. /\ TypeOK /\ WorkersApart /\ DecisionsStand /\ IdleHasNoCommand
    BY DEF IInv
  <1>2. c \in Commands /\ c \in sent /\ c.type = Topic[w] /\ c # NoCommand
    BY Typed, NobodyAssumption DEF Own
  <1>3. IdleWorker.at = "idle" /\ IdleWorker.cmd = NoCommand
    BY DEF IdleWorker
  <1>5. IdleHasNoCommand'
    BY <1>1, <1>2, <1>3 DEF IdleHasNoCommand, Own
  <1>6. ASSUME NEW v \in Workers \ {w}, worker[v].at # "idle"
        PROVE  /\ worker[v].cmd \in Commands /\ worker[v].cmd \in sent
               /\ worker[v].cmd \in queue /\ worker[v].cmd.type = Topic[v]
               /\ worker[v].cmd # c
               /\ worker[v].cmd.type = c.type => worker[v].cmd.saga # c.saga
    <2>1. worker[v].cmd \in Commands /\ worker[v].cmd \in sent
          /\ worker[v].cmd \in queue /\ worker[v].cmd.type = Topic[v]
      BY <1>1, <1>6, Typed DEF WorkersApart
    <2>2. Topic[v] = Topic[w] => worker[v].cmd.saga # c.saga
      BY <1>1, <1>6 DEF WorkersApart, Own
    <2> QED
      BY <1>2, <2>1, <2>2
  <1>7. WorkersApart'
    <2>1. ASSUME NEW u \in Workers, NEW v \in Workers, worker'[u].at # "idle"
          PROVE  /\ worker'[u].cmd \in queue' /\ worker'[u].cmd.type = Topic[u]
                 /\ worker'[v].at # "idle" /\ u # v /\ Topic[u] = Topic[v]
                      => worker'[u].cmd.saga # worker'[v].cmd.saga
      <3>1. \A x \in Workers : worker'[x].at # "idle" =>
               worker[x].at # "idle" /\ worker'[x].cmd = worker[x].cmd
        BY <1>3 DEF Own
      <3>2. worker'[u].cmd \in queue'
        BY <1>1, <1>3, <1>6, <2>1, <3>1 DEF Own, WorkersApart
      <3> QED
        BY <1>1, <2>1, <3>1, <3>2 DEF WorkersApart
    <2> QED
      BY <2>1 DEF WorkersApart
  <1>8. ASSUME NEW v \in Workers \ {w} PROVE Stands(v)'
    <2>1. worker'[v] = worker[v]
      BY DEF Own
    <2>2. CASE worker[v].at = "idle"
      BY <2>1, <2>2 DEF Stands, Section
    <2>3. CASE worker[v].at # "idle"
      <3> DEFINE d == worker[v].cmd
      <3>1. /\ d \in Commands /\ d \in sent /\ d # c /\ d.saga \in Sagas
            /\ d.type = c.type => d.saga # c.saga
        BY <1>6, <2>3, Typed
      <3>2. /\ d \in processed' <=> d \in processed
            /\ outbox'[d] = outbox[d]
        BY <3>1 DEF Own
      <3> QED
        BY <1>1, <2>1, <3>2 DEF DecisionsStand, Stands
    <2> QED
      BY <2>2, <2>3
  <1> QED
    BY <1>5, <1>7, <1>8

\* A handler's own decision stands after each of its steps: what it checks
\* next is what it has just established.
LEMMA OwnDecision ==
    ASSUME IInv, NEW w \in Workers,
           Work(w) \/ Throw(w), ~\E c \in queue : Receive(w, c)
    PROVE  Stands(w)' /\ RepliedIsProcessed'
  <1> DEFINE c == worker[w].cmd
  <1>1. TypeOK /\ Stands(w) /\ RepliedIsProcessed
    BY DEF IInv, DecisionsStand
  <1>2. Own(w)
    BY OwnSteps
  <1>3. /\ c \in Commands /\ c.type = Topic[w] /\ c.saga \in Sagas
        /\ worker[w].at \in Stages
    BY <1>2, Typed DEF Own
  <1>4. outbox' = outbox \/ c \in processed' => RepliedIsProcessed'
    BY <1>1, <1>2 DEF RepliedIsProcessed, Own
  <1>5. worker'[w] = IdleWorker => Stands(w)'
    BY DEF IdleWorker, Stands, Section
  <1> USE <1>1, <1>3 DEF TypeOK, tables, counters, broker
  <1>6. ASSUME NEW g \in Stages, Goto(w, g) PROVE worker'[w] = [worker[w] EXCEPT !.at = g]
    BY <1>6 DEF Goto
  <1>7. SkipMessage(w) => worker'[w] = IdleWorker /\ outbox' = outbox
    BY DEF SkipMessage
  <1>8. CASE Ack(w)
    BY <1>4, <1>5, <1>8 DEF Ack
  <1>9. CASE CheckDuplicate(w)
    <2>1. worker'[w].cmd = c /\ processed' = processed /\ outbox' = outbox
      BY <1>9 DEF CheckDuplicate, Goto
    <2>2. \/ worker'[w].at = "ack"
          \/ worker'[w].at = "lock" /\ c \notin processed /\ c.type = "reserve_stock"
          \/ worker'[w].at = "find" /\ c \notin processed /\ c.type # "reserve_stock"
      BY <1>9 DEF CheckDuplicate, Goto
    <2> QED
      BY <1>4, <2>1, <2>2 DEF Stands, Section
  <1>10. CASE AcquireLock(w)
    BY <1>4, <1>10 DEF AcquireLock, Goto, Stands, Section
  <1>11. CASE LockBusy(w)
    BY <1>4, <1>5, <1>7, <1>11 DEF LockBusy
  <1>12. CASE ReadItem(w)
    <2>1. /\ worker'[w].cmd = c /\ processed' = processed /\ outbox' = outbox
          /\ worker'[w].at \in {"mark", "commit"} /\ worker[w].at = "read"
      BY <1>12 DEF ReadItem
    <2> QED
      BY <1>4, <2>1 DEF Stands, Section
  <1>13. CASE MarkProcessed(w)
    <2>1. /\ worker'[w].cmd = c /\ worker'[w].at = "reply" /\ outbox' = outbox
          /\ c \in processed' /\ worker[w].at = "mark"
      BY <1>13 DEF MarkProcessed, Goto
    <2>2. outbox[c] = <<>> /\ c.type = "reserve_stock"
      BY <2>1 DEF RepliedIsProcessed, Stands, Section
    <2> QED
      BY <1>4, <2>1, <2>2 DEF Stands, Section
  <1>14. CASE QueueRefusal(w)
    <2>1. /\ worker'[w].cmd = c /\ worker'[w].at = "unlock"
          /\ c \in processed' /\ worker[w].at = "reply"
      BY <1>14 DEF QueueRefusal, Goto, Stands
    <2> QED
      BY <1>4, <2>1 DEF Stands, Section
  <1>15. CASE CommitReserve(w)
    <2>1. /\ worker'[w].cmd = c /\ worker'[w].at = "unlock"
          /\ c \in processed' /\ worker[w].at = "commit"
      BY <1>15 DEF CommitReserve, Goto
    <2> QED
      BY <1>4, <2>1 DEF Stands, Section
  <1>16. CASE RollBack(w)
    BY <1>4, <1>5, <1>7, <1>16 DEF RollBack
  <1>17. CASE Unlock(w)
    <2>1. outbox' = outbox
      BY <1>7, <1>17 DEF Unlock
    <2>2. worker'[w] = IdleWorker \/ worker'[w].at = "ack"
      BY <1>7, <1>17 DEF Unlock, Goto
    <2> QED
      BY <1>4, <1>5, <2>1, <2>2 DEF Stands, Section
  <1>18. CASE FindReservation(w)
    <2>1. /\ worker'[w].cmd = c /\ UNCHANGED tables /\ worker[w].at = "find"
          /\ \/ worker'[w].at = "ack"
             \/ worker'[w].at = "settle"
      BY <1>18 DEF FindReservation, Goto
    <2> QED
      BY <1>4, <2>1 DEF Stands, Section
  <1>19. ASSUME NEW type, NEW new, NEW reply, Commit(w, type, new, reply)
         PROVE  Stands(w)' /\ RepliedIsProcessed'
    <2>1. worker'[w].at = "ack" /\ c \in processed'
      BY <1>19 DEF Commit, Goto
    <2> QED
      BY <1>4, <2>1 DEF Stands, Section
  <1>20. CASE ConfirmStock(w) \/ ReleaseStock(w)
    BY <1>19, <1>20 DEF ConfirmStock, ReleaseStock
  <1>21. CASE Throw(w)
    BY <1>4, <1>5, <1>7, <1>21 DEF Throw
  <1> QED
    BY <1>8, <1>9, <1>10, <1>11, <1>12, <1>13, <1>14, <1>15, <1>16, <1>17, <1>18, <1>20,
       <1>21 DEF Work

\* At the start nobody works and nothing is promised.
LEMMA InitInv == Init => IInv
  <1> SUFFICES ASSUME Init PROVE IInv
    OBVIOUS
  <1> USE DEF Init, Promise!Init
  <1>1. IdleWorker.at = "idle" /\ IdleWorker.cmd = NoCommand
    BY DEF IdleWorker
  <1>2. TypeOK
    BY QuantityAssumption, InventoryBudgetsAssumption
    DEF TypeOK, Promise!ReservationStatus, IdleWorker, Stages, Kinds
  <1>3. WorkersApart /\ IdleHasNoCommand /\ RepliedIsProcessed
    BY <1>1 DEF WorkersApart, IdleHasNoCommand, RepliedIsProcessed
  <1>4. DecisionsStand
    BY <1>1 DEF DecisionsStand, Stands, Section
  <1> QED
    BY <1>2, <1>3, <1>4 DEF IInv

\* Every step keeps the invariant.
LEMMA StepInv == ASSUME IInv, [Next]_vars PROVE IInv'
  <1>1. TypeOK'
    BY TypeStep
  <1>2. /\ TypeOK /\ WorkersApart /\ DecisionsStand
        /\ IdleHasNoCommand /\ RepliedIsProcessed
    BY DEF IInv
  <1> DEFINE Rest == /\ WorkersApart' /\ DecisionsStand'
                     /\ IdleHasNoCommand' /\ RepliedIsProcessed'
  <1> SUFFICES Rest
    BY <1>1 DEF IInv
  <1>3. IdleWorker.at = "idle" /\ IdleWorker.cmd = NoCommand
    BY DEF IdleWorker
  <1>4. UNCHANGED tables => RepliedIsProcessed'
    BY <1>2 DEF RepliedIsProcessed, tables
  <1>5. UNCHANGED <<worker, tables>> => DecisionsStand' /\ IdleHasNoCommand'
    BY <1>2 DEF DecisionsStand, Stands, IdleHasNoCommand, tables
  <1>6. UNCHANGED worker /\ queue \subseteq queue' => WorkersApart'
    BY <1>2 DEF WorkersApart
  <1>8. ASSUME NEW c \in Commands, Send(c) PROVE Rest
    BY <1>4, <1>5, <1>6, <1>8 DEF Send
  <1>9. ASSUME NEW w \in Workers, NEW c \in queue, Receive(w, c) PROVE Rest
    <2>1. /\ worker'[w].at = "check" /\ worker'[w].cmd = c
          /\ \A v \in Workers \ {w} : worker'[v] = worker[v]
          /\ UNCHANGED <<tables, queue, sent>> /\ c \in Commands /\ worker[w].at = "idle"
      BY <1>2, <1>9 DEF Receive, TypeOK, broker
    <2>2. \A v \in Workers : worker[v].at # "idle" /\ Topic[v] = Topic[w]
             => worker[v].cmd.saga # c.saga
      <3>1. SUFFICES ASSUME NEW v \in Workers, worker[v].at # "idle", Topic[v] = Topic[w]
                     PROVE  worker[v].cmd.saga # c.saga
        OBVIOUS
      <3>2. worker[v].cmd \in queue /\ worker[v].cmd.type = Topic[w] /\ c.type = Topic[w]
        BY <1>2, <1>9, <3>1 DEF WorkersApart, Receive
      <3> QED
        BY <1>9, <3>2 DEF Receive, Working
    <2>3. WorkersApart'
      <3>1. c \in queue /\ c.type = Topic[w]
        BY <1>9 DEF Receive
      <3> QED
        BY <1>2, <2>1, <2>2, <3>1 DEF WorkersApart
    <2>4. IdleHasNoCommand'
      BY <1>2, <2>1, NobodyAssumption DEF IdleHasNoCommand
    <2>5. ASSUME NEW v \in Workers PROVE Stands(v)'
      <3>1. CASE v = w
        BY <2>1, <3>1 DEF Stands, Section
      <3>2. CASE v # w
        BY <1>2, <2>1, <3>2 DEF DecisionsStand, Stands, tables
      <3> QED
        BY <3>1, <3>2
    <2> QED
      BY <1>4, <2>1, <2>3, <2>4, <2>5 DEF DecisionsStand
  <1>10. ASSUME NEW w \in Workers, Work(w) \/ Throw(w), ~\E c \in queue : Receive(w, c)
         PROVE  Rest
    <2>1. Own(w)
      BY <1>10, OwnSteps
    <2>2. Stands(w)' /\ RepliedIsProcessed'
      BY <1>10, OwnDecision
    <2>3. /\ WorkersApart' /\ IdleHasNoCommand'
          /\ \A v \in Workers \ {w} : Stands(v)'
      BY <2>1, OwnKeeps
    <2> QED
      BY <2>2, <2>3 DEF DecisionsStand
  <1>11. CASE Crash
    <2>1. /\ \A w \in Workers : worker'[w] = IdleWorker
          /\ UNCHANGED <<tables, sent>>
      BY <1>11 DEF Crash, broker
    <2> QED
      BY <1>2, <1>3, <1>4, <2>1
      DEF WorkersApart, IdleHasNoCommand, DecisionsStand, Stands, Section
  <1>12. CASE Expire
    BY <1>4, <1>5, <1>6, <1>12 DEF Expire, broker
  <1>13. ASSUME NEW c \in sent, Redeliver(c) PROVE Rest
    BY <1>4, <1>5, <1>6, <1>13 DEF Redeliver
  <1>14. CASE UNCHANGED vars
    BY <1>4, <1>5, <1>6, <1>14 DEF vars, tables
  <1>15. ASSUME NEW w \in Workers, Work(w) \/ Throw(w) PROVE Rest
    BY <1>9, <1>10, <1>15
  <1> QED
    BY <1>8, <1>11, <1>12, <1>13, <1>14, <1>15 DEF Next

\* The service's tables and workers never leave the states the promise rests
\* on.
THEOREM Invariance == Spec => []IInv
  <1>1. IInv /\ [Next]_vars => IInv'
    BY StepInv
  <1> QED
    BY <1>1, InitInv, PTL DEF Spec

\* Counters, workers and messages keep their types under every mishap.
THEOREM TypeCorrect == Spec => []TypeOK
  <1>1. IInv => TypeOK
    BY DEF IInv
  <1> QED
    BY <1>1, Invariance, PTL

\* What a step of one worker does to the settlements under way.
LEMMA DecidedBy ==
    ASSUME IInv, NEW w \in Workers, \A v \in Workers \ {w} : worker'[v] = worker[v]
    PROVE  /\ worker'[w].at # "settle" => Decided' \subseteq Decided
           /\ worker'[w].at # "settle" /\ worker[w].at # "settle" => Decided' = Decided
           /\ worker'[w].at # "settle" /\ worker[w].at = "settle"
                => worker[w].cmd \in Decided /\ Decided' = Decided \ {worker[w].cmd}
           /\ worker'[w].at = "settle" /\ worker[w].at # "settle"
                => Decided' = Decided \union {worker'[w].cmd}
  <1> DEFINE Settling == {v \in Workers : worker[v].at = "settle"}
             c == worker[w].cmd
  <1>1. \A v \in Workers \ {w} : worker[v].cmd = worker'[v].cmd /\ worker[v].at = worker'[v].at
    OBVIOUS
  <1>2. Decided = {worker[v].cmd : v \in Settling \ {w}}
                    \union (IF worker[w].at = "settle" THEN {c} ELSE {})
    BY DEF Decided
  <1>3. Decided' = {worker[v].cmd : v \in Settling \ {w}}
                    \union (IF worker'[w].at = "settle" THEN {worker'[w].cmd} ELSE {})
    BY <1>1 DEF Decided
  <1>4. ASSUME worker[w].at = "settle" PROVE c \notin {worker[v].cmd : v \in Settling \ {w}}
    <2> SUFFICES ASSUME NEW v \in Workers \ {w}, worker[v].at = "settle", worker[v].cmd = c
                 PROVE  FALSE
      OBVIOUS
    <2>1. WorkersApart
      BY DEF IInv
    <2>2. Topic[v] = Topic[w]
      BY <1>4, <2>1 DEF WorkersApart
    <2> QED
      BY <1>4, <2>1, <2>2 DEF WorkersApart
  <1> QED
    BY <1>2, <1>3, <1>4

\* Each step is one of Reservations' steps, or changes nothing it speaks of.
LEMMA Simulation == ASSUME IInv, [Next]_vars PROVE [Promise!Next]_(Promise!promised)
  <1> USE DEF tables, Promise!promised, counters, broker
  <1> DEFINE Goal == Promise!Next \/ UNCHANGED Promise!promised
  <1> SUFFICES Goal
    OBVIOUS
  <1>1. /\ DecisionsStand /\ WorkersApart
        /\ worker \in [Workers -> [at : Stages, cmd : Commands \union {NoCommand},
                                   available : Int, reserved : Int]]
    BY DEF IInv, TypeOK
  <1>2. UNCHANGED tables /\ Decided' \subseteq Decided => Goal
    BY DEF Promise!Next, Promise!Abandon
  <1>3. ASSUME NEW w \in Workers, SkipMessage(w) PROVE Goal
    <2>1. worker'[w].at # "settle" /\ \A v \in Workers \ {w} : worker'[v] = worker[v]
      BY <1>1, <1>3 DEF SkipMessage, IdleWorker
    <2> QED
      BY <1>2, <1>3, <2>1, DecidedBy DEF SkipMessage
  <1>4. ASSUME NEW w \in Workers, NEW g, Goto(w, g)
        PROVE  /\ \A v \in Workers \ {w} : worker'[v] = worker[v]
               /\ worker'[w].at = g /\ worker'[w].cmd = worker[w].cmd
    BY <1>1, <1>4 DEF Goto
  <1>5. ASSUME NEW w \in Workers, NEW g, g # "settle", Goto(w, g), UNCHANGED tables
        PROVE  Goal
    BY <1>2, <1>4, <1>5, DecidedBy
  <1>6. ASSUME NEW w \in Workers, Work(w) PROVE Goal
    <2> DEFINE c == worker[w].cmd
    <2>1. Stands(w)
      BY <1>1 DEF DecisionsStand
    <2>2. worker[w].at # "idle" => c \in Commands
      BY Typed
    <2>3. CASE MarkProcessed(w)
      <3>1. Decided' = Decided
        BY <1>4, <2>3, DecidedBy DEF MarkProcessed
      <3> QED
        BY <2>1, <2>2, <2>3, <3>1
        DEF MarkProcessed, Stands, Section, Promise!Next, Promise!Refuse, Promise!Process
    <2>4. CASE QueueRefusal(w)
      <3>1. Decided' = Decided
        BY <1>4, <2>4, DecidedBy DEF QueueRefusal
      <3> QED
        BY <2>1, <2>2, <2>4, <3>1
        DEF QueueRefusal, Stands, Section, Promise!Next, Promise!ReplyRefusal
    <2>5. CASE CommitReserve(w)
      <3>1. Decided' = Decided
        BY <1>4, <2>5, DecidedBy DEF CommitReserve
      <3> QED
        BY <2>1, <2>2, <2>5, <3>1
        DEF CommitReserve, Conflict, Stands, Section, Promise!Next, Promise!Reserve,
            Promise!Process
    <2>6. CASE ConfirmStock(w)
      <3>1. c \in Decided /\ Decided' = Decided \ {c}
        BY <1>4, <2>6, DecidedBy DEF ConfirmStock, Commit
      <3> QED
        BY <2>2, <2>6, <3>1
        DEF ConfirmStock, Commit, Promise!Next, Promise!Settle, Promise!Process
    <2>7. CASE ReleaseStock(w)
      <3>1. c \in Decided /\ Decided' = Decided \ {c}
        BY <1>4, <2>7, DecidedBy DEF ReleaseStock, Commit
      <3> QED
        BY <2>2, <2>7, <3>1
        DEF ReleaseStock, Commit, Promise!Next, Promise!Settle, Promise!Process
    <2>8. CASE FindReservation(w)
      <3>1. CASE reservation[c.saga] # "HELD"
        BY <1>5, <2>8, <3>1 DEF FindReservation
      <3>2. CASE reservation[c.saga] = "HELD"
        <4>1. /\ worker[w].at = "find" /\ Goto(w, "settle") /\ UNCHANGED tables
          BY <2>8, <3>2 DEF FindReservation
        <4>2. Decided' = Decided \union {c}
          BY <1>4, <4>1, DecidedBy
        <4>3. c \in Commands /\ c.type # "reserve_stock" /\ c \notin processed
          BY <2>1, <2>2, <4>1 DEF Stands
        <4>4. ASSUME NEW d \in Decided, d.saga = c.saga PROVE d.type # c.type
          <5>1. PICK v \in Workers : worker[v].at = "settle" /\ d = worker[v].cmd
            BY DEF Decided
          <5>2. v # w /\ d.type = Topic[v] /\ c.type = Topic[w]
            BY <1>1, <4>1, <5>1 DEF WorkersApart
          <5> QED
            BY <1>1, <4>1, <4>4, <5>1, <5>2 DEF WorkersApart
        <4> QED
          BY <3>2, <4>1, <4>2, <4>3, <4>4 DEF Promise!Next, Promise!Decide
      <3> QED
        BY <3>1, <3>2
    <2>9. CASE \E d \in queue : Receive(w, d)
      <3>1. /\ \A v \in Workers \ {w} : worker'[v] = worker[v]
            /\ worker'[w].at = "check" /\ UNCHANGED tables
        BY <1>1, <2>9 DEF Receive
      <3> QED
        BY <1>2, <3>1, DecidedBy
    <2>10. CASE ReadItem(w)
      <3>1. /\ \A v \in Workers \ {w} : worker'[v] = worker[v]
            /\ worker'[w].at # "settle" /\ UNCHANGED tables
        BY <1>1, <2>10 DEF ReadItem
      <3> QED
        BY <1>2, <3>1, DecidedBy
    <2>11. CASE Ack(w)
      <3>1. /\ \A v \in Workers \ {w} : worker'[v] = worker[v]
            /\ worker'[w].at # "settle" /\ UNCHANGED tables
        BY <1>1, <2>11 DEF Ack, IdleWorker
      <3> QED
        BY <1>2, <3>1, DecidedBy
    <2>12. CASE CheckDuplicate(w) \/ AcquireLock(w)
      BY <1>5, <2>12 DEF CheckDuplicate, AcquireLock
    <2>13. CASE LockBusy(w) \/ RollBack(w)
      BY <1>3, <2>13 DEF LockBusy, RollBack
    <2>14. CASE Unlock(w)
      BY <1>3, <1>5, <2>14 DEF Unlock
    <2> QED
      BY <1>6, <2>3, <2>4, <2>5, <2>6, <2>7, <2>8, <2>9, <2>10, <2>11, <2>12, <2>13, <2>14
      DEF Work
  <1>7. CASE Crash
    <2>1. \A w \in Workers : worker'[w].at = "idle"
      BY <1>7 DEF Crash, IdleWorker
    <2>2. Decided' = {}
      BY <2>1 DEF Decided
    <2> QED
      BY <1>2, <1>7, <2>2 DEF Crash
  <1>8. ASSUME NEW w \in Workers, Throw(w) PROVE Goal
    BY <1>3, <1>8 DEF Throw
  <1>9. CASE \/ \E c \in Commands : Send(c)
             \/ Expire \/ \E c \in sent : Redeliver(c)
             \/ UNCHANGED vars
    <2>1. UNCHANGED <<worker, tables>>
      BY <1>9 DEF Send, Expire, Redeliver, vars
    <2> QED
      BY <1>2, <2>1 DEF Decided
  <1> QED
    BY <1>6, <1>7, <1>8, <1>9 DEF Next

\* inventory-service implements its promise to the orchestrator.
THEOREM KeepsItsPromise == Spec => Implements
  <1>1. Init => Promise!Init
    BY DEF Init
  <1>2. IInv /\ [Next]_vars => [Promise!Next]_(Promise!promised)
    BY Simulation
  <1> QED
    BY <1>1, <1>2, Invariance, PTL DEF Spec, Implements, Promise!Spec

-----------------------------------------------------------------------------
(* What the promise is worth: its own invariants, for any number of sagas  *)
(* and of commands that are published again.                               *)

\* A command is answered by one reply, of its topic.
RepliesMatch == \A c \in Commands :
    /\ outbox[c] # <<>> => \E r \in Promise!Replies : Promise!Answered(c, r)
    /\ Promise!Answered(c, "stock_reserved") => c.type = "reserve_stock"
    /\ Promise!Answered(c, "stock_insufficient") => c.type = "reserve_stock"
    /\ Promise!Answered(c, "stock_confirmed") => c.type = "confirm_stock"
    /\ Promise!Answered(c, "stock_released") => c.type = "release_stock"

\* A settlement under way is the only one of its kind for the saga, now and
\* before, and there is a reservation that it settles.
DecisionsApart == \A c \in Decided :
    /\ c \in Commands /\ c.type # "reserve_stock" /\ reservation[c.saga] # "none"
    /\ \A d \in Decided : d.saga = c.saga /\ d.type = c.type => d = c
    /\ \A d \in Commands : d.saga = c.saga /\ d.type = c.type => outbox[d] = <<>>

\* The status of a reservation is the last settlement the orchestrator is told.
StatusTold == \A s \in Sagas :
    /\ reservation[s] \in {"none", "HELD"} =>
         ~Promise!Told(s, "stock_confirmed") /\ ~Promise!Told(s, "stock_released")
    /\ reservation[s] = "CONFIRMED" => Promise!Told(s, "stock_confirmed")
    /\ reservation[s] = "RELEASED" => Promise!Told(s, "stock_released")

\* The inductive invariant.
PromiseInv ==
    /\ Promise!TypeOK /\ RepliesMatch /\ DecisionsApart /\ StatusTold
    /\ Promise!OneReply /\ Promise!ReservedOnce /\ Promise!SettledAsAnswered

\* Before the first command nothing is reserved and nothing answered.
LEMMA InitPromise == Promise!Init => PromiseInv
  <1> SUFFICES ASSUME Promise!Init PROVE PromiseInv
    OBVIOUS
  <1>1. \A c \in Commands : outbox[c] = <<>>
    BY DEF Promise!Init
  <1>2. \A r : <<>> # <<r>>
    OBVIOUS
  <1>3. \A c \in Commands, r \in Promise!Replies : ~Promise!Answered(c, r)
    BY <1>1, <1>2 DEF Promise!Answered
  <1>4. \A s \in Sagas, r \in Promise!Replies : ~Promise!Told(s, r)
    BY <1>3 DEF Promise!Told
  <1> QED
    BY <1>1, <1>3, <1>4
    DEF Promise!Init, PromiseInv, Promise!TypeOK, RepliesMatch, DecisionsApart, StatusTold,
        Promise!OneReply, Promise!ReservedOnce, Promise!SettledAsAnswered,
        Promise!ReservationStatus, Promise!Replies

\* An outbox row written for a command that had none is its one reply, and the
\* rows of the other commands stay (InventoryService.publish, manager.save).
LEMMA FirstReply ==
    ASSUME PromiseInv, NEW c \in Commands, NEW r \in Promise!Replies,
           outbox[c] = <<>>, Promise!Reply(c, r)
    PROVE  /\ outbox' \in [Commands -> Seq(Promise!Replies)]
           /\ Len(outbox'[c]) = 1 /\ outbox'[c] # <<>>
           /\ \A d \in Commands \ {c} : outbox'[d] = outbox[d]
           /\ \A d \in Commands, q \in Promise!Replies :
                Promise!Answered(d, q)' <=> Promise!Answered(d, q) \/ (d = c /\ q = r)
           /\ \A s \in Sagas, q \in Promise!Replies :
                Promise!Told(s, q)' <=> Promise!Told(s, q) \/ (s = c.saga /\ q = r)
  <1>1. Append(<<>>, r) = <<r>> /\ <<r>> \in Seq(Promise!Replies)
    OBVIOUS
  <1>2. outbox' \in [Commands -> Seq(Promise!Replies)]
    BY <1>1 DEF PromiseInv, Promise!TypeOK, Promise!Reply
  <1>3. outbox'[c] = <<r>>
    BY <1>1 DEF PromiseInv, Promise!TypeOK, Promise!Reply
  <1>4. \A d \in Commands \ {c} : outbox'[d] = outbox[d]
    BY DEF PromiseInv, Promise!TypeOK, Promise!Reply
  <1>5. <<r>> # <<>> /\ Len(<<r>>) = 1 /\ \A q : <<r>> = <<q>> => r = q
    OBVIOUS
  <1>6. \A q : <<>> # <<q>>
    OBVIOUS
  <1>7. \A d \in Commands, q \in Promise!Replies :
           Promise!Answered(d, q)' <=> Promise!Answered(d, q) \/ (d = c /\ q = r)
    <2> SUFFICES ASSUME NEW d \in Commands, NEW q \in Promise!Replies
                 PROVE  outbox'[d] = <<q>> <=> outbox[d] = <<q>> \/ (d = c /\ q = r)
      BY DEF Promise!Answered
    <2>1. CASE d = c
      BY <1>3, <1>5, <1>6, <2>1
    <2>2. CASE d # c
      BY <1>4, <2>2
    <2> QED
      BY <2>1, <2>2
  <1>8. ASSUME NEW s \in Sagas, NEW q \in Promise!Replies
        PROVE  Promise!Told(s, q)' <=> Promise!Told(s, q) \/ (s = c.saga /\ q = r)
    BY <1>7 DEF Promise!Told
  <1>9. Len(outbox'[c]) = 1 /\ outbox'[c] # <<>>
    BY <1>3, <1>5
  <1> QED
    BY <1>2, <1>4, <1>7, <1>8, <1>9, Zenon

\* The first reply to a command is its only one, and of its topic.
LEMMA ReplyOnce ==
    ASSUME PromiseInv, NEW c \in Commands, NEW r \in Promise!Replies,
           outbox[c] = <<>>, Promise!Reply(c, r),
           r \in {"stock_reserved", "stock_insufficient"} => c.type = "reserve_stock",
           r = "stock_confirmed" => c.type = "confirm_stock",
           r = "stock_released" => c.type = "release_stock",
           c \in processed', processed \subseteq processed'
    PROVE  RepliesMatch' /\ Promise!OneReply'
  <1>1. /\ Len(outbox'[c]) = 1 /\ outbox'[c] # <<>>
        /\ \A d \in Commands \ {c} : outbox'[d] = outbox[d]
        /\ \A d \in Commands, q \in Promise!Replies :
             Promise!Answered(d, q)' <=> Promise!Answered(d, q) \/ (d = c /\ q = r)
    BY FirstReply
  <1>2. RepliesMatch'
    <2>1. ASSUME NEW d \in Commands, outbox'[d] # <<>>
          PROVE  \E q \in Promise!Replies : Promise!Answered(d, q)'
      <3>1. CASE d = c
        BY <1>1, <3>1
      <3>2. CASE d # c
        BY <1>1, <2>1, <3>2 DEF PromiseInv, RepliesMatch
      <3> QED
        BY <3>1, <3>2
    <2>2. {"stock_reserved", "stock_insufficient", "stock_confirmed", "stock_released"}
             \subseteq Promise!Replies
      BY DEF Promise!Replies
    <2>3. ASSUME NEW d \in Commands
          PROVE  /\ Promise!Answered(d, "stock_reserved")' => d.type = "reserve_stock"
                 /\ Promise!Answered(d, "stock_insufficient")' => d.type = "reserve_stock"
                 /\ Promise!Answered(d, "stock_confirmed")' => d.type = "confirm_stock"
                 /\ Promise!Answered(d, "stock_released")' => d.type = "release_stock"
      BY <1>1, <2>2 DEF PromiseInv, RepliesMatch
    <2> QED
      BY <2>1, <2>3 DEF RepliesMatch
  <1>3. Promise!OneReply'
    <2>1. ASSUME NEW d \in Commands
          PROVE  Len(outbox'[d]) <= 1 /\ (outbox'[d] # <<>> => d \in processed')
      <3>1. CASE d = c
        <4>1. Len(outbox'[c]) <= 1
          BY <1>1
        <4> QED
          BY <3>1, <4>1, Zenon
      <3>2. CASE d # c
        BY <1>1, <3>2 DEF PromiseInv, Promise!OneReply
      <3> QED
        BY <3>1, <3>2
    <2> QED
      BY <2>1 DEF Promise!OneReply
  <1> QED
    BY <1>2, <1>3

\* Every operation of the service keeps the invariant.
LEMMA StepPromise == ASSUME PromiseInv, [Promise!Next]_(Promise!promised) PROVE PromiseInv'
  <1> USE CommandsAssumption DEF Promise!CommandsOK, Promise!CommandTypes
  <1> DEFINE Settlements == {"stock_confirmed", "stock_released"}
  <1>1. /\ Promise!TypeOK /\ RepliesMatch /\ DecisionsApart /\ StatusTold
        /\ Promise!OneReply /\ Promise!ReservedOnce /\ Promise!SettledAsAnswered
        /\ reservation \in [Sagas -> Promise!ReservationStatus]
        /\ \A c \in Commands : c.saga \in Sagas
    BY DEF PromiseInv, Promise!TypeOK
  <1>2. /\ Settlements \subseteq Promise!Replies
        /\ {"stock_reserved", "stock_insufficient"} \subseteq Promise!Replies
        /\ "stock_reserved" \notin Settlements /\ "stock_insufficient" \notin Settlements
    BY DEF Promise!Replies
  <1>3. ASSUME NEW c \in Commands, Promise!Reserve(c) PROVE PromiseInv'
    <2>1. /\ c.type = "reserve_stock" /\ c \notin processed
          /\ reservation[c.saga] = "none" /\ reservation' = [reservation EXCEPT ![c.saga] = "HELD"]
          /\ processed' = processed \union {c} /\ Decided' = Decided
          /\ Promise!Reply(c, "stock_reserved")
      BY <1>3 DEF Promise!Reserve, Promise!Process
    <2>2. outbox[c] = <<>>
      BY <1>1, <2>1 DEF Promise!OneReply
    <2>3. /\ outbox' \in [Commands -> Seq(Promise!Replies)]
          /\ \A d \in Commands \ {c} : outbox'[d] = outbox[d]
          /\ \A d \in Commands, q \in Promise!Replies :
               Promise!Answered(d, q)' <=> Promise!Answered(d, q) \/ (d = c /\ q = "stock_reserved")
          /\ \A s \in Sagas, q \in Promise!Replies :
               Promise!Told(s, q)' <=> Promise!Told(s, q) \/ (s = c.saga /\ q = "stock_reserved")
          /\ RepliesMatch' /\ Promise!OneReply'
      BY <1>2, <2>1, <2>2, FirstReply, ReplyOnce
    <2>4. /\ reservation' \in [Sagas -> Promise!ReservationStatus]
          /\ reservation'[c.saga] = "HELD"
          /\ \A s \in Sagas \ {c.saga} : reservation'[s] = reservation[s]
      BY <1>1, <2>1 DEF Promise!ReservationStatus
    <2>5. Promise!TypeOK'
      BY <1>1, <2>1, <2>3, <2>4 DEF Promise!TypeOK
    <2>6. DecisionsApart'
      BY <1>1, <2>1, <2>3, <2>4 DEF DecisionsApart
    <2>7. StatusTold'
      BY <1>1, <1>2, <2>1, <2>3, <2>4 DEF StatusTold
    <2>8. Promise!ReservedOnce'
      BY <1>1, <1>2, <2>1, <2>3, <2>4 DEF Promise!ReservedOnce
    <2>9. Promise!SettledAsAnswered'
      BY <1>1, <1>2, <2>1, <2>3, <2>4 DEF Promise!SettledAsAnswered, Promise!ReservationStatus
    <2> QED
      BY <2>3, <2>5, <2>6, <2>7, <2>8, <2>9 DEF PromiseInv
  <1>4. ASSUME UNCHANGED <<reservation, outbox>>
        PROVE  /\ RepliesMatch' /\ StatusTold'
               /\ Promise!ReservedOnce' /\ Promise!SettledAsAnswered'
    <2>1. \A c, r : Promise!Answered(c, r)' <=> Promise!Answered(c, r)
      BY <1>4 DEF Promise!Answered
    <2>2. \A s, r : Promise!Told(s, r)' <=> Promise!Told(s, r)
      BY <2>1 DEF Promise!Told
    <2>3. RepliesMatch' /\ StatusTold'
      BY <1>1, <1>4, <2>1, <2>2 DEF RepliesMatch, StatusTold
    <2>4. Promise!ReservedOnce' /\ Promise!SettledAsAnswered'
      BY <1>1, <1>4, <2>1, <2>2 DEF Promise!ReservedOnce, Promise!SettledAsAnswered
    <2> QED
      BY <2>3, <2>4
  <1>5. ASSUME NEW c \in Commands, Promise!Refuse(c) PROVE PromiseInv'
    <2>1. /\ processed' = processed \union {c} /\ UNCHANGED <<reservation, outbox, Decided>>
      BY <1>5 DEF Promise!Refuse, Promise!Process
    <2>2. Promise!TypeOK' /\ DecisionsApart' /\ Promise!OneReply'
      BY <1>1, <2>1 DEF Promise!TypeOK, DecisionsApart, Promise!OneReply
    <2> QED
      BY <1>4, <2>1, <2>2 DEF PromiseInv
  <1>6. ASSUME NEW c \in Commands, Promise!ReplyRefusal(c) PROVE PromiseInv'
    <2>1. /\ c.type = "reserve_stock" /\ c \in processed /\ outbox[c] = <<>>
          /\ UNCHANGED <<reservation, processed, Decided>>
          /\ Promise!Reply(c, "stock_insufficient")
      BY <1>6 DEF Promise!ReplyRefusal
    <2>2. /\ outbox' \in [Commands -> Seq(Promise!Replies)]
          /\ \A d \in Commands \ {c} : outbox'[d] = outbox[d]
          /\ \A d \in Commands, q \in Promise!Replies \ {"stock_insufficient"} :
               Promise!Answered(d, q)' <=> Promise!Answered(d, q)
          /\ \A s \in Sagas, q \in Promise!Replies \ {"stock_insufficient"} :
               Promise!Told(s, q)' <=> Promise!Told(s, q)
          /\ RepliesMatch' /\ Promise!OneReply'
      BY <1>2, <2>1, FirstReply, ReplyOnce
    <2>3. Promise!TypeOK' /\ DecisionsApart'
      BY <1>1, <2>1, <2>2 DEF Promise!TypeOK, DecisionsApart
    <2>4. StatusTold' /\ Promise!ReservedOnce' /\ Promise!SettledAsAnswered'
      BY <1>1, <1>2, <2>1, <2>2
      DEF StatusTold, Promise!ReservedOnce, Promise!SettledAsAnswered
    <2> QED
      BY <2>2, <2>3, <2>4 DEF PromiseInv
  <1>7. ASSUME NEW c \in Commands, Promise!Decide(c) PROVE PromiseInv'
    <2>1. /\ c.type # "reserve_stock" /\ reservation[c.saga] = "HELD"
          /\ \A d \in Decided : d.saga = c.saga => d.type # c.type
          /\ Decided' = Decided \union {c}
          /\ UNCHANGED <<reservation, processed, outbox>>
      BY <1>7 DEF Promise!Decide
    <2>2. Promise!TypeOK' /\ Promise!OneReply'
      BY <1>1, <2>1 DEF Promise!TypeOK, Promise!OneReply
    <2>3. ASSUME NEW d \in Commands, d.saga = c.saga, d.type = c.type PROVE outbox[d] = <<>>
      <3>1. SUFFICES ASSUME NEW r \in Promise!Replies, Promise!Answered(d, r) PROVE FALSE
        BY <1>1 DEF RepliesMatch
      <3>2. /\ ~Promise!Told(c.saga, "stock_confirmed") /\ ~Promise!Told(c.saga, "stock_released")
        BY <1>1, <2>1 DEF StatusTold
      <3>3. r \notin Settlements
        BY <2>3, <3>1, <3>2 DEF Promise!Told
      <3>4. r \in {"stock_reserved", "stock_insufficient"}
        BY <3>3 DEF Promise!Replies
      <3> QED
        BY <1>1, <2>1, <2>3, <3>1, <3>4 DEF RepliesMatch
    <2>4. DecisionsApart'
      <3>1. ASSUME NEW e \in Decided'
            PROVE  /\ e \in Commands /\ e.type # "reserve_stock" /\ reservation[e.saga] # "none"
                   /\ \A d \in Decided' : d.saga = e.saga /\ d.type = e.type => d = e
                   /\ \A d \in Commands : d.saga = e.saga /\ d.type = e.type => outbox[d] = <<>>
        BY <1>1, <2>1, <2>3 DEF DecisionsApart
      <3> QED
        BY <2>1, <3>1 DEF DecisionsApart
    <2> QED
      BY <1>4, <2>1, <2>2, <2>4 DEF PromiseInv
  <1>8. CASE Promise!Abandon
    <2>1. Decided' \subseteq Decided /\ UNCHANGED <<reservation, processed, outbox>>
      BY <1>8 DEF Promise!Abandon
    <2>2. Promise!TypeOK' /\ Promise!OneReply' /\ DecisionsApart'
      BY <1>1, <2>1 DEF Promise!TypeOK, Promise!OneReply, DecisionsApart
    <2> QED
      BY <1>4, <2>1, <2>2 DEF PromiseInv
  <1>9. ASSUME NEW c \in Commands, NEW type, NEW new, NEW reply \in Promise!Replies,
               Promise!Settle(c, type, new, reply),
               \/ /\ type = "confirm_stock" /\ new = "CONFIRMED" /\ reply = "stock_confirmed"
               \/ /\ type = "release_stock" /\ new = "RELEASED" /\ reply = "stock_released"
        PROVE  PromiseInv'
    <2>1. /\ c.type = type /\ c \in Decided /\ c \notin processed
          /\ reservation' = [reservation EXCEPT ![c.saga] = new]
          /\ processed' = processed \union {c} /\ Decided' = Decided \ {c}
          /\ Promise!Reply(c, reply)
      BY <1>9 DEF Promise!Settle, Promise!Process
    <2>2. outbox[c] = <<>>
      BY <1>1, <2>1 DEF Promise!OneReply
    <2>3. /\ outbox' \in [Commands -> Seq(Promise!Replies)]
          /\ \A d \in Commands \ {c} : outbox'[d] = outbox[d]
          /\ \A d \in Commands, q \in Promise!Replies :
               Promise!Answered(d, q)' <=> Promise!Answered(d, q) \/ (d = c /\ q = reply)
          /\ \A s \in Sagas, q \in Promise!Replies :
               Promise!Told(s, q)' <=> Promise!Told(s, q) \/ (s = c.saga /\ q = reply)
      BY <2>1, <2>2, FirstReply
    <2>4. RepliesMatch' /\ Promise!OneReply'
      BY <1>9, <2>1, <2>2, ReplyOnce
    <2>5. /\ reservation' \in [Sagas -> Promise!ReservationStatus]
          /\ reservation'[c.saga] = new
          /\ \A s \in Sagas \ {c.saga} : reservation'[s] = reservation[s]
      BY <1>1, <1>9, <2>1 DEF Promise!ReservationStatus
    <2>6. Promise!TypeOK'
      BY <1>1, <2>1, <2>3, <2>5 DEF Promise!TypeOK
    <2>7. /\ reservation[c.saga] # "none"
          /\ \A d \in Decided : d.saga = c.saga /\ d.type = c.type => d = c
          /\ \A d \in Commands : d.saga = c.saga /\ d.type = c.type => outbox[d] = <<>>
      BY <1>1, <2>1 DEF DecisionsApart
    <2>8. DecisionsApart'
      BY <1>1, <1>9, <2>1, <2>3, <2>5, <2>7 DEF DecisionsApart
    <2>9. Promise!Told(c.saga, reply)'
      BY <1>1, <2>3
    <2>10. StatusTold'
      BY <1>1, <1>2, <1>9, <2>3, <2>5 DEF StatusTold
    <2>11. Promise!ReservedOnce'
      BY <1>1, <1>2, <1>9, <2>3, <2>5, <2>7 DEF Promise!ReservedOnce
    <2>12. \A d \in Commands : d.saga = c.saga => ~Promise!Answered(d, reply)
      <3> SUFFICES ASSUME NEW d \in Commands, d.saga = c.saga, Promise!Answered(d, reply)
                   PROVE  FALSE
        OBVIOUS
      <3>1. d.type = c.type
        BY <1>1, <1>9, <2>1 DEF RepliesMatch
      <3>2. <<>> # <<reply>>
        OBVIOUS
      <3> QED
        BY <2>7, <3>1, <3>2 DEF Promise!Answered
    <2>13. Promise!SettledAsAnswered'
      <3>1. ASSUME NEW d \in Commands, Promise!Answered(d, "stock_confirmed")'
            PROVE  \/ reservation'[d.saga] = "CONFIRMED"
                   \/ reservation'[d.saga] = "RELEASED" /\ Promise!Told(d.saga, "stock_released")'
        BY <1>1, <1>2, <1>9, <2>3, <2>5, <2>9, <3>1 DEF Promise!SettledAsAnswered
      <3>2. ASSUME NEW d \in Commands, Promise!Answered(d, "stock_released")'
            PROVE  \/ reservation'[d.saga] = "RELEASED"
                   \/ reservation'[d.saga] = "CONFIRMED" /\ Promise!Told(d.saga, "stock_confirmed")'
        BY <1>1, <1>2, <1>9, <2>3, <2>5, <2>9, <3>2 DEF Promise!SettledAsAnswered
      <3>3. ASSUME NEW d \in Commands, NEW e \in Commands, NEW r \in Settlements,
                   d.saga = e.saga, Promise!Answered(d, r)', Promise!Answered(e, r)'
            PROVE  d = e
        BY <1>1, <1>2, <2>3, <2>12, <3>3 DEF Promise!SettledAsAnswered
      <3> QED
        BY <3>1, <3>2, <3>3 DEF Promise!SettledAsAnswered
    <2> QED
      BY <2>4, <2>6, <2>8, <2>10, <2>11, <2>13 DEF PromiseInv
  <1>10. CASE UNCHANGED Promise!promised
    <2>1. UNCHANGED <<reservation, processed, outbox, Decided>>
      BY <1>10 DEF Promise!promised
    <2>2. Promise!TypeOK' /\ Promise!OneReply' /\ DecisionsApart'
      BY <1>1, <2>1 DEF Promise!TypeOK, Promise!OneReply, DecisionsApart
    <2> QED
      BY <1>4, <2>1, <2>2 DEF PromiseInv
  <1> QED
    BY <1>2, <1>3, <1>5, <1>6, <1>7, <1>8, <1>9, <1>10 DEF Promise!Next

\* The invariant of the promise holds of the service.
LEMMA Promised == Spec => []PromiseInv
  <1>1. PromiseInv /\ [Promise!Next]_(Promise!promised) => PromiseInv'
    BY StepPromise
  <1> QED
    BY <1>1, InitPromise, KeepsItsPromise, PTL DEF Implements, Promise!Spec

\* Redelivered and re-published commands are answered at most once.
THEOREM AnsweredOnce == Spec => []OneReply
  <1>1. PromiseInv => OneReply
    BY DEF PromiseInv, OneReply
  <1> QED
    BY <1>1, Promised, PTL

\* However often reserve_stock is published for a saga, stock is set aside once.
THEOREM NoDoubleReserve == Spec => []ReservedOnce
  <1>1. PromiseInv => ReservedOnce
    BY DEF PromiseInv, ReservedOnce
  <1> QED
    BY <1>1, Promised, PTL

\* What the orchestrator is told of a saga's settlements is what happened, each
\* of them once.
THEOREM RepliesAgree == Spec => []SettledAsAnswered
  <1>1. PromiseInv => SettledAsAnswered
    BY DEF PromiseInv, SettledAsAnswered
  <1> QED
    BY <1>1, Promised, PTL

-----------------------------------------------------------------------------
(* The stock.  A saga's pieces count for it as a whole: a step puts one    *)
(* saga into the sets that are counted, or takes it out of them.           *)

PiecesOf(s) == {s} \X (1..Quantity[s])

\* A saga has as many pieces as it orders, and no piece is another saga's.
LEMMA OwnPieces ==
    ASSUME NEW s \in Sagas
    PROVE  /\ IsFiniteSet(PiecesOf(s)) /\ Cardinality(PiecesOf(s)) = Quantity[s]
           /\ \A r \in Sagas \ {s} : PiecesOf(r) \intersect PiecesOf(s) = {}
  <1>1. Quantity[s] \in Nat /\ 0 < Quantity[s]
    BY QuantityAssumption
  <1>2. IsFiniteSet(1..Quantity[s]) /\ Cardinality(1..Quantity[s]) = Quantity[s]
    <2>1. Quantity[s] \in Int /\ 1 \in Int /\ ~(1 > Quantity[s])
          /\ Quantity[s] - 1 + 1 = Quantity[s]
      BY <1>1
    <2> QED
      BY <2>1, FS_Interval, Zenon
  <1>3. IsFiniteSet({s}) /\ Cardinality({s}) = 1
    BY FS_Singleton
  <1>4. /\ IsFiniteSet({s} \X (1..Quantity[s]))
        /\ Cardinality({s} \X (1..Quantity[s])) = 1 * Quantity[s]
    <2>1. /\ IsFiniteSet({s} \X (1..Quantity[s]))
          /\ Cardinality({s} \X (1..Quantity[s]))
                = Cardinality({s}) * Cardinality(1..Quantity[s])
      BY <1>2, <1>3, FS_Product, Zenon
    <2> QED
      BY <1>2, <1>3, <2>1, Zenon
  <1>5. 1 * Quantity[s] = Quantity[s]
    BY <1>1
  <1> QED
    BY <1>4, <1>5 DEF PiecesOf

\* What one saga more, or one less, does to the count.
LEMMA Recount ==
    ASSUME NEW S \in SUBSET Sagas, IsFiniteSet(Pieces(S)), NEW s \in Sagas
    PROVE  /\ Stock(S) \in Nat
           /\ IsFiniteSet(Pieces(S \union {s})) /\ IsFiniteSet(Pieces(S \ {s}))
           /\ s \notin S => Stock(S \union {s}) = Stock(S) + Quantity[s]
           /\ s \in S => Stock(S \ {s}) = Stock(S) - Quantity[s]
  <1> DEFINE P == PiecesOf(s)
  <1>1. /\ IsFiniteSet(P) /\ Cardinality(P) = Quantity[s] /\ Quantity[s] \in Nat
        /\ \A r \in Sagas \ {s} : PiecesOf(r) \intersect P = {}
    BY OwnPieces, QuantityAssumption
  <1>2. \A T, p : p \in Pieces(T) <=> \E r \in T : p \in PiecesOf(r)
    BY DEF Pieces, PiecesOf
  <1> HIDE DEF P
  <1>3. Cardinality(Pieces(S)) \in Nat
    BY FS_CardinalityType
  <1>4. /\ IsFiniteSet(Pieces(S) \union P)
        /\ Cardinality(Pieces(S) \union P)
             = Cardinality(Pieces(S)) + Cardinality(P) - Cardinality(Pieces(S) \intersect P)
    BY <1>1, FS_Union
  <1>5. /\ IsFiniteSet(Pieces(S) \ P)
        /\ Cardinality(Pieces(S) \ P)
             = Cardinality(Pieces(S)) - Cardinality(Pieces(S) \intersect P)
    BY FS_Difference
  <1>6. Pieces(S \union {s}) = Pieces(S) \union P
    <2>1. ASSUME NEW p PROVE p \in Pieces(S \union {s}) <=> p \in Pieces(S) \/ p \in P
      <3>1. p \in Pieces(S \union {s}) <=> \E r \in S \union {s} : p \in PiecesOf(r)
        BY <1>2
      <3>2. p \in Pieces(S) <=> \E r \in S : p \in PiecesOf(r)
        BY <1>2
      <3> QED
        BY <3>1, <3>2 DEF P
    <2> QED
      BY <2>1
  <1>7. Pieces(S \ {s}) = Pieces(S) \ P
    <2>1. ASSUME NEW p PROVE p \in Pieces(S \ {s}) <=> p \in Pieces(S) /\ p \notin P
      <3>1. ASSUME NEW r \in S \ {s}, p \in PiecesOf(r) PROVE p \in Pieces(S) /\ p \notin P
        BY <1>1, <1>2, <3>1, Zenon
      <3>2. ASSUME NEW r \in S, p \in PiecesOf(r), p \notin P PROVE p \in Pieces(S \ {s})
        BY <1>2, <3>2, Zenon DEF P
      <3> QED
        BY <1>2, <3>1, <3>2, Zenon
    <2> QED
      BY <2>1, Zenon
  <1>8. ASSUME s \notin S PROVE Cardinality(Pieces(S) \intersect P) = 0
    <2>1. \A r \in S : r \in Sagas \ {s}
      BY <1>8
    <2>2. ASSUME NEW p \in Pieces(S) PROVE p \notin P
      <3>1. PICK r \in S : p \in PiecesOf(r)
        BY <1>2
      <3> QED
        BY <1>1, <2>1, <3>1
    <2>3. Pieces(S) \intersect P = {}
      BY <2>2
    <2> QED
      BY <2>3, FS_EmptySet
  <1>9. ASSUME s \in S PROVE Pieces(S) \intersect P = P
    BY <1>2, <1>9, Zenon DEF P
  <1>10. ASSUME s \notin S PROVE Stock(S \union {s}) = Stock(S) + Quantity[s]
    <2>1. Cardinality(Pieces(S) \intersect P) = 0
      BY <1>8, <1>10
    <2>2. Cardinality(Pieces(S \union {s})) = Cardinality(Pieces(S)) + Cardinality(P) - 0
      BY <1>4, <1>6, <2>1
    <2> HIDE DEF P
    <2> QED
      BY <1>1, <1>3, <2>2 DEF Stock
  <1>11. ASSUME s \in S PROVE Stock(S \ {s}) = Stock(S) - Quantity[s]
    BY <1>1, <1>3, <1>5, <1>7, <1>9, <1>11 DEF Stock
  <1> QED
    BY <1>3, <1>4, <1>5, <1>6, <1>7, <1>10, <1>11 DEF Stock

\* A smaller set of sagas has finitely many pieces too.
LEMMA FewerPieces ==
    ASSUME NEW S, NEW T, S \subseteq T, IsFiniteSet(Pieces(T))
    PROVE  IsFiniteSet(Pieces(S))
  <1>1. Pieces(S) \in SUBSET Pieces(T)
    BY DEF Pieces
  <1> QED
    BY <1>1, FS_Subset

\* The sets of sagas that are counted, after a step.
LEMMA Primed ==
    /\ Stock(Held)' = Stock(Held') /\ Stock(Twice)' = Stock(Twice')
    /\ Stock(Held \union Shipped)' = Stock(Held' \union Shipped')
    /\ Pieces(Held \union Shipped)' = Pieces(Held' \union Shipped')
  BY DEF Stock, Pieces

\* The orchestrator is told of a settlement when it is made and only then.
LEMMA Counted ==
    ASSUME PromiseInv, UNCHANGED <<reservation, outbox>>
    PROVE  Held' = Held /\ Shipped' = Shipped /\ Returned' = Returned
  <1>1. \A c, r : Promise!Answered(c, r)' <=> Promise!Answered(c, r)
    BY DEF Promise!Answered
  <1>2. \A s, r : Promise!Told(s, r)' <=> Promise!Told(s, r)
    BY <1>1 DEF Promise!Told
  <1> QED
    BY <1>2 DEF Held, Shipped, Returned

\* What a reply to a command without one does to the sets.
LEMMA Tells ==
    ASSUME PromiseInv, NEW c \in Commands, NEW r \in Promise!Replies, outbox[c] = <<>>,
           Promise!Reply(c, r)
    PROVE  /\ Shipped' = IF r = "stock_confirmed" THEN Shipped \union {c.saga} ELSE Shipped
           /\ Returned' = IF r = "stock_released" THEN Returned \union {c.saga} ELSE Returned
  <1>1. \A s \in Sagas, q \in Promise!Replies :
           Promise!Told(s, q)' <=> Promise!Told(s, q) \/ (s = c.saga /\ q = r)
    BY FirstReply
  <1>2. "stock_confirmed" \in Promise!Replies /\ "stock_released" \in Promise!Replies
        /\ c.saga \in Sagas
    BY CommandsAssumption DEF Promise!Replies, Promise!CommandsOK
  <1>3. \A s : s \in Shipped' <=> s \in Shipped \/ (s = c.saga /\ r = "stock_confirmed")
    BY <1>1, <1>2 DEF Shipped
  <1>4. \A s : s \in Returned' <=> s \in Returned \/ (s = c.saga /\ r = "stock_released")
    BY <1>1, <1>2 DEF Returned
  <1> QED
    BY <1>3, <1>4

\* Mishaps are only ever added.
LEMMA StallsAdd == ASSUME IInv, [Next]_vars PROVE faults'["stall"] = 0 => faults["stall"] = 0
  <1>1. faults \in [Kinds -> Nat] /\ "stall" \in Kinds
    BY DEF IInv, TypeOK, Kinds
  <1>2. \A k : Spend(k) => faults'["stall"] \in {faults["stall"], faults["stall"] + 1}
    BY <1>1 DEF Spend
  <1>3. faults' = faults \/ \E k : Spend(k)
    BY DEF Next, Work, Send, Receive, Ack, CheckDuplicate, AcquireLock, LockBusy, ReadItem,
           MarkProcessed, QueueRefusal, CommitReserve, RollBack, Unlock, FindReservation,
           ConfirmStock, ReleaseStock, Commit, Throw, Crash, Expire, Redeliver, vars
  <1> QED
    BY <1>1, <1>2, <1>3

\* As long as no lock expires under its owner, whoever is behind the lock has it.
LEMMA LockStep ==
    ASSUME IInv, [Next]_vars, LockedOut, faults'["stall"] = 0
    PROVE  LockedOut'
  <1>1. /\ worker \in [Workers -> [at : Stages, cmd : Commands \union {NoCommand},
                                   available : Int, reserved : Int]]
        /\ faults \in [Kinds -> Nat] /\ lock \in Workers \union {NoWorker}
    BY DEF IInv, TypeOK
  <1>2. IdleWorker.at = "idle" /\ "idle" \notin Section
    BY DEF IdleWorker, Section
  <1> USE NobodyAssumption DEF LockedOut
  <1>3. ASSUME UNCHANGED <<worker, lock>> PROVE LockedOut'
    BY <1>3
  <1>4. ASSUME NEW w \in Workers, NEW g, Goto(w, g), UNCHANGED lock,
               g \in Section => worker[w].at \in Section
        PROVE  LockedOut'
    BY <1>1, <1>4 DEF Goto
  <1>5. ASSUME NEW w \in Workers, \A v \in Workers \ {w} : worker'[v] = worker[v],
               worker'[w].at \notin Section, lock' = lock \/ ReleaseLock(w)
        PROVE  LockedOut'
    <2> SUFFICES ASSUME NEW v \in Workers, worker'[v].at \in Section PROVE lock' = v
      OBVIOUS
    <2>1. v # w /\ lock = v
      BY <1>5
    <2> QED
      BY <1>5, <2>1 DEF ReleaseLock
  <1>6. ASSUME NEW w \in Workers, SkipMessage(w), lock' = lock \/ ReleaseLock(w)
        PROVE  LockedOut'
    <2>1. worker'[w].at \notin Section /\ \A v \in Workers \ {w} : worker'[v] = worker[v]
      BY <1>1, <1>2, <1>6 DEF SkipMessage
    <2> QED
      BY <1>5, <1>6, <2>1
  <1>7. ASSUME NEW w \in Workers, Work(w) PROVE LockedOut'
    <2>1. CASE \E c \in queue : Receive(w, c)
      BY <1>1, <1>5, <2>1 DEF Receive, Section
    <2>2. CASE Ack(w)
      BY <1>1, <1>2, <1>5, <2>2 DEF Ack
    <2>3. CASE CheckDuplicate(w) \/ FindReservation(w)
      BY <1>4, <2>3 DEF CheckDuplicate, FindReservation, Section
    <2>4. CASE AcquireLock(w)
      <3>1. \A v \in Workers : worker[v].at \notin Section
        BY <2>4 DEF AcquireLock
      <3> QED
        BY <1>1, <2>4, <3>1 DEF AcquireLock, Goto
    <2>5. CASE LockBusy(w)
      BY <1>6, <2>5 DEF LockBusy
    <2>6. CASE ReadItem(w)
      <3>1. /\ worker[w].at \in Section /\ UNCHANGED lock
            /\ \A v \in Workers \ {w} : worker'[v] = worker[v]
        BY <1>1, <2>6 DEF ReadItem, Section
      <3> QED
        BY <3>1
    <2>7. CASE MarkProcessed(w) \/ QueueRefusal(w) \/ CommitReserve(w)
      BY <1>4, <2>7 DEF MarkProcessed, QueueRefusal, CommitReserve, Section
    <2>8. CASE RollBack(w)
      BY <1>6, <2>8 DEF RollBack
    <2>9. CASE Unlock(w)
      <3>1. CASE lock = w
        BY <1>1, <1>5, <2>9, <3>1 DEF Unlock, Goto, Section
      <3>2. CASE lock # w
        BY <1>6, <2>9, <3>2 DEF Unlock
      <3> QED
        BY <3>1, <3>2
    <2>10. CASE ConfirmStock(w) \/ ReleaseStock(w)
      BY <1>4, <2>10 DEF ConfirmStock, ReleaseStock, Commit, Section
    <2> QED
      BY <1>7, <2>1, <2>2, <2>3, <2>4, <2>5, <2>6, <2>7, <2>8, <2>9, <2>10 DEF Work
  <1>8. ASSUME NEW w \in Workers, Throw(w) PROVE LockedOut'
    BY <1>6, <1>8 DEF Throw
  <1>9. CASE Crash
    BY <1>2, <1>9 DEF Crash
  <1>10. CASE Expire
    <2>1. faults["stall"] \in Nat /\ (Spend("stall") => faults'["stall"] = faults["stall"] + 1)
      BY <1>1 DEF Spend, Kinds
    <2>2. worker[lock].at \notin Section
      BY <1>10, <2>1 DEF Expire
    <2>3. \A w \in Workers : worker[w].at \notin Section
      BY <2>2
    <2> QED
      BY <1>10, <2>3 DEF Expire
  <1>11. CASE (\E c \in Commands : Send(c)) \/ (\E c \in sent : Redeliver(c)) \/ UNCHANGED vars
    BY <1>3, <1>11 DEF Send, Redeliver, vars
  <1> QED
    BY <1>7, <1>8, <1>9, <1>10, <1>11 DEF Next

\* What a worker has read when it is about to commit.
Reads(w) ==
    worker[w].at = "commit" =>
        /\ Quantity[worker[w].cmd.saga] <= worker[w].available
        /\ worker[w].available <= available
        /\ reserved <= worker[w].reserved

\* What the step of a handler's transaction does to the sets: a reservation is
\* set aside that was not there, or it leaves the held ones.  A settlement that
\* does not find it held any more completes the pair of settlements.
LEMMA Sets ==
    ASSUME IInv, PromiseInv, NEW w \in Workers, NEW s, s = worker[w].cmd.saga
    PROVE  /\ s \in Sagas \/ ~(CommitReserve(w) \/ ConfirmStock(w) \/ ReleaseStock(w))
           /\ QueueRefusal(w) => Held' = Held /\ Shipped' = Shipped /\ Returned' = Returned
           /\ CommitReserve(w) =>
                /\ s \notin Held /\ s \notin Shipped /\ s \notin Returned
                /\ Held' = Held \union {s} /\ Shipped' = Shipped /\ Returned' = Returned
           /\ ConfirmStock(w) =>
                /\ s \notin Shipped /\ (s \in Held <=> s \notin Returned)
                /\ Held' = Held \ {s} /\ Shipped' = Shipped \union {s}
                /\ Returned' = Returned
           /\ ReleaseStock(w) =>
                /\ s \notin Returned /\ (s \in Held <=> s \notin Shipped)
                /\ Held' = Held \ {s} /\ Returned' = Returned \union {s}
                /\ Shipped' = Shipped
  <1> DEFINE c == worker[w].cmd
  <1>1. /\ Stands(w) /\ RepliedIsProcessed
        /\ reservation \in [Sagas -> Promise!ReservationStatus]
        /\ RepliesMatch /\ DecisionsApart /\ StatusTold
    BY DEF IInv, TypeOK, DecisionsStand, PromiseInv
  <1>2. worker[w].at # "idle" => c \in Commands /\ s \in Sagas /\ c.saga = s
    BY Typed
  <1>3. {"stock_reserved", "stock_insufficient", "stock_confirmed", "stock_released"}
           \subseteq Promise!Replies
    BY DEF Promise!Replies
  <1>4. ASSUME QueueRefusal(w)
        PROVE  Held' = Held /\ Shipped' = Shipped /\ Returned' = Returned
    <2>1. /\ worker[w].at = "reply" /\ reservation' = reservation
          /\ Promise!Reply(c, "stock_insufficient")
      BY <1>4 DEF QueueRefusal
    <2>2. outbox[c] = <<>>
      BY <1>1, <2>1 DEF Stands
    <2>3. Shipped' = Shipped /\ Returned' = Returned
      BY <1>2, <1>3, <2>1, <2>2, Tells
    <2> QED
      BY <2>1, <2>3 DEF Held
  <1>5. ASSUME CommitReserve(w)
        PROVE  /\ s \notin Held /\ s \notin Shipped /\ s \notin Returned
               /\ Held' = Held \union {s} /\ Shipped' = Shipped /\ Returned' = Returned
    <2>1. /\ worker[w].at = "commit" /\ reservation[s] = "none" /\ c \notin processed
          /\ reservation' = [reservation EXCEPT ![s] = "HELD"]
          /\ Promise!Reply(c, "stock_reserved")
      BY <1>5 DEF CommitReserve, Conflict
    <2>2. outbox[c] = <<>>
      BY <1>1, <1>2, <2>1 DEF RepliedIsProcessed
    <2>3. Shipped' = Shipped /\ Returned' = Returned
      BY <1>2, <1>3, <2>1, <2>2, Tells
    <2>4. s \notin Held /\ s \notin Shipped /\ s \notin Returned
      BY <1>1, <1>2, <2>1 DEF StatusTold, Held, Shipped, Returned
    <2>5. Held' = Held \union {s}
      BY <1>1, <1>2, <2>1 DEF Held
    <2> QED
      BY <2>3, <2>4, <2>5
  <1>6. ASSUME NEW type, NEW new \in {"CONFIRMED", "RELEASED"}, NEW reply \in Promise!Replies,
               Commit(w, type, new, reply)
        PROVE  /\ worker[w].at = "settle" /\ c \in Commands /\ s \in Sagas
               /\ c.type = type /\ outbox[c] = <<>> /\ Promise!Reply(c, reply)
               /\ reservation[s] # "none" /\ Held' = Held \ {s}
               /\ \A d \in Commands : d.saga = s /\ d.type = type => outbox[d] = <<>>
    <2>1. /\ worker[w].at = "settle" /\ c.type = type /\ c \notin processed
          /\ reservation' = [reservation EXCEPT ![s] = new] /\ Promise!Reply(c, reply)
      BY <1>6 DEF Commit
    <2>2. c \in Decided
      BY <2>1 DEF Decided
    <2>3. Held' = Held \ {s}
      BY <1>1, <1>2, <2>1 DEF Held
    <2> QED
      BY <1>1, <1>2, <2>1, <2>2, <2>3 DEF RepliedIsProcessed, DecisionsApart
  <1>7. \A r : <<>> # <<r>>
    OBVIOUS
  <1>8. ASSUME ConfirmStock(w)
        PROVE  /\ s \in Sagas /\ s \notin Shipped /\ (s \in Held <=> s \notin Returned)
               /\ Held' = Held \ {s} /\ Shipped' = Shipped \union {s} /\ Returned' = Returned
    <2>1. /\ worker[w].at = "settle" /\ c \in Commands /\ s \in Sagas
          /\ c.type = "confirm_stock" /\ outbox[c] = <<>>
          /\ Promise!Reply(c, "stock_confirmed")
          /\ reservation[s] # "none" /\ Held' = Held \ {s}
          /\ \A d \in Commands : d.saga = s /\ d.type = "confirm_stock" => outbox[d] = <<>>
      BY <1>3, <1>6, <1>8 DEF ConfirmStock
    <2>2. Shipped' = Shipped \union {s} /\ Returned' = Returned
      BY <1>2, <1>3, <2>1, Tells
    <2>3. ~Promise!Told(s, "stock_confirmed")
      BY <1>1, <1>7, <2>1 DEF RepliesMatch, Promise!Told, Promise!Answered
    <2>4. reservation[s] \in {"HELD", "RELEASED"}
      BY <1>1, <2>1, <2>3 DEF StatusTold, Promise!ReservationStatus
    <2>5. reservation[s] = "HELD" <=> ~Promise!Told(s, "stock_released")
      BY <1>1, <2>1, <2>4 DEF StatusTold
    <2> QED
      BY <2>1, <2>2, <2>3, <2>5 DEF Held, Shipped, Returned
  <1>9. ASSUME ReleaseStock(w)
        PROVE  /\ s \in Sagas /\ s \notin Returned /\ (s \in Held <=> s \notin Shipped)
               /\ Held' = Held \ {s} /\ Returned' = Returned \union {s} /\ Shipped' = Shipped
    <2>1. /\ worker[w].at = "settle" /\ c \in Commands /\ s \in Sagas
          /\ c.type = "release_stock" /\ outbox[c] = <<>>
          /\ Promise!Reply(c, "stock_released")
          /\ reservation[s] # "none" /\ Held' = Held \ {s}
          /\ \A d \in Commands : d.saga = s /\ d.type = "release_stock" => outbox[d] = <<>>
      BY <1>3, <1>6, <1>9 DEF ReleaseStock
    <2>2. Returned' = Returned \union {s} /\ Shipped' = Shipped
      BY <1>2, <1>3, <2>1, Tells
    <2>3. ~Promise!Told(s, "stock_released")
      BY <1>1, <1>7, <2>1 DEF RepliesMatch, Promise!Told, Promise!Answered
    <2>4. reservation[s] \in {"HELD", "CONFIRMED"}
      BY <1>1, <2>1, <2>3 DEF StatusTold, Promise!ReservationStatus
    <2>5. reservation[s] = "HELD" <=> ~Promise!Told(s, "stock_confirmed")
      BY <1>1, <2>1, <2>4 DEF StatusTold
    <2> QED
      BY <2>1, <2>2, <2>3, <2>5 DEF Held, Shipped, Returned
  <1> QED
    BY <1>2, <1>4, <1>5, <1>8, <1>9 DEF CommitReserve

\* The counters stay on the safe side of the reservations.
LEMMA StockStep ==
    ASSUME IInv, PromiseInv, [Next]_vars, StockInv
    PROVE  StockInv'
  <1> DEFINE B == Held \union Shipped
             Goal == /\ IsFiniteSet(Pieces(B'))
                     /\ faults'["stall"] = 0 =>
                          /\ available' >= 0
                          /\ available' + Stock(B') <= InitialStock + Stock(Twice')
                          /\ Stock(Held') <= reserved' + Stock(Twice')
                          /\ \A v \in Workers : Reads(v)'
  <1>1. /\ TypeOK /\ DecisionsStand /\ IsFiniteSet(Pieces(B))
        /\ worker \in [Workers -> [at : Stages, cmd : Commands \union {NoCommand},
                                   available : Int, reserved : Int]]
        /\ available \in Int /\ reserved \in Int /\ InitialStock \in Int
    BY QuantityAssumption DEF IInv, StockInv, TypeOK
  <1>2. faults'["stall"] = 0 =>
           /\ LockedOut /\ LockedOut'
           /\ available >= 0
           /\ available + Stock(B) <= InitialStock + Stock(Twice)
           /\ Stock(Held) <= reserved + Stock(Twice)
           /\ \A v \in Workers : Reads(v)
    BY StallsAdd, LockStep DEF StockInv, Accounted, Reads
  <1>3. SUFFICES Goal
    BY <1>2, Primed DEF StockInv, Accounted, Reads
  <1>4. /\ Held \in SUBSET Sagas /\ B \in SUBSET Sagas /\ Twice \in SUBSET Sagas
        /\ IsFiniteSet(Pieces(Held)) /\ IsFiniteSet(Pieces(Twice))
        /\ Stock(B) \in Nat /\ Stock(Held) \in Nat /\ Stock(Twice) \in Nat
    <2>1. Held \in SUBSET Sagas /\ B \in SUBSET Sagas /\ Twice \in SUBSET Sagas
          /\ Held \subseteq B /\ Twice \subseteq B
      BY DEF Held, Shipped, Returned, Twice
    <2>2. IsFiniteSet(Pieces(Held)) /\ IsFiniteSet(Pieces(Twice))
      BY <1>1, <2>1, FewerPieces
    <2> QED
      BY <1>1, <2>1, <2>2, FS_CardinalityType DEF Stock
  <1>5. ASSUME UNCHANGED counters, Held' = Held, Shipped' = Shipped, Returned' = Returned,
               \A v \in Workers : worker'[v].at = "commit" =>
                   /\ worker[v].at = "commit" /\ worker'[v].cmd = worker[v].cmd
                   /\ worker'[v].available = worker[v].available
                   /\ worker'[v].reserved = worker[v].reserved
        PROVE  Goal
    <2>1. Twice' = Twice /\ B' = B
      BY <1>5 DEF Twice
    <2>2. (\A v \in Workers : Reads(v)) => \A v \in Workers : Reads(v)'
      BY <1>1, <1>5 DEF counters, Reads
    <2> HIDE DEF B
    <2> QED
      BY <1>1, <1>2, <1>5, <2>1, <2>2 DEF counters
  <1>6. ASSUME NEW w \in Workers, \A v \in Workers \ {w} : worker'[v] = worker[v],
               worker'[w].at # "commit", UNCHANGED <<reservation, outbox, counters>>
        PROVE  Goal
    BY <1>5, <1>6, Counted
  <1>7. ASSUME NEW w \in Workers, SkipMessage(w) PROVE Goal
    <2>1. IdleWorker.at # "commit"
      BY DEF IdleWorker
    <2> QED
      BY <1>1, <1>6, <1>7, <2>1 DEF SkipMessage, tables, counters
  <1>8. ASSUME NEW w \in Workers, NEW g, Goto(w, g), g # "commit",
               UNCHANGED <<reservation, outbox, counters>>
        PROVE  Goal
    BY <1>1, <1>6, <1>8 DEF Goto
  <1>9. ASSUME NEW w \in Workers, ReadItem(w) PROVE Goal
    <2>1. /\ UNCHANGED <<reservation, outbox, counters>> /\ worker[w].at = "read"
          /\ \A v \in Workers \ {w} : worker'[v] = worker[v]
          /\ worker'[w].available = available /\ worker'[w].reserved = reserved
          /\ worker'[w].cmd = worker[w].cmd
          /\ worker'[w].at = "commit" => ~(available < Quantity[worker[w].cmd.saga])
      BY <1>1, <1>9 DEF ReadItem, tables, counters
    <2>2. \A v \in Workers \ {w} : Reads(v) => Reads(v)'
      BY <2>1 DEF Reads, counters
    <2>3. Reads(w)'
      <3>1. worker[w].cmd \in Commands /\ worker[w].cmd.saga \in Sagas
        BY <2>1, Typed
      <3> QED
        BY <1>1, <2>1, <3>1, QuantityAssumption DEF Reads, counters
    <2>4. Held' = Held /\ B' = B /\ Twice' = Twice
      BY <2>1, Counted DEF Twice
    <2> HIDE DEF B
    <2> QED
      BY <1>1, <1>2, <2>1, <2>2, <2>3, <2>4 DEF counters
  <1>10. ASSUME NEW w \in Workers, CommitReserve(w) PROVE Goal
    <2> DEFINE s == worker[w].cmd.saga
               q == Quantity[s]
    <2>1. /\ worker[w].at = "commit" /\ s \in Sagas /\ q \in Nat
          /\ worker[w].available \in Int /\ worker[w].reserved \in Int
      BY <1>10, Typed, QuantityAssumption DEF CommitReserve, IInv
    <2>2. /\ available' = worker[w].available - q /\ reserved' = worker[w].reserved + q
          /\ worker'[w].at = "unlock" /\ \A v \in Workers \ {w} : worker'[v] = worker[v]
      BY <1>1, <1>10 DEF CommitReserve, SetAside, Goto
    <2>3. /\ s \notin Held /\ s \notin B /\ Held' = Held \union {s} /\ B' = B \union {s}
          /\ Twice' = Twice
      BY <1>10, Sets DEF Twice
    <2>4. /\ IsFiniteSet(Pieces(B')) /\ Stock(Held') = Stock(Held) + q
          /\ Stock(B') = Stock(B) + q
      <3> HIDE DEF B
      <3> QED
        BY <1>1, <1>4, <2>1, <2>3, Recount
    <2>5. SUFFICES ASSUME faults'["stall"] = 0
                   PROVE  /\ available' >= 0
                          /\ available' + Stock(B') <= InitialStock + Stock(Twice')
                          /\ Stock(Held') <= reserved' + Stock(Twice')
                          /\ \A v \in Workers : worker'[v].at # "commit"
      BY <2>4 DEF Reads
    <2>6. q <= worker[w].available /\ worker[w].available <= available
          /\ reserved <= worker[w].reserved
      BY <1>2, <2>1, <2>5 DEF Reads
    <2>7. ASSUME NEW v \in Workers, worker'[v].at = "commit" PROVE FALSE
      <3>1. v # w /\ worker[v].at = "commit"
        BY <2>2, <2>7
      <3> QED
        BY <1>2, <2>1, <2>5, <3>1 DEF LockedOut, Section
    <2>8. /\ available + Stock(B) <= InitialStock + Stock(Twice)
          /\ Stock(Held) <= reserved + Stock(Twice)
      BY <1>2, <2>5
    <2> HIDE DEF s, q, B
    <2>9. /\ available' >= 0 /\ available' + Stock(B') <= InitialStock + Stock(Twice')
          /\ Stock(Held') <= reserved' + Stock(Twice')
      BY <1>1, <1>4, <2>1, <2>2, <2>3, <2>4, <2>6, <2>8
    <2> QED
      BY <2>7, <2>9
  <1>11. ASSUME NEW w \in Workers, NEW type, NEW new, NEW reply, Commit(w, type, new, reply)
         PROVE  /\ worker'[w].at # "commit"
                /\ \A v \in Workers \ {w} : worker'[v] = worker[v]
    BY <1>1, <1>11 DEF Commit, Goto
  <1>12. ASSUME NEW w \in Workers, \A v \in Workers \ {w} : worker'[v] = worker[v],
                worker'[w].at # "commit", available' \in Int, reserved' \in Int,
                available <= available', reserved' <= reserved
         PROVE  \A v \in Workers : Reads(v) => Reads(v)'
    <2> SUFFICES ASSUME NEW v \in Workers, Reads(v), worker'[v].at = "commit"
                 PROVE  Reads(v)'
      BY DEF Reads
    <2>1. worker'[v] = worker[v] /\ worker[v].available \in Int /\ worker[v].reserved \in Int
      BY <1>1, <1>12
    <2> QED
      BY <1>1, <1>12, <2>1 DEF Reads
  <1>13. ASSUME NEW w \in Workers, ConfirmStock(w) PROVE Goal
    <2> DEFINE s == worker[w].cmd.saga
               q == Quantity[s]
    <2>1. /\ s \in Sagas /\ q \in Nat
          /\ s \notin Shipped /\ (s \in Held <=> s \notin Returned)
          /\ Held' = Held \ {s} /\ Shipped' = Shipped \union {s} /\ Returned' = Returned
      BY <1>13, Sets, QuantityAssumption
    <2>2. reserved' = reserved - q /\ available' = available
      BY <1>13 DEF ConfirmStock
    <2>3. worker'[w].at # "commit" /\ \A v \in Workers \ {w} : worker'[v] = worker[v]
      BY <1>11, <1>13 DEF ConfirmStock
    <2>4. \A v \in Workers : Reads(v) => Reads(v)'
      BY <1>1, <1>12, <2>1, <2>2, <2>3
    <2>5. CASE s \in Held
      <3>1. /\ B' = B /\ Twice' = Twice
            /\ Pieces(B') = Pieces(B) /\ Stock(B') = Stock(B)
        BY <2>1, <2>5 DEF Twice
      <3>2. Stock(Held') = Stock(Held) - q
        BY <1>4, <2>1, <2>5, Recount
      <3>3. IsFiniteSet(Pieces(B'))
        BY <1>1, <3>1
      <3> HIDE DEF B, s, q
      <3>4. ASSUME faults'["stall"] = 0
            PROVE  /\ available' >= 0
                   /\ available' + Stock(B') <= InitialStock + Stock(Twice')
                   /\ Stock(Held') <= reserved' + Stock(Twice')
        BY <1>1, <1>2, <1>4, <2>1, <2>2, <3>1, <3>2, <3>4
      <3>5. ASSUME faults'["stall"] = 0, NEW v \in Workers PROVE Reads(v)'
        BY <1>2, <2>4, <3>5
      <3> QED
        BY <3>3, <3>4, <3>5
    <2>6. CASE s \notin Held
      <3>1. /\ s \notin B /\ B' = B \union {s} /\ Held' = Held
            /\ s \notin Twice /\ Twice' = Twice \union {s}
        BY <2>1, <2>6 DEF Twice
      <3> HIDE DEF B
      <3>2. /\ IsFiniteSet(Pieces(B')) /\ Stock(B') = Stock(B) + q
            /\ Stock(Twice') = Stock(Twice) + q
        BY <1>1, <1>4, <2>1, <3>1, Recount
      <3> HIDE DEF B, s, q
      <3>4. ASSUME faults'["stall"] = 0
            PROVE  /\ available' >= 0
                   /\ available' + Stock(B') <= InitialStock + Stock(Twice')
                   /\ Stock(Held') <= reserved' + Stock(Twice')
        <4>1. /\ available \in Int /\ reserved \in Int /\ InitialStock \in Int /\ q \in Nat
              /\ Stock(B) \in Nat /\ Stock(Held) \in Nat /\ Stock(Twice) \in Nat
          BY <1>1, <1>4, <2>1
        <4>2. /\ available >= 0 /\ available + Stock(B) <= InitialStock + Stock(Twice)
              /\ Stock(Held) <= reserved + Stock(Twice)
          BY <1>2, <3>4
        <4>3. Stock(Held') = Stock(Held)
          BY <3>1
        <4> QED
          BY <2>2, <3>1, <3>2, <4>1, <4>2, <4>3
      <3>5. ASSUME faults'["stall"] = 0, NEW v \in Workers PROVE Reads(v)'
        BY <1>2, <2>4, <3>5
      <3> QED
        BY <3>2, <3>4, <3>5
    <2> QED
      BY <2>5, <2>6
  <1>14. ASSUME NEW w \in Workers, ReleaseStock(w) PROVE Goal
    <2> DEFINE s == worker[w].cmd.saga
               q == Quantity[s]
    <2>1. /\ s \in Sagas /\ q \in Nat
          /\ s \notin Returned /\ (s \in Held <=> s \notin Shipped)
          /\ Held' = Held \ {s} /\ Returned' = Returned \union {s} /\ Shipped' = Shipped
      BY <1>14, Sets, QuantityAssumption
    <2>2. reserved' = reserved - q /\ available' = available + q
      BY <1>14 DEF ReleaseStock
    <2>3. worker'[w].at # "commit" /\ \A v \in Workers \ {w} : worker'[v] = worker[v]
      BY <1>11, <1>14 DEF ReleaseStock
    <2>4. \A v \in Workers : Reads(v) => Reads(v)'
      BY <1>1, <1>12, <2>1, <2>2, <2>3
    <2>5. CASE s \in Held
      <3>1. s \in B /\ B' = B \ {s} /\ Twice' = Twice
        BY <2>1, <2>5 DEF Twice
      <3>2. Stock(Held') = Stock(Held) - q
        BY <1>4, <2>1, <2>5, Recount
      <3> HIDE DEF B
      <3>3. IsFiniteSet(Pieces(B')) /\ Stock(B') = Stock(B) - q
        BY <1>1, <1>4, <2>1, <3>1, Recount
      <3> HIDE DEF s, q
      <3> QED
        BY <1>1, <1>2, <1>4, <2>1, <2>2, <2>4, <3>1, <3>2, <3>3
    <2>6. CASE s \notin Held
      <3>1. /\ B' = B /\ Held' = Held /\ s \notin Twice /\ Twice' = Twice \union {s}
            /\ Pieces(B') = Pieces(B) /\ Stock(B') = Stock(B)
        BY <2>1, <2>6 DEF Twice
      <3>2. Stock(Twice') = Stock(Twice) + q
        BY <1>4, <2>1, <3>1, Recount
      <3>3. IsFiniteSet(Pieces(B'))
        BY <1>1, <3>1
      <3> HIDE DEF B, s, q
      <3>4. ASSUME faults'["stall"] = 0
            PROVE  /\ available' >= 0
                   /\ available' + Stock(B') <= InitialStock + Stock(Twice')
                   /\ Stock(Held') <= reserved' + Stock(Twice')
        <4>1. /\ available \in Int /\ reserved \in Int /\ InitialStock \in Int /\ q \in Nat
              /\ Stock(B) \in Nat /\ Stock(Held) \in Nat /\ Stock(Twice) \in Nat
          BY <1>1, <1>4, <2>1
        <4>2. /\ available >= 0 /\ available + Stock(B) <= InitialStock + Stock(Twice)
              /\ Stock(Held) <= reserved + Stock(Twice)
          BY <1>2, <3>4
        <4>3. Stock(Held') = Stock(Held)
          BY <3>1
        <4> QED
          BY <2>2, <3>1, <3>2, <4>1, <4>2, <4>3
      <3>5. ASSUME faults'["stall"] = 0, NEW v \in Workers PROVE Reads(v)'
        BY <1>2, <2>4, <3>5
      <3> QED
        BY <3>3, <3>4, <3>5
    <2> QED
      BY <2>5, <2>6
  <1>15. ASSUME NEW w \in Workers, QueueRefusal(w) PROVE Goal
    <2>1. /\ \A v \in Workers \ {w} : worker'[v] = worker[v]
          /\ worker'[w].at # "commit" /\ UNCHANGED counters
      BY <1>1, <1>15 DEF QueueRefusal, Goto
    <2> QED
      BY <1>5, <1>15, <2>1, Sets
  <1> HIDE DEF Goal
  <1>16. ASSUME NEW w \in Workers, Work(w) PROVE Goal
    <2>1. CASE \E c \in queue : Receive(w, c)
      BY <1>1, <1>6, <2>1 DEF Receive, tables, counters
    <2>2. CASE Ack(w)
      BY <1>1, <1>6, <2>2 DEF Ack, IdleWorker, tables, counters
    <2>3. CASE CheckDuplicate(w) \/ FindReservation(w)
      BY <1>8, <2>3 DEF CheckDuplicate, FindReservation, tables, counters
    <2>4. CASE AcquireLock(w) \/ MarkProcessed(w)
      BY <1>8, <2>4 DEF AcquireLock, MarkProcessed, tables, counters
    <2>5. CASE LockBusy(w) \/ RollBack(w)
      BY <1>7, <2>5 DEF LockBusy, RollBack
    <2>6. CASE Unlock(w)
      BY <1>7, <1>8, <2>6 DEF Unlock, tables, counters
    <2> QED
      BY <1>9, <1>10, <1>13, <1>14, <1>15, <1>16, <2>1, <2>2, <2>3, <2>4, <2>5, <2>6 DEF Work
  <1>17. ASSUME NEW w \in Workers, Throw(w) PROVE Goal
    BY <1>7, <1>17 DEF Throw
  <1>18. CASE Crash
    <2>1. IdleWorker.at # "commit"
      BY DEF IdleWorker
    <2>2. Held' = Held /\ Shipped' = Shipped /\ Returned' = Returned
      BY <1>18, Counted DEF Crash, tables
    <2> QED
      BY <1>5, <1>18, <2>1, <2>2 DEF Crash
  <1>19. CASE \/ Expire \/ (\E c \in Commands : Send(c)) \/ (\E c \in sent : Redeliver(c))
              \/ UNCHANGED vars
    <2>1. UNCHANGED <<tables, counters, worker>>
      BY <1>19 DEF Expire, Send, Redeliver, vars, tables, counters
    <2>2. Held' = Held /\ Shipped' = Shipped /\ Returned' = Returned
      BY <2>1, Counted DEF tables
    <2> QED
      BY <1>5, <2>1, <2>2
  <1> QED
    BY <1>16, <1>17, <1>18, <1>19 DEF Next

\* Nothing is reserved at the start and all of the stock is available.
LEMMA InitStock == Init => StockInv
  <1> SUFFICES ASSUME Init PROVE StockInv
    OBVIOUS
  <1>1. \A c \in Commands : \A r : ~Promise!Answered(c, r)
    <2>1. \A r : <<>> # <<r>>
      OBVIOUS
    <2> QED
      BY <2>1 DEF Init, Promise!Init, Promise!Answered
  <1>2. Held = {} /\ Held \union Shipped = {} /\ Twice = {}
    BY <1>1 DEF Init, Promise!Init, Promise!Told, Held, Shipped, Twice
  <1>3. Pieces({}) = {}
    BY DEF Pieces
  <1>4. IsFiniteSet(Pieces({})) /\ Stock({}) = 0
    BY <1>3, FS_EmptySet DEF Stock
  <1>5. \A w \in Workers : worker[w].at = "idle"
    BY DEF Init, IdleWorker
  <1> QED
    <2>1. /\ IsFiniteSet(Pieces(Held \union Shipped))
          /\ Stock(Held \union Shipped) = 0 /\ Stock(Held) = 0 /\ Stock(Twice) = 0
      BY <1>2, <1>4, Zenon
    <2>2. available = InitialStock /\ reserved = 0 /\ InitialStock \in Nat
      BY QuantityAssumption DEF Init
    <2>3. LockedOut
      BY <1>5 DEF LockedOut, Section
    <2>4. Accounted
      BY <1>5, <2>1, <2>2 DEF Accounted
    <2> QED
      BY <2>1, <2>3, <2>4 DEF StockInv

\* So they do in every behaviour.
LEMMA Accounting == Spec => []StockInv
  <1>1. IInv /\ PromiseInv /\ [Next]_vars /\ StockInv => StockInv'
    BY StockStep
  <1> QED
    BY <1>1, InitStock, Invariance, Promised, PTL DEF Spec

\* However reserve, confirm and release interleave, crash and are repeated, no
\* more is held and shipped than there was, while locks outlive their sections,
\* but for the orders of sagas that were settled both ways.
THEOREM NeverOversold == Spec => []NoOversell
  <1>1. IInv /\ StockInv => NoOversell
    <2> SUFFICES ASSUME IInv, StockInv, faults["stall"] = 0
                 PROVE  Stock(Held \union Shipped) <= InitialStock + Stock(Twice)
      BY DEF NoOversell
    <2>1. IsFiniteSet(Pieces(Twice))
      BY FewerPieces DEF StockInv, Twice
    <2>2. /\ available \in Int /\ InitialStock \in Int
          /\ Stock(Held \union Shipped) \in Nat /\ Stock(Twice) \in Nat
      BY <2>1, FS_CardinalityType, QuantityAssumption DEF IInv, TypeOK, StockInv, Stock
    <2>3. available >= 0 /\ available + Stock(Held \union Shipped) <= InitialStock + Stock(Twice)
      BY DEF StockInv, Accounted
    <2> QED
      BY <2>2, <2>3
  <1> QED
    BY <1>1, Accounting, Invariance, PTL

\* The reserved counter covers the held reservations, so that no settlement
\* drives it below zero, although two workers may write values read before; what
\* it lacks was subtracted twice for sagas that were settled both ways.
THEOREM CounterCoversHeld == Spec => []ReservedCoversHeld
  <1>1. StockInv => ReservedCoversHeld
    BY DEF StockInv, Accounted, ReservedCoversHeld
  <1> QED
    BY <1>1, Accounting, PTL
=============================================================================
