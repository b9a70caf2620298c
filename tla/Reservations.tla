----------------------------- MODULE Reservations -----------------------------
(***************************************************************************)
(* What inventory-service promises to the orchestrator, without its        *)
(* workers, lock, counters and queues: every command has its effect and    *)
(* its reply at most once, and each kind of settlement of a reservation    *)
(* too.  A settlement is decided from a HELD reservation and made later;   *)
(* when a confirmation and a release of one saga overlap, both are made.   *)
(* OrderFlow relies on this much of the service; Inventory is the service  *)
(* itself.                                                                 *)
(***************************************************************************)
EXTENDS Naturals, Sequences

CONSTANTS Sagas,    \* sagas that ask for stock, one product and one order each
          Commands  \* the commands that may be published for them

CommandTypes == {"reserve_stock", "confirm_stock", "release_stock"}
\* A command published again has another eventId: it is another copy.
CommandsOK == Commands \subseteq [type : CommandTypes, saga : Sagas, copy : Nat]

ReservationStatus == {"none", "HELD", "CONFIRMED", "RELEASED"}
Replies == {"stock_reserved", "stock_insufficient", "stock_confirmed", "stock_released"}

VARIABLES
    reservation,  \* stock_reservation.status of each saga
    processed,    \* commands whose eventId is in processed_event
    outbox,       \* the outbox rows each command caused, in order
    decided       \* settlements that found their reservation HELD

promised == <<reservation, processed, outbox, decided>>

Init ==
    /\ reservation = [s \in Sagas |-> "none"]
    /\ processed = {}
    /\ outbox = [c \in Commands |-> <<>>]
    /\ decided = {}

Reply(c, r) == outbox' = [outbox EXCEPT ![c] = Append(@, r)]
Process(c) == c \notin processed /\ processed' = processed \union {c}

Reserve(c) ==
    /\ c.type = "reserve_stock" /\ Process(c)
    /\ reservation[c.saga] = "none"
    /\ reservation' = [reservation EXCEPT ![c.saga] = "HELD"]
    /\ Reply(c, "stock_reserved")
    /\ UNCHANGED decided

\* A refusal is first remembered, then answered.
Refuse(c) ==
    /\ c.type = "reserve_stock" /\ Process(c)
    /\ UNCHANGED <<reservation, outbox, decided>>
ReplyRefusal(c) ==
    /\ c.type = "reserve_stock" /\ c \in processed /\ outbox[c] = <<>>
    /\ Reply(c, "stock_insufficient")
    /\ UNCHANGED <<reservation, processed, decided>>

\* Only a HELD reservation is settled, by one command of a kind at a time.
Decide(c) ==
    /\ c.type # "reserve_stock" /\ c \notin processed
    /\ reservation[c.saga] = "HELD"
    /\ \A d \in decided : d.saga = c.saga => d.type # c.type
    /\ decided' = decided \union {c}
    /\ UNCHANGED <<reservation, processed, outbox>>

\* A failure or a restart takes back what was decided and not yet made.
Abandon ==
    /\ decided' \in SUBSET decided
    /\ UNCHANGED <<reservation, processed, outbox>>

\* The settlement is made, whatever the reservation has become meanwhile.
Settle(c, type, new, reply) ==
    /\ c.type = type /\ c \in decided /\ Process(c)
    /\ reservation' = [reservation EXCEPT ![c.saga] = new]
    /\ Reply(c, reply)
    /\ decided' = decided \ {c}

Next ==
    \/ \E c \in Commands :
         \/ Reserve(c) \/ Refuse(c) \/ ReplyRefusal(c) \/ Decide(c)
         \/ Settle(c, "confirm_stock", "CONFIRMED", "stock_confirmed")
         \/ Settle(c, "release_stock", "RELEASED", "stock_released")
    \/ Abandon

Spec == Init /\ [][Next]_promised

-----------------------------------------------------------------------------
TypeOK ==
    /\ reservation \in [Sagas -> ReservationStatus]
    /\ processed \subseteq Commands
    /\ outbox \in [Commands -> Seq(Replies)]
    /\ decided \subseteq Commands

Answered(c, r) == outbox[c] = <<r>>
Told(s, r) == \E c \in Commands : c.saga = s /\ Answered(c, r)

\* No command is answered twice, by the same or by different replies: a
\* redelivered eventId is dropped.
OneReply == \A c \in Commands : Len(outbox[c]) <= 1 /\ (outbox[c] # <<>> => c \in processed)

\* "double reserve" cannot happen: of all commands published for a saga, by
\* startSaga and by the recovery cron, at most one is answered stock_reserved,
\* and only with a reservation behind it.
ReservedOnce ==
    \A c, d \in Commands :
        Answered(c, "stock_reserved") =>
            /\ reservation[c.saga] # "none"
            /\ d.saga = c.saga /\ Answered(d, "stock_reserved") => d = c

\* What the orchestrator is told of a settlement is what happened, and each
\* settlement of a saga is made once at most, however often it is asked for; a
\* reservation that is not what a reply says was also settled the other way,
\* and the orchestrator is told of that too.
SettledAsAnswered ==
    \A c \in Commands :
        /\ Answered(c, "stock_confirmed") =>
             \/ reservation[c.saga] = "CONFIRMED"
             \/ reservation[c.saga] = "RELEASED" /\ Told(c.saga, "stock_released")
        /\ Answered(c, "stock_released") =>
             \/ reservation[c.saga] = "RELEASED"
             \/ reservation[c.saga] = "CONFIRMED" /\ Told(c.saga, "stock_confirmed")
        /\ \A d \in Commands, r \in {"stock_confirmed", "stock_released"} :
             d.saga = c.saga /\ Answered(c, r) /\ Answered(d, r) => d = c
=============================================================================
