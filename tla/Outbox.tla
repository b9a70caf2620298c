-------------------------------- MODULE Outbox ---------------------------------
(***************************************************************************)
(* The transactional outbox of a service: rows written with the business   *)
(* data, and the cron job that publishes them.  Every process of the       *)
(* service runs the job; isRunning keeps two invocations of one process    *)
(* apart, nothing keeps two processes apart.                               *)
(*                                                                         *)
(* The mishaps (a send or a mark that fails, a restart) are actions        *)
(* without a bound here; the composition bounds them.                      *)
(***************************************************************************)
EXTENDS Partition

CONSTANTS
    Processes,
    BatchSize  \* take: 100

VARIABLES
    created,    \* createdAt of each row: the place of its transaction's begin, or 0
    accepted,   \* rows whose transaction committed
    published,  \* rows marked as published
    job         \* per process: the rows still to publish, and which of them,
                \* if any, was just sent

rows == <<created, accepted>>
outboxVars == <<created, accepted, published, log, job>>

ASSUME BatchAssumption == BatchSize \in Nat \ {0}

OutboxTypeOK ==
    /\ created \in [Events -> Nat]
    /\ accepted \subseteq Events /\ published \subseteq Events
    /\ log \in Seq(Events)
    /\ job \in [Processes -> [todo : SUBSET Events, sent : SUBSET Events]]

IdleJob == [todo |-> {}, sent |-> {}]

OutboxInit ==
    /\ created = [r \in Events |-> 0]
    /\ accepted = {} /\ published = {} /\ log = <<>>
    /\ job = [p \in Processes |-> IdleJob]

-----------------------------------------------------------------------------
(* The transactions of the service.  createdAt is the time a transaction   *)
(* begins; its row is seen once it commits, so that a row may appear       *)
(* before an older one.                                                    *)

Open(r) == created[r] # 0 /\ r \notin accepted

Begin(r) ==
    /\ created[r] = 0
    /\ created' = [created EXCEPT ![r] = 1 + Cardinality({q \in Events : created[q] # 0})]
    /\ UNCHANGED <<accepted, published, log, job>>

CommitRow(r) ==
    /\ Open(r)
    /\ accepted' = accepted \union {r}
    /\ UNCHANGED <<created, published, log, job>>

-----------------------------------------------------------------------------
(* publishOutboxEvents                                                     *)

Older(q, r) == created[q] <= created[r]
Oldest(S) == {r \in S : \A q \in S : Older(r, q)}
isRunning(p) == job[p].todo # {}

\* The rows find() may return: the oldest unpublished ones, as many as it takes.
Batches ==
    LET pending == accepted \ published
    IN  {S \in SUBSET pending :
            /\ S # {}
            /\ Cardinality(S) <= BatchSize
            /\ S # pending => Cardinality(S) = BatchSize
            /\ \A q \in S, r \in pending \ S : Older(q, r)}

Find(p) ==
    /\ ~isRunning(p)
    /\ \E S \in Batches : job' = [job EXCEPT ![p] = [todo |-> S, sent |-> {}]]
    /\ UNCHANGED <<rows, published, log>>

\* Goes on with the next row; isRunning falls with the last one.
Proceed(p, done) == job' = [job EXCEPT ![p] = [todo |-> @.todo \ done, sent |-> {}]]

Send(p) ==
    /\ job[p].sent = {}
    /\ \E r \in Oldest(job[p].todo) :
         /\ log' = Append(log, r)
         /\ job' = [job EXCEPT ![p].sent = {r}]
    /\ UNCHANGED <<rows, published>>

\* Mutant: a row is marked although its send failed.
GiveUp(p) ==
    /\ job[p].sent = {}
    /\ \E r \in Oldest(job[p].todo) :
         published' = published \union {r} /\ Proceed(p, {r})
    /\ UNCHANGED <<rows, log>>

\* The producer throws, whether the broker has the message or not.
SendFails(p) ==
    /\ job[p].sent = {}
    /\ \E r \in Oldest(job[p].todo) :
         log' \in {log, Append(log, r)} /\ Proceed(p, {r})
    /\ UNCHANGED <<rows, published>>

\* Mutant: a row is marked before it is sent, if it is sent at all.
MarkFirst(p) ==
    /\ isRunning(p)
    /\ \E r \in Oldest(job[p].todo) :
         published' = published \union {r} /\ Proceed(p, job[p].sent)
    /\ UNCHANGED <<rows, log>>

Mark(p) ==
    /\ job[p].sent # {}
    /\ published' = published \union job[p].sent
    /\ Proceed(p, job[p].sent)
    /\ UNCHANGED <<rows, log>>

MarkFails(p) ==
    /\ job[p].sent # {}
    /\ Proceed(p, job[p].sent)
    /\ UNCHANGED <<rows, published, log>>

\* The process restarts: its list is lost.
Restart(p) ==
    /\ isRunning(p)
    /\ job' = [job EXCEPT ![p] = IdleJob]
    /\ UNCHANGED <<rows, published, log>>

OutboxNext ==
    \/ \E r \in Events : Begin(r) \/ CommitRow(r)
    \/ \E p \in Processes :
         Find(p) \/ Send(p) \/ SendFails(p) \/ Mark(p) \/ MarkFails(p) \/ Restart(p)

OutboxSpec == OutboxInit /\ [][OutboxNext]_outboxVars

-----------------------------------------------------------------------------
(* A job works on rows of committed transactions, and a row is marked, or  *)
(* about to be, only if the topic has it.  Inductive.                      *)
OutboxIInv ==
    /\ OutboxTypeOK
    /\ \A p \in Processes : job[p].todo \subseteq accepted /\ job[p].sent \subseteq job[p].todo
    /\ \A p \in Processes : \A r \in job[p].sent : OnLog(r)
    /\ \A p \in Processes : job[p].sent = {} \/ \E r \in Events : job[p].sent = {r}
    /\ \A r \in published : OnLog(r)
    /\ \A r \in accepted : created[r] # 0
=============================================================================
