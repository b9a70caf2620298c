---------------------------- MODULE DeliveryProofs ----------------------------
(***************************************************************************)
(* Theorems about Delivery, for any events, processes, members, batches    *)
(* and mishaps: the outbox keeps the promise of the channel, and what a    *)
(* consumer group has passed was handled.                                  *)
(*                                                                         *)
(* The invariants of Outbox and KafkaConsumer are proved for all their     *)
(* steps; a step of Delivery is then one of each, or leaves them alone.    *)
(***************************************************************************)
EXTENDS Delivery, SequenceTheorems, FiniteSetTheorems, TLAPS

-----------------------------------------------------------------------------
(* The log.                                                                *)

LEMMA AppendKeeps ==
    ASSUME NEW e \in Events, log \in Seq(Events), log' = Append(log, e)
    PROVE  /\ log' \in Seq(Events)
           /\ \A r \in Events : OnLog(r) => OnLog(r)'
           /\ OnLog(e)'
           /\ DOMAIN log \subseteq DOMAIN log'
<1>1. /\ log' \in Seq(Events) /\ Len(log') = Len(log) + 1
      /\ \A i \in 1..Len(log) : log'[i] = log[i]
      /\ log'[Len(log) + 1] = e
  BY AppendProperties
<1>2. DOMAIN log = 1..Len(log) /\ DOMAIN log' = 1..Len(log') /\ Len(log) \in Nat
  BY <1>1, LenProperties
<1> QED BY <1>1, <1>2 DEF OnLog

LEMMA BatchIsAccepted == ASSUME NEW S \in Batches PROVE S \subseteq accepted
BY DEF Batches

LEMMA OutboxInitial == OutboxInit => OutboxIInv
BY DEF OutboxInit, OutboxIInv, OutboxTypeOK, IdleJob

(* A row that a job is done with leaves its list.                          *)
LEMMA ProceedKeeps ==
    ASSUME OutboxIInv, NEW p \in Processes, NEW S, Proceed(p, S)
    PROVE  /\ job' \in [Processes -> [todo : SUBSET Events, sent : SUBSET Events]]
           /\ \A q \in Processes : /\ job'[q].todo \subseteq job[q].todo
                                   /\ job'[q].sent \in {job[q].sent, {}}
                                   /\ job'[q].sent \subseteq job'[q].todo
BY DEF OutboxIInv, OutboxTypeOK, Proceed

LEMMA OutboxStep == OutboxIInv /\ OutboxNext => OutboxIInv'
<1> SUFFICES ASSUME OutboxIInv, OutboxNext PROVE OutboxIInv'
  OBVIOUS
<1> USE DEF OutboxIInv, OutboxTypeOK, rows
<1>1. ASSUME NEW r \in Events, Begin(r) PROVE OutboxIInv'
  <2>1. 1 + Cardinality({q \in Events : created[q] # 0}) \in Nat \ {0}
    <3> DEFINE begun == {q \in Events : created[q] # 0}
    <3>1. IsFiniteSet(begun)
      BY EventsAssumption, FS_Subset
    <3> HIDE DEF begun
    <3>2. Cardinality(begun) \in Nat
      BY <3>1, FS_CardinalityType
    <3> QED BY <3>2 DEF begun
  <2> QED BY <1>1, <2>1 DEF Begin, OnLog
<1>2. ASSUME NEW r \in Events, CommitRow(r) PROVE OutboxIInv'
  BY <1>2 DEF CommitRow, Open, OnLog
<1>3. ASSUME NEW p \in Processes, Find(p) PROVE OutboxIInv'
  <2>1. PICK S \in Batches : job' = [job EXCEPT ![p] = [todo |-> S, sent |-> {}]]
    BY <1>3 DEF Find
  <2>2. S \subseteq accepted
    BY BatchIsAccepted
  <2> QED BY <1>3, <2>1, <2>2 DEF Find, OnLog
<1>4. ASSUME NEW p \in Processes, Send(p) PROVE OutboxIInv'
  <2>1. PICK r \in Oldest(job[p].todo) : /\ log' = Append(log, r)
                                         /\ job' = [job EXCEPT ![p].sent = {r}]
    BY <1>4 DEF Send
  <2>2. r \in Events
    BY <2>1 DEF Oldest
  <2>3. /\ log' \in Seq(Events) /\ OnLog(r)'
        /\ \A q \in Events : OnLog(q) => OnLog(q)'
    BY <2>1, <2>2, AppendKeeps
  <2>4. OutboxTypeOK'
    <3>1. job' \in [Processes -> [todo : SUBSET Events, sent : SUBSET Events]]
      BY <2>1, <2>2
    <3>2. created' = created /\ accepted' = accepted /\ published' = published
      BY <1>4 DEF Send
    <3> QED BY <2>3, <3>1, <3>2
  <2>5. \A q \in Processes : job'[q].todo \subseteq accepted /\ job'[q].sent \subseteq job'[q].todo
    BY <2>1 DEF Oldest
  <2>6. \A q \in Processes : \A s \in job'[q].sent : OnLog(s)'
    BY <2>1, <2>3
  <2>7. ASSUME NEW q \in Processes
        PROVE  job'[q].sent = {} \/ \E s \in Events : job'[q].sent = {s}
    <3>1. job'[q].sent = IF q = p THEN {r} ELSE job[q].sent
      BY <2>1
    <3>2. CASE q = p
      BY <2>2, <3>1, <3>2
    <3>3. CASE q # p
      <4>1. job'[q].sent = job[q].sent
        BY <3>1, <3>3
      <4> QED BY <4>1
    <3> QED BY <3>2, <3>3
  <2> HIDE DEF OutboxTypeOK
  <2> QED BY <1>4, <2>3, <2>4, <2>5, <2>6, <2>7 DEF Send, OutboxTypeOK
<1>5. ASSUME NEW p \in Processes, SendFails(p) PROVE OutboxIInv'
  <2>1. PICK r \in Oldest(job[p].todo) : log' \in {log, Append(log, r)} /\ Proceed(p, {r})
    BY <1>5 DEF SendFails
  <2>2. r \in Events
    BY <2>1 DEF Oldest
  <2>3. log' \in Seq(Events) /\ \A q \in Events : OnLog(q) => OnLog(q)'
    <3>1. CASE log' = log
      BY <3>1 DEF OnLog
    <3>2. CASE log' = Append(log, r)
      BY <3>2, <2>2, AppendKeeps
    <3> QED BY <2>1, <3>1, <3>2
  <2>4. \A q \in Processes : /\ job'[q].todo \subseteq job[q].todo
                             /\ job'[q].sent \in {job[q].sent, {}}
                             /\ job'[q].sent \subseteq job'[q].todo
    BY <2>1, ProceedKeeps
  <2>5. OutboxTypeOK'
    BY <1>5, <2>1, <2>3, ProceedKeeps DEF SendFails
  <2>6. created' = created /\ accepted' = accepted /\ published' = published
    BY <1>5 DEF SendFails
  <2> HIDE DEF OutboxTypeOK
  <2> QED BY <2>3, <2>4, <2>5, <2>6 DEF OutboxTypeOK
<1>6. ASSUME NEW p \in Processes, Mark(p) PROVE OutboxIInv'
  <2>1. Proceed(p, job[p].sent) /\ log' = log /\ accepted' = accepted /\ created' = created
    BY <1>6 DEF Mark
  <2>2. \A q \in Processes : /\ job'[q].todo \subseteq job[q].todo
                             /\ job'[q].sent \in {job[q].sent, {}}
                             /\ job'[q].sent \subseteq job'[q].todo
    BY <2>1, ProceedKeeps
  <2>3. job' \in [Processes -> [todo : SUBSET Events, sent : SUBSET Events]]
    BY <2>1, ProceedKeeps
  <2>4. \A r \in Events : OnLog(r)' <=> OnLog(r)
    BY <2>1 DEF OnLog
  <2>5. published' \subseteq published \union job[p].sent
    BY <1>6 DEF Mark
  <2>6. OutboxTypeOK'
    BY <2>1, <2>3, <2>5
  <2>7. \A r \in published' : OnLog(r)'
    BY <2>4, <2>5
  <2>8. \A q \in Processes : /\ job'[q].todo \subseteq accepted'
                             /\ \A r \in job'[q].sent : OnLog(r)'
    BY <2>1, <2>2, <2>4
  <2>9. \A q \in Processes : job'[q].sent = {} \/ \E r \in Events : job'[q].sent = {r}
    BY <2>2
  <2> HIDE DEF OutboxTypeOK
  <2> QED BY <2>1, <2>2, <2>6, <2>7, <2>8, <2>9
<1>7. ASSUME NEW p \in Processes, MarkFails(p) PROVE OutboxIInv'
  <2>1. Proceed(p, job[p].sent) /\ log' = log /\ accepted' = accepted /\ created' = created
    BY <1>7 DEF MarkFails
  <2>2. \A q \in Processes : /\ job'[q].todo \subseteq job[q].todo
                             /\ job'[q].sent \in {job[q].sent, {}}
                             /\ job'[q].sent \subseteq job'[q].todo
    BY <2>1, ProceedKeeps
  <2>3. job' \in [Processes -> [todo : SUBSET Events, sent : SUBSET Events]]
    BY <2>1, ProceedKeeps
  <2>4. \A r \in Events : OnLog(r)' <=> OnLog(r)
    BY <2>1 DEF OnLog
  <2>5. published' \subseteq published \union job[p].sent
    BY <1>7 DEF MarkFails
  <2>6. OutboxTypeOK'
    BY <2>1, <2>3, <2>5
  <2>7. \A r \in published' : OnLog(r)'
    BY <2>4, <2>5
  <2>8. \A q \in Processes : /\ job'[q].todo \subseteq accepted'
                             /\ \A r \in job'[q].sent : OnLog(r)'
    BY <2>1, <2>2, <2>4
  <2>9. \A q \in Processes : job'[q].sent = {} \/ \E r \in Events : job'[q].sent = {r}
    BY <2>2
  <2> HIDE DEF OutboxTypeOK
  <2> QED BY <2>1, <2>2, <2>6, <2>7, <2>8, <2>9
<1>8. ASSUME NEW p \in Processes, Restart(p) PROVE OutboxIInv'
  BY <1>8 DEF Restart, IdleJob, OnLog
<1> QED
  BY <1>1, <1>2, <1>3, <1>4, <1>5, <1>6, <1>7, <1>8 DEF OutboxNext

-----------------------------------------------------------------------------
(* The consumer group.                                                     *)

LEMMA ConsumerInitial == ConsumerInit => ConsumerIInv
BY DEF ConsumerInit, ConsumerIInv, ConsumerTypeOK, Idle, HandledBelowCommit

LEMMA StartOffsetOK == ConsumerIInv => StartOffset \in Nat /\ (base # 0 => StartOffset = committed)
<1> SUFFICES ASSUME ConsumerIInv PROVE StartOffset \in Nat /\ (base # 0 => StartOffset = committed)
  OBVIOUS
<1>1. Len(log) \in Nat
  BY LenProperties DEF ConsumerIInv, ConsumerTypeOK
<1> QED BY <1>1 DEF ConsumerIInv, ConsumerTypeOK, StartOffset

LEMMA ConsumerStep == ConsumerIInv /\ ConsumerNext => ConsumerIInv'
<1> SUFFICES ASSUME ConsumerIInv, ConsumerNext PROVE ConsumerIInv'
  OBVIOUS
<1> USE DEF ConsumerIInv, ConsumerTypeOK, HandledBelowCommit
<1>1. ASSUME NEW m \in Members, Join(m) PROVE ConsumerIInv'
  BY <1>1, StartOffsetOK DEF Join
<1>2. ASSUME NEW m \in Members, Fetch(m) PROVE ConsumerIInv'
  <2>1. member[m].position \in 1..Len(log) /\ member[m].position \in DOMAIN log
    BY <1>2, LenProperties DEF Fetch
  <2>2. member' = [member EXCEPT ![m] = [member[m] EXCEPT !.hand = member[m].position,
                                                          !.at = "handle"]]
    BY <1>2 DEF Fetch
  <2>3. \A n \in Members : member'[n].position = member[n].position
    BY <2>2
  <2>4. member[m].position \in Nat \ {0}
    BY <2>1
  <2>5. ConsumerTypeOK'
    BY <1>2, <2>2 DEF Fetch
  <2>6. \A n \in Members : /\ member'[n].at # "idle" => /\ member'[n].hand = member'[n].position
                                                       /\ member'[n].hand > 0
                                                       /\ member'[n].hand \in DOMAIN log
                           /\ member'[n].at = "commit" => member'[n].hand \in handled
    BY <2>1, <2>2, <2>4
  <2>7. /\ committed' = committed /\ owner' = owner /\ base' = base
        /\ handled' = handled /\ failed' = failed /\ log' = log
    BY <1>2 DEF Fetch
  <2> HIDE DEF ConsumerTypeOK
  <2> QED BY <2>3, <2>5, <2>6, <2>7
<1>3. ASSUME NEW m \in Members, Resolve(m) PROVE ConsumerIInv'
  BY <1>3 DEF Resolve
<1>4. ASSUME NEW m \in Members, HandlerFails(m) PROVE ConsumerIInv'
  <2>1. /\ member[m].hand = member[m].position /\ member[m].hand \in Nat \ {0}
        /\ failed' = failed \union {member[m].hand}
        /\ committed' = committed /\ owner' = owner /\ base' = base
        /\ handled' = handled /\ log' = log
    BY <1>4 DEF HandlerFails
  <2>2. member' = [member EXCEPT ![m] = [position |-> member[m].hand + 1,
                                         hand |-> 0, at |-> "idle"]]
    BY <1>4 DEF HandlerFails, GoOn
  <2>3. ConsumerTypeOK'
    <3>1. member' \in [Members -> [position : Nat, hand : Nat,
                                   at : {"idle", "handle", "commit"}]]
      BY <2>1, <2>2
    <3>2. failed' \subseteq Nat
      BY <2>1
    <3> QED BY <2>1, <3>1, <3>2
  <2> HIDE DEF ConsumerTypeOK
  <2>4. ASSUME owner = m, base # 0
        PROVE  /\ committed <= member'[m].position
               /\ \A o \in 1..member'[m].position - 1 :
                    base - 1 <= o => o \in handled \union failed'
    BY <2>1, <2>2, <2>4 DEF ConsumerTypeOK
  <2>5. \A n \in Members : n # m => member'[n] = member[n]
    BY <2>2 DEF ConsumerTypeOK
  <2>6. member'[m].at = "idle"
    BY <2>2 DEF ConsumerTypeOK
  <2> QED BY <2>1, <2>3, <2>4, <2>5, <2>6
<1>5. ASSUME NEW m \in Members, Commit(m) PROVE ConsumerIInv'
  <2>1. /\ member[m].hand = member[m].position /\ member[m].hand \in Nat \ {0}
        /\ member[m].hand \in handled /\ owner' = owner
        /\ handled' = handled /\ failed' = failed /\ log' = log
    BY <1>5 DEF Commit
  <2>2. member' = [member EXCEPT ![m] = [position |-> member[m].hand + 1,
                                         hand |-> 0, at |-> "idle"]]
    BY <1>5 DEF Commit, GoOn
  <2>3. IF owner = m
        THEN /\ committed' = member[m].hand + 1
             /\ base' = IF base = 0 THEN member[m].hand + 1 ELSE base
        ELSE committed' = committed /\ base' = base
    BY <1>5 DEF Commit
  <2>4. ConsumerTypeOK'
    BY <2>1, <2>2, <2>3
  <2> HIDE DEF ConsumerTypeOK
  <2>5. \A n \in Members : n # m => member'[n] = member[n]
    BY <2>2 DEF ConsumerTypeOK
  <2>6. member'[m].at = "idle" /\ member'[m].position = member[m].hand + 1
    BY <2>2 DEF ConsumerTypeOK
  <2>7. CASE owner # m
    BY <2>1, <2>3, <2>4, <2>5, <2>6, <2>7
  <2>8. CASE owner = m /\ base = 0
    BY <2>1, <2>3, <2>4, <2>5, <2>6, <2>8
  <2>9. CASE owner = m /\ base # 0
    <3>1. base' = base /\ committed' = member[m].hand + 1
      BY <2>3, <2>9
    <3>2. \A o \in 1..member[m].hand : base - 1 <= o => o \in handled \union failed
      BY <2>1, <2>9 DEF ConsumerTypeOK
    <3>3. base <= committed /\ committed <= member[m].hand /\ base \in Nat /\ committed \in Nat
      BY <2>1, <2>9 DEF ConsumerTypeOK
    <3> QED BY <2>1, <2>4, <2>5, <2>6, <2>9, <3>1, <3>2, <3>3
  <2> QED BY <2>7, <2>8, <2>9
<1>6. ASSUME NEW m \in Members, CommitFails(m) PROVE ConsumerIInv'
  BY <1>6 DEF CommitFails, GoOn
<1>7. ASSUME NEW m \in Members, Die(m) PROVE ConsumerIInv'
  BY <1>7, NoMemberAssumption DEF Die, Idle
<1>8. ASSUME NEW e \in Events, Produce(e) PROVE ConsumerIInv'
  BY <1>8, AppendKeeps DEF Produce
<1> QED
  BY <1>1, <1>2, <1>3, <1>4, <1>5, <1>6, <1>7, <1>8 DEF ConsumerNext

-----------------------------------------------------------------------------
(* The composition: the remaining variables, and how a step of Delivery    *)
(* looks to each component.                                                *)

RestOK ==
    /\ topic \in Topics
    /\ available \in Int /\ view \in Int /\ payload \in [Events -> Int]
    /\ step \in [Members -> {"check", "email", "save"}]
    /\ emails \in [Events -> Nat] /\ logged \subseteq Events
    /\ faults \in [Kinds -> Nat]

LEMMA IInvParts ==
    IInv <=> RestOK /\ OutboxIInv /\ ConsumerIInv
             /\ (topic # Stock => created = [r \in Events |-> 0])
BY DEF IInv, TypeOK, RestOK, OutboxIInv, ConsumerIInv

LEMMA IInvNext ==
    RestOK' /\ OutboxIInv' /\ ConsumerIInv'
    /\ (topic' # Stock => created' = [r \in Events |-> 0]) => IInv'
BY DEF IInv, TypeOK, RestOK, OutboxIInv, ConsumerIInv

LEMMA SpendOK ==
    ASSUME NEW k \in Kinds, faults \in [Kinds -> Nat], Spend(k) \/ Note(k) \/ UNCHANGED faults
    PROVE  faults' \in [Kinds -> Nat]
BY DEF Spend, Note

(* The message in hand is an event.                                        *)
LEMMA InHandOK ==
    ASSUME ConsumerIInv, NEW m \in Members, member[m].hand \in DOMAIN log
    PROVE  InHand(m) \in Events
BY LenProperties, ElementOfSeq DEF ConsumerIInv, ConsumerTypeOK, InHand

LEMMA OutboxSide ==
    ASSUME NEW r \in Events, NEW p \in Processes,
           Read(r) \/ Write(r) \/ StartJob(p) \/ PublishRow(p) \/ PublishFails(p)
    PROVE  OutboxNext /\ UNCHANGED groupVars /\ topic' = topic /\ UNCHANGED effects
BY DEF Read, Write, StartJob, PublishRow, PublishFails, OutboxNext

LEMMA OutboxLog ==
    ASSUME OutboxIInv, OutboxNext
    PROVE  log' = log \/ \E e \in Events : log' = Append(log, e)
BY DEF OutboxIInv, OutboxTypeOK, OutboxNext, Begin, CommitRow, Find, Send, SendFails, Mark,
       MarkFails, Restart, Oldest

LEMMA ConsumerSide ==
    ASSUME NEW m \in Members,
           \/ Subscribe(m) \/ Receive(m) \/ CommitOffset(m) \/ CommitIsLost(m) \/ MemberDies(m)
           \/ UpsertStock(m) \/ UpsertFails(m) \/ CheckLog(m) \/ SendEmail(m) \/ SaveLog(m)
    PROVE  /\ ConsumerNext \/ UNCHANGED <<log, groupVars>>
           /\ log' = log /\ UNCHANGED upstream
<1>1. CASE Subscribe(m)
  BY <1>1 DEF Subscribe, Join, ConsumerNext
<1>2. CASE Receive(m)
  BY <1>2 DEF Receive, Fetch, ConsumerNext
<1>3. CASE CommitOffset(m)
  BY <1>3 DEF CommitOffset, Commit, ConsumerNext
<1>4. CASE CommitIsLost(m)
  BY <1>4 DEF CommitIsLost, CommitFails, ConsumerNext
<1>5. CASE MemberDies(m)
  BY <1>5 DEF MemberDies, Die, ConsumerNext
<1>6. CASE UpsertStock(m)
  BY <1>6 DEF UpsertStock, Resolve, ConsumerNext
<1>7. CASE UpsertFails(m)
  BY <1>7 DEF UpsertFails, HandlerFails, ConsumerNext
<1>8. CASE CheckLog(m)
  BY <1>8 DEF CheckLog, Resolve, ConsumerNext
<1>9. CASE SendEmail(m)
  BY <1>9 DEF SendEmail, ConsumerNext
<1>10. CASE SaveLog(m)
  BY <1>10 DEF SaveLog, Resolve, ConsumerNext
<1> QED BY <1>1, <1>2, <1>3, <1>4, <1>5, <1>6, <1>7, <1>8, <1>9, <1>10

LEMMA Initial == Init => IInv
<1> SUFFICES ASSUME Init PROVE IInv
  OBVIOUS
<1>1. RestOK
  BY ChangeAssumption DEF Init, RestOK
<1>2. OutboxIInv /\ ConsumerIInv
  BY OutboxInitial, ConsumerInitial DEF Init
<1>3. created = [r \in Events |-> 0]
  BY DEF Init, OutboxInit
<1> QED BY <1>1, <1>2, <1>3, IInvParts

LEMMA RestStep == IInv /\ Next => RestOK'
<1> SUFFICES ASSUME IInv, Next PROVE RestOK'
  OBVIOUS
<1>0. RestOK /\ OutboxIInv /\ ConsumerIInv
  BY IInvParts
<1> USE DEF RestOK, Kinds
<1>1. ASSUME NEW r \in Events, Read(r) PROVE RestOK'
  <2>1. available + Change[r] \in Int
    BY <1>0, ChangeAssumption
  <2>2. faults' \in [Kinds -> Nat]
    BY <1>0, <1>1, SpendOK DEF Read, SpendIf
  <2> QED BY <1>0, <1>1, <2>1, <2>2 DEF Read, effects
<1>2. ASSUME NEW r \in Events, Write(r) PROVE RestOK'
  BY <1>0, <1>2, ChangeAssumption DEF Write, effects
<1>3. ASSUME NEW p \in Processes, StartJob(p) \/ PublishRow(p) \/ PublishFails(p) PROVE RestOK'
  <2>1. faults' \in [Kinds -> Nat]
    BY <1>0, <1>3, SpendOK DEF StartJob, PublishRow, PublishFails, SpendIf
  <2> QED BY <1>0, <1>3, <2>1 DEF StartJob, PublishRow, PublishFails, effects
<1>4. ASSUME NEW r \in Events, Notify(r) PROVE RestOK'
  <2>1. faults' \in [Kinds -> Nat]
    BY <1>0, <1>4, SpendOK DEF Notify, SpendIf
  <2> QED BY <1>0, <1>4, <2>1 DEF Notify, effects
<1>5. ASSUME NEW m \in Members, Subscribe(m) \/ Receive(m) \/ CommitOffset(m)
                                \/ CommitIsLost(m) \/ MemberDies(m)
      PROVE  RestOK'
  <2>1. faults' \in [Kinds -> Nat]
    BY <1>0, <1>5, SpendOK DEF Subscribe, Receive, CommitOffset, CommitIsLost, MemberDies
  <2> QED BY <1>0, <1>5, <2>1
          DEF Subscribe, Receive, CommitOffset, CommitIsLost, MemberDies, effects, upstream
<1>6. ASSUME NEW m \in Members, member[m].at = "handle" PROVE InHand(m) \in Events
  <2>1. member[m].hand \in DOMAIN log
    BY <1>0, <1>6 DEF ConsumerIInv
  <2> QED BY <1>0, <2>1, InHandOK
<1>7. ASSUME NEW m \in Members, UpsertStock(m) PROVE RestOK'
  <2>1. InHand(m) \in Events
    BY <1>6, <1>7 DEF UpsertStock, Resolve
  <2> QED BY <1>0, <1>7, <2>1 DEF UpsertStock, upstream
<1>8. ASSUME NEW m \in Members, UpsertFails(m) PROVE RestOK'
  <2>1. faults' \in [Kinds -> Nat]
    BY <1>0, <1>8, SpendOK DEF UpsertFails
  <2> QED BY <1>0, <1>8, <2>1 DEF UpsertFails, upstream, effects
<1>9. ASSUME NEW m \in Members, CheckLog(m) PROVE RestOK'
  BY <1>0, <1>9 DEF CheckLog, Go, upstream
<1>10. ASSUME NEW m \in Members, SendEmail(m) PROVE RestOK'
  <2>1. faults' \in [Kinds -> Nat]
    BY <1>0, <1>10, SpendOK DEF SendEmail
  <2>2. InHand(m) \in Events
    BY <1>6, <1>10 DEF SendEmail, At
  <2> QED BY <1>0, <1>10, <2>1, <2>2 DEF SendEmail, Go, upstream
<1>11. ASSUME NEW m \in Members, SaveLog(m) PROVE RestOK'
  <2>1. faults' \in [Kinds -> Nat]
    BY <1>0, <1>11, SpendOK DEF SaveLog
  <2>2. InHand(m) \in Events
    BY <1>6, <1>11 DEF SaveLog, At
  <2> QED BY <1>0, <1>11, <2>1, <2>2 DEF SaveLog, upstream
<1> QED
  BY <1>1, <1>2, <1>3, <1>4, <1>5, <1>7, <1>8, <1>9, <1>10, <1>11 DEF Next

(* Events that do not come from the outbox do not disturb it.              *)
LEMMA NotifyKeepsOutbox ==
    ASSUME OutboxIInv, NEW r \in Events, Notify(r)
    PROVE  OutboxIInv'
<1>1. log \in Seq(Events) /\ log' = Append(log, r)
  BY DEF OutboxIInv, OutboxTypeOK, Notify, Produce
<1>2. log' \in Seq(Events) /\ \A q \in Events : OnLog(q) => OnLog(q)'
  BY <1>1, AppendKeeps
<1> QED BY <1>2 DEF OutboxIInv, OutboxTypeOK, Notify, rows

LEMMA Unmoved ==
    /\ OutboxIInv /\ UNCHANGED outboxVars => OutboxIInv'
    /\ ConsumerIInv /\ UNCHANGED <<log, groupVars>> => ConsumerIInv'
<1>1. OutboxIInv /\ UNCHANGED outboxVars => OutboxIInv'
  BY DEF OutboxIInv, OutboxTypeOK, outboxVars, OnLog
<1>2. ConsumerIInv /\ UNCHANGED <<log, groupVars>> => ConsumerIInv'
  BY DEF ConsumerIInv, ConsumerTypeOK, HandledBelowCommit, groupVars
<1> QED BY <1>1, <1>2

LEMMA NextStep == IInv /\ Next => IInv'
<1> SUFFICES ASSUME IInv, Next PROVE IInv'
  OBVIOUS
<1>1. RestOK /\ OutboxIInv /\ ConsumerIInv /\ (topic # Stock => created = [r \in Events |-> 0])
  BY IInvParts
<1>2. RestOK'
  BY RestStep
<1>3. ASSUME OutboxNext, UNCHANGED groupVars, topic' = topic,
             topic # Stock => created' = created
      PROVE  IInv'
  <2>1. OutboxIInv'
    BY <1>1, <1>3, OutboxStep
  <2>2. CASE log' = log
    BY <1>1, <1>2, <1>3, <2>1, <2>2, Unmoved, IInvNext DEF groupVars
  <2>3. CASE \E e \in Events : log' = Append(log, e)
    <3>1. ConsumerNext
      BY <1>3, <2>3 DEF ConsumerNext, Produce, groupVars
    <3> QED BY <1>1, <1>2, <1>3, <2>1, <3>1, ConsumerStep, IInvNext
  <2> QED BY <1>1, <1>3, <2>2, <2>3, OutboxLog
<1>4. ASSUME NEW r \in Events, Read(r) PROVE IInv'
  <2>1. OutboxNext /\ UNCHANGED groupVars /\ topic' = topic /\ topic = Stock
    BY <1>4 DEF Read, OutboxNext
  <2> QED BY <1>3, <2>1
<1>5. ASSUME NEW r \in Events, Write(r) PROVE IInv'
  <2>1. OutboxNext /\ UNCHANGED groupVars /\ topic' = topic /\ created' = created
    BY <1>5 DEF Write, OutboxNext, CommitRow
  <2> QED BY <1>3, <2>1
<1>6. ASSUME NEW p \in Processes, StartJob(p) PROVE IInv'
  <2>1. OutboxNext /\ UNCHANGED groupVars /\ topic' = topic /\ created' = created
    BY <1>6 DEF StartJob, OutboxNext, Find, rows
  <2> QED BY <1>3, <2>1
<1>7. ASSUME NEW p \in Processes, PublishRow(p) PROVE IInv'
  <2>1. OutboxNext /\ UNCHANGED groupVars /\ topic' = topic /\ created' = created
    BY <1>7 DEF PublishRow, OutboxNext, Send, Mark, rows
  <2> QED BY <1>3, <2>1
<1>8. ASSUME NEW p \in Processes, PublishFails(p) PROVE IInv'
  <2>1. OutboxNext /\ UNCHANGED groupVars /\ topic' = topic /\ created' = created
    BY <1>8 DEF PublishFails, OutboxNext, SendFails, MarkFails, Restart, rows
  <2> QED BY <1>3, <2>1
<1>9. ASSUME NEW r \in Events, Notify(r) PROVE IInv'
  <2>1. OutboxIInv'
    BY <1>1, <1>9, NotifyKeepsOutbox
  <2>2. ConsumerIInv'
    BY <1>1, <1>9, ConsumerStep DEF Notify, ConsumerNext
  <2> QED BY <1>1, <1>2, <1>9, <2>1, <2>2, IInvNext DEF Notify, rows
<1>10. ASSUME NEW m \in Members,
              \/ Subscribe(m) \/ Receive(m) \/ CommitOffset(m) \/ CommitIsLost(m) \/ MemberDies(m)
              \/ UpsertStock(m) \/ UpsertFails(m) \/ CheckLog(m) \/ SendEmail(m) \/ SaveLog(m)
       PROVE  IInv'
  <2>1. ConsumerNext \/ UNCHANGED <<log, groupVars>>
    BY <1>10, ConsumerSide
  <2>2. log' = log /\ UNCHANGED upstream
    BY <1>10, ConsumerSide
  <2>3. UNCHANGED outboxVars /\ topic' = topic /\ created' = created
    BY <2>2 DEF upstream, outboxVars, rows
  <2>4. OutboxIInv' /\ ConsumerIInv'
    BY <1>1, <2>1, <2>3, Unmoved, ConsumerStep
  <2> QED BY <1>1, <1>2, <2>3, <2>4, IInvNext
<1> QED
  BY <1>4, <1>5, <1>6, <1>7, <1>8, <1>9, <1>10 DEF Next

LEMMA Step == IInv /\ [Next]_vars => IInv'
<1>1. CASE Next
  BY <1>1, NextStep
<1>2. ASSUME UNCHANGED vars, IInv PROVE IInv'
  <2>1. UNCHANGED outboxVars /\ UNCHANGED <<log, groupVars>>
    BY <1>2 DEF vars, outboxVars, groupVars
  <2>2. RestOK' /\ (topic # Stock => created = [r \in Events |-> 0])'
    BY <1>2, IInvParts DEF RestOK, vars
  <2> QED BY <1>2, <2>1, <2>2, Unmoved, IInvParts, IInvNext
<1> QED BY <1>1, <1>2

(* The inductive invariant, with the types of all variables.               *)
THEOREM Invariance == Spec => []IInv
BY Initial, Step, PTL DEF Spec

(* At least once: a group never passes a message that no handler saw,      *)
(* whatever happens to its members (KafkaConsumer.run).                    *)
THEOREM NothingPassedUnseen == Spec => []HandledBelowCommit
<1>1. IInv => HandledBelowCommit
  BY DEF IInv, ConsumerIInv
<1> QED BY <1>1, Invariance, PTL

-----------------------------------------------------------------------------
(* The e-mails.                                                            *)

Quiet == Never({"die", "rebalance", "save"})

\* What stays as long as nothing is noted.
LEMMA QuietBefore ==
    ASSUME IInv, Quiet', UNCHANGED faults \/ \E k \in Kinds : Note(k)
    PROVE  Quiet
<1>1. faults \in [Kinds -> Nat]
  BY DEF IInv, TypeOK
<1>2. CASE UNCHANGED faults
  BY <1>2 DEF Quiet, Never
<1>3. ASSUME NEW k \in Kinds, Note(k) PROVE Quiet
  <2>1. \A j \in Kinds : faults'[j] >= faults[j] /\ faults[j] >= 0
    BY <1>1, <1>3 DEF Note
  <2> QED BY <1>1, <2>1 DEF Quiet, Never, Kinds
<1> QED BY <1>2, <1>3

\* A kind that the condition excludes.
LEMMA NotedIsNotQuiet ==
    ASSUME IInv, NEW k \in {"die", "rebalance", "save"}, Note(k)
    PROVE  ~Quiet'
<1>1. faults \in [Kinds -> Nat] /\ k \in Kinds
  BY DEF IInv, TypeOK, Kinds
<1>2. faults'[k] = faults[k] + 1 /\ faults[k] \in Nat
  BY <1>1 DEF Note
<1> QED BY <1>2 DEF Quiet, Never

\* The handlers, the e-mails and the log stay; messages come in.
LEMMA EmailsKept ==
    ASSUME IInv, EmailsOK, Quiet' => Quiet, topic' = topic,
           UNCHANGED <<owner, member, step, emails, logged>>,
           log' = log \/ \E e \in Events : log' = Append(log, e)
    PROVE  EmailsOK'
<1>1. ASSUME NEW m \in Members, member[m].at = "handle" PROVE InHand(m)' = InHand(m)
  <2>1. member[m].hand \in DOMAIN log /\ log \in Seq(Events)
    BY <1>1 DEF IInv, ConsumerIInv, ConsumerTypeOK
  <2>2. member[m].hand \in 1..Len(log)
    BY <2>1, LenProperties
  <2>3. \A e \in Events : Append(log, e)[member[m].hand] = log[member[m].hand]
    BY <2>1, <2>2, AppendProperties
  <2> QED BY <2>3 DEF InHand
<1>2. \A m \in Members : \A where : InHandAt(m, where)' <=> InHandAt(m, where)
  BY DEF InHandAt
<1>3. CASE ~Quiet'
  BY <1>3 DEF EmailsOK, Quiet
<1>4. CASE Quiet'
  <2>1. Quiet
    BY <1>4
  <2>2. \A m \in Members : InHandAt(m, "email")' => InHand(m)' \notin logged'
    BY <1>1, <1>2, <2>1 DEF EmailsOK, Quiet, InHandAt
  <2>3. ASSUME NEW r \in Events, emails'[r] # 0
        PROVE  /\ emails'[r] = 1
               /\ r \in logged' \/ \E m \in Members : InHandAt(m, "save")' /\ InHand(m)' = r
    BY <1>1, <1>2, <2>1, <2>3 DEF EmailsOK, Quiet, InHandAt
  <2>4. \A m \in Members : member'[m].at # "idle" => owner' = m
    BY <2>1 DEF EmailsOK, Quiet
  <2>5. topic' # Notification => \A r \in Events : emails'[r] = 0
    BY DEF EmailsOK
  <2> QED BY <2>2, <2>3, <2>4, <2>5 DEF EmailsOK
<1> QED BY <1>3, <1>4

\* The owner of the partition gets, or is done with, a message of which
\* there is nothing to send or to log.
LEMMA EmailsMove ==
    ASSUME IInv, EmailsOK, Quiet' => Quiet, topic' = topic, log' = log,
           UNCHANGED <<emails, logged>>, NEW m \in Members,
           \A n \in Members \ {m} : member'[n] = member[n] /\ step'[n] = step[n],
           topic # Notification \/ ~InHandAt(m, "save"),
           ~InHandAt(m, "email")' \/ InHand(m)' \notin logged,
           \/ owner' = owner /\ (member'[m].at # "idle" => owner = m)
           \/ owner = NoMember /\ owner' = m
    PROVE  EmailsOK'
<1>1. CASE ~Quiet'
  BY <1>1 DEF EmailsOK, Quiet
<1>2. CASE Quiet'
  <2>0. Quiet /\ (topic' # Notification => \A r \in Events : emails'[r] = 0)
    BY <1>2 DEF EmailsOK
  <2>1. \A n \in Members : member'[n].at # "idle" => owner' = n
    BY <2>0, NoMemberAssumption DEF EmailsOK, Quiet
  <2>2. ASSUME NEW n \in Members, InHandAt(n, "email")' PROVE InHand(n)' \notin logged'
    <3>1. CASE n = m
      BY <2>2, <3>1
    <3>2. CASE n # m
      BY <2>0, <2>2, <3>2 DEF EmailsOK, Quiet, InHandAt, InHand
    <3> QED BY <3>1, <3>2
  <2>3. ASSUME NEW r \in Events, emails'[r] # 0
        PROVE  /\ emails'[r] = 1
               /\ r \in logged' \/ \E n \in Members : InHandAt(n, "save")' /\ InHand(n)' = r
    <3>0. emails[r] = 1 /\ topic = Notification
      BY <2>0, <2>3 DEF EmailsOK, Quiet
    <3>1. CASE r \in logged
      BY <3>0, <3>1
    <3>2. ASSUME NEW n \in Members, InHandAt(n, "save"), InHand(n) = r
          PROVE  InHandAt(n, "save")' /\ InHand(n)' = r
      <4>1. n # m
        BY <3>0, <3>2
      <4> QED BY <3>2, <4>1 DEF InHandAt, InHand
    <3> QED BY <2>0, <2>3, <3>0, <3>1, <3>2 DEF EmailsOK, Quiet
  <2> QED BY <2>0, <2>1, <2>2, <2>3 DEF EmailsOK
<1> QED BY <1>1, <1>2

LEMMA EmailStep == IInv /\ EmailsOK /\ [Next]_vars => EmailsOK'
<1> SUFFICES ASSUME IInv, EmailsOK, [Next]_vars PROVE EmailsOK'
  OBVIOUS
<1>0. ConsumerIInv /\ ConsumerTypeOK /\ OutboxIInv
      /\ step \in [Members -> {"check", "email", "save"}]
      /\ emails \in [Events -> Nat] /\ logged \subseteq Events
  BY DEF IInv, TypeOK, ConsumerIInv
<1> USE DEF Kinds
<1>2. ASSUME NEW r \in Events, Notify(r) PROVE EmailsOK'
  <2>1. log' = Append(log, r) /\ topic' = topic /\ UNCHANGED <<owner, member>> /\ UNCHANGED effects
    BY <1>2 DEF Notify, Produce
  <2>2. UNCHANGED faults \/ \E k \in Kinds : Note(k)
    BY <1>2 DEF Notify, SpendIf, Spend
  <2> QED BY <2>1, <2>2, EmailsKept, QuietBefore DEF effects
<1>3. ASSUME NEW m \in Members,
             \/ Subscribe(m) \/ Receive(m) \/ CommitOffset(m) \/ CommitIsLost(m) \/ MemberDies(m)
             \/ UpsertStock(m) \/ UpsertFails(m) \/ CheckLog(m) \/ SendEmail(m) \/ SaveLog(m)
      PROVE  EmailsOK'
  <2>1. log' = log /\ UNCHANGED upstream
    BY <1>3, ConsumerSide
  <2>2. topic' = topic
    BY <2>1 DEF upstream
  <2>3. UNCHANGED faults \/ \E k \in Kinds : Note(k)
    BY <1>3 DEF Subscribe, Receive, CommitOffset, CommitIsLost, MemberDies, UpsertStock,
           UpsertFails, CheckLog, SendEmail, SaveLog, Spend
  <2>4. Quiet' => Quiet
    BY <2>3, QuietBefore
  <2>5. ASSUME NEW n \in Members \ {m} PROVE member'[n] = member[n] /\ step'[n] = step[n]
    BY <1>0, <1>3 DEF Subscribe, Receive, CommitOffset, CommitIsLost, MemberDies, UpsertStock,
           UpsertFails, CheckLog, SendEmail, SaveLog, Join, Fetch, Commit, CommitFails, Die,
           Resolve, HandlerFails, GoOn, Go, effects, ConsumerTypeOK, groupVars
  <2>6. CASE Subscribe(m)
    <3>1. /\ member[m].at = "idle" /\ owner' = m /\ UNCHANGED effects
          /\ member' = [member EXCEPT ![m].position = StartOffset]
      BY <2>6 DEF Subscribe, Join
    <3>2. member'[m].at = "idle"
      BY <1>0, <3>1 DEF ConsumerTypeOK
    <3>3. CASE owner = NoMember
      BY <2>1, <2>2, <2>4, <2>5, <3>1, <3>2, <3>3, EmailsMove DEF InHandAt, effects
    <3>4. CASE owner # NoMember
      <4>1. ~Quiet'
        BY <2>6, <3>4, NotedIsNotQuiet DEF Subscribe, Spend
      <4> QED BY <2>2, <3>1, <4>1 DEF EmailsOK, Quiet, effects
    <3> QED BY <3>3, <3>4
  <2>7. CASE Receive(m)
    <3>1. /\ member[m].at = "idle" /\ owner = m /\ owner' = owner /\ UNCHANGED <<emails, logged>>
          /\ step' = [step EXCEPT ![m] = "check"]
      BY <2>7 DEF Receive, Fetch
    <3>2. step'[m] = "check"
      BY <1>0, <3>1
    <3> QED BY <2>1, <2>2, <2>4, <2>5, <3>1, <3>2, EmailsMove DEF InHandAt
  <2>8. CASE CommitOffset(m) \/ CommitIsLost(m)
    <3>1. /\ member[m].at = "commit" /\ owner' = owner /\ UNCHANGED <<emails, logged, step>>
          /\ member' = [member EXCEPT ![m] = [position |-> @.hand + 1, hand |-> 0, at |-> "idle"]]
      BY <2>8 DEF CommitOffset, CommitIsLost, Commit, CommitFails, GoOn, effects
    <3>2. member'[m].at = "idle"
      BY <1>0, <3>1 DEF ConsumerTypeOK
    <3> QED BY <2>1, <2>2, <2>4, <2>5, <3>1, <3>2, EmailsMove DEF InHandAt
  <2>9. CASE MemberDies(m)
    <3>1. ~Quiet' /\ UNCHANGED effects
      BY <2>9, NotedIsNotQuiet DEF MemberDies, Spend
    <3> QED BY <2>2, <3>1 DEF EmailsOK, Quiet, effects
  <2>10. CASE UpsertStock(m) \/ UpsertFails(m)
    <3>1. /\ topic # Notification /\ member[m].at = "handle" /\ owner' = owner
          /\ UNCHANGED <<emails, logged, step>>
      BY <2>10 DEF UpsertStock, UpsertFails, Resolve, HandlerFails, effects, Stock, Notification
    <3>2. member'[m].at # "handle"
      BY <1>0, <2>10 DEF UpsertStock, UpsertFails, Resolve, HandlerFails, GoOn, ConsumerTypeOK
    <3>3. CASE Quiet
      <4>1. owner = m
        BY <3>1, <3>3 DEF EmailsOK, Quiet
      <4> QED BY <2>1, <2>2, <2>4, <2>5, <3>1, <3>2, <4>1, EmailsMove DEF InHandAt
    <3>4. CASE ~Quiet
      BY <2>2, <2>4, <3>1, <3>4 DEF EmailsOK, Quiet
    <3> QED BY <3>3, <3>4
  <2>11. CASE CheckLog(m)
    <3>1. /\ topic = Notification /\ member[m].at = "handle" /\ step[m] = "check"
          /\ owner' = owner /\ UNCHANGED <<emails, logged>>
      BY <2>11 DEF CheckLog, At, Resolve, groupVars
    <3>2. ~InHandAt(m, "email")' \/ InHand(m)' \notin logged
      <4>1. CASE InHand(m) \in logged
        <5>1. member' = [member EXCEPT ![m].at = "commit"]
          BY <2>11, <4>1 DEF CheckLog, Resolve
        <5>2. member'[m].at = "commit"
          BY <1>0, <5>1 DEF ConsumerTypeOK
        <5> QED BY <5>2 DEF InHandAt
      <4>2. CASE InHand(m) \notin logged
        <5>1. UNCHANGED <<log, groupVars>>
          BY <2>11, <4>2 DEF CheckLog
        <5> QED BY <4>2, <5>1 DEF InHand, groupVars
      <4> QED BY <4>1, <4>2
    <3>3. CASE Quiet
      <4>1. owner = m
        BY <3>1, <3>3 DEF EmailsOK, Quiet
      <4> QED BY <2>1, <2>2, <2>4, <2>5, <3>1, <3>2, <4>1, EmailsMove DEF InHandAt
    <3>4. CASE ~Quiet
      BY <2>2, <2>4, <3>1, <3>4 DEF EmailsOK, Quiet
    <3> QED BY <3>3, <3>4
  <2>12. CASE SendEmail(m)
    <3> DEFINE e == InHand(m)
    <3>1. /\ topic = Notification /\ member[m].at = "handle" /\ step[m] = "email"
          /\ step' = [step EXCEPT ![m] = "save"] /\ UNCHANGED <<owner, member, logged>>
          /\ emails' = emails \/ emails' = [emails EXCEPT ![e] = @ + 1]
      BY <2>12 DEF SendEmail, At, Go, groupVars
    <3>2. CASE ~Quiet'
      BY <2>2, <3>1, <3>2 DEF EmailsOK, Quiet
    <3>3. CASE Quiet'
      <4>0. Quiet
        BY <2>4, <3>3
      <4>1. \A n \in Members : member[n].at # "idle" => n = m
        BY <3>1, <4>0 DEF EmailsOK, Quiet
      <4>2. \A n \in Members : InHand(n)' = InHand(n)
        BY <2>1, <3>1 DEF InHand
      <4>3. step'[m] = "save" /\ InHandAt(m, "save")'
        BY <1>0, <3>1 DEF InHandAt
      <4>4. emails[e] = 0
        <5>1. e \in Events
          <6>1. member[m].hand \in DOMAIN log
            BY <1>0, <3>1 DEF ConsumerIInv
          <6> QED BY <1>0, <6>1, InHandOK
        <5>2. e \notin logged
          BY <3>1, <4>0 DEF EmailsOK, Quiet, InHandAt
        <5>3. \A n \in Members : ~InHandAt(n, "save")
          BY <3>1, <4>1 DEF InHandAt
        <5> QED BY <4>0, <5>1, <5>2, <5>3 DEF EmailsOK, Quiet
      <4>5. ASSUME NEW n \in Members, InHandAt(n, "email")' PROVE FALSE
        <5>1. n = m
          BY <3>1, <4>1, <4>5 DEF InHandAt
        <5> QED BY <4>3, <4>5, <5>1 DEF InHandAt
      <4>6. ASSUME NEW r \in Events, emails'[r] # 0
            PROVE  /\ emails'[r] = 1
                   /\ r \in logged' \/ \E n \in Members : InHandAt(n, "save")' /\ InHand(n)' = r
        <5> HIDE DEF e
        <5>1. CASE r = e
          <6>1. emails'[r] = 1
            BY <1>0, <3>1, <4>4, <4>6, <5>1
          <6> QED BY <4>2, <4>3, <5>1, <6>1 DEF e
        <5>2. CASE r # e
          <6>1. emails'[r] = emails[r] /\ emails[r] # 0
            BY <1>0, <3>1, <4>6, <5>2
          <6>2. emails[r] = 1 /\ (r \in logged \/ \E n \in Members : InHandAt(n, "save") /\ InHand(n) = r)
            BY <4>0, <6>1 DEF EmailsOK, Quiet
          <6>3. \A n \in Members : ~InHandAt(n, "save")
            BY <3>1, <4>1 DEF InHandAt
          <6> QED BY <3>1, <6>1, <6>2, <6>3
        <5> QED BY <5>1, <5>2
      <4>7. \A n \in Members : member'[n].at # "idle" => owner' = n
        BY <3>1, <4>0 DEF EmailsOK, Quiet
      <4> QED BY <2>2, <3>1, <4>5, <4>6, <4>7 DEF EmailsOK
    <3> QED BY <3>2, <3>3
  <2>13. CASE SaveLog(m)
    <3> DEFINE e == InHand(m)
    <3>1. /\ topic = Notification /\ member[m].at = "handle" /\ step[m] = "save"
          /\ member' = [member EXCEPT ![m].at = "commit"] /\ UNCHANGED <<owner, step, emails>>
      BY <2>13 DEF SaveLog, At, Resolve
    <3>2. CASE ~Quiet'
      BY <2>2, <3>1, <3>2 DEF EmailsOK, Quiet
    <3>3. CASE Quiet'
      <4>0. Quiet
        BY <2>4, <3>3
      <4>1. \A n \in Members : member[n].at # "idle" => n = m
        BY <3>1, <4>0 DEF EmailsOK, Quiet
      <4>2. logged' = logged \union {e}
        <5>1. ~Spend("save")
          BY <3>3, NotedIsNotQuiet DEF Spend
        <5> QED BY <2>13, <5>1 DEF SaveLog
      <4>3. member'[m].at = "commit" /\ \A n \in Members \ {m} : member'[n].at = "idle"
        BY <1>0, <2>5, <3>1, <4>1 DEF ConsumerTypeOK
      <4>4. \A n \in Members : ~InHandAt(n, "email")'
        BY <4>3 DEF InHandAt
      <4>5. ASSUME NEW r \in Events, emails'[r] # 0 PROVE emails'[r] = 1 /\ r \in logged'
        <5>1. emails[r] = 1 /\ (r \in logged \/ \E n \in Members : InHandAt(n, "save") /\ InHand(n) = r)
          BY <3>1, <4>0, <4>5 DEF EmailsOK, Quiet
        <5>2. \A n \in Members : InHandAt(n, "save") => n = m
          BY <4>1 DEF InHandAt
        <5> QED BY <3>1, <4>2, <5>1, <5>2
      <4>6. \A n \in Members : member'[n].at # "idle" => owner' = n
        BY <3>1, <4>0, <4>3 DEF EmailsOK, Quiet
      <4> QED BY <2>2, <3>1, <4>4, <4>5, <4>6 DEF EmailsOK
    <3> QED BY <3>2, <3>3
  <2> QED BY <1>3, <2>6, <2>7, <2>8, <2>9, <2>10, <2>11, <2>12, <2>13
<1>4. CASE UNCHANGED vars
  <2>1. Quiet' => Quiet
    BY <1>4 DEF vars, Quiet, Never
  <2> QED BY <1>4, <2>1, EmailsKept DEF vars
<1> QED
  <2>1. ASSUME NEW r \in Events, Read(r) \/ Write(r) PROVE EmailsOK'
    <3>1. OutboxNext /\ UNCHANGED groupVars /\ topic' = topic /\ UNCHANGED effects
      BY <2>1 DEF Read, Write, OutboxNext
    <3>2. UNCHANGED faults \/ \E k \in Kinds : Note(k)
      BY <2>1 DEF Read, Write, SpendIf, Spend
    <3>3. log' = log \/ \E e \in Events : log' = Append(log, e)
      BY <1>0, <3>1, OutboxLog
    <3> QED BY <3>1, <3>2, <3>3, EmailsKept, QuietBefore DEF groupVars, effects
  <2>2. ASSUME NEW p \in Processes, StartJob(p) \/ PublishRow(p) \/ PublishFails(p) PROVE EmailsOK'
    <3>1. OutboxNext /\ UNCHANGED groupVars /\ topic' = topic /\ UNCHANGED effects
      BY <2>2 DEF StartJob, PublishRow, PublishFails, OutboxNext
    <3>2. UNCHANGED faults \/ \E k \in Kinds : Note(k)
      BY <2>2 DEF StartJob, PublishRow, PublishFails, SpendIf, Spend
    <3>3. log' = log \/ \E e \in Events : log' = Append(log, e)
      BY <1>0, <3>1, OutboxLog
    <3> QED BY <3>1, <3>2, <3>3, EmailsKept, QuietBefore DEF groupVars, effects
  <2> QED BY <1>2, <1>3, <1>4, <2>1, <2>2 DEF Next

(* NotificationLog keeps an event from being e-mailed twice, for any       *)
(* number of members, copies of the event, lost commits and failures of    *)
(* the transport (NotificationService.send).                               *)
THEOREM OneEmailEach == Spec => []EmailAtMostOnce
<1>1. Init => EmailsOK
  BY DEF Init, ConsumerInit, EmailsOK, Idle, InHandAt
<1>2. IInv /\ EmailsOK => EmailAtMostOnce
  <2> SUFFICES ASSUME EmailsOK, Never({"die", "rebalance", "save"}), IInv, NEW r \in Events
               PROVE  emails[r] <= 1
    BY DEF EmailAtMostOnce
  <2>1. emails[r] = 0 \/ emails[r] = 1
    BY DEF EmailsOK
  <2> QED BY <2>1
<1> QED BY <1>1, <1>2, EmailStep, Invariance, PTL DEF Spec

-----------------------------------------------------------------------------
(* The outbox implements the channel.                                      *)

LEMMA AcceptedIsStock == ASSUME IInv, accepted # {} PROVE topic = Stock
BY DEF IInv, OutboxIInv, OutboxTypeOK

LEMMA OutboxRefines ==
    ASSUME IInv, OutboxNext, topic' = topic
    PROVE  [Promise!Next]_(Promise!channel)
<1> USE DEF Promise!Next, Promise!channel, Promise!Accept, Promise!Deliver, Promise!Confirm
<1>0. OutboxIInv
  BY IInvParts
<1>1. CASE UNCHANGED <<accepted, published, log>>
  BY <1>1
<1>2. ASSUME NEW r \in Events, CommitRow(r) PROVE Promise!Accept(r)
  BY <1>2 DEF CommitRow, Open
<1>3. ASSUME NEW p \in Processes, NEW r \in Oldest(job[p].todo), log' = Append(log, r),
             UNCHANGED <<accepted, published>>
      PROVE  r \in Events /\ Promise!Deliver(r)
  <2>1. r \in accepted /\ r \in Events
    BY <1>0, <1>3 DEF Oldest, OutboxIInv, OutboxTypeOK
  <2>2. topic = Stock
    BY <2>1, AcceptedIsStock
  <2> QED BY <1>3, <2>1, <2>2
<1>4. ASSUME NEW p \in Processes, Mark(p) PROVE \E r \in Events : Promise!Confirm(r)
  <2>1. PICK r \in Events : job[p].sent = {r}
    BY <1>0, <1>4 DEF Mark, OutboxIInv
  <2>2. OnLog(r) /\ published' = published \union {r} /\ UNCHANGED <<accepted, log>>
    BY <1>0, <1>4, <2>1 DEF Mark, OutboxIInv, rows
  <2>3. topic = Stock
    <3>1. r \in accepted
      BY <1>0, <2>1 DEF OutboxIInv
    <3> QED BY <3>1, AcceptedIsStock
  <2> QED BY <2>2, <2>3 DEF OnLog
<1> QED
  <2>1. ASSUME NEW p \in Processes, Send(p) \/ SendFails(p)
        PROVE  \/ UNCHANGED <<accepted, published, log>>
               \/ \E r \in Oldest(job[p].todo) : log' = Append(log, r)
                                                /\ UNCHANGED <<accepted, published>>
    BY <2>1 DEF Send, SendFails, rows
  <2>2. ASSUME NEW r \in Events, Begin(r) PROVE UNCHANGED <<accepted, published, log>>
    BY <2>2 DEF Begin
  <2>3. ASSUME NEW p \in Processes, Find(p) \/ MarkFails(p) \/ Restart(p)
        PROVE  UNCHANGED <<accepted, published, log>>
    BY <2>3 DEF Find, MarkFails, Restart, rows
  <2> QED BY <1>1, <1>2, <1>3, <1>4, <2>1, <2>2, <2>3 DEF OutboxNext

(* Every step of Delivery is a step of the channel, or leaves it alone.    *)
LEMMA StepRefines == IInv /\ [Next]_vars => [Promise!Next]_(Promise!channel)
<1> SUFFICES ASSUME IInv, [Next]_vars PROVE [Promise!Next]_(Promise!channel)
  OBVIOUS
<1>1. ASSUME NEW r \in Events, Read(r) \/ Write(r) PROVE OutboxNext /\ topic' = topic
  BY <1>1 DEF Read, Write, OutboxNext
<1>2. ASSUME NEW p \in Processes, StartJob(p) \/ PublishRow(p) \/ PublishFails(p)
      PROVE  OutboxNext /\ topic' = topic
  BY <1>2 DEF StartJob, PublishRow, PublishFails, OutboxNext
<1>3. ASSUME NEW r \in Events, Notify(r) PROVE UNCHANGED Promise!channel
  BY <1>3 DEF Notify, Promise!channel, rows, Stock, Notification
<1>4. ASSUME NEW m \in Members,
              \/ Subscribe(m) \/ Receive(m) \/ CommitOffset(m) \/ CommitIsLost(m) \/ MemberDies(m)
              \/ UpsertStock(m) \/ UpsertFails(m) \/ CheckLog(m) \/ SendEmail(m) \/ SaveLog(m)
      PROVE  UNCHANGED Promise!channel
  <2>1. log' = log /\ UNCHANGED upstream
    BY <1>4, ConsumerSide
  <2> QED BY <2>1 DEF Promise!channel, upstream, rows
<1>5. CASE UNCHANGED vars
  BY <1>5 DEF vars, Promise!channel
<1> QED
  BY <1>1, <1>2, <1>3, <1>4, <1>5, OutboxRefines DEF Next

LEMMA InitRefines == Init => Promise!Init
BY DEF Init, OutboxInit, Promise!Init

(* Whatever is sent was accepted by a transaction, and whatever is marked  *)
(* was sent: the outbox, with any number of processes, restarts, failures  *)
(* and overlapping transactions, implements the channel.                   *)
THEOREM OutboxImplementsChannel == Spec => Implements
<1>1. Spec => []IInv
  BY Invariance
<1>2. Init /\ [][Next]_vars /\ []IInv => Promise!Init /\ [][Promise!Next]_(Promise!channel)
  BY InitRefines, StepRefines, PTL
<1> QED BY <1>1, <1>2, PTL DEF Spec, Implements, Promise!Spec
=============================================================================
