-------------------------------- MODULE Backup ---------------------------------
(***************************************************************************)
(* The backup module of the api service: backups of its tables in files on *)
(* Google Drive, restores from them, the retention of old backups, the two *)
(* job queues and the lock that keeps the jobs apart.                      *)
(*                                                                         *)
(* A job is a worker's run through the source, in stages of one awaited    *)
(* call.  A queue has one worker, and the service one process.  Jobs are   *)
(* not retried; one whose process died is run once more by the queue.      *)
(*                                                                         *)
(* The tables are users and posts.  Users are known by id and e-mail, a    *)
(* post by the id of its author; contents are left out.                    *)
(***************************************************************************)
EXTENDS Integers, FiniteSets, FiniteSetsExt, Functions

CONSTANTS
    NBackups,    \* how many backups and restores
    NRestores,   \* a behaviour starts
    Requests,    \* the restores an administrator may ask for
    Emails,
    Seeds,       \* the e-mails of the seeded users
    MaxUsers,    \* bounds the ids of users
    MaxBackups,  \* successful backups to keep
    MaxMishaps,  \* bounds the mishaps of a behaviour
    NoJob, NoFile, NoRequest,
    Dead         \* holds the lock of a process that died

VARIABLES
    users, posts, lastId,
    drive,     \* files on Google Drive
    backup,    \* backup_logs: status and file
    restore,   \* restore_logs: status and request
    run,       \* of each job: the stage and the local variables
    lock,      \* who holds the lock in Redis
    rerun,     \* jobs that were run once more after a crash
    applied,   \* history: how often the transaction of a restore committed
    faults     \* mishaps so far, by kind

tables == <<users, posts, lastId>>
vars == <<users, posts, lastId, drive, backup, restore, run, lock, rerun, applied, faults>>

\* Numbered in the order of their startTime.
Backups == 1..NBackups
Restores == NBackups + 1 .. NBackups + NRestores
Jobs == Backups \union Restores
Tables == {"users", "posts"}
Users == [id : 1..MaxUsers, email : Emails]
\* A restore without tables is one of the entire backup.
Request == [of : Backups, tables : SUBSET (Tables \union {"unknown"}), mode : {"REPLACE", "MERGE"}]
\* The jobs of a backup that ran twice upload twice.
File == [of : Backups, users : SUBSET Users, posts : SUBSET (1..MaxUsers), again : BOOLEAN]
Kinds == {"enqueue", "upload", "save", "find", "delete", "row", "download", "transaction",
          "crash", "expire"}

ASSUME JobsAssumption == NBackups \in Nat /\ NRestores \in Nat
ASSUME HoldersAssumption == NoJob \notin Jobs /\ Dead \notin Jobs /\ NoJob # Dead
ASSUME NoFileAssumption == NoFile \notin File
ASSUME RequestsAssumption == Requests \subseteq Request
ASSUME SeedsAssumption == /\ IsFiniteSet(Seeds) /\ Seeds \subseteq Emails /\ Seeds # {}
                          /\ Cardinality(Seeds) <= MaxUsers
ASSUME LimitsAssumption == MaxBackups \in Nat \ {0} /\ MaxMishaps \in Nat /\ MaxUsers \in Nat

Stages == {"none", "waiting", "refused", "load", "users", "posts", "upload", "save", "retain", "file",
           "row", "download", "apply", "saved", "catch", "finish", "ended"}
\* Stages of a job that has passed the lock.
Executing == Stages \ {"none", "waiting", "refused", "ended"}

TypeOK ==
    /\ users \subseteq Users /\ posts \subseteq 1..MaxUsers /\ lastId \in 0..MaxUsers
    /\ drive \subseteq File
    /\ backup \in [Backups -> [status : {"none", "IN_PROGRESS", "SUCCESS", "FAILED", "removed"},
                               file : File \union {NoFile}]]
    /\ restore \in [Restores -> [status : {"none", "IN_PROGRESS", "SUCCESS", "PARTIAL", "FAILED"},
                                 request : Request \union {NoRequest}]]
    /\ run \in [Jobs -> [at : Stages, users : SUBSET Users, posts : SUBSET (1..MaxUsers),
                         file : File \union {NoFile}, todo : SUBSET Backups]]
    /\ lock \in Jobs \union {NoJob, Dead}
    /\ rerun \subseteq Jobs
    /\ applied \in [Restores -> Nat]
    /\ faults \in [Kinds -> Nat]

NewRun == [at |-> "none", users |-> {}, posts |-> {}, file |-> NoFile, todo |-> {}]

\* The rows of the seeds: a post of each user.
Init ==
    /\ lastId = Cardinality(Seeds)
    /\ users = LET order == CHOOSE e \in [1..lastId -> Seeds] : \A s \in Seeds : \E i \in 1..lastId : e[i] = s
               IN {[id |-> i, email |-> order[i]] : i \in 1..lastId}
    /\ posts = 1..lastId
    /\ drive = {}
    /\ backup = [b \in Backups |-> [status |-> "none", file |-> NoFile]]
    /\ restore = [r \in Restores |-> [status |-> "none", request |-> NoRequest]]
    /\ run = [j \in Jobs |-> NewRun]
    /\ lock = NoJob /\ rerun = {}
    /\ applied = [r \in Restores |-> 0]
    /\ faults = [k \in Kinds |-> 0]

Never(kinds) == \A k \in kinds : faults[k] = 0
Room == FoldFunction(+, 0, faults) < MaxMishaps
Spend(k) == Room /\ faults' = [faults EXCEPT ![k] = @ + 1]
SpendIf(condition, k) == IF condition THEN Spend(k) ELSE UNCHANGED faults
At(j, stage) == run[j].at = stage
Goto(j, stage) == run' = [run EXCEPT ![j].at = stage]

-----------------------------------------------------------------------------
(* The users controller of the service; it has no operations on posts.     *)

CreateUser(e) ==
    /\ lastId < MaxUsers
    /\ \A u \in users : u.email # e
    /\ users' = users \union {[id |-> lastId + 1, email |-> e]}
    /\ lastId' = lastId + 1
    /\ UNCHANGED <<posts, drive, backup, restore, run, lock, rerun, applied, faults>>

-----------------------------------------------------------------------------
(* BackupService: the log, then the job.                                   *)

Enqueue(j) ==
    \/ Goto(j, "waiting") /\ UNCHANGED faults
    \/ Spend("enqueue") /\ UNCHANGED run

\* triggerBackup and the weekly cron.
TriggerBackup(b) ==
    /\ backup[b].status = "none"
    /\ \A c \in Backups : c < b => backup[c].status # "none"
    /\ backup' = [backup EXCEPT ![b].status = "IN_PROGRESS"]
    /\ Enqueue(b)
    /\ UNCHANGED <<tables, drive, restore, lock, rerun, applied>>

\* triggerRestore looks the backup up, triggerSelectiveRestore does not.
TriggerRestore(r, q) ==
    /\ restore[r].status = "none"
    /\ \A p \in Restores : p < r => restore[p].status # "none"
    /\ q.tables = {} => backup[q.of].status \notin {"none", "removed"}
    /\ restore' = [restore EXCEPT ![r] = [status |-> "IN_PROGRESS", request |-> q]]
    /\ Enqueue(r)
    /\ UNCHANGED <<tables, drive, backup, lock, rerun, applied>>

-----------------------------------------------------------------------------
(* The processors: the lock, without a retry, around the job.              *)

SameQueue(i, j) == (i \in Backups) = (j \in Backups)
WorkerFree(j) == \A i \in Jobs : SameQueue(i, j) => run[i].at \notin Executing
FirstInQueue(j) == \A i \in Jobs : SameQueue(i, j) /\ At(i, "waiting") => j <= i

\* acquireBackupLock throws: the job fails, and its log stays as it is.
LockBusy(j) ==
    /\ At(j, "waiting") /\ WorkerFree(j) /\ FirstInQueue(j)
    /\ lock # NoJob
    /\ Goto(j, "refused")
    /\ UNCHANGED <<tables, drive, backup, restore, lock, rerun, applied, faults>>

\* Mutant: the lock is not asked for.
StartAnyway(j) ==
    /\ At(j, "waiting") /\ WorkerFree(j) /\ FirstInQueue(j)
    /\ run' = [run EXCEPT ![j] = [NewRun EXCEPT !.at = "load"]]
    /\ lock' = j
    /\ UNCHANGED <<tables, drive, backup, restore, rerun, applied, faults>>

Start(j) ==
    /\ At(j, "waiting") /\ WorkerFree(j) /\ FirstInQueue(j)
    /\ lock = NoJob
    /\ run' = [run EXCEPT ![j] = [NewRun EXCEPT !.at = "load"]]
    /\ lock' = j
    /\ UNCHANGED <<tables, drive, backup, restore, rerun, applied, faults>>

\* The finally clause: release fails when the lock expired, which is logged.
Finish(j) ==
    /\ At(j, "finish")
    /\ lock' = IF lock = j THEN NoJob ELSE lock
    /\ Goto(j, "ended")
    /\ UNCHANGED <<tables, drive, backup, restore, rerun, applied, faults>>

\* The hour of the lock ends: of a dead process, or while the job still runs.
Expire ==
    /\ lock # NoJob
    /\ IF lock = Dead THEN UNCHANGED faults ELSE Spend("expire")
    /\ lock' = NoJob
    /\ UNCHANGED <<tables, drive, backup, restore, run, rerun, applied>>

\* The process dies with its jobs; the queue runs each of them once more.
Crash ==
    LET dying == {j \in Jobs : run[j].at \in Executing} IN
    /\ dying # {} /\ Spend("crash")
    /\ run' = [j \in Jobs |-> IF j \notin dying THEN run[j]
                              ELSE [NewRun EXCEPT !.at = IF j \in rerun THEN "ended" ELSE "waiting"]]
    /\ rerun' = rerun \union dying
    /\ lock' = IF lock \in dying THEN Dead ELSE lock
    /\ UNCHANGED <<tables, drive, backup, restore, applied>>

-----------------------------------------------------------------------------
(* executeBackup.  The log is an object in memory: what a failed save      *)
(* wanted to write is still there for the save in the catch clause.        *)

\* findOneByOrFail is outside of the try: without a row the job just fails.
LoadBackup(b) ==
    /\ At(b, "load")
    /\ run' = IF backup[b].status = "removed" THEN [run EXCEPT ![b].at = "finish"]
              ELSE [run EXCEPT ![b].at = "users", ![b].file = backup[b].file]
    /\ UNCHANGED <<tables, drive, backup, restore, lock, rerun, applied, faults>>

\* dumpCollections reads the tables one after the other, in no transaction.
DumpUsers(b) ==
    /\ At(b, "users")
    /\ run' = [run EXCEPT ![b].at = "posts", ![b].users = users]
    /\ UNCHANGED <<tables, drive, backup, restore, lock, rerun, applied, faults>>

DumpPosts(b) ==
    /\ At(b, "posts")
    /\ run' = [run EXCEPT ![b].at = "upload", ![b].posts = posts]
    /\ UNCHANGED <<tables, drive, backup, restore, lock, rerun, applied, faults>>

FileOf(b) == [of |-> b, users |-> run[b].users, posts |-> run[b].posts, again |-> b \in rerun]

\* The answer may be lost after the file was written.
Upload(b) ==
    /\ At(b, "upload")
    /\ \/ /\ drive' = drive \union {FileOf(b)}
          /\ run' = [run EXCEPT ![b].at = "save", ![b].file = FileOf(b)]
          /\ UNCHANGED faults
       \/ /\ Spend("upload")
          /\ drive' \in {drive, drive \union {FileOf(b)}}
          /\ Goto(b, "catch")
    /\ UNCHANGED <<tables, backup, restore, lock, rerun, applied>>

SaveSuccess(b) ==
    /\ At(b, "save")
    /\ \/ /\ backup' = [backup EXCEPT ![b] = [status |-> "SUCCESS", file |-> run[b].file]]
          /\ Goto(b, "retain")
          /\ UNCHANGED faults
       \/ Spend("save") /\ Goto(b, "catch") /\ UNCHANGED backup
    /\ UNCHANGED <<tables, drive, restore, lock, rerun, applied>>

\* Mutant: the catch clause does not save the log.
CatchNothing(b) ==
    /\ At(b, "catch")
    /\ Goto(b, "finish")
    /\ UNCHANGED <<tables, drive, backup, restore, lock, rerun, applied, faults>>

CatchBackup(b) ==
    /\ At(b, "catch")
    /\ Goto(b, "finish")
    /\ \/ /\ backup' = [backup EXCEPT ![b] = [status |-> "FAILED", file |-> run[b].file]]
          /\ UNCHANGED faults
       \/ Spend("save") /\ UNCHANGED backup
    /\ UNCHANGED <<tables, drive, restore, lock, rerun, applied>>

-----------------------------------------------------------------------------
(* enforceRetention, within the try of the backup.                         *)

\* Mutant: the list has every log, whatever its status.
AllLogs == {b \in Backups : backup[b].status \notin {"none", "removed"}}
Successful == {b \in Backups : backup[b].status = "SUCCESS"}

\* All but the newest MaxBackups.
Surplus(list) == {b \in list : Cardinality({c \in list : c > b}) >= MaxBackups}

Retain(b) ==
    /\ At(b, "retain")
    /\ \/ /\ run' = [run EXCEPT ![b].todo = Surplus(Successful),
                            ![b].at = IF Surplus(Successful) = {} THEN "finish" ELSE "file"]
          /\ UNCHANGED faults
       \/ Spend("find") /\ Goto(b, "catch")
    /\ UNCHANGED <<tables, drive, backup, restore, lock, rerun, applied>>

OldestTodo(b) == CHOOSE c \in run[b].todo : \A d \in run[b].todo : c <= d

\* The next backup of the list, or the end of it.
Skip(b) ==
    LET rest == run[b].todo \ {OldestTodo(b)} IN
    run' = [run EXCEPT ![b].todo = rest, ![b].at = IF rest = {} THEN "finish" ELSE "file"]

\* Without its file, a row cannot be removed any more.
RemoveFile(b) ==
    LET file == backup[OldestTodo(b)].file IN
    /\ At(b, "file")
    /\ \/ /\ file \in drive
          /\ drive' = drive \ {file}
          /\ Goto(b, "row")
          /\ UNCHANGED faults
       \/ file \notin drive /\ Skip(b) /\ UNCHANGED <<drive, faults>>
       \/ Spend("delete") /\ Skip(b) /\ UNCHANGED drive
    /\ UNCHANGED <<tables, backup, restore, lock, rerun, applied>>

RemoveRow(b) ==
    /\ At(b, "row")
    /\ \/ /\ backup' = [backup EXCEPT ![OldestTodo(b)] = [status |-> "removed", file |-> NoFile]]
          /\ UNCHANGED faults
       \/ Spend("row") /\ UNCHANGED backup
    /\ Skip(b)
    /\ UNCHANGED <<tables, drive, restore, lock, rerun, applied>>

-----------------------------------------------------------------------------
(* executeRestore.                                                         *)

\* Outside of the try, too.
LoadRestore(r) ==
    LET b == restore[r].request.of IN
    /\ At(r, "load")
    /\ run' = IF backup[b].status = "SUCCESS"
              THEN [run EXCEPT ![r].at = "download", ![r].file = backup[b].file]
              ELSE [run EXCEPT ![r].at = "finish"]
    /\ UNCHANGED <<tables, drive, backup, restore, lock, rerun, applied, faults>>

Download(r) ==
    /\ At(r, "download")
    /\ \/ run[r].file \in drive /\ Goto(r, "apply") /\ UNCHANGED faults
       \/ run[r].file \notin drive /\ Goto(r, "catch") /\ UNCHANGED faults
       \/ Spend("download") /\ Goto(r, "catch")
    /\ UNCHANGED <<tables, drive, backup, restore, lock, rerun, applied>>

\* The tables that are in the file and among the entities.
Selected(r) ==
    LET q == restore[r].request IN IF q.tables = {} THEN Tables ELSE q.tables \intersect Tables
Partial(r) == "unknown" \in restore[r].request.tables

\* REPLACE: posts first, and a user takes his posts with him.
KeptUsers(r) ==
    IF restore[r].request.mode = "REPLACE" /\ "users" \in Selected(r) THEN {} ELSE users
KeptPosts(r) ==
    IF restore[r].request.mode = "REPLACE" /\ Selected(r) # {} THEN {} ELSE posts

UsersAfter(r) ==
    LET saved == IF "users" \in Selected(r) THEN run[r].file.users ELSE {} IN
    saved \union {u \in KeptUsers(r) : \A s \in saved : s.id # u.id}
PostsAfter(r) ==
    KeptPosts(r) \union (IF "posts" \in Selected(r) THEN run[r].file.posts ELSE {})

UniqueEmails(us) == \A u, v \in us : u.email = v.email => u = v
Authored(ps, us) == ps \subseteq {u.id : u \in us}

\* A table without rows makes an INSERT without VALUES.
HasRows(file, names) ==
    /\ "users" \in names => file.users # {}
    /\ "posts" \in names => file.posts # {}

Accepted(r) == /\ HasRows(run[r].file, Selected(r))
               /\ UniqueEmails(UsersAfter(r))
               /\ Authored(PostsAfter(r), UsersAfter(r))

Committed(r) ==
    /\ users' = UsersAfter(r) /\ posts' = PostsAfter(r)
    /\ applied' = [applied EXCEPT ![r] = @ + 1]
    /\ Goto(r, "saved")

\* Mutant: what the DELETE statements did is not rolled back.
ApplyHalf(r) ==
    /\ At(r, "apply")
    /\ \/ Accepted(r) /\ Committed(r) /\ UNCHANGED faults
       \/ /\ users' = KeptUsers(r) /\ posts' = KeptPosts(r)
          /\ applied' = [applied EXCEPT ![r] = @ + 1]
          /\ Goto(r, "catch")
          /\ SpendIf(Accepted(r), "transaction")
    /\ UNCHANGED <<lastId, drive, backup, restore, lock, rerun>>

\* The transaction, or its rollback.
Apply(r) ==
    /\ At(r, "apply")
    /\ \/ Accepted(r) /\ Committed(r) /\ UNCHANGED faults
       \/ /\ ~Accepted(r) /\ Goto(r, "catch")
          /\ UNCHANGED <<users, posts, applied, faults>>
       \/ /\ Spend("transaction") /\ Goto(r, "catch")
          /\ UNCHANGED <<users, posts, applied>>
    /\ UNCHANGED <<lastId, drive, backup, restore, lock, rerun>>

SaveRestored(r) ==
    /\ At(r, "saved")
    /\ \/ /\ restore' = [restore EXCEPT ![r].status = IF Partial(r) THEN "PARTIAL" ELSE "SUCCESS"]
          /\ Goto(r, "finish")
          /\ UNCHANGED faults
       \/ Spend("save") /\ Goto(r, "catch") /\ UNCHANGED restore
    /\ UNCHANGED <<tables, drive, backup, lock, rerun, applied>>

CatchRestore(r) ==
    /\ At(r, "catch")
    /\ Goto(r, "finish")
    /\ \/ restore' = [restore EXCEPT ![r].status = "FAILED"] /\ UNCHANGED faults
       \/ Spend("save") /\ UNCHANGED restore
    /\ UNCHANGED <<tables, drive, backup, lock, rerun, applied>>

-----------------------------------------------------------------------------
BackupStep(b) ==
    \/ LoadBackup(b) \/ DumpUsers(b) \/ DumpPosts(b) \/ Upload(b) \/ SaveSuccess(b)
    \/ CatchBackup(b) \/ Retain(b) \/ RemoveFile(b) \/ RemoveRow(b)

RestoreStep(r) ==
    LoadRestore(r) \/ Download(r) \/ Apply(r) \/ SaveRestored(r) \/ CatchRestore(r)

\* What the worker of a queue does with a job.
Work(j) ==
    \/ LockBusy(j) \/ Start(j) \/ Finish(j)
    \/ j \in Backups /\ BackupStep(j)
    \/ j \in Restores /\ RestoreStep(j)

Next ==
    \/ \E e \in Emails : CreateUser(e)
    \/ \E b \in Backups : TriggerBackup(b)
    \/ \E r \in Restores, q \in Requests : TriggerRestore(r, q)
    \/ \E j \in Jobs : Work(j)
    \/ Expire
    \/ Crash

Spec == Init /\ [][Next]_vars

\* The workers run, and Redis forgets the lock of a dead process.
FairSpec ==
    /\ Spec
    /\ \A j \in Jobs : WF_vars(Work(j))
    /\ WF_vars(lock = Dead /\ Expire)

-----------------------------------------------------------------------------
Good(b) == backup[b].status = "SUCCESS" /\ backup[b].file \in drive
GoodBackups == {b \in Backups : Good(b)}

(* Retention and failing backups never take the good backups, which have   *)
(* their file on Google Drive, below the number to keep once it was        *)
(* reached, as long as no backup is run a second time, and the list of     *)
(* backups is read: without it the new backup is called FAILED.            *)
KeepsBackups ==
    [][/\ Never({"find", "crash"})
       /\ Cardinality(GoodBackups) >= MaxBackups
       => Cardinality(GoodBackups') >= MaxBackups]_vars

(* A restore of users alone empties posts, and the backups after it could  *)
(* not be restored.                                                        *)
EmptiesPosts(q) == q.mode = "REPLACE" /\ q.tables \intersect Tables = {"users"}

PostsAreKept == \A r \in Restores : applied[r] > 0 => ~EmptiesPosts(restore[r].request)

(* The file of every good backup restores: its tables have rows, and its   *)
(* posts the authors they need, although the tables are read one after the *)
(* other, and whatever was rolled back or ran beside the backup.           *)
BackupsAreRestorable ==
    PostsAreKept => \A b \in GoodBackups :
         HasRows(backup[b].file, Tables) /\ Authored(backup[b].file.posts, backup[b].file.users)

(* No backup or restore runs beside another one, of its own queue or of    *)
(* the other queue, as long as the lock outlasts its job; a crash does not *)
(* let one in.                                                             *)
OneAtATime ==
    Never({"expire"}) => \A i, j \in Jobs : run[i].at \in Executing /\ run[j].at \in Executing => i = j

(* The log of a restore says what happened to the tables: FAILED only when *)
(* nothing was committed, SUCCESS and PARTIAL when the file was, once.     *)
RestoreLogIsTrue ==
    \A r \in Restores : Never({"save", "crash"}) =>
        /\ restore[r].status = "FAILED" => applied[r] = 0
        /\ restore[r].status \in {"SUCCESS", "PARTIAL"} => applied[r] = 1

(* Every job ends.  The log of a backup is closed by then, unless the lock *)
(* refused the job, and the log of a restore that found its backup, unless *)
(* a mishap kept the log from being written.                               *)
Status(j) == IF j \in Backups THEN backup[j].status ELSE restore[j].status
Closed(j) ==
    \/ run[j].at \in {"none", "refused"}
    \/ At(j, "ended") /\ Status(j) # "IN_PROGRESS"
    \/ At(j, "ended") /\ j \in Restores /\ run[j].file = NoFile
    \/ At(j, "ended") /\ ~Never({"save", "crash"})
LogsAreClosed == <>[](\A j \in Jobs : Closed(j))

-----------------------------------------------------------------------------
(* The invariant behind OneAtATime, BackupsAreRestorable and               *)
(* RestoreLogIsTrue.                                                       *)

LockIsHeld ==
    Never({"expire"}) => \A j \in Jobs : run[j].at \in Executing => lock = j

RestoreStages == {"none", "waiting", "refused", "load", "download", "apply", "saved", "catch",
                  "finish", "ended"}

\* At which stages the tables are already changed.
InOrder(r) ==
    LET at == run[r].at  status == restore[r].status IN
    /\ at \in RestoreStages
    /\ status = "none" => at = "none" /\ applied[r] = 0
    /\ at # "none" => restore[r].request \in Request
    /\ at = "apply" => run[r].file \in File
    /\ Never({"save", "crash"}) =>
         /\ at \notin {"saved", "finish", "ended"} => applied[r] = 0
         /\ at = "saved" => applied[r] = 1
         /\ at \notin {"finish", "ended"} => status \in {"none", "IN_PROGRESS"}
         /\ status = "FAILED" => applied[r] = 0
         /\ status \in {"SUCCESS", "PARTIAL"} => applied[r] = 1
RestoreInOrder == \A r \in Restores : InOrder(r)

\* The posts are those of the seeds, and no seeded user is lost.
HasSeeds(us) == 1..Cardinality(Seeds) \subseteq {u.id : u \in us}
SeededPosts(ps) == ps # {} /\ ps \subseteq 1..Cardinality(Seeds)
SeedsAreKept ==
    PostsAreKept =>
      /\ HasSeeds(users) /\ SeededPosts(posts)
      /\ \A f \in drive : HasSeeds(f.users) /\ SeededPosts(f.posts)
      /\ \A b \in Backups : run[b].at \in {"posts", "upload"} => HasSeeds(run[b].users)
      /\ \A b \in Backups : At(b, "upload") => SeededPosts(run[b].posts)
      /\ \A r \in Restores : At(r, "apply") => HasSeeds(run[r].file.users) /\ SeededPosts(run[r].file.posts)

IInv == TypeOK /\ LockIsHeld /\ RestoreInOrder /\ SeedsAreKept

(* The invariant behind KeepsBackups.                                      *)

\* The file that a log or a job speaks of is one of its own backup.
OwnFile(b, f) == f = NoFile \/ (f \in File /\ f.of = b)

\* Retention may remove this backup: enough newer ones are good.
Dispensable(c) == Cardinality({d \in GoodBackups : d > c}) >= MaxBackups

\* The stages before the job has written its result.
Unsaved == {"waiting", "load", "users", "posts", "upload", "save", "catch"}

\* What is about to be removed, and what has lost its file already, is
\* dispensable; and no job rewrites the log of a backup that succeeded.
Retained ==
    /\ \A b \in Backups :
         /\ backup[b].status = "none" => At(b, "none")
         /\ run[b].at \in Unsaved => backup[b].status = "IN_PROGRESS"
         /\ At(b, "save") => run[b].file \in drive
         /\ run[b].at \in {"file", "row"} =>
              /\ run[b].todo # {}
              /\ \A c \in run[b].todo :
                   Dispensable(c) /\ backup[c].status \in {"SUCCESS", "removed"}
         /\ backup[b].status = "SUCCESS" => Good(b) \/ Dispensable(b)

RetentionInv ==
    /\ \A b \in Backups : OwnFile(b, backup[b].file) /\ OwnFile(b, run[b].file)
    /\ Never({"find", "crash"}) => Retained
=============================================================================
