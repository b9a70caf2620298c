---------------------------- MODULE BackupProofs -----------------------------
(***************************************************************************)
(* Theorems about Backup, for any number of backups and restores, any      *)
(* requests, users and mishaps.                                            *)
(***************************************************************************)
EXTENDS Backup, FiniteSetTheorems, WellFoundedInduction, TLAPS

-----------------------------------------------------------------------------
(* Mishaps only add up.                                                    *)

LEMMA SpendGrows ==
    ASSUME faults \in [Kinds -> Nat], NEW k \in Kinds, Spend(k)
    PROVE  faults' \in [Kinds -> Nat] /\ \A i \in Kinds : faults'[i] >= faults[i]
BY DEF Spend

LEMMA JobsAreApart == Backups \cap Restores = {} /\ Jobs = Backups \union Restores
BY JobsAssumption DEF Backups, Restores, Jobs

LEMMA FaultsGrow ==
    ASSUME faults \in [Kinds -> Nat], Next
    PROVE  faults' \in [Kinds -> Nat] /\ \A i \in Kinds : faults'[i] >= faults[i]
<1> DEFINE G == faults' \in [Kinds -> Nat] /\ \A i \in Kinds : faults'[i] >= faults[i]
<1>0. ASSUME faults' = faults PROVE G
  BY <1>0
<1>s. ASSUME NEW k \in Kinds, Spend(k) PROVE G
  BY <1>s, SpendGrows
<1>k. /\ "enqueue" \in Kinds /\ "upload" \in Kinds /\ "save" \in Kinds /\ "find" \in Kinds
      /\ "delete" \in Kinds /\ "row" \in Kinds /\ "download" \in Kinds
      /\ "transaction" \in Kinds /\ "crash" \in Kinds /\ "expire" \in Kinds
  BY DEF Kinds
<1> HIDE DEF G
<1>1. ASSUME NEW e \in Emails, CreateUser(e) PROVE G
  BY <1>1, <1>0 DEF CreateUser
<1>2. ASSUME NEW j, Enqueue(j) PROVE G
  BY <1>2, <1>0, <1>s, <1>k DEF Enqueue
<1>3. ASSUME NEW b \in Backups, TriggerBackup(b) PROVE G
  BY <1>3, <1>2 DEF TriggerBackup
<1>4. ASSUME NEW r \in Restores, NEW q \in Requests, TriggerRestore(r, q) PROVE G
  BY <1>4, <1>2 DEF TriggerRestore
<1>5. ASSUME NEW j \in Jobs, LockBusy(j) \/ Start(j) \/ Finish(j) PROVE G
  BY <1>5, <1>0 DEF LockBusy, Start, Finish
<1>6. ASSUME NEW b \in Backups, BackupStep(b) PROVE G
  <2>1. CASE LoadBackup(b) \/ DumpUsers(b) \/ DumpPosts(b)
    BY <2>1, <1>0 DEF LoadBackup, DumpUsers, DumpPosts
  <2>2. CASE Upload(b) \/ SaveSuccess(b) \/ CatchBackup(b)
    BY <2>2, <1>0, <1>s, <1>k DEF Upload, SaveSuccess, CatchBackup
  <2>3. CASE Retain(b) \/ RemoveFile(b) \/ RemoveRow(b)
    BY <2>3, <1>0, <1>s, <1>k DEF Retain, RemoveFile, RemoveRow
  <2> QED BY <1>6, <2>1, <2>2, <2>3 DEF BackupStep
<1>7. ASSUME NEW r \in Restores, RestoreStep(r) PROVE G
  BY <1>7, <1>0, <1>s, <1>k DEF RestoreStep, LoadRestore, Download, Apply, Committed, SaveRestored, CatchRestore
<1>8. ASSUME Expire PROVE G
  BY <1>8, <1>0, <1>s, <1>k DEF Expire
<1>9. ASSUME Crash PROVE G
  BY <1>9, <1>s, <1>k DEF Crash
<1>10. G
  BY <1>1, <1>3, <1>4, <1>5, <1>6, <1>7, <1>8, <1>9 DEF Next, Work
<1> QED BY <1>10 DEF G

-----------------------------------------------------------------------------
(* Types.                                                                  *)

Runs == [at : Stages, users : SUBSET Users, posts : SUBSET (1..MaxUsers),
         file : File \union {NoFile}, todo : SUBSET Backups]

LEMMA GotoType ==
    ASSUME run \in [Jobs -> Runs], NEW j, NEW s \in Stages, Goto(j, s)
    PROVE  run' \in [Jobs -> Runs]
BY DEF Goto, Runs

LEMMA NewRunType == ASSUME NEW s \in Stages PROVE [NewRun EXCEPT !.at = s] \in Runs
BY DEF NewRun, Runs

LEMMA SkipType ==
    ASSUME run \in [Jobs -> Runs], NEW b \in Backups, Skip(b)
    PROVE  run' \in [Jobs -> Runs]
<1> DEFINE rest == run[b].todo \ {OldestTodo(b)}
           next == IF rest = {} THEN "finish" ELSE "file"
<1>1. b \in Jobs /\ run[b] \in Runs
  BY JobsAreApart
<1>2. rest \in SUBSET Backups /\ next \in Stages
  BY <1>1 DEF Runs, Stages
<1>3. run' = [run EXCEPT ![b].todo = rest, ![b].at = next]
  BY DEF Skip
<1> HIDE DEF rest, next
<1> QED BY <1>1, <1>2, <1>3 DEF Runs

LEMMA SurplusIsBackups == ASSUME NEW S \in SUBSET Backups PROVE Surplus(S) \in SUBSET Backups
BY DEF Surplus

LEMMA RestoredTypes ==
    ASSUME users \subseteq Users, posts \subseteq 1..MaxUsers, NEW r, run[r].file \in File
    PROVE  UsersAfter(r) \subseteq Users /\ PostsAfter(r) \subseteq 1..MaxUsers
BY DEF UsersAfter, PostsAfter, KeptUsers, KeptPosts, File

LEMMA TypeInit == Init => TypeOK
<1> SUFFICES ASSUME Init PROVE TypeOK
  OBVIOUS
<1> DEFINE n == Cardinality(Seeds)
           Enumerates(e) == \A s \in Seeds : \E i \in 1..n : e[i] = s
<1>1. n \in Nat /\ n <= MaxUsers /\ \E e \in [1..n -> Seeds] : Enumerates(e)
  <2>1. n \in Nat /\ \E e : e \in Bijection(1..n, Seeds)
    BY SeedsAssumption, FS_CardinalityType DEF ExistsBijection
  <2>2. \A e \in Bijection(1..n, Seeds) : e \in [1..n -> Seeds] /\ Enumerates(e)
    BY DEF Bijection, Surjection, Injection
  <2> QED BY <2>1, <2>2, SeedsAssumption
<1>2. PICK e \in [1..n -> Seeds] : users = {[id |-> i, email |-> e[i]] : i \in 1..n}
  <2> DEFINE order == CHOOSE e \in [1..n -> Seeds] : Enumerates(e)
  <2>1. order \in [1..n -> Seeds]
    BY <1>1
  <2>2. users = {[id |-> i, email |-> order[i]] : i \in 1..n}
    BY DEF Init
  <2> QED BY <2>1, <2>2
<1>3. users \subseteq Users /\ posts \subseteq 1..MaxUsers /\ lastId \in 0..MaxUsers
  <2>1. lastId = n /\ posts = 1..n
    BY DEF Init
  <2> HIDE DEF n
  <2>2. \A i \in 1..n : i \in 1..MaxUsers /\ e[i] \in Emails
    BY <1>1, SeedsAssumption, LimitsAssumption
  <2>3. users \subseteq Users
    BY <1>2, <2>2 DEF Users
  <2> QED BY <1>1, <2>1, <2>2, <2>3, LimitsAssumption
<1>4. run \in [Jobs -> Runs]
  BY DEF Init, NewRun, Runs, Stages
<1> QED BY <1>3, <1>4, RequestsAssumption DEF Init, TypeOK, Runs

LEMMA TypeNext == TypeOK /\ RestoreInOrder /\ Next => TypeOK'
<1> SUFFICES ASSUME TypeOK, RestoreInOrder, Next PROVE TypeOK'
  OBVIOUS
<1>f. faults' \in [Kinds -> Nat]
  BY FaultsGrow DEF TypeOK
<1>r. run \in [Jobs -> Runs]
  BY DEF TypeOK, Runs
<1>t. ASSUME run' \in [Jobs -> Runs], UNCHANGED <<tables, drive, backup, restore, lock, rerun, applied>>
      PROVE  TypeOK'
  BY <1>t, <1>f DEF TypeOK, Runs, tables
<1>s. \A s \in {"none", "waiting", "refused", "load", "users", "posts", "upload", "save", "retain", "file",
               "row", "download", "apply", "saved", "catch", "finish", "ended"} : s \in Stages
  BY DEF Stages
<1>1. ASSUME NEW e \in Emails, CreateUser(e) PROVE TypeOK'
  <2>1. lastId + 1 \in 1..MaxUsers
    BY <1>1, LimitsAssumption DEF CreateUser, TypeOK
  <2>2. users' \subseteq Users /\ lastId' \in 0..MaxUsers
    BY <1>1, <2>1, LimitsAssumption DEF CreateUser, TypeOK, Users
  <2> QED BY <1>1, <1>f, <2>2 DEF CreateUser, TypeOK
<1>2. ASSUME NEW b \in Backups, TriggerBackup(b) PROVE TypeOK'
  <2>1. run' \in [Jobs -> Runs]
    BY <1>2, <1>r, <1>s, GotoType DEF TriggerBackup, Enqueue
  <2> QED BY <1>2, <1>f, <2>1 DEF TriggerBackup, TypeOK, Runs, tables
<1>3. ASSUME NEW r \in Restores, NEW q \in Requests, TriggerRestore(r, q) PROVE TypeOK'
  <2>1. run' \in [Jobs -> Runs]
    BY <1>3, <1>r, <1>s, GotoType DEF TriggerRestore, Enqueue
  <2> QED BY <1>3, <1>f, <2>1, RequestsAssumption DEF TriggerRestore, TypeOK, Runs, tables
<1>4. ASSUME NEW j \in Jobs, LockBusy(j) PROVE TypeOK'
  BY <1>4, <1>r, <1>s, <1>t, GotoType DEF LockBusy
<1>5. ASSUME NEW j \in Jobs, Start(j) PROVE TypeOK'
  <2>1. run' \in [Jobs -> Runs]
    BY <1>5, <1>r, <1>s, NewRunType DEF Start
  <2> QED BY <1>5, <1>f, <2>1 DEF Start, TypeOK, Runs, tables
<1>6. ASSUME NEW j \in Jobs, Finish(j) PROVE TypeOK'
  <2>1. run' \in [Jobs -> Runs]
    BY <1>6, <1>r, <1>s, GotoType DEF Finish
  <2> QED BY <1>6, <1>f, <2>1 DEF Finish, TypeOK, Runs, tables
<1>7. ASSUME NEW b \in Backups, BackupStep(b) PROVE TypeOK'
  <2>0. b \in Jobs /\ run[b] \in Runs /\ FileOf(b) \in File
    <3>1. b \in Jobs /\ run[b] \in Runs
      BY JobsAreApart, <1>r
    <3> QED BY <3>1 DEF FileOf, File, Runs
  <2>1. CASE LoadBackup(b)
    <3>1. run' \in [Jobs -> Runs]
      BY <2>1, <2>0, <1>r, <1>s DEF LoadBackup, TypeOK, Runs
    <3> QED BY <3>1, <2>1, <1>t DEF LoadBackup
  <2>2. CASE DumpUsers(b)
    <3>1. run' \in [Jobs -> Runs]
      BY <2>2, <2>0, <1>r, <1>s DEF DumpUsers, TypeOK, Runs
    <3> QED BY <3>1, <2>2, <1>t DEF DumpUsers
  <2>3. CASE DumpPosts(b)
    <3>1. run' \in [Jobs -> Runs]
      BY <2>3, <2>0, <1>r, <1>s DEF DumpPosts, TypeOK, Runs
    <3> QED BY <3>1, <2>3, <1>t DEF DumpPosts
  <2>4. CASE Upload(b)
    <3>1. run' \in [Jobs -> Runs]
      BY <2>4, <2>0, <1>r, <1>s, GotoType DEF Upload, Runs
    <3>2. drive' \subseteq File
      BY <2>4, <2>0 DEF Upload, TypeOK
    <3> QED BY <2>4, <1>f, <3>1, <3>2 DEF Upload, TypeOK, Runs, tables
  <2>5. CASE SaveSuccess(b)
    <3>1. run' \in [Jobs -> Runs]
      BY <2>5, <1>r, <1>s, GotoType DEF SaveSuccess
    <3>2. backup' \in [Backups -> [status : {"none", "IN_PROGRESS", "SUCCESS", "FAILED", "removed"},
                                   file : File \union {NoFile}]]
      BY <2>5, <2>0 DEF SaveSuccess, TypeOK, Runs
    <3> QED BY <2>5, <1>f, <3>1, <3>2 DEF SaveSuccess, TypeOK, Runs, tables
  <2>6. CASE CatchBackup(b)
    <3>1. run' \in [Jobs -> Runs]
      BY <2>6, <1>r, <1>s, GotoType DEF CatchBackup
    <3>2. backup' \in [Backups -> [status : {"none", "IN_PROGRESS", "SUCCESS", "FAILED", "removed"},
                                   file : File \union {NoFile}]]
      BY <2>6, <2>0 DEF CatchBackup, TypeOK, Runs
    <3> QED BY <2>6, <1>f, <3>1, <3>2 DEF CatchBackup, TypeOK, Runs, tables
  <2>7. CASE Retain(b)
    <3>0. Surplus(Successful) \in SUBSET Backups
      BY SurplusIsBackups DEF Successful
    <3>1. run' \in [Jobs -> Runs]
      BY <2>7, <2>0, <3>0, <1>r, <1>s, GotoType DEF Retain, Runs
    <3> QED BY <3>1, <2>7, <1>t DEF Retain
  <2>8. CASE RemoveFile(b)
    <3>1. run' \in [Jobs -> Runs]
      BY <2>8, <1>r, <1>s, GotoType, SkipType DEF RemoveFile
    <3>2. drive' \subseteq File
      BY <2>8 DEF RemoveFile, TypeOK
    <3> QED BY <2>8, <1>f, <3>1, <3>2 DEF RemoveFile, TypeOK, Runs, tables
  <2>9. CASE RemoveRow(b)
    <3>1. run' \in [Jobs -> Runs]
      BY <2>9, <1>r, SkipType DEF RemoveRow
    <3>2. backup' \in [Backups -> [status : {"none", "IN_PROGRESS", "SUCCESS", "FAILED", "removed"},
                                   file : File \union {NoFile}]]
      BY <2>9 DEF RemoveRow, TypeOK
    <3> QED BY <2>9, <1>f, <3>1, <3>2 DEF RemoveRow, TypeOK, Runs, tables
  <2> QED BY <1>7, <2>1, <2>2, <2>3, <2>4, <2>5, <2>6, <2>7, <2>8, <2>9 DEF BackupStep
<1>8. ASSUME NEW r \in Restores, RestoreStep(r) PROVE TypeOK'
  <2>1. CASE LoadRestore(r)
    <3>1. backup[restore[r].request.of].file \in File \union {NoFile}
      <4>1. restore[r].request \in Request
        BY <2>1 DEF RestoreInOrder, InOrder, LoadRestore, At
      <4>2. restore[r].request.of \in Backups
        BY <4>1 DEF Request
      <4> QED BY <4>2 DEF TypeOK
    <3>2. run' \in [Jobs -> Runs]
      <4>1. CASE run' = [run EXCEPT ![r].at = "download",
                                    ![r].file = backup[restore[r].request.of].file]
        BY <4>1, <3>1, <1>r, <1>s DEF Runs
      <4>2. CASE run' = [run EXCEPT ![r].at = "finish"]
        BY <4>2, <1>r, <1>s DEF Runs
      <4> QED BY <2>1, <4>1, <4>2 DEF LoadRestore
    <3> QED BY <3>2, <2>1, <1>t DEF LoadRestore
  <2>2. CASE Download(r)
    <3>1. run' \in [Jobs -> Runs]
      BY <2>2, <1>r, <1>s, GotoType DEF Download
    <3> QED BY <3>1, <2>2, <1>t DEF Download
  <2>3. CASE Apply(r)
    <3>1. UsersAfter(r) \subseteq Users /\ PostsAfter(r) \subseteq 1..MaxUsers
      BY <2>3, RestoredTypes DEF Apply, At, RestoreInOrder, InOrder, TypeOK
    <3>2. run' \in [Jobs -> Runs]
      BY <2>3, <1>r, <1>s, GotoType DEF Apply, Committed
    <3>3. users' \subseteq Users /\ posts' \subseteq 1..MaxUsers
      BY <2>3, <3>1 DEF Apply, Committed, TypeOK
    <3>4. applied' \in [Restores -> Nat]
      BY <2>3 DEF Apply, Committed, TypeOK
    <3> QED BY <2>3, <1>f, <3>2, <3>3, <3>4 DEF Apply, TypeOK, Runs
  <2>4. CASE SaveRestored(r)
    <3>1. run' \in [Jobs -> Runs]
      BY <2>4, <1>r, <1>s, GotoType DEF SaveRestored
    <3> QED BY <2>4, <1>f, <3>1 DEF SaveRestored, TypeOK, Runs, tables
  <2>5. CASE CatchRestore(r)
    <3>1. run' \in [Jobs -> Runs]
      BY <2>5, <1>r, <1>s, GotoType DEF CatchRestore
    <3> QED BY <2>5, <1>f, <3>1 DEF CatchRestore, TypeOK, Runs, tables
  <2> QED BY <1>8, <2>1, <2>2, <2>3, <2>4, <2>5 DEF RestoreStep
<1>9. ASSUME Expire PROVE TypeOK'
  BY <1>9, <1>f DEF Expire, TypeOK, tables
<1>10. ASSUME Crash PROVE TypeOK'
  <2>1. run' \in [Jobs -> Runs]
    BY <1>10, <1>r, <1>s, NewRunType DEF Crash
  <2> QED BY <1>10, <1>f, <2>1 DEF Crash, TypeOK, Runs, tables
<1> QED BY <1>1, <1>2, <1>3, <1>4, <1>5, <1>6, <1>7, <1>8, <1>9, <1>10 DEF Next, Work

-----------------------------------------------------------------------------
(* The lock.  A job that executes holds it, and only an expiry takes it    *)
(* from a job that lives.                                                  *)

\* The stages of an action that is a step of a job past the lock.
LEMMA GotoRuns ==
    ASSUME TypeOK, NEW j \in Jobs, NEW s \in Stages, Goto(j, s)
    PROVE  run'[j].at = s /\ \A i \in Jobs \ {j} : run'[i] = run[i]
BY DEF Goto, TypeOK

LEMMA SkipRuns ==
    ASSUME TypeOK, NEW b \in Backups, Skip(b)
    PROVE  run'[b].at \in {"finish", "file"} /\ \A i \in Jobs \ {b} : run'[i] = run[i]
BY JobsAreApart DEF Skip, TypeOK

\* Every step of a job past the lock leaves the other jobs and the lock.
LEMMA StepsOfOne ==
    ASSUME TypeOK, NEW j \in Jobs, \/ j \in Backups /\ BackupStep(j)
                                   \/ j \in Restores /\ RestoreStep(j)
    PROVE  /\ run[j].at \in Executing /\ lock' = lock
           /\ \A i \in Jobs \ {j} : run'[i] = run[i]
<1>1. CASE j \in Backups /\ BackupStep(j)
  <2>1. CASE LoadBackup(j) \/ DumpUsers(j) \/ DumpPosts(j)
    BY <2>1 DEF LoadBackup, DumpUsers, DumpPosts, TypeOK, At, Executing, Stages
  <2>2. CASE Upload(j)
    BY <2>2 DEF Upload, Goto, TypeOK, At, Executing, Stages
  <2>3. CASE SaveSuccess(j) \/ CatchBackup(j)
    BY <2>3 DEF SaveSuccess, CatchBackup, Goto, TypeOK, At, Executing, Stages
  <2>4. CASE Retain(j)
    BY <2>4 DEF Retain, Goto, TypeOK, At, Executing, Stages
  <2>5. CASE RemoveFile(j) \/ RemoveRow(j)
    BY <2>5, <1>1, SkipRuns DEF RemoveFile, RemoveRow, Goto, TypeOK, At, Executing, Stages
  <2> QED BY <1>1, <2>1, <2>2, <2>3, <2>4, <2>5 DEF BackupStep
<1>2. CASE j \in Restores /\ RestoreStep(j)
  <2>1. CASE LoadRestore(j) \/ Download(j)
    BY <2>1 DEF LoadRestore, Download, Goto, TypeOK, At, Executing, Stages
  <2>2. CASE Apply(j)
    BY <2>2 DEF Apply, Committed, Goto, TypeOK, At, Executing, Stages
  <2>3. CASE SaveRestored(j) \/ CatchRestore(j)
    BY <2>3 DEF SaveRestored, CatchRestore, Goto, TypeOK, At, Executing, Stages
  <2> QED BY <1>2, <2>1, <2>2, <2>3 DEF RestoreStep
<1> QED BY <1>1, <1>2

LEMMA NeverBefore ==
    ASSUME TypeOK, Next, NEW K \in SUBSET Kinds, Never(K)'
    PROVE  Never(K)
<1>1. \A k \in K : faults[k] \in Nat /\ faults'[k] \in Nat /\ faults'[k] >= faults[k]
  BY FaultsGrow DEF TypeOK
<1>2. \A k \in K : faults'[k] = 0
  BY DEF Never
<1> QED BY <1>1, <1>2 DEF Never

LEMMA LockNext == TypeOK /\ LockIsHeld /\ Next => LockIsHeld'
<1> SUFFICES ASSUME TypeOK, LockIsHeld, Next, Never({"expire"})',
                    NEW i \in Jobs, run'[i].at \in Executing
             PROVE  lock' = i
  BY DEF LockIsHeld
<1>0. Never({"expire"}) /\ faults'["expire"] = 0
  <2>1. {"expire"} \in SUBSET Kinds
    BY DEF Kinds
  <2> QED BY <2>1, NeverBefore DEF Never
<1>h. \A j \in Jobs : run[j].at \in Executing => lock = j
  BY <1>0 DEF LockIsHeld
<1>n. NoJob \notin Jobs /\ Dead \notin Jobs
  BY HoldersAssumption
<1>1. ASSUME NEW e \in Emails, CreateUser(e) PROVE lock' = i
  BY <1>1, <1>h DEF CreateUser
<1>2. ASSUME NEW j \in Jobs, Enqueue(j), lock' = lock PROVE lock' = i
  BY <1>2, <1>h DEF Enqueue, Goto, TypeOK, Executing
<1>3. ASSUME NEW b \in Backups, TriggerBackup(b) PROVE lock' = i
  BY <1>3, <1>2, JobsAreApart DEF TriggerBackup
<1>4. ASSUME NEW r \in Restores, NEW q \in Requests, TriggerRestore(r, q) PROVE lock' = i
  BY <1>4, <1>2, JobsAreApart DEF TriggerRestore
<1>5. ASSUME NEW j \in Jobs, LockBusy(j) PROVE lock' = i
  BY <1>5, <1>h DEF LockBusy, Goto, TypeOK, Executing
<1>6. ASSUME NEW j \in Jobs, Start(j) PROVE lock' = i
  <2>1. \A k \in Jobs : run[k].at \notin Executing
    BY <1>6, <1>h, <1>n DEF Start
  <2>2. \A k \in Jobs \ {j} : run'[k] = run[k]
    BY <1>6 DEF Start, TypeOK
  <2> QED BY <1>6, <2>1, <2>2 DEF Start
<1>7. ASSUME NEW j \in Jobs, Finish(j) PROVE lock' = i
  <2>1. run[j].at \in Executing /\ run'[j].at = "ended" /\ \A k \in Jobs \ {j} : run'[k] = run[k]
    BY <1>7 DEF Finish, Goto, At, TypeOK, Executing, Stages
  <2>2. i # j
    BY <2>1 DEF Executing
  <2> QED BY <2>1, <2>2, <1>h
<1>8. ASSUME NEW j \in Jobs, \/ j \in Backups /\ BackupStep(j)
                             \/ j \in Restores /\ RestoreStep(j)
      PROVE  lock' = i
  BY <1>8, <1>h, StepsOfOne
<1>9. ASSUME Expire PROVE lock' = i
  <2>1. CASE lock = Dead
    BY <2>1, <1>9, <1>h, <1>n DEF Expire
  <2>2. CASE lock # Dead
    <3>1. faults' = [faults EXCEPT !["expire"] = @ + 1] /\ faults["expire"] \in Nat
      BY <1>9, <2>2 DEF Expire, Spend, TypeOK, Kinds
    <3> QED BY <3>1, <1>0 DEF TypeOK, Kinds
  <2> QED BY <2>1, <2>2
<1>10. ASSUME Crash PROVE lock' = i
  BY <1>10 DEF Crash, NewRun, Executing, TypeOK
<1> QED BY <1>1, <1>3, <1>4, <1>5, <1>6, <1>7, <1>8, <1>9, <1>10 DEF Next, Work

-----------------------------------------------------------------------------
(* The log of a restore.                                                   *)

LEMMA InOrderNext ==
    ASSUME TypeOK, Next, NEW r \in Restores, InOrder(r)
    PROVE  InOrder(r)'
<1>n. Never({"save", "crash"})' => Never({"save", "crash"}) /\ faults'["save"] = 0 /\ faults'["crash"] = 0
  <2>1. {"save", "crash"} \in SUBSET Kinds
    BY DEF Kinds
  <2> QED BY <2>1, NeverBefore DEF Never
<1>s. \A k \in {"save", "crash"} : Spend(k) => ~Never({"save", "crash"})'
  <2> SUFFICES ASSUME NEW k \in {"save", "crash"}, Spend(k) PROVE ~Never({"save", "crash"})'
    OBVIOUS
  <2>1. faults[k] \in Nat /\ faults'[k] = faults[k] + 1
    BY DEF Spend, TypeOK, Kinds
  <2> QED BY <2>1 DEF Never
<1>t. /\ run \in [Jobs -> Runs] /\ r \in Jobs /\ r \notin Backups
      /\ applied \in [Restores -> Nat]
      /\ restore \in [Restores -> [status : {"none", "IN_PROGRESS", "SUCCESS", "PARTIAL", "FAILED"},
                                   request : Request \union {NoRequest}]]
  BY JobsAreApart DEF TypeOK, Runs
<1>same. ASSUME run'[r] = run[r], restore'[r] = restore[r], applied'[r] = applied[r]
         PROVE  InOrder(r)'
  BY <1>same, <1>n DEF InOrder
<1>goto. ASSUME NEW st \in Stages, Goto(r, st)
         PROVE  run'[r].at = st /\ run'[r].file = run[r].file
  BY <1>goto, <1>t DEF Goto, Runs
<1>1. ASSUME NEW e \in Emails, CreateUser(e) PROVE InOrder(r)'
  BY <1>1, <1>same DEF CreateUser
<1>2. ASSUME NEW b \in Backups, TriggerBackup(b) PROVE InOrder(r)'
  BY <1>2, <1>same, <1>t DEF TriggerBackup, Enqueue, Goto
<1>3. ASSUME NEW p \in Restores, NEW q \in Requests, TriggerRestore(p, q) PROVE InOrder(r)'
  <2>1. CASE p # r
    BY <2>1, <1>3, <1>same, <1>t DEF TriggerRestore, Enqueue, Goto
  <2>2. CASE p = r
    <3>1. restore'[r] = [status |-> "IN_PROGRESS", request |-> q] /\ q \in Request /\ applied' = applied
      BY <1>3, <2>2, <1>t, RequestsAssumption DEF TriggerRestore
    <3>2. run[r].at = "none" /\ applied[r] = 0
      BY <1>3, <2>2 DEF TriggerRestore, InOrder
    <3>3. run'[r].at \in {"none", "waiting"}
      BY <1>3, <2>2, <3>2, <1>goto DEF TriggerRestore, Enqueue, Stages
    <3> QED BY <3>1, <3>2, <3>3, <1>n DEF InOrder, RestoreStages
  <2> QED BY <2>1, <2>2
<1>4. ASSUME NEW j \in Jobs, LockBusy(j) PROVE InOrder(r)'
  <2>1. CASE j # r
    BY <2>1, <1>4, <1>same, <1>t DEF LockBusy, Goto
  <2>2. CASE j = r
    BY <2>2, <1>4, <1>goto, <1>n DEF LockBusy, At, InOrder, RestoreStages, Stages
  <2> QED BY <2>1, <2>2
<1>5. ASSUME NEW j \in Jobs, Start(j) PROVE InOrder(r)'
  <2>1. CASE j # r
    BY <2>1, <1>5, <1>same, <1>t DEF Start
  <2>2. CASE j = r
    <3>1. run'[r].at = "load"
      BY <2>2, <1>5, <1>t DEF Start, NewRun
    <3> QED BY <2>2, <3>1, <1>5, <1>n DEF Start, At, InOrder, RestoreStages
  <2> QED BY <2>1, <2>2
<1>6. ASSUME NEW j \in Jobs, Finish(j) PROVE InOrder(r)'
  <2>1. CASE j # r
    BY <2>1, <1>6, <1>same, <1>t DEF Finish, Goto
  <2>2. CASE j = r
    BY <2>2, <1>6, <1>goto, <1>n DEF Finish, At, InOrder, RestoreStages, Stages
  <2> QED BY <2>1, <2>2
<1>7. ASSUME NEW b \in Backups, BackupStep(b) PROVE InOrder(r)'
  <2>1. run'[r] = run[r]
    BY <1>7, <1>t, StepsOfOne, JobsAreApart
  <2>2. restore' = restore /\ applied' = applied
    BY <1>7 DEF BackupStep, LoadBackup, DumpUsers, DumpPosts, Upload, SaveSuccess, CatchBackup, Retain,
                RemoveFile, RemoveRow
  <2> QED BY <2>1, <2>2, <1>same
<1>8. ASSUME NEW p \in Restores \ {r}, RestoreStep(p) PROVE InOrder(r)'
  <2>1. run'[r] = run[r]
    BY <1>8, <1>t, StepsOfOne, JobsAreApart
  <2>2. restore'[r] = restore[r] /\ applied'[r] = applied[r]
    BY <1>8, <1>t DEF RestoreStep, LoadRestore, Download, Apply, Committed, SaveRestored, CatchRestore
  <2> QED BY <2>1, <2>2, <1>same
<1>9. ASSUME RestoreStep(r) PROVE InOrder(r)'
  <2>1. CASE LoadRestore(r)
    <3>1. run'[r].at \in {"download", "finish"} /\ restore' = restore /\ applied' = applied
      BY <2>1, <1>t DEF LoadRestore
    <3> QED BY <2>1, <3>1, <1>n DEF LoadRestore, At, InOrder, RestoreStages
  <2>2. CASE Download(r)
    <3>1. /\ run'[r].at \in {"apply", "catch"} /\ restore' = restore /\ applied' = applied
          /\ run'[r].at = "apply" => run'[r].file \in File
      BY <2>2, <1>goto DEF Download, Stages, TypeOK
    <3> QED BY <2>2, <3>1, <1>n DEF Download, At, InOrder, RestoreStages
  <2>3. CASE Apply(r)
    <3>1. \/ run'[r].at = "saved" /\ applied'[r] = applied[r] + 1
          \/ run'[r].at = "catch" /\ applied'[r] = applied[r]
      BY <2>3, <1>goto, <1>t DEF Apply, Committed, Stages
    <3>2. restore' = restore /\ restore[r].status # "none" /\ run[r].at = "apply"
      BY <2>3 DEF Apply, At, InOrder
    <3> QED BY <3>1, <3>2, <1>n DEF InOrder, RestoreStages
  <2>4. CASE SaveRestored(r)
    <3>1. \/ /\ restore'[r].status \in {"SUCCESS", "PARTIAL"} /\ run'[r].at = "finish"
             /\ restore'[r].request = restore[r].request
          \/ restore' = restore /\ run'[r].at = "catch" /\ ~Never({"save", "crash"})'
      BY <2>4, <1>goto, <1>t, <1>s DEF SaveRestored, Stages
    <3> QED BY <2>4, <3>1, <1>n DEF SaveRestored, At, InOrder, RestoreStages
  <2>5. CASE CatchRestore(r)
    <3>1. /\ run'[r].at = "finish"
          /\ \/ restore'[r].status = "FAILED" /\ restore'[r].request = restore[r].request
             \/ restore' = restore /\ ~Never({"save", "crash"})'
      BY <2>5, <1>goto, <1>t, <1>s DEF CatchRestore, Stages
    <3> QED BY <2>5, <3>1, <1>n DEF CatchRestore, At, InOrder, RestoreStages
  <2> QED BY <1>9, <2>1, <2>2, <2>3, <2>4, <2>5 DEF RestoreStep
<1>10. ASSUME Expire PROVE InOrder(r)'
  BY <1>10, <1>same DEF Expire
<1>11. ASSUME Crash PROVE InOrder(r)'
  <2>1. CASE run[r].at \in Executing
    <3>1. run'[r].at \in {"waiting", "ended"} /\ restore' = restore /\ applied' = applied
      BY <2>1, <1>11, <1>t DEF Crash, NewRun
    <3>2. ~Never({"save", "crash"})'
      BY <1>11, <1>s DEF Crash
    <3> QED BY <2>1, <3>1, <3>2 DEF InOrder, RestoreStages, Executing
  <2>2. CASE run[r].at \notin Executing
    BY <2>2, <1>11, <1>same, <1>t DEF Crash
  <2> QED BY <2>1, <2>2
<1> QED BY <1>1, <1>2, <1>3, <1>4, <1>5, <1>6, <1>7, <1>8, <1>9, <1>10, <1>11 DEF Next, Work

LEMMA RestoreNext == TypeOK /\ RestoreInOrder /\ Next => RestoreInOrder'
<1> SUFFICES ASSUME TypeOK, RestoreInOrder, Next PROVE RestoreInOrder'
  OBVIOUS
<1> QED BY InOrderNext DEF RestoreInOrder

-----------------------------------------------------------------------------
(* The rows of the seeds.                                                  *)

LEMMA SeedsAreCounted == Cardinality(Seeds) \in Nat \ {0}
BY SeedsAssumption, FS_CardinalityType, FS_EmptySet

\* A restore that does not take the posts away for good keeps the seeds.
LEMMA RestoredSeeds ==
    ASSUME NEW r, ~EmptiesPosts(restore[r].request),
           restore[r].request \in Request,
           HasSeeds(users), SeededPosts(posts),
           HasSeeds(run[r].file.users), SeededPosts(run[r].file.posts)
    PROVE  HasSeeds(UsersAfter(r)) /\ SeededPosts(PostsAfter(r))
<1> DEFINE q == restore[r].request
           f == run[r].file
<1>1. q.mode \in {"REPLACE", "MERGE"}
  BY DEF Request
<1>2. Selected(r) \in SUBSET Tables
  BY DEF Selected
<1>3. q.mode = "REPLACE" => Selected(r) # {"users"}
  BY DEF EmptiesPosts, Selected, Tables
<1>4. HasSeeds(UsersAfter(r))
  <2>1. CASE "users" \in Selected(r)
    BY <2>1 DEF UsersAfter, HasSeeds
  <2>2. CASE "users" \notin Selected(r)
    BY <2>2 DEF UsersAfter, KeptUsers, HasSeeds
  <2> QED BY <2>1, <2>2
<1>5. SeededPosts(PostsAfter(r))
  <2>1. CASE "posts" \in Selected(r)
    BY <2>1 DEF PostsAfter, KeptPosts, SeededPosts
  <2>2. CASE "posts" \notin Selected(r)
    <3>1. q.mode = "REPLACE" => Selected(r) = {}
      BY <2>2, <1>2, <1>3 DEF Tables
    <3> QED BY <2>2, <3>1 DEF PostsAfter, KeptPosts, SeededPosts
  <2> QED BY <2>1, <2>2
<1> QED BY <1>4, <1>5

LEMMA KeptBefore ==
    ASSUME TypeOK, RestoreInOrder, Next, PostsAreKept'
    PROVE  PostsAreKept
<1> SUFFICES ASSUME NEW r \in Restores, applied[r] > 0
             PROVE  applied'[r] > 0 /\ restore'[r].request = restore[r].request
  BY DEF PostsAreKept
<1>t. applied \in [Restores -> Nat] /\ restore \in [Restores -> [status : {"none", "IN_PROGRESS", "SUCCESS", "PARTIAL", "FAILED"},
                                 request : Request \union {NoRequest}]]
  BY DEF TypeOK
<1>1. ASSUME NEW e \in Emails, CreateUser(e) PROVE applied' = applied /\ restore' = restore
  BY <1>1 DEF CreateUser
<1>2. ASSUME NEW b \in Backups, TriggerBackup(b) PROVE applied' = applied /\ restore' = restore
  BY <1>2 DEF TriggerBackup
<1>3. ASSUME NEW p \in Restores, NEW q \in Requests, TriggerRestore(p, q)
      PROVE  applied' = applied /\ restore'[r] = restore[r]
  <2>1. p # r
    BY <1>3, <1>t DEF TriggerRestore, RestoreInOrder, InOrder
  <2> QED BY <2>1, <1>3, <1>t DEF TriggerRestore
<1>4. ASSUME NEW j \in Jobs, LockBusy(j) \/ Start(j) \/ Finish(j)
      PROVE  applied' = applied /\ restore' = restore
  BY <1>4 DEF LockBusy, Start, Finish
<1>5. ASSUME NEW b \in Backups, BackupStep(b) PROVE applied' = applied /\ restore' = restore
  BY <1>5 DEF BackupStep, LoadBackup, DumpUsers, DumpPosts, Upload, SaveSuccess, CatchBackup, Retain,
              RemoveFile, RemoveRow
<1>6. ASSUME NEW p \in Restores, RestoreStep(p)
      PROVE  applied'[r] > 0 /\ restore'[r].request = restore[r].request
  <2>1. CASE LoadRestore(p) \/ Download(p)
    BY <2>1 DEF LoadRestore, Download
  <2>2. CASE Apply(p)
    BY <2>2, <1>t DEF Apply, Committed
  <2>3. CASE SaveRestored(p) \/ CatchRestore(p)
    BY <2>3, <1>t DEF SaveRestored, CatchRestore
  <2> QED BY <1>6, <2>1, <2>2, <2>3 DEF RestoreStep
<1>7. ASSUME Expire \/ Crash PROVE applied' = applied /\ restore' = restore
  BY <1>7 DEF Expire, Crash
<1> QED BY <1>1, <1>2, <1>3, <1>4, <1>5, <1>6, <1>7 DEF Next, Work

LEMMA SeedsNext == TypeOK /\ RestoreInOrder /\ SeedsAreKept /\ Next => SeedsAreKept'
<1> SUFFICES ASSUME TypeOK, RestoreInOrder, SeedsAreKept, Next, PostsAreKept' PROVE SeedsAreKept'
  BY DEF SeedsAreKept
<1> DEFINE Rows(us, ps) == HasSeeds(us) /\ SeededPosts(ps)
<1>k. /\ PostsAreKept
      /\ Rows(users, posts)
      /\ \A f \in drive : Rows(f.users, f.posts)
      /\ \A b \in Backups : run[b].at \in {"posts", "upload"} => HasSeeds(run[b].users)
      /\ \A b \in Backups : At(b, "upload") => SeededPosts(run[b].posts)
      /\ \A r \in Restores : At(r, "apply") => Rows(run[r].file.users, run[r].file.posts)
  BY KeptBefore DEF SeedsAreKept
<1>t. /\ run \in [Jobs -> Runs] /\ Jobs = Backups \union Restores /\ Backups \cap Restores = {}
  BY JobsAreApart DEF TypeOK, Runs
\* What is left to show when the tables and the files stay, and of the
\* jobs only one that is not about to upload or to apply changes.
<1>one. ASSUME UNCHANGED <<users, posts, drive>>, NEW j \in Jobs,
               \A i \in Jobs \ {j} : run'[i] = run[i],
               run'[j].at \notin {"posts", "upload", "apply"}
        PROVE  SeedsAreKept'
  BY <1>one, <1>k, <1>t DEF SeedsAreKept, At
<1>all. ASSUME UNCHANGED <<users, posts, drive, run>> PROVE SeedsAreKept'
  BY <1>all, <1>k DEF SeedsAreKept, At
<1>goto. ASSUME NEW j \in Jobs, NEW st \in Stages, Goto(j, st)
         PROVE  /\ \A i \in Jobs \ {j} : run'[i] = run[i]
                /\ run'[j].at = st
  BY <1>goto, <1>t DEF Goto, Runs
<1>1. ASSUME NEW e \in Emails, CreateUser(e) PROVE SeedsAreKept'
  <2>1. HasSeeds(users')
    BY <1>1, <1>k DEF CreateUser, HasSeeds
  <2> QED BY <1>1, <2>1, <1>k DEF CreateUser, SeedsAreKept, At
<1>2. ASSUME NEW j \in Jobs, Enqueue(j), UNCHANGED <<users, posts, drive>> PROVE SeedsAreKept'
  <2>1. CASE Goto(j, "waiting")
    BY <2>1, <1>2, <1>one, <1>goto DEF Stages
  <2>2. CASE UNCHANGED run
    BY <2>2, <1>2, <1>all
  <2> QED BY <1>2, <2>1, <2>2 DEF Enqueue
<1>3. ASSUME NEW b \in Backups, TriggerBackup(b) PROVE SeedsAreKept'
  BY <1>3, <1>2, <1>t DEF TriggerBackup, tables
<1>4. ASSUME NEW r \in Restores, NEW q \in Requests, TriggerRestore(r, q) PROVE SeedsAreKept'
  BY <1>4, <1>2, <1>t DEF TriggerRestore, tables
<1>5. ASSUME NEW j \in Jobs, LockBusy(j) \/ Finish(j) PROVE SeedsAreKept'
  BY <1>5, <1>one, <1>goto DEF LockBusy, Finish, tables, Stages
<1>6. ASSUME NEW j \in Jobs, Start(j) PROVE SeedsAreKept'
  <2>1. run'[j].at = "load" /\ \A i \in Jobs \ {j} : run'[i] = run[i]
    BY <1>6, <1>t DEF Start, NewRun
  <2> QED BY <1>6, <2>1, <1>one DEF Start, tables
<1>7. ASSUME NEW b \in Backups, BackupStep(b) PROVE SeedsAreKept'
  <2>0. b \in Jobs /\ b \notin Restores /\ run[b] \in Runs
    BY <1>t
  <2>1. CASE LoadBackup(b)
    <3>1. run'[b].at \in {"finish", "users"} /\ \A i \in Jobs \ {b} : run'[i] = run[i]
      BY <2>1, <2>0, <1>t DEF LoadBackup, Runs
    <3> QED BY <2>1, <2>0, <3>1, <1>one DEF LoadBackup, tables
  <2>2. CASE DumpUsers(b)
    <3>1. /\ run'[b].at = "posts" /\ run'[b].users = users
          /\ \A i \in Jobs \ {b} : run'[i] = run[i]
      BY <2>2, <2>0, <1>t DEF DumpUsers, Runs
    <3>2. UNCHANGED <<users, posts, drive>>
      BY <2>2 DEF DumpUsers, tables
    <3> QED BY <2>0, <3>1, <3>2, <1>k, <1>t DEF SeedsAreKept, At
  <2>3. CASE DumpPosts(b)
    <3>1. /\ run[b].at = "posts" /\ run'[b].at = "upload" /\ run'[b].users = run[b].users
          /\ run'[b].posts = posts
          /\ \A i \in Jobs \ {b} : run'[i] = run[i]
      BY <2>3, <2>0, <1>t DEF DumpPosts, Runs, At
    <3>2. UNCHANGED <<users, posts, drive>>
      BY <2>3 DEF DumpPosts, tables
    <3> QED BY <2>0, <3>1, <3>2, <1>k, <1>t DEF SeedsAreKept, At
  <2>4. CASE Upload(b)
    <3>1. Rows(FileOf(b).users, FileOf(b).posts)
      BY <2>4, <1>k DEF Upload, FileOf, At
    <3>2. /\ drive' \subseteq drive \union {FileOf(b)} /\ UNCHANGED <<users, posts>>
          /\ run'[b].at \in {"save", "catch"} /\ \A i \in Jobs \ {b} : run'[i] = run[i]
      BY <2>4, <2>0, <1>t, <1>goto DEF Upload, Runs, tables, Stages
    <3>3. \A f \in drive' : Rows(f.users, f.posts)
      BY <3>1, <3>2, <1>k
    <3> QED BY <2>0, <3>2, <3>3, <1>k, <1>t DEF SeedsAreKept, At
  <2>5. CASE SaveSuccess(b) \/ CatchBackup(b)
    <3>1. run'[b].at \in {"retain", "catch", "finish"} /\ \A i \in Jobs \ {b} : run'[i] = run[i]
      BY <2>5, <2>0, <1>goto DEF SaveSuccess, CatchBackup, Stages
    <3> QED BY <2>5, <2>0, <3>1, <1>one DEF SaveSuccess, CatchBackup, tables
  <2>6. CASE Retain(b)
    <3>1. run'[b].at \in {"finish", "file", "catch"} /\ \A i \in Jobs \ {b} : run'[i] = run[i]
      BY <2>6, <2>0, <1>t, <1>goto DEF Retain, Stages, Runs
    <3> QED BY <2>6, <2>0, <3>1, <1>one DEF Retain, tables
  <2>7. CASE RemoveFile(b)
    <3>1. run'[b].at \in {"finish", "file", "row"} /\ \A i \in Jobs \ {b} : run'[i] = run[i]
      BY <2>7, <2>0, <1>goto, SkipRuns DEF RemoveFile, Stages
    <3>2. drive' \subseteq drive /\ UNCHANGED <<users, posts>>
      BY <2>7 DEF RemoveFile, tables
    <3> QED BY <2>0, <3>1, <3>2, <1>k, <1>t DEF SeedsAreKept, At
  <2>8. CASE RemoveRow(b)
    <3>1. run'[b].at \in {"finish", "file"} /\ \A i \in Jobs \ {b} : run'[i] = run[i]
      BY <2>8, SkipRuns DEF RemoveRow
    <3> QED BY <2>8, <2>0, <3>1, <1>one DEF RemoveRow, tables
  <2> QED BY <1>7, <2>1, <2>2, <2>3, <2>4, <2>5, <2>6, <2>7, <2>8 DEF BackupStep
<1>8. ASSUME NEW r \in Restores, RestoreStep(r) PROVE SeedsAreKept'
  <2>0. r \in Jobs /\ r \notin Backups /\ run[r] \in Runs
    BY <1>t
  <2>1. CASE LoadRestore(r)
    <3>1. run'[r].at \in {"finish", "download"} /\ \A i \in Jobs \ {r} : run'[i] = run[i]
      BY <2>1, <2>0, <1>t DEF LoadRestore, Runs
    <3> QED BY <2>1, <2>0, <3>1, <1>one DEF LoadRestore, tables
  <2>2. CASE Download(r)
    <3>1. /\ run'[r].file = run[r].file /\ \A i \in Jobs \ {r} : run'[i] = run[i]
          /\ run'[r].at = "apply" => run[r].file \in drive
      BY <2>2, <2>0, <1>t DEF Download, Goto, Runs
    <3>2. UNCHANGED <<users, posts, drive>>
      BY <2>2 DEF Download, tables
    <3> QED BY <2>0, <3>1, <3>2, <1>k, <1>t DEF SeedsAreKept, At
  <2>3. CASE Apply(r)
    <3>1. run'[r].at \in {"saved", "catch"} /\ (\A i \in Jobs \ {r} : run'[i] = run[i]) /\ drive' = drive
      BY <2>3, <2>0, <1>goto DEF Apply, Committed, Stages
    <3>2. Rows(users', posts')
      <4>1. CASE Committed(r)
        <5>1. applied'[r] > 0 /\ restore' = restore
          BY <2>3, <4>1 DEF Apply, Committed, TypeOK
        <5>2. ~EmptiesPosts(restore[r].request)
          BY <5>1 DEF PostsAreKept, EmptiesPosts
        <5>3. restore[r].request \in Request
          BY <2>3 DEF Apply, At, RestoreInOrder, InOrder
        <5> QED BY <2>3, <4>1, <5>2, <5>3, <1>k, RestoredSeeds DEF Apply, Committed
      <4>2. CASE UNCHANGED <<users, posts>>
        BY <4>2, <1>k
      <4> QED BY <2>3, <4>1, <4>2 DEF Apply
    <3> QED BY <2>0, <3>1, <3>2, <1>k, <1>t DEF SeedsAreKept, At
  <2>4. CASE SaveRestored(r) \/ CatchRestore(r)
    <3>1. run'[r].at \in {"catch", "finish"} /\ \A i \in Jobs \ {r} : run'[i] = run[i]
      BY <2>4, <2>0, <1>goto DEF SaveRestored, CatchRestore, Stages
    <3> QED BY <2>4, <2>0, <3>1, <1>one DEF SaveRestored, CatchRestore, tables
  <2> QED BY <1>8, <2>1, <2>2, <2>3, <2>4 DEF RestoreStep
<1>9. ASSUME Expire PROVE SeedsAreKept'
  BY <1>9, <1>all DEF Expire, tables
<1>10. ASSUME Crash PROVE SeedsAreKept'
  <2>1. \A j \in Jobs : run'[j] = run[j] \/ run'[j].at \in {"waiting", "ended"}
    BY <1>10 DEF Crash, NewRun
  <2>2. UNCHANGED <<users, posts, drive>>
    BY <1>10 DEF Crash, tables
  <2> QED BY <2>1, <2>2, <1>k, <1>t DEF SeedsAreKept, At
<1> QED BY <1>1, <1>3, <1>4, <1>5, <1>6, <1>7, <1>8, <1>9, <1>10 DEF Next, Work

-----------------------------------------------------------------------------
LEMMA IInvInit == Init => IInv
<1> SUFFICES ASSUME Init PROVE IInv
  OBVIOUS
<1>1. TypeOK
  BY TypeInit
<1>2. \A j \in Jobs : run[j].at = "none"
  BY DEF Init, NewRun
<1>3. LockIsHeld
  BY <1>2 DEF LockIsHeld, Executing
<1>4. RestoreInOrder
  BY <1>2, JobsAreApart DEF Init, RestoreInOrder, InOrder, RestoreStages
<1>5. HasSeeds(users) /\ SeededPosts(posts)
  <2> DEFINE n == Cardinality(Seeds)
  <2>1. \A i \in 1..n : \E u \in users : u.id = i
    <3> DEFINE order == CHOOSE e \in [1..n -> Seeds] : \A s \in Seeds : \E i \in 1..n : e[i] = s
    <3>1. users = {[id |-> i, email |-> order[i]] : i \in 1..n}
      BY DEF Init
    <3> HIDE DEF order, n
    <3>2. ASSUME NEW i \in 1..n PROVE \E u \in users : u.id = i
      <4>1. [id |-> i, email |-> order[i]] \in users
        BY <3>1
      <4> QED BY <4>1
    <3> QED BY <3>2
  <2>2. posts = 1..n /\ n \in Nat \ {0}
    BY SeedsAreCounted DEF Init
  <2>3. HasSeeds(users)
    BY <2>1 DEF HasSeeds
  <2>4. 1 \in 1..n
    BY <2>2
  <2> QED BY <2>2, <2>3, <2>4 DEF SeededPosts
<1>6. drive = {}
  BY DEF Init
<1>7. SeedsAreKept
  BY <1>2, <1>5, <1>6, JobsAreApart DEF SeedsAreKept, At
<1> QED BY <1>1, <1>3, <1>4, <1>7 DEF IInv

LEMMA IInvStutter == IInv /\ UNCHANGED vars => IInv'
<1> SUFFICES ASSUME IInv, UNCHANGED vars PROVE IInv'
  OBVIOUS
<1>1. TypeOK'
  BY DEF IInv, vars, TypeOK
<1>2. LockIsHeld'
  BY DEF IInv, vars, LockIsHeld, Never
<1>3. RestoreInOrder'
  BY DEF IInv, vars, RestoreInOrder, InOrder, Never
<1>4. SeedsAreKept'
  BY DEF IInv, vars, SeedsAreKept, PostsAreKept, At
<1> QED BY <1>1, <1>2, <1>3, <1>4 DEF IInv

LEMMA IInvNext == IInv /\ [Next]_vars => IInv'
<1>1. IInv /\ Next => IInv'
  BY TypeNext, LockNext, RestoreNext, SeedsNext DEF IInv
<1> QED BY <1>1, IInvStutter

(* The types, the lock, the order of a restore and the rows of the seeds,  *)
(* of every behaviour of the backup module.                                *)
THEOREM Invariance == Spec => []IInv
BY IInvInit, IInvNext, PTL DEF Spec

(* Whatever crashes, no backup or restore runs beside another one before   *)
(* a lock has expired under its job.                                       *)
THEOREM OneJobAtATime == Spec => []OneAtATime
<1>1. IInv => OneAtATime
  BY DEF IInv, LockIsHeld, OneAtATime
<1> QED BY <1>1, Invariance, PTL

(* However the jobs interleave, fail and crash, the file of every good     *)
(* backup restores, unless a restore of users alone emptied posts.         *)
THEOREM GoodBackupsRestore == Spec => []BackupsAreRestorable
<1>1. IInv => BackupsAreRestorable
  <2> SUFFICES ASSUME IInv, PostsAreKept, NEW b \in GoodBackups
               PROVE  HasRows(backup[b].file, Tables) /\ Authored(backup[b].file.posts, backup[b].file.users)
    BY DEF BackupsAreRestorable
  <2> DEFINE f == backup[b].file
  <2>1. HasSeeds(f.users) /\ SeededPosts(f.posts)
    BY DEF GoodBackups, Good, IInv, SeedsAreKept
  <2>2. 1 \in 1..Cardinality(Seeds)
    BY SeedsAreCounted
  <2>3. f.users # {} /\ f.posts # {}
    BY <2>1, <2>2 DEF HasSeeds, SeededPosts
  <2>4. f.posts \subseteq {u.id : u \in f.users}
    BY <2>1 DEF HasSeeds, SeededPosts
  <2> QED BY <2>3, <2>4 DEF HasRows, Authored
<1> QED BY <1>1, Invariance, PTL

(* As long as logs are written and nothing crashes, FAILED means that      *)
(* nothing was committed, SUCCESS and PARTIAL that the file was, once.     *)
THEOREM TheLogOfARestoreIsTrue == Spec => []RestoreLogIsTrue
<1>1. IInv => RestoreLogIsTrue
  BY DEF IInv, RestoreInOrder, InOrder, RestoreLogIsTrue
<1> QED BY <1>1, Invariance, PTL

-----------------------------------------------------------------------------
(* Retention.  What may be removed has enough good backups that are newer, *)
(* so that removing it takes nothing from what else may be removed.        *)

\* A set of backups is finite.
LEMMA SetsOfBackups ==
    ASSUME NEW S \in SUBSET Backups
    PROVE  IsFiniteSet(S) /\ Cardinality(S) \in Nat
<1>1. IsFiniteSet(Backups)
  BY JobsAssumption, FS_Interval DEF Backups
<1>2. IsFiniteSet(S)
  BY <1>1, FS_Subset
<1> QED BY <1>2, FS_CardinalityType

\* A set with a large enough part is large enough.
LEMMA Larger ==
    ASSUME NEW T \in SUBSET Backups, NEW S \in SUBSET T, Cardinality(S) >= MaxBackups
    PROVE  Cardinality(T) >= MaxBackups
<1>1. S \in SUBSET Backups
  OBVIOUS
<1>2. IsFiniteSet(T) /\ Cardinality(T) \in Nat /\ Cardinality(S) \in Nat
  BY <1>1, SetsOfBackups
<1>3. Cardinality(S) <= Cardinality(T)
  BY <1>2, FS_Subset
<1> QED BY <1>2, <1>3, LimitsAssumption

\* No good backup is lost: as many are newer than any other as before.
LEMMA NoneLost ==
    ASSUME GoodBackups \subseteq GoodBackups'
    PROVE  /\ \A c \in Backups : Dispensable(c) => Dispensable(c)'
           /\ Cardinality(GoodBackups) >= MaxBackups => Cardinality(GoodBackups') >= MaxBackups
<1>1. GoodBackups' \in SUBSET Backups
  BY DEF GoodBackups
<1>2. ASSUME NEW c \in Backups, Dispensable(c) PROVE Dispensable(c)'
  <2> DEFINE S == {d \in GoodBackups : d > c}
             T == {d \in GoodBackups' : d > c}
  <2>1. T \in SUBSET Backups /\ S \in SUBSET T /\ Cardinality(S) >= MaxBackups
    BY <1>1, <1>2 DEF Dispensable
  <2> HIDE DEF S, T
  <2>2. Cardinality(T) >= MaxBackups
    BY <2>1, Larger
  <2> QED BY <2>2 DEF Dispensable, T
<1> QED BY <1>1, <1>2, Larger

\* One that may go is lost: there are still enough, and enough newer ones.
LEMMA OneLost ==
    ASSUME NEW x \in Backups, Dispensable(x), GoodBackups \ {x} \subseteq GoodBackups'
    PROVE  /\ \A c \in Backups : Dispensable(c) => Dispensable(c)'
           /\ Cardinality(GoodBackups') >= MaxBackups
<1>1. GoodBackups' \in SUBSET Backups /\ GoodBackups \in SUBSET Backups /\ Backups \in SUBSET Int
  BY DEF GoodBackups, Backups
<1> DEFINE N == {d \in GoodBackups : d > x}
<1>2. Cardinality(N) >= MaxBackups /\ N \in SUBSET GoodBackups' /\ \A d \in N : d > x /\ d \in Backups
  <2>1. \A d \in N : d \in GoodBackups /\ d > x /\ d \in Backups
    BY <1>1
  <2>2. \A d \in N : d # x
    BY <1>1, <2>1
  <2> QED BY <2>1, <2>2 DEF Dispensable
<1>3. ASSUME NEW c \in Backups, Dispensable(c) PROVE Dispensable(c)'
  <2> DEFINE S == {d \in GoodBackups : d > c}
             T == {d \in GoodBackups' : d > c}
  <2>1. T \in SUBSET Backups /\ Cardinality(S) >= MaxBackups
    BY <1>1, <1>3 DEF Dispensable
  <2>2. c < x => N \in SUBSET T
    <3> HIDE DEF N
    <3>1. c < x => \A d \in N : d > c
      BY <1>1, <1>2
    <3>2. \A d \in N : d \in GoodBackups'
      BY <1>2
    <3> QED BY <3>1, <3>2
  <2>3. ~(c < x) => S \in SUBSET T
    BY <1>1
  <2> HIDE DEF S, T, N
  <2>4. Cardinality(T) >= MaxBackups
    BY <1>2, <2>1, <2>2, <2>3, Larger
  <2> QED BY <2>4 DEF Dispensable, T
<1> HIDE DEF N
<1> QED BY <1>1, <1>2, <1>3, Larger

\* The oldest backup of a list is one of it.
LEMMA OldestIsThere ==
    ASSUME NEW b, run[b].todo \in SUBSET Backups, run[b].todo # {}
    PROVE  OldestTodo(b) \in run[b].todo
<1>1. run[b].todo \in SUBSET Nat
  BY DEF Backups
<1>2. \E c \in run[b].todo : \A d \in run[b].todo : c <= d
  <2> DEFINE T == run[b].todo
  <2>1. PICK c \in T : \A d \in T : ~(<<d, c>> \in OpToRel(<, Nat))
    <3>1. IsWellFoundedOn(OpToRel(<, Nat), Nat)
      BY NatLessThanWellFounded
    <3> HIDE DEF T
    <3> QED BY <1>1, <3>1, WFMin DEF T
  <2>2. \A d \in T : ~(d < c)
    BY <1>1, <2>1 DEF OpToRel
  <2> QED BY <1>1, <2>2
<1> QED BY <1>2 DEF OldestTodo

\* At the start there are neither logs nor files.
LEMMA RetentionInit == Init => RetentionInv
<1> SUFFICES ASSUME Init PROVE RetentionInv
  OBVIOUS
<1>1. \A b \in Backups : /\ backup[b].status = "none" /\ backup[b].file = NoFile
                         /\ run[b].at = "none" /\ run[b].file = NoFile
  BY JobsAreApart DEF Init, NewRun
<1> QED BY <1>1 DEF RetentionInv, OwnFile, Retained, Unsaved, At

OwnFiles == \A b \in Backups : OwnFile(b, backup[b].file) /\ OwnFile(b, run[b].file)

\* A job writes the file it has uploaded itself into its own log.
LEMMA OwnFilesNext == ASSUME TypeOK, OwnFiles, [Next]_vars PROVE OwnFiles'
<1>t. /\ run \in [Jobs -> Runs] /\ Jobs = Backups \union Restores /\ Backups \cap Restores = {}
      /\ backup \in [Backups -> [status : {"none", "IN_PROGRESS", "SUCCESS", "FAILED", "removed"},
                                 file : File \union {NoFile}]]
  BY JobsAreApart DEF TypeOK, Runs
<1>k. ASSUME \A b \in Backups : /\ \/ backup'[b].file \in {backup[b].file, NoFile}
                                   \/ backup'[b].file = run[b].file
                                /\ \/ run'[b].file \in {run[b].file, NoFile}
                                   \/ run'[b].file = backup[b].file
                                   \/ run'[b].file = FileOf(b)
      PROVE  OwnFiles'
  <2>1. \A b \in Backups : OwnFile(b, FileOf(b))
    BY <1>t DEF OwnFile, FileOf, File, Runs
  <2>2. \A b \in Backups : OwnFile(b, NoFile)
    BY DEF OwnFile
  <2>3. ASSUME NEW b \in Backups PROVE OwnFile(b, backup'[b].file) /\ OwnFile(b, run'[b].file)
    BY <1>k, <2>1, <2>2 DEF OwnFiles
  <2> QED BY <2>3 DEF OwnFiles, OwnFile
\* Steps that leave the files of logs and jobs alone.
<1>u. ASSUME backup' = backup, \A b \in Backups : run'[b].file \in {run[b].file, NoFile}
      PROVE  OwnFiles'
  BY <1>u, <1>k
<1>g. ASSUME NEW j, NEW s, Goto(j, s) PROVE \A b \in Backups : run'[b].file = run[b].file
  BY <1>g, <1>t DEF Goto, Runs
<1>1. CASE (\E e \in Emails : CreateUser(e)) \/ Expire \/ UNCHANGED vars
  BY <1>1, <1>u DEF CreateUser, Expire, vars
<1>2. ASSUME NEW j, Enqueue(j) PROVE \A b \in Backups : run'[b].file = run[b].file
  BY <1>2, <1>g DEF Enqueue
<1>3. ASSUME NEW b \in Backups, TriggerBackup(b) PROVE OwnFiles'
  BY <1>3, <1>2, <1>k, <1>t DEF TriggerBackup
<1>4. ASSUME NEW r \in Restores, NEW q \in Requests, TriggerRestore(r, q) PROVE OwnFiles'
  BY <1>4, <1>2, <1>u DEF TriggerRestore
<1>5. ASSUME NEW j \in Jobs, LockBusy(j) \/ Finish(j) PROVE OwnFiles'
  BY <1>5, <1>g, <1>u DEF LockBusy, Finish
<1>6. ASSUME NEW j \in Jobs, Start(j) PROVE OwnFiles'
  BY <1>6, <1>u, <1>t DEF Start, NewRun, Runs
<1>7. ASSUME NEW b \in Backups, BackupStep(b) PROVE OwnFiles'
  <2>1. CASE LoadBackup(b)
    BY <2>1, <1>k, <1>t DEF LoadBackup, Runs
  <2>2. CASE DumpUsers(b) \/ DumpPosts(b)
    <3>1. b \in Jobs /\ run[b] \in Runs
      BY <1>t
    <3>2. run'[b].file = run[b].file /\ \A c \in Backups \ {b} : run'[c] = run[c]
      BY <2>2, <3>1, <1>t DEF DumpUsers, DumpPosts, Runs
    <3>3. \A c \in Backups : run'[c].file = run[c].file
      BY <3>2
    <3>4. backup' = backup
      BY <2>2 DEF DumpUsers, DumpPosts
    <3> QED BY <3>3, <3>4, <1>u
  <2>3. CASE Upload(b)
    <3>1. backup' = backup
      BY <2>3 DEF Upload
    <3>2. \A c \in Backups : run'[c].file \in {run[c].file, FileOf(b)} /\ (c # b => run'[c].file = run[c].file)
      <4>1. ASSUME NEW f, run' = [run EXCEPT ![b].at = "save", ![b].file = f], NEW c \in Backups
            PROVE  run'[c].file \in {run[c].file, f} /\ (c # b => run'[c].file = run[c].file)
        BY <4>1, <1>t DEF Runs
      <4>2. CASE Goto(b, "catch")
        BY <4>2, <1>g
      <4> QED BY <2>3, <4>1, <4>2 DEF Upload
    <3>3. \A c \in Backups : run'[c].file = run[c].file \/ run'[c].file = FileOf(c)
      BY <3>2
    <3> QED BY <3>1, <3>3, <1>k
  <2>4. CASE SaveSuccess(b) \/ CatchBackup(b)
    BY <2>4, <1>k, <1>g, <1>t DEF SaveSuccess, CatchBackup
  <2>5. CASE Retain(b)
    BY <2>5, <1>u, <1>g, <1>t DEF Retain, Runs
  <2>s. Skip(b) => \A c \in Backups : run'[c].file = run[c].file
    BY <1>t DEF Skip, Runs
  <2>6. CASE RemoveFile(b)
    BY <2>6, <2>s, <1>g, <1>u DEF RemoveFile
  <2>7. CASE RemoveRow(b)
    BY <2>7, <2>s, <1>k, <1>t DEF RemoveRow
  <2> QED BY <1>7, <2>1, <2>2, <2>3, <2>4, <2>5, <2>6, <2>7 DEF BackupStep
<1>8. ASSUME NEW r \in Restores, RestoreStep(r) PROVE OwnFiles'
  <2>1. backup' = backup /\ \A b \in Backups : run'[b] = run[b]
    BY <1>8, <1>t, StepsOfOne DEF RestoreStep, LoadRestore, Download, Apply, Committed, SaveRestored, CatchRestore
  <2> QED BY <2>1, <1>u
<1>9. CASE Crash
  BY <1>9, <1>u, <1>t DEF Crash, NewRun
<1> QED BY <1>1, <1>3, <1>4, <1>5, <1>6, <1>7, <1>8, <1>9 DEF Next, Work

\* A step takes at most one good backup away, and one that retention may remove.
LEMMA GoodStep ==
    ASSUME TypeOK, OwnFiles, Retained, [Next]_vars
    PROVE  \/ GoodBackups \subseteq GoodBackups'
           \/ \E x \in Backups : /\ Dispensable(x) /\ GoodBackups \ {x} \subseteq GoodBackups'
                                 /\ \E b \in Backups : x \in run[b].todo /\ run[b].at \in {"file", "row"}
<1> DEFINE Goal == GoodBackups \subseteq GoodBackups'
           Lost(x) == GoodBackups \ {x} \subseteq GoodBackups'
<1>t. /\ Jobs = Backups \union Restores /\ Backups \cap Restores = {}
      /\ backup \in [Backups -> [status : {"none", "IN_PROGRESS", "SUCCESS", "FAILED", "removed"},
                                 file : File \union {NoFile}]]
      /\ drive \subseteq File
  BY JobsAreApart DEF TypeOK
<1>u. backup' = backup /\ drive \subseteq drive' => Goal
  BY DEF GoodBackups, Good
<1>1. ASSUME NEW b \in Backups, ~Good(b), \A c \in Backups \ {b} : backup'[c] = backup[c], drive' = drive
      PROVE  Goal
  BY <1>1 DEF GoodBackups, Good
<1>2. ASSUME NEW b \in Backups, TriggerBackup(b) PROVE Goal
  <2>1. ~Good(b)
    BY <1>2 DEF TriggerBackup, Good
  <2> QED BY <1>1, <1>2, <1>t, <2>1 DEF TriggerBackup
<1>3. ASSUME NEW b \in Backups, SaveSuccess(b) \/ CatchBackup(b) PROVE Goal
  <2>1. ~Good(b)
    BY <1>3 DEF SaveSuccess, CatchBackup, Good, Retained, At, Unsaved
  <2> QED BY <1>1, <1>3, <1>t, <2>1 DEF SaveSuccess, CatchBackup
<1>4. ASSUME NEW b \in Backups, run[b].at \in {"file", "row"}
      PROVE  /\ OldestTodo(b) \in run[b].todo /\ OldestTodo(b) \in Backups
             /\ Dispensable(OldestTodo(b))
  <2>1. run[b].todo \in SUBSET Backups /\ run[b].todo # {}
    BY <1>4, <1>t DEF Retained, TypeOK
  <2>2. OldestTodo(b) \in run[b].todo
    BY <2>1, OldestIsThere
  <2> QED BY <1>4, <2>1, <2>2 DEF Retained
<1>5. ASSUME NEW b \in Backups, RemoveFile(b) PROVE Goal \/ Lost(OldestTodo(b))
  <2> DEFINE x == OldestTodo(b)
  <2>1. x \in Backups
    BY <1>4, <1>5 DEF RemoveFile, At
  <2>2. backup' = backup /\ (drive' = drive \/ drive' = drive \ {backup[x].file})
    BY <1>5 DEF RemoveFile
  <2>3. \A c \in Backups \ {x} : backup[c].file \in drive => backup[c].file # backup[x].file
    BY <1>t, <2>1, NoFileAssumption DEF OwnFiles, OwnFile
  <2> HIDE DEF x
  <2>4. CASE drive' = drive
    BY <2>2, <2>4, <1>u
  <2>5. CASE drive' = drive \ {backup[x].file}
    <3>1. ASSUME NEW c \in GoodBackups, c # x PROVE c \in GoodBackups'
      <4>1. c \in Backups \ {x} /\ backup[c].status = "SUCCESS" /\ backup[c].file \in drive
        BY <3>1 DEF GoodBackups, Good
      <4>2. backup[c].file \in drive'
        BY <2>3, <2>5, <4>1
      <4> QED BY <2>2, <4>1, <4>2 DEF GoodBackups, Good
    <3> QED BY <3>1 DEF x
  <2> QED BY <2>2, <2>4, <2>5 DEF x
<1>6. ASSUME NEW b \in Backups, RemoveRow(b) PROVE Lost(OldestTodo(b))
  <2> DEFINE x == OldestTodo(b)
  <2>1. x \in Backups
    BY <1>4, <1>6 DEF RemoveRow, At
  <2>2. drive' = drive /\ \A c \in Backups \ {x} : backup'[c] = backup[c]
    BY <1>6, <1>t, <2>1 DEF RemoveRow
  <2> HIDE DEF x
  <2>3. Lost(x)
    BY <2>2 DEF GoodBackups, Good
  <2> QED BY <2>3 DEF x
<1>7. ASSUME NEW b \in Backups, BackupStep(b)
      PROVE  Goal \/ (Lost(OldestTodo(b)) /\ run[b].at \in {"file", "row"})
  <2>1. CASE LoadBackup(b) \/ DumpUsers(b) \/ DumpPosts(b) \/ Upload(b) \/ Retain(b)
    <3>1. backup' = backup /\ drive \subseteq drive'
      BY <2>1 DEF LoadBackup, DumpUsers, DumpPosts, Upload, Retain
    <3> QED BY <1>u, <3>1
  <2>2. RemoveFile(b) => run[b].at = "file"
    BY DEF RemoveFile, At
  <2>3. RemoveRow(b) => run[b].at = "row"
    BY DEF RemoveRow, At
  <2> HIDE DEF Goal, Lost
  <2> QED BY <1>3, <1>5, <1>6, <1>7, <2>1, <2>2, <2>3 DEF BackupStep
<1>8. ASSUME \/ \E e \in Emails : CreateUser(e)
             \/ \E r \in Restores, q \in Requests : TriggerRestore(r, q)
             \/ \E j \in Jobs : LockBusy(j) \/ Start(j) \/ Finish(j)
             \/ \E r \in Restores : RestoreStep(r)
             \/ Expire \/ Crash \/ UNCHANGED vars
      PROVE  Goal
  <2>1. backup' = backup /\ drive' = drive
    BY <1>8 DEF CreateUser, TriggerRestore, LockBusy, Start, Finish, RestoreStep, LoadRestore, Download,
                Apply, Committed, SaveRestored, CatchRestore, Expire, Crash, vars
  <2> QED BY <1>u, <2>1
<1>9. Goal \/ \E b \in Backups : Lost(OldestTodo(b)) /\ run[b].at \in {"file", "row"}
  <2> HIDE DEF Goal, Lost
  <2> QED BY <1>2, <1>7, <1>8 DEF Next, Work
<1> QED BY <1>4, <1>9

\* What GoodStep says, in terms of what is kept.
LEMMA GoodEnough ==
    ASSUME TypeOK, OwnFiles, Retained, [Next]_vars
    PROVE  /\ \A c \in Backups : Dispensable(c) => Dispensable(c)'
           /\ \A c \in Backups : Good(c) => Good(c)' \/ Dispensable(c)'
           /\ Cardinality(GoodBackups) >= MaxBackups => Cardinality(GoodBackups') >= MaxBackups
<1>1. \A c \in Backups : Good(c) <=> c \in GoodBackups
  BY DEF GoodBackups
<1>2. \A c \in Backups : Good(c)' <=> c \in GoodBackups'
  BY DEF GoodBackups
<1>3. CASE GoodBackups \subseteq GoodBackups'
  BY <1>1, <1>2, <1>3, NoneLost
<1>4. CASE \E x \in Backups : Dispensable(x) /\ GoodBackups \ {x} \subseteq GoodBackups'
  <2>1. PICK x \in Backups : Dispensable(x) /\ GoodBackups \ {x} \subseteq GoodBackups'
    BY <1>4
  <2>2. /\ \A c \in Backups : Dispensable(c) => Dispensable(c)'
        /\ Cardinality(GoodBackups') >= MaxBackups
    BY <2>1, OneLost
  <2> QED BY <1>1, <1>2, <2>1, <2>2
<1> QED BY <1>3, <1>4, GoodStep

\* What has enough newer successful backups has enough newer good ones: those
\* that lost their file have them.
LEMMA SurplusGoes ==
    ASSUME \A b \in Backups : backup[b].status = "SUCCESS" => Good(b) \/ Dispensable(b),
           NEW c \in Surplus(Successful)
    PROVE  Dispensable(c) /\ backup[c].status = "SUCCESS"
<1> DEFINE S == {d \in Successful : d > c}
           T == {d \in GoodBackups : d > c}
<1>1. /\ c \in Backups /\ backup[c].status = "SUCCESS" /\ Cardinality(S) >= MaxBackups
      /\ Successful \in SUBSET Backups /\ GoodBackups \in SUBSET Backups
      /\ Backups \in SUBSET Int
  BY DEF Surplus, Successful, GoodBackups, Backups
<1>2. T \in SUBSET Backups
  BY <1>1
<1>3. CASE S \in SUBSET T
  <2> HIDE DEF S, T
  <2>1. Cardinality(T) >= MaxBackups
    BY <1>1, <1>2, <1>3, Larger
  <2> QED BY <1>1, <2>1 DEF Dispensable, T
<1>4. CASE S \notin SUBSET T
  <2>1. PICK d \in S : d \notin T
    BY <1>4
  <2>2. d \in Backups /\ d > c /\ backup[d].status = "SUCCESS" /\ ~Good(d)
    BY <1>1, <2>1 DEF Successful, GoodBackups
  <2> DEFINE R == {e \in GoodBackups : e > d}
  <2>3. Cardinality(R) >= MaxBackups
    BY <2>2 DEF Dispensable
  <2>4. R \in SUBSET T
    <3>1. c \in Int /\ d \in Int /\ d > c /\ \A e \in R : e \in GoodBackups /\ e \in Int /\ e > d
      BY <1>1, <2>2
    <3>2. \A e \in R : e > c
      BY <3>1
    <3> QED BY <3>1, <3>2
  <2> HIDE DEF R, S, T
  <2>5. Cardinality(T) >= MaxBackups
    BY <1>2, <2>3, <2>4, Larger
  <2> QED BY <1>1, <2>5 DEF Dispensable, T
<1> QED BY <1>3, <1>4

\* As long as no backup runs twice and lists are read, removals and failures
\* leave what is going to be removed dispensable.
LEMMA RetainedNext ==
    ASSUME TypeOK, TypeOK', OwnFiles, Retained, [Next]_vars, Never({"find", "crash"})'
    PROVE  Retained'
<1>t. /\ run \in [Jobs -> Runs] /\ Jobs = Backups \union Restores /\ Backups \cap Restores = {}
      /\ backup \in [Backups -> [status : {"none", "IN_PROGRESS", "SUCCESS", "FAILED", "removed"},
                                 file : File \union {NoFile}]]
      /\ drive \subseteq File /\ faults \in [Kinds -> Nat]
      /\ run' \in [Jobs -> Runs]
  BY JobsAreApart DEF TypeOK, Runs
<1>d. /\ \A c \in Backups : Dispensable(c) => Dispensable(c)'
      /\ \A c \in Backups : Good(c) => Good(c)' \/ Dispensable(c)'
  BY GoodEnough
<1>n. ~Spend("find") /\ ~Spend("crash")
  BY <1>t DEF Spend, Never, Kinds
<1> DEFINE Log(b) == /\ backup'[b].status = "none" => run'[b].at = "none"
                     /\ run'[b].at \in Unsaved => backup'[b].status = "IN_PROGRESS"
                     /\ run'[b].at = "save" => run'[b].file \in drive'
                     /\ run'[b].at \in {"file", "row"} =>
                          /\ run'[b].todo # {}
                          /\ \A c \in run'[b].todo :
                               Dispensable(c) /\ backup'[c].status \in {"SUCCESS", "removed"}
                     /\ backup'[b].status = "SUCCESS" => Good(b)' \/ Dispensable(b)'
<1>s. SUFFICES \A b \in Backups : Log(b)
  <2>1. ASSUME NEW b \in Backups, Log(b), run'[b].at \in {"file", "row"}, NEW c \in run'[b].todo
        PROVE  Dispensable(c)'
    BY <1>d, <1>t, <2>1 DEF Runs
  <2> QED BY <2>1 DEF Retained, At
<1>k. /\ \A b \in Backups : /\ backup[b].status = "none" => run[b].at = "none"
                            /\ run[b].at \in Unsaved => backup[b].status = "IN_PROGRESS"
                            /\ run[b].at = "save" => run[b].file \in drive
                            /\ run[b].at \in {"file", "row"} =>
                                 /\ run[b].todo # {}
                                 /\ \A c \in run[b].todo :
                                      Dispensable(c) /\ backup[c].status \in {"SUCCESS", "removed"}
                            /\ backup[b].status = "SUCCESS" => Good(b) \/ Dispensable(b)
  BY DEF Retained, At
\* A backup whose log and job stay as they are.
<1>o. ASSUME NEW b \in Backups, run'[b] = run[b], backup'[b] = backup[b],
             run[b].at = "save" => run[b].file \in drive',
             \A c \in Backups : backup[c].status \in {"SUCCESS", "removed"}
                                  => backup'[c].status \in {"SUCCESS", "removed"}
      PROVE  Log(b)
  <2>1. run[b].todo \in SUBSET Backups
    BY <1>t DEF Runs
  <2> QED BY <1>o, <1>k, <1>d, <2>1
<1>u. ASSUME UNCHANGED <<backup, drive, run>> PROVE \A b \in Backups : Log(b)
  BY <1>u, <1>o, <1>k
\* A job moves on, and neither logs nor files change.
<1>j. ASSUME UNCHANGED <<backup, drive>>, NEW j \in Jobs, \A i \in Jobs \ {j} : run'[i] = run[i],
             j \in Backups => /\ backup[j].status # "none"
                              /\ run'[j].at \in Unsaved => run[j].at \in Unsaved /\ run'[j].at # "save"
                              /\ run'[j].at \notin {"file", "row"}
      PROVE  \A b \in Backups : Log(b)
  <2>1. ASSUME NEW b \in Backups, b # j PROVE Log(b)
    BY <1>j, <1>o, <1>k, <1>t, <2>1
  <2>2. ASSUME j \in Backups PROVE Log(j)
    <3>1. backup'[j] = backup[j] /\ (Good(j)' <=> Good(j))
      BY <1>j DEF Good
    <3>2. backup[j].status = "SUCCESS" => Good(j)' \/ Dispensable(j)'
      BY <1>d, <1>k, <2>2, <3>1
    <3>3. run'[j].at \in Unsaved => backup[j].status = "IN_PROGRESS"
      BY <1>j, <1>k, <2>2
    <3>4. run'[j].at # "save"
      BY <1>j, <2>2 DEF Unsaved
    <3> QED BY <1>j, <2>2, <3>1, <3>2, <3>3, <3>4
  <2> QED BY <2>1, <2>2
<1>g. ASSUME NEW j \in Jobs, NEW s, Goto(j, s)
      PROVE  /\ \A i \in Jobs \ {j} : run'[i] = run[i]
             /\ run'[j].at = s
  BY <1>g, <1>t DEF Goto, Runs
<1> HIDE DEF Log
<1>1. CASE (\E e \in Emails : CreateUser(e)) \/ Expire \/ UNCHANGED vars
  BY <1>1, <1>u DEF CreateUser, Expire, vars
<1>2. ASSUME NEW b \in Backups, TriggerBackup(b) PROVE \A c \in Backups : Log(c)
  <2>1. /\ drive' = drive /\ backup'[b].status = "IN_PROGRESS" /\ run[b].at = "none"
        /\ \A c \in Backups \ {b} : backup'[c] = backup[c]
    BY <1>2, <1>k, <1>t DEF TriggerBackup
  <2>2. run'[b].at \in {"none", "waiting"} /\ \A i \in Jobs \ {b} : run'[i] = run[i]
    <3>1. CASE Goto(b, "waiting")
      BY <3>1, <1>g, <1>t DEF Stages
    <3>2. CASE UNCHANGED run
      BY <2>1, <3>2
    <3> QED BY <1>2, <3>1, <3>2 DEF TriggerBackup, Enqueue
  <2>3. ASSUME NEW c \in Backups, c # b PROVE Log(c)
    <3>1. backup[b].status = "none"
      BY <1>2 DEF TriggerBackup
    <3> QED BY <2>1, <2>2, <2>3, <3>1, <1>k, <1>o, <1>t
  <2>4. Log(b)
    BY <2>1, <2>2 DEF Log
  <2> QED BY <2>3, <2>4
<1>3. ASSUME NEW r \in Restores, NEW q \in Requests, TriggerRestore(r, q) PROVE \A c \in Backups : Log(c)
  <2>1. CASE Goto(r, "waiting")
    BY <1>3, <2>1, <1>g, <1>j, <1>t DEF TriggerRestore
  <2>2. CASE UNCHANGED run
    BY <1>3, <2>2, <1>u DEF TriggerRestore
  <2> QED BY <1>3, <2>1, <2>2 DEF TriggerRestore, Enqueue
\* Where a job is not waiting for its first step, its log is there.
<1>l. \A b \in Backups : run[b].at # "none" => backup[b].status # "none"
  BY <1>k
<1>4. ASSUME NEW j \in Jobs, LockBusy(j) \/ Finish(j) PROVE \A c \in Backups : Log(c)
  <2>1. /\ UNCHANGED <<backup, drive>> /\ run[j].at # "none"
        /\ \A i \in Jobs \ {j} : run'[i] = run[i]
        /\ run'[j].at \in {"refused", "ended"}
    BY <1>4, <1>g DEF LockBusy, Finish, At, Stages
  <2> QED BY <2>1, <1>j, <1>l DEF Unsaved
<1>5. ASSUME NEW j \in Jobs, Start(j) PROVE \A c \in Backups : Log(c)
  <2>1. /\ UNCHANGED <<backup, drive>> /\ run[j].at = "waiting"
        /\ \A i \in Jobs \ {j} : run'[i] = run[i]
        /\ run'[j].at = "load"
    BY <1>5, <1>t DEF Start, At, NewRun
  <2> QED BY <2>1, <1>j, <1>l DEF Unsaved
<1>6. ASSUME NEW r \in Restores, RestoreStep(r) PROVE \A c \in Backups : Log(c)
  <2>1. /\ UNCHANGED <<backup, drive>> /\ r \in Jobs /\ r \notin Backups
        /\ \A i \in Jobs \ {r} : run'[i] = run[i]
    BY <1>6, <1>t, StepsOfOne DEF RestoreStep, LoadRestore, Download, Apply, Committed, SaveRestored, CatchRestore
  <2> QED BY <2>1, <1>j
<1>7. ASSUME NEW b \in Backups, BackupStep(b) PROVE \A c \in Backups : Log(c)
  <2>0. b \in Jobs /\ run[b] \in Runs /\ \A i \in Jobs \ {b} : run'[i] = run[i]
    BY <1>7, <1>t, StepsOfOne
  <2>1. CASE LoadBackup(b) \/ DumpUsers(b) \/ DumpPosts(b)
    <3>1. /\ UNCHANGED <<backup, drive>>
          /\ run[b].at \in {"load", "users", "posts"}
      BY <2>1 DEF LoadBackup, DumpUsers, DumpPosts, At
    <3>2. run'[b].at \in {"finish", "users", "posts", "upload"}
      BY <2>0, <2>1, <1>t DEF LoadBackup, DumpUsers, DumpPosts, Runs
    <3> QED BY <2>0, <3>1, <3>2, <1>j, <1>l DEF Unsaved
  <2>2. CASE Upload(b)
    <3>1. backup' = backup /\ drive \subseteq drive' /\ run[b].at = "upload"
      BY <2>2 DEF Upload, At
    <3>2. \/ run'[b].at = "save" /\ run'[b].file \in drive'
          \/ run'[b].at = "catch"
      <4>1. ASSUME NEW f, run' = [run EXCEPT ![b].at = "save", ![b].file = f]
            PROVE  run'[b].at = "save" /\ run'[b].file = f
        BY <2>0, <4>1, <1>t DEF Runs
      <4>2. Goto(b, "catch") => run'[b].at = "catch"
        BY <2>0, <1>g DEF Stages
      <4> QED BY <2>2, <4>1, <4>2 DEF Upload
    <3>3. Log(b)
      BY <3>1, <3>2, <1>d, <1>k DEF Log, Unsaved
    <3>4. \A c \in Backups \ {b} : Log(c)
      BY <2>0, <3>1, <1>k, <1>o, <1>t
    <3> QED BY <3>3, <3>4
  <2>3. CASE SaveSuccess(b)
    <3>1. /\ drive' = drive /\ run[b].at = "save" /\ backup[b].status = "IN_PROGRESS" /\ run[b].file \in drive
      BY <2>3, <1>k DEF SaveSuccess, At, Unsaved
    <3>2. \/ /\ backup' = [backup EXCEPT ![b] = [status |-> "SUCCESS", file |-> run[b].file]]
             /\ run'[b].at = "retain"
          \/ backup' = backup /\ run'[b].at = "catch"
      BY <2>0, <2>3, <1>g DEF SaveSuccess, Stages
    <3>3. \A c \in Backups \ {b} : backup'[c] = backup[c]
      BY <3>2, <1>t
    <3>4. Log(b)
      <4>1. CASE run'[b].at = "retain"
        <5>1. backup'[b].status = "SUCCESS" /\ backup'[b].file \in drive'
          BY <3>1, <3>2, <4>1, <1>t
        <5> QED BY <4>1, <5>1 DEF Log, Good, Unsaved
      <4>2. CASE run'[b].at = "catch"
        BY <3>1, <3>2, <4>2 DEF Log, Unsaved
      <4> QED BY <3>2, <4>1, <4>2
    <3>5. \A c \in Backups \ {b} : Log(c)
      BY <2>0, <3>1, <3>2, <3>3, <1>k, <1>o, <1>t
    <3> QED BY <3>4, <3>5
  <2>4. CASE CatchBackup(b)
    <3>1. /\ drive' = drive /\ run[b].at = "catch" /\ backup[b].status = "IN_PROGRESS"
      BY <2>4, <1>k DEF CatchBackup, At, Unsaved
    <3>2. /\ run'[b].at = "finish" /\ backup'[b].status \in {"FAILED", "IN_PROGRESS"}
          /\ \A c \in Backups \ {b} : backup'[c] = backup[c]
      BY <2>0, <2>4, <3>1, <1>g, <1>t DEF CatchBackup, Stages
    <3>3. Log(b)
      BY <3>2 DEF Log, Unsaved
    <3>4. \A c \in Backups \ {b} : Log(c)
      BY <2>0, <3>1, <3>2, <1>k, <1>o, <1>t
    <3> QED BY <3>3, <3>4
  <2>5. CASE Retain(b)
    <3> DEFINE list == Successful
    <3>1. UNCHANGED <<backup, drive>> /\ run[b].at = "retain"
      BY <2>5, <1>n DEF Retain, At
    <3>2. /\ run'[b].at \in {"file", "finish"}
          /\ run'[b].at = "file" => run'[b].todo = Surplus(list) /\ Surplus(list) # {}
      BY <2>0, <2>5, <1>n, <1>t DEF Retain, Runs
    <3>3. ASSUME NEW c \in Surplus(list) PROVE Dispensable(c) /\ backup[c].status = "SUCCESS"
      BY <1>k, SurplusGoes
    <3>4. Log(b)
      BY <3>1, <3>2, <3>3, <1>k, <1>d DEF Log, Unsaved
    <3>5. \A c \in Backups \ {b} : Log(c)
      BY <2>0, <3>1, <1>k, <1>o, <1>t
    <3> QED BY <3>4, <3>5
  \* The oldest of the list is one of it, and the rest is left for later.
  <2>x. ASSUME run[b].at \in {"file", "row"}
        PROVE  /\ run[b].todo \in SUBSET Backups /\ run[b].todo # {}
               /\ OldestTodo(b) \in run[b].todo
    <3>1. run[b].todo \in SUBSET Backups /\ run[b].todo # {}
      BY <2>0, <2>x, <1>k DEF Runs
    <3> QED BY <3>1, OldestIsThere
  <2>y. ASSUME Skip(b)
        PROVE  \/ run'[b].at = "finish"
               \/ run'[b].at = "file" /\ run'[b].todo # {} /\ run'[b].todo \subseteq run[b].todo
    <3> DEFINE rest == run[b].todo \ {OldestTodo(b)}
               next == IF rest = {} THEN "finish" ELSE "file"
    <3>1. run' = [run EXCEPT ![b].todo = rest, ![b].at = next]
      BY <2>y DEF Skip
    <3>2. /\ rest \subseteq run[b].todo
          /\ rest = {} => next = "finish"
          /\ rest # {} => next = "file"
      <4> DEFINE somebody == rest = {}
      <4>1. somebody => next = "finish"
        BY Zenon
      <4>2. ~somebody => next = "file"
        BY Zenon
      <4> QED BY <4>1, <4>2
    <3> HIDE DEF rest, next
    <3>3. run'[b].at = next /\ run'[b].todo = rest
      BY <2>0, <3>1, <1>t DEF Runs
    <3> QED BY <3>2, <3>3
  <2>6. CASE RemoveFile(b)
    <3>1. backup' = backup /\ run[b].at = "file" /\ drive' \subseteq drive
      BY <2>6 DEF RemoveFile, At
    <3>2. run'[b].at \in {"finish", "file", "row"}
          /\ (run'[b].at # "finish" => run'[b].todo # {} /\ run'[b].todo \subseteq run[b].todo)
      <4>1. CASE Goto(b, "row")
        <5>1. run'[b].at = "row" /\ run'[b].todo = run[b].todo
          BY <2>0, <4>1, <1>t DEF Goto, Runs
        <5> QED BY <3>1, <5>1, <2>x
      <4> QED BY <2>6, <2>y, <4>1 DEF RemoveFile
    <3>3. Log(b)
      <4>1. backup[b].status = "SUCCESS" => Good(b)' \/ Dispensable(b)'
        BY <1>d, <1>k
      <4>2. run'[b].at \notin Unsaved
        BY <3>2 DEF Unsaved
      <4> QED BY <3>1, <3>2, <4>1, <4>2, <1>k, <1>l DEF Log, Unsaved
    <3>4. ASSUME NEW c \in Backups \ {b}, run[c].at = "save" PROVE run[c].file \in drive'
      <4> DEFINE x == OldestTodo(b)
      <4>1. x \in Backups /\ backup[x].status \in {"SUCCESS", "removed"}
        BY <3>1, <2>x, <1>k
      <4>2. backup[c].status = "IN_PROGRESS" /\ run[c].file \in drive
        BY <3>4, <1>k DEF Unsaved
      <4>3. run[c].file # NoFile /\ run[c].file.of = c
        BY <4>2, <1>t, NoFileAssumption DEF OwnFiles, OwnFile
      <4>4. backup[x].file = NoFile \/ backup[x].file.of = x
        BY <4>1 DEF OwnFiles, OwnFile
      <4>5. run[c].file # backup[x].file
        BY <4>1, <4>2, <4>3, <4>4
      <4>6. drive' = drive \/ drive' = drive \ {backup[x].file}
        BY <2>6 DEF RemoveFile
      <4> QED BY <4>2, <4>5, <4>6
    <3>5. \A c \in Backups \ {b} : Log(c)
      BY <2>0, <3>1, <3>4, <1>o, <1>t
    <3> QED BY <3>3, <3>5
  <2>7. CASE RemoveRow(b)
    <3> DEFINE x == OldestTodo(b)
    <3>1. drive' = drive /\ run[b].at = "row" /\ Skip(b)
          /\ (backup' = backup \/ backup' = [backup EXCEPT ![x] = [status |-> "removed", file |-> NoFile]])
      BY <2>7 DEF RemoveRow, At
    <3>2. x \in Backups /\ backup[x].status \in {"SUCCESS", "removed"} /\ x \in run[b].todo
      BY <3>1, <2>x, <1>k
    <3> HIDE DEF x
    <3>3. /\ \A c \in Backups \ {x} : backup'[c] = backup[c]
          /\ backup'[x] = backup[x] \/ backup'[x].status = "removed"
      BY <3>1, <3>2, <1>t
    <3>4. \A c \in Backups : backup[c].status \in {"SUCCESS", "removed"}
                               => backup'[c].status \in {"SUCCESS", "removed"}
      BY <3>3
    <3>5. ASSUME NEW c \in Backups \ {b} PROVE Log(c)
      <4>1. CASE backup'[c] = backup[c]
        BY <2>0, <3>1, <3>4, <4>1, <1>k, <1>o, <1>t
      <4>2. CASE backup'[c] # backup[c]
        <5>1. c = x /\ backup'[c].status = "removed" /\ run'[c] = run[c]
          BY <2>0, <3>3, <4>2, <1>t
        <5>2. run[c].at \notin Unsaved
          BY <3>2, <5>1, <1>k
        <5>3. run[c].at # "save"
          BY <5>2 DEF Unsaved
        <5> QED BY <3>4, <5>1, <5>2, <5>3, <1>k, <2>x, <1>t DEF Log, Runs
      <4> QED BY <4>1, <4>2
    <3>6. Log(b)
      <4>1. /\ run'[b].at \in {"finish", "file"}
            /\ run'[b].at = "file" => run'[b].todo # {} /\ run'[b].todo \subseteq run[b].todo
        BY <3>1, <2>y
      <4>2. backup'[b].status # "none"
        BY <3>1, <3>3, <1>l
      <4>3. backup'[b].status = "SUCCESS" => Good(b)' \/ Dispensable(b)'
        <5>1. backup'[b].status = "SUCCESS" => backup[b].status = "SUCCESS"
          BY <3>3
        <5> QED BY <5>1, <1>d, <1>k
      <4>4. \A c \in run[b].todo : c \in Backups /\ Dispensable(c) /\ backup'[c].status \in {"SUCCESS", "removed"}
        BY <3>1, <3>4, <2>x, <1>k
      <4> QED BY <4>1, <4>2, <4>3, <4>4 DEF Log, Unsaved
    <3> QED BY <3>5, <3>6
  <2> QED BY <1>7, <2>1, <2>2, <2>3, <2>4, <2>5, <2>6, <2>7 DEF BackupStep
<1>8. ~Crash
  BY <1>n DEF Crash
<1> QED BY <1>1, <1>2, <1>3, <1>4, <1>5, <1>6, <1>7, <1>8 DEF Next, Work

\* Every step keeps what retention relies on.
LEMMA RetentionNext == TypeOK /\ TypeOK' /\ RetentionInv /\ [Next]_vars => RetentionInv'
<1> SUFFICES ASSUME TypeOK, TypeOK', RetentionInv, [Next]_vars PROVE RetentionInv'
  OBVIOUS
<1>1. OwnFiles /\ OwnFiles'
  BY OwnFilesNext DEF RetentionInv, OwnFiles
<1>2. ASSUME Never({"find", "crash"})' PROVE Retained'
  <2>1. Never({"find", "crash"})
    <3>1. {"find", "crash"} \in SUBSET Kinds
      BY DEF Kinds
    <3>2. UNCHANGED vars => Never({"find", "crash"})
      BY <1>2 DEF Never, vars
    <3> QED BY <1>2, <3>1, <3>2, NeverBefore
  <2>2. Retained
    BY <2>1 DEF RetentionInv
  <2> QED BY <1>1, <1>2, <2>2, RetainedNext
<1> QED BY <1>1, <1>2 DEF RetentionInv, OwnFiles

\* So it is in every behaviour.
LEMMA Retention == Spec => []RetentionInv
<1>1. IInv => TypeOK
  BY DEF IInv
<1> QED BY <1>1, Invariance, RetentionInit, RetentionNext, PTL DEF Spec

(* Once as many good backups as are to be kept are there, no step of       *)
(* retention, of a failing backup or of a restore leaves fewer, however    *)
(* many removals of files and rows fail, as long as no backup runs twice   *)
(* and the list of backups is read.                                        *)
THEOREM KeepsEnough == Spec => KeepsBackups
<1>1. ASSUME TypeOK, RetentionInv, [Next]_vars, Never({"find", "crash"}),
             Cardinality(GoodBackups) >= MaxBackups
      PROVE  Cardinality(GoodBackups') >= MaxBackups
  BY <1>1, GoodEnough DEF RetentionInv, OwnFiles
<1>2. TypeOK /\ RetentionInv /\ [Next]_vars
        => [Never({"find", "crash"}) /\ Cardinality(GoodBackups) >= MaxBackups
            => Cardinality(GoodBackups') >= MaxBackups]_vars
  BY <1>1
<1>3. IInv => TypeOK
  BY DEF IInv
<1> QED BY <1>2, <1>3, Invariance, Retention, PTL DEF Spec, KeepsBackups
=============================================================================
