------------------------- MODULE BackupContentProofs -------------------------
(***************************************************************************)
(* The life of a backup's metadata and the data behind it: proofs that a   *)
(* backup goes through its states in order, that its links lead to stored  *)
(* data and that it can be restored once it is CREATED, for hosts that     *)
(* purge only what they back up themselves and backup commands that are    *)
(* given names of their own.                                               *)
(***************************************************************************)
EXTENDS BackupRepositoryProofs, FiniteSetTheorems

-----------------------------------------------------------------------------
(* Where a command is in the life of its backup.                            *)

FullKey(b) == [kind |-> "full", backup |-> b, part |-> NoPart]

OwnOnly(m) == \A e \in m.parts : e.link = NoBackup

\* The objects of a backup marked DELETING go: all of them, or the data of the
\* parts no retained backup links to.
Erasing(p) ==
    /\ full[target[p]] # NoMeta => full[target[p]].state = "deleting"
    /\ Spared(p) = {} => (full[target[p]] # NoMeta => FullKey(target[p]) \in pending[p])
    /\ Spared(p) # {} => /\ full[target[p]] # NoMeta
                         /\ OwnOnly(meta[p])
                         /\ \A k \in pending[p] : k.kind = "data"

Stage(p) ==
    /\ pc[p] \in BackupTry \cup {"b_lock", "b_putFull", "b_putLight"} => meta[p].state = "creating"
    /\ pc[p] \in BackupTry \cup {"b_putLight", "b_finalFull"} =>
          full[target[p]] # NoMeta /\ full[target[p]].state = "creating"
    /\ pc[p] \in BackupTry \cup {"b_finalFull", "b_finalLight"} => light[target[p]] # NoMeta
    /\ pc[p] = "b_finalFull" => meta[p].state \in {"created", "failed"}
    /\ pc[p] = "x_markFull" =>
          full[target[p]] # NoMeta /\ meta[p] = [full[target[p]] EXCEPT !.state = "deleting"]
    /\ pc[p] \in {"x_markLight", "x_erase"} => full[target[p]] = meta[p] /\ meta[p].state = "deleting"
    /\ pc[p] \in {"x_markFull", "x_markLight", "x_erase"} => light[target[p]] # NoMeta
    /\ pc[p] = "x_wait" => Erasing(p)
    /\ pc[p] = "x_partFull" => /\ full[target[p]] # NoMeta /\ full[target[p]].state = "deleting"
                               /\ meta[p].state = "partially_deleted"
                               /\ OwnOnly(meta[p])
    /\ pc[p] = "x_partLight" => full[target[p]] = meta[p] /\ OwnOnly(meta[p])
    /\ \A k \in pending[p] : k.backup = target[p]

\* The backups the batch of host p is about to delete, or is deleting.
Doomed(p, b) == b \in NamesOf(work[p]) \/ (pc[p] \in Deletes /\ target[p] = b)

\* What is left of the batch is listed and older than the backup being deleted, and
\* the links of the other listed backups into the batch are spared.
Batch(p) ==
    pc[p] \in Deletes \cup {"x_next"} =>
        /\ \A s \in work[p] : light[s.name] # NoMeta
        /\ \A s, t \in work[p] : s.name = t.name => s = t
        /\ pc[p] \in Deletes => \A s \in work[p] : s.name # target[p] /\ s.start <= meta[p].start
        /\ \A c \in Backups : Visible(c) /\ ~Doomed(p, c) =>
              \A e \in full[c].parts : e.link \in Backups /\ Doomed(p, e.link) =>
                 <<e.link, StoredName(e)>> \in refs[p]
        /\ \A b \in Backups : full[b] # NoMeta =>
              \A e \in full[b].parts : <<b, e.name>> \in refs[p] => e.link = NoBackup
        /\ \A k \in pending[p] : k.kind = "data" =>
              \A c \in Backups : Visible(c) =>
                 \A e \in full[c].parts : e.link = k.backup => StoredName(e) # k.part

\* A CREATED backup is listed.
CreatedListed == \A b \in Backups : full[b] # NoMeta /\ full[b].state = "created" => light[b] # NoMeta

LifeInv ==
    /\ AccountInv
    /\ \A p \in Hosts : Stage(p) /\ Batch(p)
    /\ CreatedListed

\* Of another host, a step that writes leaves alone all that its own life depends on.
LEMMA LifeBystander ==
    ASSUME LifeInv, NEW p \in Hosts, Progress(p) \/ StartCommand(p) \/ Fault(p), NEW q \in Hosts \ {p}
    PROVE  Stage(q)' /\ Batch(q)'
<1>1. TypeOK /\ TypeInv /\ LockInv /\ PendingInv /\ Stage(q) /\ Batch(q)
  BY DEF LifeInv, AccountInv, UnderLockInv, TypeInv
<1>2. UNCHANGED <<pc[q], target[q], meta[q], work[q], refs[q], pending[q]>>
  BY <1>1, StepOthers DEF Others
<1>3. CASE pc[q] \in Locked
  <2>1. pc[p] \notin Locked
    BY <1>1, <1>3 DEF LockInv
  <2>2. UNCHANGED <<full, light>>
    BY <1>1, <2>1, UnlockedWrites DEF PendingInv
  <2>3. Spared(q)' = Spared(q) /\ \A b : Doomed(q, b)' <=> Doomed(q, b)
    BY <1>2 DEF Spared, ReferencedIn, Doomed
  <2>4. Stage(q)'
    BY <1>1, <1>2, <2>2, <2>3 DEF Stage, Erasing
  <2>5. Batch(q)'
    BY <1>1, <1>2, <2>2, <2>3 DEF Batch, Visible
  <2> QED BY <2>4, <2>5
<1>4. CASE pc[q] \notin Locked
  <2>1. pc[q] \notin BackupTry \cup UploadFullAt \cup UploadLightAt \cup {"x_next", "x_erase", "x_wait"}
    BY <1>4 DEF Locked
  <2>2. pending[q] = {}
    BY <1>1, <2>1 DEF PendingInv
  <2>3. Stage(q)'
    BY <1>1, <1>2, <2>1, <2>2 DEF Stage, UploadFullAt, UploadLightAt
  <2>4. Batch(q)'
    BY <1>2, <2>1 DEF Batch, Deletes, UploadFullAt, UploadLightAt
  <2> QED BY <2>3, <2>4
<1> QED BY <1>3, <1>4

StageAt ==
    BackupTry \cup UploadFullAt \cup UploadLightAt
    \cup {"b_lock", "x_erase", "x_wait"}

LEMMA StageElsewhere ==
    ASSUME LifeInv, UnderLockInv', NEW p \in Hosts, pc'[p] \notin StageAt
    PROVE  Stage(p)'
<1>1. pending'[p] = {}
  BY DEF UnderLockInv, PendingInv, StageAt
<1>2. pc'[p] \notin BackupTry
        \cup {"b_lock", "b_putFull", "b_putLight", "b_finalFull", "b_finalLight", "x_markFull", "x_markLight",
              "x_erase", "x_wait", "x_partFull", "x_partLight"}
  BY DEF StageAt, UploadFullAt, UploadLightAt
<1> QED BY <1>1, <1>2 DEF Stage

\* The two uploads of upload_backup_metadata, wherever a command makes them.
LEMMA UploadStage ==
    ASSUME LifeInv, UnderLockInv', NEW p \in Hosts, AcquireLock(p) \/ UploadFull(p) \/ UploadLight(p)
    PROVE  Stage(p)'
<1> USE DEF Go, storage, locals, deletion, dedup, parts
<1>1. TypeOK /\ MetaKnown /\ PendingInv /\ Stage(p)
  BY DEF LifeInv, AccountInv, UnderLockInv, TypeInv
<1>2. PICK step \in Sequel : step[1] = pc[p] /\ Go(p, step[2])
  BY DEF AcquireLock, UploadFull, UploadLight, Advance
<1>3. pc'[p] = step[2] /\ UNCHANGED <<target, meta, pending>> /\ pending[p] = {}
  BY <1>1, <1>2 DEF AcquireLock, UploadFull, UploadLight, TypeOK, PendingInv, Waiting, UploadFullAt, UploadLightAt
<1>4. CASE AcquireLock(p)
  <2>1. /\ step[1] = "b_lock" => step[2] = "b_putFull"
        /\ step[1] \in Waiting \ {"b_lock"} => step[2] \in {"d_plan", "p_plan"}
    BY DEF Sequel, OtherSequel, Waiting
  <2>2. pc[p] \in Waiting
    BY <1>4 DEF AcquireLock
  <2>3. CASE pc[p] = "b_lock"
    BY <1>1, <1>2, <1>3, <2>1, <2>3 DEF Stage, BackupTry
  <2>4. CASE pc[p] # "b_lock"
    BY <1>2, <1>3, <2>1, <2>2, <2>4, StageElsewhere DEF StageAt, BackupTry, UploadFullAt, UploadLightAt
  <2> QED BY <2>3, <2>4
<1>5. CASE UploadFull(p)
  <2>1. /\ step[1] = "b_putFull" => step[2] = "b_putLight"
        /\ step[1] = "b_tableFull" => step[2] = "b_tableLight"
        /\ step[1] = "b_finalFull" => step[2] = "b_finalLight"
        /\ step[1] = "x_markFull" => step[2] = "x_markLight"
        /\ step[1] = "x_partFull" => step[2] = "x_partLight"
    BY DEF Sequel, OtherSequel
  <2>2. pc[p] \in UploadFullAt /\ meta[p] \in Meta /\ target[p] \in Backups
    BY <1>1, <1>5 DEF UploadFull, MetaKnown, HasMeta
  <2>3. full'[target[p]] = meta[p] /\ meta[p] # NoMeta /\ light' = light
    BY <1>1, <1>5, <2>2, NoMetaIsAbsent DEF UploadFull, TypeOK
  <2>4. meta[p].state = "deleting" \/ pc[p] # "x_markFull"
    BY <1>1, <2>2 DEF Stage, TypeOK, Meta
  <2> QED BY <1>1, <1>2, <1>3, <2>1, <2>2, <2>3, <2>4 DEF Stage, UploadFullAt, BackupTry
<1>6. CASE UploadLight(p)
  <2>1. /\ step[1] = "b_putLight" => step[2] = "b_collect"
        /\ step[1] = "b_tableLight" => step[2] = "b_done"
        /\ step[1] = "b_finalLight" => step[2] = "unlock"
        /\ step[1] = "x_markLight" => step[2] = "x_erase"
        /\ step[1] = "x_partLight" => step[2] = "x_next"
    BY DEF Sequel, OtherSequel
  <2>2. pc[p] \in UploadLightAt /\ meta[p] \in Meta /\ target[p] \in Backups
    BY <1>1, <1>6 DEF UploadLight, MetaKnown, HasMeta
  <2>3. light'[target[p]] # NoMeta /\ full' = full
    BY <1>1, <1>6, <2>2, LightOfType, NoLightIsAbsent DEF UploadLight, TypeOK
  <2> QED BY <1>1, <1>2, <1>3, <2>1, <2>2, <2>3 DEF Stage, UploadLightAt, BackupTry
<1> QED BY <1>4, <1>5, <1>6

LEMMA BackupStage ==
    ASSUME LifeInv, UnderLockInv', NEW p \in Hosts, BackupStep(p) \/ BackupFailed(p) \/ ListBackups(p)
    PROVE  Stage(p)'
<1> USE DEF Go, storage, locals, deletion, dedup, parts
<1>1. TypeOK /\ MetaKnown /\ PendingInv /\ Stage(p)
  BY DEF LifeInv, AccountInv, UnderLockInv, TypeInv
<1>2. CASE SkipBackup(p) \/ ListBackups(p)
  <2>1. pc'[p] \in {"idle", "b_start"}
    BY <1>1, <1>2 DEF SkipBackup, ListBackups, Forget, TypeOK
  <2> QED BY <2>1, StageElsewhere DEF StageAt, BackupTry, UploadFullAt, UploadLightAt
<1>3. CASE StartBackup(p)
  <2>1. pc'[p] = "b_lock" /\ meta'[p].state = "creating" /\ pending'[p] = {}
    BY <1>1, <1>3 DEF StartBackup, TypeOK, PendingInv
  <2> QED BY <2>1 DEF Stage, BackupTry
<1>4. ASSUME pc[p] \in BackupTry, pc'[p] \in BackupTry, UNCHANGED <<full, light, target[p], meta[p], pending[p]>>
      PROVE  Stage(p)'
  <2>1. pending[p] = {}
    BY <1>1, <1>4 DEF PendingInv, BackupTry
  <2> QED BY <1>1, <1>4, <2>1 DEF Stage, BackupTry
<1>5. CASE CollectDedupInfo(p) \/ PopulateDedupInfo(p) \/ FreezeTable(p) \/ ScheduleUpload(p) \/ TableDone(p)
  BY <1>1, <1>4, <1>5 DEF CollectDedupInfo, PopulateDedupInfo, FreezeTable, ScheduleUpload, TableDone, TypeOK,
                          BackupTry
<1>6. CASE PutPart(p)
  <2>1. UNCHANGED <<full, light, pc, target, meta, refs, pending>>
    BY <1>6 DEF PutPart
  <2> QED BY <1>1, <2>1 DEF Stage, Erasing, Spared, ReferencedIn
<1>7. CASE DeduplicatePart(p) \/ ObserveUpload(p)
  <2>1. pc[p] = "b_parts" /\ pc' = pc /\ pending'[p] = {} /\ UNCHANGED <<light, target>>
    BY <1>1, <1>7 DEF DeduplicatePart, ObserveUpload, PendingInv
  <2>2. meta[p] \in Meta /\ target[p] \in Backups
    BY <1>1, <2>1 DEF MetaKnown, HasMeta, BackupTry
  <2>3. PICK e \in Part : Joins(p, e)
    BY <1>7, JoinNews DEF LifeInv, AccountInv, UnderLockInv
  <2>4. meta'[p].state = meta[p].state /\ meta'[p] # NoMeta
    BY <2>2, <2>3, AddPartsType, NoMetaIsAbsent DEF Joins, Meta
  <2>5. full'[target[p]] \in {full[target[p]], meta'[p]}
    BY <1>1, <1>7, <2>2 DEF DeduplicatePart, ObserveUpload, TypeOK
  <2> QED BY <1>1, <2>1, <2>4, <2>5 DEF Stage, BackupTry
<1>8. CASE ReloadFails(p) \/ BackupCreated(p) \/ BackupFailed(p)
  <2>1. pc[p] \in BackupTry /\ pc'[p] = "b_finalFull" /\ UNCHANGED <<full, light, target>> /\ pending'[p] = {}
    BY <1>1, <1>8 DEF ReloadFails, BackupCreated, BackupFailed, TypeOK, PendingInv, BackupTry
  <2>2. meta[p] \in Meta
    BY <1>1, <2>1 DEF MetaKnown, HasMeta
  <2>3. meta'[p].state \in {"created", "failed"}
    BY <1>1, <1>8, <2>2 DEF ReloadFails, BackupCreated, BackupFailed, TypeOK, Meta
  <2> QED BY <1>1, <2>1, <2>3 DEF Stage, BackupTry
<1> QED BY <1>2, <1>3, <1>5, <1>6, <1>7, <1>8 DEF BackupStep

LEMMA DeleteStage ==
    ASSUME LifeInv, UnderLockInv', NEW p \in Hosts,
           DeleteStep(p) \/ StartDelete(p) \/ StartPurge(p) \/ DeletionFailed(p) \/ UnfreezeFailed(p)
    PROVE  Stage(p)'
<1> USE DEF Go, storage, locals, deletion, dedup, parts
<1>1. TypeOK /\ MetaKnown /\ PendingInv /\ Stage(p) /\ Batch(p)
  BY DEF LifeInv, AccountInv, UnderLockInv, TypeInv
<1>2. CASE pc'[p] \notin StageAt
  BY <1>2, StageElsewhere
<1>3. CASE DeleteNext(p)
  <2>1. PICK s \in work[p] : /\ full[s.name] # NoMeta /\ target'[p] = s.name
                             /\ meta'[p] = [full[s.name] EXCEPT !.state = "deleting"]
    BY <1>1, <1>3 DEF DeleteNext, TypeOK
  <2>2. pc[p] = "x_next" /\ pc'[p] = "x_markFull" /\ pending'[p] = {} /\ UNCHANGED <<full, light>>
    BY <1>1, <1>3 DEF DeleteNext, TypeOK, PendingInv
  <2>3. light[s.name] # NoMeta
    BY <1>1, <2>2 DEF Batch
  <2> QED BY <2>1, <2>2, <2>3 DEF Stage, BackupTry
<1>4. CASE DeleteBackup(p) \/ DeleteDataParts(p)
  <2>1. /\ pc[p] = "x_erase" /\ pc'[p] = "x_wait" /\ pending[p] = {}
        /\ UNCHANGED <<full, light, target, refs>>
    BY <1>1, <1>4 DEF DeleteBackup, DeleteDataParts, TypeOK, PendingInv
  <2>2. meta[p] \in Meta /\ target[p] \in Backups /\ full[target[p]] = meta[p] /\ meta[p].state = "deleting"
    BY <1>1, <2>1 DEF MetaKnown, HasMeta, Stage
  <2>3. meta[p] # NoMeta /\ Spared(p)' = Spared(p)
    BY <2>1, <2>2, NoMetaIsAbsent DEF Spared, ReferencedIn
  <2>4. CASE DeleteBackup(p)
    <3>1. Spared(p) = {} /\ pending'[p] = KeysOf(target[p])
      BY <1>1, <2>1, <2>4 DEF DeleteBackup, TypeOK
    <3>2. FullKey(target[p]) \in pending'[p] /\ \A k \in pending'[p] : k.backup = target[p]
      BY <2>2, <2>3, <3>1 DEF KeysOf, FullKey
    <3> QED BY <2>1, <2>2, <2>3, <3>1, <3>2 DEF Stage, Erasing, BackupTry
  <2>5. CASE DeleteDataParts(p)
    <3>1. Spared(p) # {} /\ meta'[p].parts = {e \in meta[p].parts : e.name \in Spared(p)}
      BY <1>1, <2>2, <2>5 DEF DeleteDataParts, TypeOK, Meta
    <3>2. \A k \in pending'[p] : k.kind = "data" /\ k.backup = target[p]
      BY <1>1, <2>1, <2>5 DEF DeleteDataParts, TypeOK
    <3>3. OwnOnly(meta'[p])
      BY <1>1, <2>1, <2>2, <2>3, <3>1 DEF Batch, Deletes, OwnOnly, Spared, ReferencedIn
    <3> QED BY <2>1, <2>2, <2>3, <3>1, <3>2, <3>3 DEF Stage, Erasing, BackupTry
  <2> QED BY <1>4, <2>4, <2>5
<1>5. CASE EraseKey(p)
  <2>1. PICK k \in pending[p] :
           /\ pending' = [pending EXCEPT ![p] = @ \ {k}]
           /\ full' = IF k.kind = "full" THEN [full EXCEPT ![k.backup] = NoMeta] ELSE full
           /\ UNCHANGED <<pc, target, meta, refs>>
    BY <1>5 DEF EraseKey
  <2>2. /\ pc[p] = "x_wait" /\ k.backup = target[p] /\ Erasing(p) /\ target[p] \in Backups
        /\ pending'[p] = pending[p] \ {k} /\ Spared(p)' = Spared(p)
    BY <1>1, <2>1 DEF PendingInv, Stage, TypeOK, MetaKnown, HasMeta, Spared, ReferencedIn
  <2>3. CASE k.kind = "full"
    BY <1>1, <2>1, <2>2, <2>3 DEF Erasing, Stage, BackupTry, TypeOK, FullKey
  <2>4. CASE k.kind # "full"
    BY <1>1, <2>1, <2>2, <2>4 DEF Erasing, Stage, BackupTry, TypeOK, FullKey
  <2> QED BY <2>3, <2>4
<1>6. CASE DeletionWaited(p) /\ pc'[p] \in StageAt
  <2>1. pc[p] = "x_wait" /\ pending[p] = {} /\ UNCHANGED <<full, light, target, pending>>
    BY <1>6 DEF DeletionWaited
  <2>2. Spared(p) # {}
    BY <1>1, <1>6 DEF DeletionWaited, TypeOK, StageAt, BackupTry, UploadFullAt, UploadLightAt
  <2>3. pc'[p] = "x_partFull" /\ meta' = [meta EXCEPT ![p].state = "partially_deleted"]
    BY <1>1, <1>6, <2>2 DEF DeletionWaited, TypeOK
  <2>4. meta[p] \in Meta
    BY <1>1, <2>1 DEF MetaKnown, HasMeta
  <2>5. meta'[p].state = "partially_deleted" /\ meta'[p].parts = meta[p].parts
    BY <1>1, <2>3, <2>4 DEF TypeOK, Meta
  <2> QED BY <1>1, <2>1, <2>2, <2>3, <2>5 DEF Stage, Erasing, OwnOnly, BackupTry
<1>7. CASE UnfreezeFailed(p)
  BY <1>1, <1>7 DEF UnfreezeFailed, Stage, Erasing, Spared, ReferencedIn
<1>8. CASE \/ PlanDelete(p) \/ BackupNotFound(p) \/ PlanPurge(p) \/ PurgeTypeError(p)
           \/ DeletionEnds(p) \/ StartDelete(p) \/ StartPurge(p) \/ DeletionFailed(p)
  <2>1. pc \in [Hosts -> Labels]
    BY <1>1 DEF TypeOK
  <2>2. CASE PlanDelete(p) \/ PlanPurge(p)
    <3>1. PICK deleting, retained : DeleteBatch(p, deleting, retained)
      BY <2>2 DEF PlanDelete, PlanPurge
    <3>2. pc'[p] \in {"unlock", "x_next"}
      BY <2>1, <3>1 DEF DeleteBatch
    <3> QED BY <1>2, <3>2 DEF StageAt, BackupTry, UploadFullAt, UploadLightAt
  <2>3. CASE \/ BackupNotFound(p) \/ PurgeTypeError(p) \/ DeletionEnds(p) \/ DeletionFailed(p)
             \/ StartDelete(p) \/ StartPurge(p)
    <3>1. pc'[p] \in {"unlock", "d_lock", "p_lock"}
      BY <2>1, <2>3 DEF BackupNotFound, PurgeTypeError, DeletionEnds, DeletionFailed, StartDelete, StartPurge
    <3> QED BY <1>2, <3>1 DEF StageAt, BackupTry, UploadFullAt, UploadLightAt
  <2> QED BY <1>8, <2>2, <2>3
<1> QED BY <1>2, <1>3, <1>4, <1>5, <1>6, <1>7, <1>8 DEF DeleteStep

LEMMA StageNext ==
    ASSUME LifeInv, UnderLockInv', NEW p \in Hosts, Progress(p) \/ StartCommand(p) \/ Fault(p)
    PROVE  Stage(p)'
<1>1. CASE \/ LockTimeout(p) \/ ReleaseLock(p) \/ Exit(p) \/ UploadError(p) \/ Crash(p)
  <2>1. pc'[p] \in {"idle", "exit", "unlock"}
    BY <1>1 DEF LifeInv, AccountInv, UnderLockInv, TypeInv, TypeOK, LockTimeout, ReleaseLock, Exit, UploadError,
                Crash, Forget, Go
  <2> QED BY <2>1, StageElsewhere DEF StageAt, BackupTry, UploadFullAt, UploadLightAt
<1> QED BY <1>1, UploadStage, BackupStage, DeleteStage DEF Progress, StartCommand, Fault

-----------------------------------------------------------------------------
(* What is left to delete, and what the others link to.                     *)

\* A listed backup that links to the one being deleted is not in the batch: its part
\* is spared.
LEMMA LinkedIsSpared ==
    ASSUME LifeInv, NEW p \in Hosts, pc[p] \in Deletes, NEW c \in Backups, Visible(c),
           NEW e \in full[c].parts, e.link = target[p]
    PROVE  ~Doomed(p, c) /\ StoredName(e) \in Spared(p)
<1>1. TypeOK /\ MetaKnown /\ Batch(p) /\ StartsAgree /\ LinksOlder
  BY DEF LifeInv, AccountInv, UnderLockInv, TypeInv, Agree
<1>2. meta[p] \in Meta /\ target[p] \in Backups /\ full[c] \in Meta /\ e \in Part
  BY <1>1 DEF MetaKnown, HasMeta, Deletes, UploadFullAt, UploadLightAt, Visible, TypeOK, Meta
<1>3. PartOf(c, e) /\ Started(target[p], meta[p].start) /\ meta[p].start \in Nat
  BY <1>2 DEF PartOf, Started, Visible, HasMeta, Deletes, UploadFullAt, UploadLightAt, Meta
<1>4. \A u \in Nat : Started(c, u) => meta[p].start < u
  BY <1>1, <1>2, <1>3 DEF LinksOlder
<1>5. c # target[p]
  BY <1>3, <1>4
<1>6. c \notin NamesOf(work[p])
  <2> SUFFICES ASSUME NEW s \in work[p], s.name = c PROVE FALSE
    BY DEF NamesOf
  <2>1. Started(c, s.start) /\ s.start \in Nat /\ s.start <= meta[p].start
    BY <1>1 DEF Started, TypeOK, Listed, Batch
  <2> QED BY <1>3, <1>4, <2>1
<1>7. ~Doomed(p, c) /\ Doomed(p, target[p])
  BY <1>5, <1>6 DEF Doomed
<1>8. <<target[p], StoredName(e)>> \in refs[p]
  BY <1>1, <1>2, <1>7 DEF Batch
<1>9. StoredName(e) \in PartNames
  BY <1>2 DEF StoredName, Part
<1> QED BY <1>7, <1>8, <1>9 DEF Spared, ReferencedIn

\* The plan spares what the retained backups link to.
LEMMA PlanBatch ==
    ASSUME LifeInv, NEW p \in Hosts, Plans(p)
    PROVE  Batch(p)'
<1>1. TypeOK /\ PendingInv /\ LinksToOwn
  BY DEF LifeInv, AccountInv, UnderLockInv, TypeInv, Agree
<1>2. CASE pc'[p] \notin Deletes \cup {"x_next"}
  BY <1>2 DEF Batch
<1>3. CASE pc'[p] \in Deletes \cup {"x_next"}
  <2>1. PICK deleting \in SUBSET Listing : DeleteBatch(p, deleting, Listing \ deleting)
    BY DEF Plans
  <2> DEFINE metas == {full[s.name] : s \in Listing \ deleting}
  <2>2. UNCHANGED <<full, light, pending>> /\ pending[p] = {}
    BY <1>1 DEF Plans, storage, PendingInv
  <2>3. /\ NoMeta \notin metas /\ pc'[p] = "x_next"
        /\ work'[p] = deleting /\ refs'[p] = DedupReferences(metas, NamesOf(deleting))
    BY <1>1, <1>3, <2>1 DEF DeleteBatch, Go, TypeOK, Deletes
  <2>4. \A b : Doomed(p, b)' <=> b \in NamesOf(deleting)
    BY <2>3 DEF Doomed, Deletes
  <2>5. \A s \in Listing : s.name \in Backups /\ light[s.name] # NoMeta
    BY DEF Listing
  <2>6. \A s, t \in Listing : s.name = t.name => s = t
    BY DEF Listing
  <2>7. ASSUME NEW c \in Backups, Visible(c), c \notin NamesOf(deleting), NEW e \in full[c].parts,
               e.link \in Backups, e.link \in NamesOf(deleting)
        PROVE  <<e.link, StoredName(e)>> \in refs'[p]
    <3>0. [name |-> c, start |-> light[c].start, state |-> light[c].state] \in Listing
      BY <2>7 DEF Listing, Visible
    <3>1. PICK s \in Listing : s.name = c
      BY <3>0
    <3>2. full[c] \in metas
      BY <2>7, <3>1 DEF NamesOf
    <3> QED BY <2>3, <2>7, <3>2 DEF DedupReferences
  <2>8. ASSUME NEW b \in Backups, full[b] # NoMeta, NEW e \in full[b].parts, <<b, e.name>> \in refs'[p]
        PROVE  e.link = NoBackup
    <3>0. PICK m \in metas : \E d \in m.parts : d.link = b /\ StoredName(d) = e.name
      BY <2>3, <2>8 DEF DedupReferences
    <3>1. PICK d \in m.parts : d.link = b /\ StoredName(d) = e.name
      BY <3>0
    <3>2. PICK s \in Listing : m = full[s.name]
      OBVIOUS
    <3>3. s.name \in Backups /\ m # NoMeta /\ m \in Meta
      BY <1>1, <2>3, <2>5, <3>2 DEF TypeOK
    <3>4. PartOf(s.name, d) /\ d \in Part /\ PartOf(b, e) /\ e \in Part
      BY <1>1, <2>8, <3>2, <3>3 DEF PartOf, TypeOK, Meta
    <3>5. LinkedTo(b, e.name)
      BY <3>1, <3>3, <3>4 DEF LinkedTo
    <3> QED BY <1>1, <3>4, <3>5 DEF LinksToOwn
  <2> HIDE DEF metas
  <2> QED BY <2>2, <2>3, <2>4, <2>5, <2>6, <2>7, <2>8 DEF Batch, Visible, Deletes
<1> QED BY <1>2, <1>3

\* Of the objects scheduled, none is linked to.
LEMMA ScheduleBatch ==
    ASSUME LifeInv, NEW p \in Hosts, DeleteBackup(p) \/ DeleteDataParts(p)
    PROVE  Batch(p)'
<1> USE DEF Go, storage, dedup, parts
<1>1. TypeOK /\ MetaKnown /\ PendingInv /\ Batch(p)
  BY DEF LifeInv, AccountInv, UnderLockInv, TypeInv
<1>2. /\ pc[p] = "x_erase" /\ pc'[p] = "x_wait" /\ pending[p] = {}
      /\ UNCHANGED <<full, light, target, work, refs>>
  BY <1>1 DEF DeleteBackup, DeleteDataParts, TypeOK, PendingInv
<1>3. meta[p] \in Meta /\ meta'[p].start = meta[p].start
  BY <1>1, <1>2 DEF MetaKnown, HasMeta, DeleteBackup, DeleteDataParts, TypeOK, Meta
<1>4. \A b : Doomed(p, b)' <=> Doomed(p, b)
  BY <1>2 DEF Doomed, Deletes
<1>5. \A k \in pending'[p] : k.kind = "data" => k.backup = target[p] /\ k.part \notin Spared(p)
  <2>1. CASE DeleteBackup(p)
    <3>1. pending'[p] = KeysOf(target[p]) /\ Spared(p) = {}
      BY <1>1, <1>2, <2>1 DEF DeleteBackup, TypeOK
    <3> QED BY <3>1 DEF KeysOf
  <2>2. CASE DeleteDataParts(p)
    BY <1>1, <1>2, <2>2 DEF DeleteDataParts, TypeOK
  <2> QED BY <2>1, <2>2
<1>6. ASSUME NEW k \in pending'[p], k.kind = "data", NEW c \in Backups, Visible(c), NEW e \in full[c].parts,
             e.link = k.backup
      PROVE  StoredName(e) # k.part
  BY <1>2, <1>5, <1>6, LinkedIsSpared DEF Deletes
<1> QED BY <1>1, <1>2, <1>3, <1>4, <1>6 DEF Batch, Visible, Deletes

LEMMA UploadBatch ==
    ASSUME LifeInv, NEW p \in Hosts, UploadFull(p) \/ UploadLight(p)
    PROVE  Batch(p)'
<1> USE DEF Go, storage, locals, deletion, dedup, parts
<1>1. TypeOK /\ MetaKnown /\ PendingInv /\ Batch(p) /\ Stage(p)
  BY DEF LifeInv, AccountInv, UnderLockInv, TypeInv
<1>2. PICK step \in Sequel : step[1] = pc[p] /\ Go(p, step[2])
  BY DEF UploadFull, UploadLight, Advance
<1>3. /\ pc'[p] = step[2] /\ UNCHANGED <<target, meta, work, refs, pending>> /\ pending[p] = {}
      /\ meta[p] \in Meta /\ target[p] \in Backups
  BY <1>1, <1>2 DEF UploadFull, UploadLight, TypeOK, PendingInv, UploadFullAt, UploadLightAt, MetaKnown, HasMeta
<1>4. CASE pc'[p] \notin Deletes \cup {"x_next"}
  BY <1>4 DEF Batch
<1>5. CASE pc'[p] \in Deletes \cup {"x_next"} /\ UploadFull(p)
  <2>1. pc[p] \in {"x_markFull", "x_partFull"} /\ pc'[p] \in {"x_markLight", "x_partLight"}
    BY <1>2, <1>3, <1>5 DEF UploadFull, UploadFullAt, Sequel, OtherSequel, Deletes
  <2>2. /\ full' = [full EXCEPT ![target[p]] = meta[p]] /\ light' = light
        /\ full[target[p]] # NoMeta /\ meta[p] # NoMeta
    BY <1>1, <1>3, <1>5, <2>1, NoMetaIsAbsent DEF UploadFull, Stage
  <2>3. \A c \in Backups : Visible(c)' => Visible(c)
    BY <1>1, <2>2 DEF Visible, TypeOK
  <2>4. meta[p].parts = full[target[p]].parts \/ OwnOnly(meta[p])
    BY <1>1, <1>3, <2>1 DEF Stage, TypeOK, Meta
  <2>5. \A c \in Backups : full'[c].parts = full[c].parts \/ (c = target[p] /\ OwnOnly(full'[c]))
    BY <1>1, <2>2, <2>4 DEF TypeOK
  <2>6. \A b : Doomed(p, b)' <=> Doomed(p, b)
    BY <1>3, <2>1 DEF Doomed, Deletes
  <2>7. \A c \in Backups : full'[c] # NoMeta => full[c] # NoMeta
    BY <1>1, <2>2 DEF TypeOK
  <2>8. ASSUME NEW c \in Backups, Visible(c)', ~Doomed(p, c), NEW e \in full'[c].parts,
               e.link \in Backups, Doomed(p, e.link)
        PROVE  <<e.link, StoredName(e)>> \in refs[p]
    BY <1>1, <2>1, <2>3, <2>5, <2>8, AbsentValues DEF Batch, OwnOnly, Deletes
  <2>9. ASSUME NEW b \in Backups, full'[b] # NoMeta, NEW e \in full'[b].parts, <<b, e.name>> \in refs[p]
        PROVE  e.link = NoBackup
    BY <1>1, <2>1, <2>5, <2>7, <2>9 DEF Batch, OwnOnly, Deletes
  <2> QED BY <1>1, <1>3, <2>1, <2>2, <2>6, <2>8, <2>9 DEF Batch, Deletes
<1>6. CASE pc'[p] \in Deletes \cup {"x_next"} /\ UploadLight(p)
  <2>1. \/ pc[p] = "x_markLight" /\ pc'[p] = "x_erase"
        \/ pc[p] = "x_partLight" /\ pc'[p] = "x_next"
    BY <1>2, <1>3, <1>6 DEF UploadLight, UploadLightAt, Sequel, OtherSequel, Deletes
  <2>2. light' = [light EXCEPT ![target[p]] = LightOf(meta[p])] /\ full' = full /\ LightOf(meta[p]) # NoMeta
    BY <1>3, <1>6, LightOfType, NoLightIsAbsent DEF UploadLight
  <2>3. \A c \in Backups : Visible(c)' => Visible(c) \/ (c = target[p] /\ pc[p] = "x_partLight")
    BY <1>1, <2>1, <2>2 DEF Visible, TypeOK, Stage
  <2>4. \A b : /\ Doomed(p, b)' => Doomed(p, b)
               /\ Doomed(p, b) => Doomed(p, b)' \/ (b = target[p] /\ pc[p] = "x_partLight")
    BY <1>3, <2>1 DEF Doomed, Deletes
  <2>5. pc[p] = "x_partLight" => OwnOnly(full[target[p]])
    BY <1>1 DEF Stage
  <2>6. \A b \in Backups : light[b] # NoMeta => light'[b] # NoMeta
    BY <1>1, <2>2 DEF TypeOK
  <2>7. ASSUME NEW c \in Backups, Visible(c)', ~Doomed(p, c)', NEW e \in full[c].parts,
               e.link \in Backups, Doomed(p, e.link)'
        PROVE  <<e.link, StoredName(e)>> \in refs[p]
    BY <1>1, <2>1, <2>3, <2>4, <2>5, <2>7, AbsentValues DEF Batch, OwnOnly, Deletes
  <2>8. \A s \in work[p] : s.name \in Backups
    BY <1>1 DEF TypeOK, Listed
  <2> QED BY <1>1, <1>3, <2>1, <2>2, <2>6, <2>7, <2>8 DEF Batch, Deletes
<1> QED BY <1>4, <1>5, <1>6

LEMMA DeleteNextBatch ==
    ASSUME LifeInv, NEW p \in Hosts, DeleteNext(p)
    PROVE  Batch(p)'
<1> USE DEF Go, storage, dedup, parts
<1>1. TypeOK /\ PendingInv /\ Batch(p) /\ StartsAgree
  BY DEF LifeInv, AccountInv, UnderLockInv, TypeInv, Agree
<1>2. PICK s \in work[p] : /\ NextToDelete(s, work[p]) /\ full[s.name] # NoMeta /\ target'[p] = s.name
                           /\ meta'[p] = [full[s.name] EXCEPT !.state = "deleting"]
                           /\ work'[p] = work[p] \ {s}
  BY <1>1 DEF DeleteNext, TypeOK
<1>3. /\ pc[p] = "x_next" /\ pc'[p] = "x_markFull" /\ pending[p] = {}
      /\ UNCHANGED <<full, light, refs, pending>>
  BY <1>1 DEF DeleteNext, TypeOK, PendingInv
<1>4. \A b : Doomed(p, b)' <=> Doomed(p, b)
  BY <1>2, <1>3 DEF Doomed, Deletes, NamesOf
<1>5. \A t \in work'[p] : t.name # target'[p]
  BY <1>1, <1>2, <1>3 DEF Batch
<1>6. ASSUME NEW t \in work'[p]
      PROVE  t.start <= meta'[p].start
  <2>1. s.name \in Backups /\ s.start \in Nat /\ t.start \in Nat /\ full[s.name] \in Meta
    BY <1>1, <1>2 DEF TypeOK, Listed
  <2>2. t.start <= s.start
    BY <1>2, <2>1 DEF NextToDelete, Newest, NewerIn
  <2>3. Started(s.name, s.start) /\ Started(s.name, full[s.name].start) /\ full[s.name].start \in Nat
    BY <1>2, <2>1 DEF Started, Meta
  <2>4. s.start = full[s.name].start
    BY <1>1, <2>1, <2>3 DEF StartsAgree
  <2>5. meta'[p].start = full[s.name].start
    BY <1>2, <2>1 DEF Meta
  <2> QED BY <2>2, <2>4, <2>5
<1> QED BY <1>1, <1>2, <1>3, <1>4, <1>5, <1>6 DEF Batch, Visible, Deletes

LEMMA EraseBatch ==
    ASSUME LifeInv, NEW p \in Hosts, EraseKey(p)
    PROVE  Batch(p)'
<1>1. TypeOK /\ MetaKnown /\ PendingInv /\ Batch(p) /\ Stage(p)
  BY DEF LifeInv, AccountInv, UnderLockInv, TypeInv
<1>2. PICK k \in pending[p] :
         /\ pending' = [pending EXCEPT ![p] = @ \ {k}]
         /\ light' = IF k.kind = "light" THEN [light EXCEPT ![k.backup] = NoMeta] ELSE light
         /\ full' = IF k.kind = "full" THEN [full EXCEPT ![k.backup] = NoMeta] ELSE full
         /\ UNCHANGED <<pc, target, meta, work, refs>>
  BY DEF EraseKey
<1>3. /\ pc[p] = "x_wait" /\ k.backup = target[p] /\ target[p] \in Backups /\ pending'[p] \subseteq pending[p]
  BY <1>1, <1>2 DEF PendingInv, Stage, TypeOK, MetaKnown, HasMeta
<1>4. \A c \in Backups : /\ full'[c] \in {full[c], NoMeta} /\ light'[c] \in {light[c], NoMeta}
                         /\ Visible(c)' => Visible(c) /\ full'[c] = full[c]
                         /\ full'[c] # NoMeta => full'[c] = full[c]
                         /\ c # target[p] => light'[c] = light[c]
  BY <1>1, <1>2, <1>3 DEF Visible, TypeOK
<1>5. \A s \in work[p] : s.name \in Backups /\ s.name # target[p]
  BY <1>1, <1>3 DEF TypeOK, Listed, Batch, Deletes
<1>6. \A b : Doomed(p, b)' <=> Doomed(p, b)
  BY <1>2 DEF Doomed
<1> QED BY <1>1, <1>2, <1>3, <1>4, <1>5, <1>6 DEF Batch, Deletes

LEMMA WaitBatch ==
    ASSUME LifeInv, NEW p \in Hosts, DeletionWaited(p) \/ UnfreezeFailed(p)
    PROVE  Batch(p)'
<1> USE DEF Go, storage, locals, deletion, dedup, parts
<1>1. TypeOK /\ MetaKnown /\ PendingInv /\ Batch(p) /\ Stage(p)
  BY DEF LifeInv, AccountInv, UnderLockInv, TypeInv
<1>2. /\ pc[p] = "x_wait" /\ meta[p] \in Meta /\ target[p] \in Backups
      /\ UNCHANGED <<full, light, target, refs, pending>>
  BY <1>1 DEF DeletionWaited, UnfreezeFailed, MetaKnown, HasMeta
<1>3. CASE DeletionWaited(p)
  <2>1. /\ pc'[p] \in {"x_partFull", "x_next"} /\ work' = work /\ pending[p] = {}
        /\ meta'[p].start = meta[p].start
        /\ pc'[p] = "x_next" => Spared(p) = {}
    BY <1>1, <1>2, <1>3 DEF DeletionWaited, TypeOK, Meta
  <2>2. pc'[p] = "x_next" => full[target[p]] = NoMeta
    BY <1>1, <1>2, <2>1 DEF Stage, Erasing
  <2>3. \A b : /\ Doomed(p, b)' => Doomed(p, b)
               /\ Doomed(p, b) => Doomed(p, b)' \/ (b = target[p] /\ full[b] = NoMeta)
    BY <1>2, <2>1, <2>2 DEF Doomed, Deletes
  <2> QED BY <1>1, <1>2, <2>1, <2>3 DEF Batch, Deletes, Visible
<1>4. CASE UnfreezeFailed(p)
  <2>1. pc' = pc /\ work'[p] = {} /\ meta' = meta
    BY <1>1, <1>4 DEF UnfreezeFailed, TypeOK
  <2>2. \A b : Doomed(p, b)' <=> b = target[p]
    BY <1>2, <2>1 DEF Doomed, Deletes, NamesOf
  <2>3. ASSUME NEW c \in Backups, Visible(c), NEW e \in full[c].parts, e.link = target[p]
        PROVE  <<e.link, StoredName(e)>> \in refs[p]
    BY <1>2, <2>3, LinkedIsSpared DEF Deletes, Spared, ReferencedIn
  <2> QED BY <1>1, <1>2, <2>1, <2>2, <2>3 DEF Batch, Deletes, Visible
<1> QED BY <1>3, <1>4

LEMMA BatchNext ==
    ASSUME LifeInv, NEW p \in Hosts, Progress(p) \/ StartCommand(p) \/ Fault(p)
    PROVE  Batch(p)'
<1> USE DEF Go, storage, locals, deletion, dedup, parts
<1>1. TypeOK /\ PendingInv /\ Batch(p)
  BY DEF LifeInv, AccountInv, UnderLockInv, TypeInv
<1>2. CASE pc'[p] \notin Deletes \cup {"x_next"}
  BY <1>2 DEF Batch
<1>3. CASE LockTimeout(p) \/ ReleaseLock(p) \/ Exit(p) \/ UploadError(p) \/ Crash(p)
  <2>1. pc'[p] \in {"idle", "exit", "unlock"}
    BY <1>1, <1>3 DEF TypeOK, LockTimeout, ReleaseLock, Exit, UploadError, Crash, Forget
  <2> QED BY <1>2, <2>1 DEF Deletes
<1>4. CASE AcquireLock(p)
  <2>1. pc'[p] \in {"b_putFull", "d_plan", "p_plan"}
    BY <1>1, <1>4 DEF AcquireLock, Advance, Sequel, OtherSequel, Waiting, TypeOK
  <2> QED BY <1>2, <2>1 DEF Deletes
<1>5. CASE PutPart(p)
  BY <1>1, <1>5 DEF PutPart, Batch, Doomed, Visible
<1>6. CASE BackupStep(p) \/ BackupFailed(p) \/ StartCommand(p)
  <2>1. CASE PutPart(p)
    BY <1>5, <2>1
  <2>2. CASE SkipBackup(p)
    BY <1>1, <1>2, <2>2 DEF SkipBackup, Forget, TypeOK, Deletes
  <2>3. CASE StartBackup(p) \/ CollectDedupInfo(p) \/ PopulateDedupInfo(p) \/ ReloadFails(p) \/ FreezeTable(p)
    BY <1>1, <1>2, <2>3 DEF TypeOK, StartBackup, CollectDedupInfo, PopulateDedupInfo, ReloadFails, FreezeTable,
                            Deletes
  <2>4. CASE DeduplicatePart(p) \/ ScheduleUpload(p) \/ ObserveUpload(p) \/ TableDone(p) \/ BackupCreated(p)
    BY <1>1, <1>2, <2>4 DEF TypeOK, DeduplicatePart, ScheduleUpload, ObserveUpload, TableDone, BackupCreated,
                            Deletes
  <2>5. CASE BackupFailed(p) \/ StartCommand(p)
    BY <1>1, <1>2, <2>5 DEF TypeOK, BackupFailed, StartCommand, ListBackups, StartDelete, StartPurge, Deletes
  <2> QED BY <1>6, <2>1, <2>2, <2>3, <2>4, <2>5 DEF BackupStep
<1>7. CASE GivesUp(p) \/ DeletionEnds(p) \/ DeletionFailed(p)
  BY <1>1, <1>2, <1>7 DEF GivesUp, DeletionEnds, DeletionFailed, TypeOK, Deletes
<1>8. PlanDelete(p) \/ PlanPurge(p) \/ BackupNotFound(p) \/ PurgeTypeError(p) => Plans(p) \/ GivesUp(p)
  BY PlansOrGivesUp DEF LifeInv, AccountInv
<1> QED BY <1>3, <1>4, <1>6, <1>7, <1>8, UploadBatch, PlanBatch, DeleteNextBatch, ScheduleBatch, EraseBatch, WaitBatch
        DEF Progress, Fault, DeleteStep

\* The steps that change the storage.
LEMMA WhichStores ==
    ASSUME NEW p \in Hosts, Progress(p) \/ StartCommand(p) \/ Fault(p)
    PROVE  /\ full' = full \/ UploadFull(p) \/ ObserveUpload(p) \/ EraseKey(p)
           /\ light' = light \/ UploadLight(p) \/ EraseKey(p)
           /\ data' = data \/ PutPart(p) \/ EraseKey(p)
<1>1. CASE UploadFull(p) \/ ObserveUpload(p) \/ UploadLight(p) \/ PutPart(p) \/ EraseKey(p)
  BY <1>1 DEF UploadFull, ObserveUpload, UploadLight, PutPart
<1>2. CASE ~(UploadFull(p) \/ ObserveUpload(p) \/ UploadLight(p) \/ PutPart(p) \/ EraseKey(p))
  BY <1>2 DEF Progress, StartCommand, Fault, BackupStep, DeleteStep, AcquireLock, LockTimeout, ReleaseLock,
              Exit, SkipBackup, StartBackup, CollectDedupInfo, PopulateDedupInfo, ReloadFails,
              FreezeTable, DeduplicatePart, ScheduleUpload, TableDone, BackupCreated, PlanDelete,
              BackupNotFound, PlanPurge, PurgeTypeError, DeleteNext, DeletionEnds, DeleteBackup,
              DeleteDataParts, DeletionWaited, ListBackups, StartDelete, StartPurge, UploadError,
              BackupFailed, DeletionFailed, UnfreezeFailed, Crash, Forget, storage
<1> QED BY <1>1, <1>2

\* A CREATED backup is put by a host that has put its light metadata, and loses that
\* only once it is DELETING.
LEMMA CreatedListedNext ==
    ASSUME LifeInv, NEW p \in Hosts, Progress(p) \/ StartCommand(p) \/ Fault(p)
    PROVE  CreatedListed'
<1>1. UnderLockInv /\ TypeOK /\ MetaKnown /\ PendingInv /\ Stage(p) /\ CreatedListed
  BY DEF LifeInv, AccountInv, UnderLockInv, TypeInv
<1> SUFFICES ASSUME NEW b \in Backups, full'[b] # NoMeta, full'[b].state = "created"
             PROVE  light'[b] # NoMeta
  BY DEF CreatedListed
<1>2. CASE full'[b] # full[b]
  <2>1. \/ UploadFull(p) /\ target[p] = b /\ full'[b] = meta[p]
        \/ ObserveUpload(p) /\ target[p] = b /\ full'[b] = meta'[p]
    BY <1>1, <1>2, WhoPuts
  <2>2. CASE UploadFull(p) /\ target[p] = b /\ full'[b] = meta[p]
    <3>1. pc[p] \in UploadFullAt /\ light' = light /\ meta[p] \in Meta
      BY <1>1, <2>2 DEF UploadFull, MetaKnown, HasMeta
    <3>2. pc[p] \in {"b_putFull", "b_tableFull", "x_markFull", "x_partFull"} => meta[p].state # "created"
      BY <1>1, <3>1 DEF Stage, BackupTry, TypeOK, Meta
    <3> QED BY <1>1, <2>2, <3>1, <3>2 DEF Stage, UploadFullAt
  <2>3. CASE ObserveUpload(p) /\ target[p] = b
    BY <1>1, <2>3 DEF ObserveUpload, Stage, BackupTry
  <2> QED BY <2>1, <2>2, <2>3
<1>3. CASE full'[b] = full[b] /\ light'[b] = light[b]
  BY <1>1, <1>3 DEF CreatedListed
<1>4. CASE full'[b] = full[b] /\ light'[b] # light[b]
  <2> SUFFICES ASSUME light'[b] = NoMeta PROVE FALSE
    OBVIOUS
  <2>1. CASE UploadLight(p)
    BY <1>1, <1>4, <2>1, LightOfType, NoLightIsAbsent DEF UploadLight, TypeOK, MetaKnown, HasMeta
  <2>2. CASE EraseKey(p)
    BY <1>1, <1>4, <2>2 DEF EraseKey, TypeOK, PendingInv, Stage, Erasing
  <2> QED BY <1>4, <2>1, <2>2, WhichStores
<1> QED BY <1>2, <1>3, <1>4

LEMMA LifeStutters == LifeInv /\ UNCHANGED vars => LifeInv'
<1> SUFFICES ASSUME LifeInv, UNCHANGED vars PROVE LifeInv'
  OBVIOUS
<1> USE DEF vars, storage, locals, deletion, dedup, parts
<1>1. AccountInv'
  BY AccountStutters DEF LifeInv
<1>2. ASSUME NEW p \in Hosts PROVE Stage(p)' /\ Batch(p)'
  <2>1. Stage(p) /\ Batch(p)
    BY DEF LifeInv
  <2>2. Stage(p)'
    BY <2>1 DEF Stage, Erasing, Spared
  <2>3. Batch(p)'
    BY <2>1 DEF Batch, Doomed, Visible
  <2> QED BY <2>2, <2>3
<1>3. CreatedListed'
  BY DEF LifeInv, CreatedListed
<1> QED BY <1>1, <1>2, <1>3 DEF LifeInv

LEMMA LifeNext == UniqueNames /\ LifeInv /\ [Next]_vars => LifeInv'
<1> SUFFICES ASSUME UniqueNames, LifeInv, [Next]_vars PROVE LifeInv'
  OBVIOUS
<1>1. AccountInv'
  BY AccountNext DEF LifeInv
<1>2. UnderLockInv'
  BY <1>1 DEF AccountInv
<1>3. CASE UNCHANGED vars
  BY <1>3, LifeStutters
<1>4. ASSUME NEW p \in Hosts, Progress(p) \/ StartCommand(p) \/ Fault(p)
      PROVE  LifeInv'
  <2>1. Stage(p)' /\ Batch(p)' /\ CreatedListed'
    BY <1>2, <1>4, StageNext, BatchNext, CreatedListedNext
  <2>2. ASSUME NEW q \in Hosts \ {p} PROVE Stage(q)' /\ Batch(q)'
    BY <1>4, <2>2, LifeBystander
  <2> QED BY <1>1, <2>1, <2>2 DEF LifeInv
<1> QED BY <1>3, <1>4 DEF Next

LEMMA LifeInit == PurgesItsOwn /\ Init => LifeInv
<1> SUFFICES ASSUME PurgesItsOwn, Init PROVE LifeInv
  OBVIOUS
<1>1. AccountInv
  BY AccountInit
<1>2. ASSUME NEW p \in Hosts PROVE Stage(p) /\ Batch(p)
  <2>1. pc[p] = "idle" /\ pending[p] = {}
    BY DEF Init
  <2> QED BY <2>1 DEF Stage, Batch, BackupTry, Deletes
<1>3. CreatedListed
  BY DEF Init, CreatedListed
<1> QED BY <1>1, <1>2, <1>3 DEF LifeInv

LEMMA Life == PurgesItsOwn /\ UniqueNames /\ Spec => []LifeInv
<1>1. UniqueNames /\ LifeInv /\ [Next]_vars => (UniqueNames /\ LifeInv)'
  BY LifeNext
<1>2. PurgesItsOwn /\ UniqueNames /\ Init => UniqueNames /\ LifeInv
  BY LifeInit
<1> QED BY <1>1, <1>2, PTL DEF Spec

\* A step of a command takes the metadata it puts through the states in order.
LEMMA LifeStep ==
    ASSUME LifeInv, TypeInv', NEW p \in Hosts, Progress(p) \/ StartCommand(p) \/ Fault(p),
           NEW b \in Backups, full'[b] # full[b]
    PROVE  CASE full[b] = NoMeta  -> full'[b].state = "creating"
             [] full'[b] = NoMeta -> full[b].state = "deleting"
             [] OTHER             -> full'[b].state \in Follows(full[b].state)
<1>1. UnderLockInv /\ TypeOK /\ MetaKnown /\ PendingInv /\ Stage(p) /\ Fresh(p)
  BY DEF LifeInv, AccountInv, UnderLockInv, TypeInv, HostInv
<1>2. CASE EraseKey(p)
  <2>1. full'[b] = NoMeta /\ full[b].state = "deleting"
    BY <1>1, <1>2 DEF EraseKey, TypeOK, PendingInv, Stage, Erasing
  <2> QED BY <2>1
<1>3. CASE UploadFull(p)
  <2>0. target[p] = b /\ full'[b] = meta[p]
    BY <1>1, <1>3 DEF UploadFull, TypeOK
  <2>1. pc[p] \in UploadFullAt /\ meta[p] \in Meta /\ meta[p] # NoMeta
    BY <1>1, <1>3, NoMetaIsAbsent DEF UploadFull, MetaKnown, HasMeta
  <2>2. CASE pc[p] = "b_putFull"
    BY <1>1, <2>0, <2>2 DEF Stage, Fresh, UnbornAt
  <2>3. CASE pc[p] = "b_tableFull"
    BY <1>1, <2>0, <2>1, <2>3 DEF Stage, BackupTry, Follows
  <2>4. CASE pc[p] = "b_finalFull"
    BY <1>1, <2>0, <2>1, <2>4 DEF Stage, Follows
  <2>5. CASE pc[p] = "x_markFull"
    <3>1. full[b] # NoMeta /\ meta[p].state = "deleting"
      BY <1>1, <2>0, <2>1, <2>5 DEF Stage, TypeOK, Meta
    <3> QED BY <2>0, <2>1, <3>1 DEF Follows
  <2>6. CASE pc[p] = "x_partFull"
    BY <1>1, <2>0, <2>1, <2>6 DEF Stage, Follows
  <2> QED BY <2>1, <2>2, <2>3, <2>4, <2>5, <2>6 DEF UploadFullAt
<1>4. CASE ObserveUpload(p)
  <2>0. target[p] = b /\ full'[b] = meta'[p]
    BY <1>1, <1>4 DEF ObserveUpload, TypeOK
  <2>1. pc[p] = "b_parts" /\ meta[p] \in Meta
    BY <1>1, <1>4 DEF ObserveUpload, MetaKnown, HasMeta, BackupTry
  <2>2. PICK e \in Part : Joins(p, e)
    BY <1>1, <1>4, JoinNews DEF UnderLockInv
  <2>3. meta'[p].state = meta[p].state /\ meta'[p] # NoMeta
    BY <2>1, <2>2, AddPartsType, NoMetaIsAbsent DEF Joins, Meta
  <2> QED BY <1>1, <2>0, <2>1, <2>3 DEF Stage, BackupTry, Follows
<1> QED BY <1>2, <1>3, <1>4, WhichStores

\* Where hosts purge only what they back up themselves and each backup command has a
\* name of its own, the metadata of a backup go through the states of BackupState in
\* order: a backup is CREATING first, ends CREATED or FAILED, and goes only after it
\* was marked DELETING.
THEOREM LifecycleIsLegal == PurgesItsOwn /\ UniqueNames /\ Spec => LegalLifecycle
<1>1. ASSUME LifeInv, [Next]_vars
      PROVE  [\A b \in Backups : full'[b] # full[b] =>
                CASE full[b] = NoMeta  -> full'[b].state = "creating"
                  [] full'[b] = NoMeta -> full[b].state = "deleting"
                  [] OTHER             -> full'[b].state \in Follows(full[b].state)]_vars
  <2>1. TypeInv'
    BY <1>1, NextType DEF LifeInv, AccountInv, UnderLockInv
  <2> QED BY <1>1, <2>1, LifeStep DEF Next
<1> QED BY <1>1, Life, PTL DEF Spec, LegalLifecycle

-----------------------------------------------------------------------------
(* The data behind the metadata.                                            *)

\* Deduplication reads the metadata of listed backups.  It has listed them before
\* the lock: it may come to read what an interrupted deletion left of one.
ReadsListed ==
    \A p \in Hosts : pc[p] = "b_dedup" =>
        \A s \in seen[p] : Newest(s, seen[p]) /\ full[s.name] # NoMeta => light[s.name] # NoMeta

\* The parts of a backup that is not deleted are stored where it says.
OwnStored ==
    \A b \in Backups : full[b] # NoMeta /\ full[b].state \in {"creating", "created", "failed"} =>
        \A e \in full[b].parts : e.link = NoBackup => DataOf(b, e) \in data

\* So is what a host that creates a backup has in its memory: the parts in the
\* metadata, those uploaded, and those deduplication uses without a check.
InHand(p) ==
    /\ pc[p] \in Creates => \A e \in meta[p].parts : DataOf(target[p], e) \in data
    /\ pc[p] \in BackupTry => \A f \in uploaded[p] : <<target[p], f.name, f.sum>> \in data
    /\ pc[p] \in {"b_dedup", "b_parts"} => \A r \in rows[p] : r.verified => RowData(r) \in data

DataInv == OwnStored /\ LinksResolve /\ \A p \in Hosts : InHand(p)

\* Data are only ever put again as they were: no step but a deletion loses any.
LEMMA DataGrow ==
    ASSUME LifeInv, NEW p \in Hosts, Progress(p) \/ StartCommand(p) \/ Fault(p), ~EraseKey(p)
    PROVE  data \subseteq data'
<1>1. TypeOK /\ MetaKnown /\ OneSum
  BY DEF LifeInv, AccountInv, UnderLockInv, TypeInv, Agree
<1>2. CASE data' = data
  BY <1>2
<1>3. CASE PutPart(p)
  <2>1. PICK f \in uploading[p] : data' = {d \in data : <<d[1], d[2]>> # <<target[p], f.name>>}
                                          \cup {<<target[p], f.name, f.sum>>}
    BY <1>3 DEF PutPart
  <2>2. target[p] \in Backups /\ f \in Frozen /\ f.name \in PartNames /\ f.sum \in Sums
    BY <1>1, <2>1 DEF MetaKnown, TypeOK, Frozen
  <2> SUFFICES ASSUME NEW d \in data, <<d[1], d[2]>> = <<target[p], f.name>>
               PROVE  d = <<target[p], f.name, f.sum>>
    BY <2>1
  <2>3. d = <<d[1], d[2], d[3]>> /\ d[3] \in Sums
    BY <1>1 DEF TypeOK
  <2>4. d[1] = target[p] /\ d[2] = f.name
    OBVIOUS
  <2>5. Claimed(target[p], f.name, d[3]) /\ Claimed(target[p], f.name, f.sum)
    BY <2>3, <2>4 DEF Claimed, OnTheWay
  <2> QED BY <1>1, <2>2, <2>3, <2>4, <2>5 DEF OneSum
<1> QED BY <1>2, <1>3, WhichStores

\* What a deletion takes away no listed backup links to, no other backup calls its
\* own, and no host that creates a backup has to do with.
LEMMA EraseSpares ==
    ASSUME LifeInv, DataInv, NEW p \in Hosts, EraseKey(p)
    PROVE  OwnStored' /\ LinksResolve' /\ \A q \in Hosts : InHand(q)'
<1>1. TypeOK /\ MetaKnown /\ PendingInv /\ LockInv /\ PartsInv /\ Batch(p) /\ Stage(p)
  BY DEF LifeInv, AccountInv, UnderLockInv, TypeInv
<1>2. PICK k \in pending[p] :
         /\ light' = IF k.kind = "light" THEN [light EXCEPT ![k.backup] = NoMeta] ELSE light
         /\ full' = IF k.kind = "full" THEN [full EXCEPT ![k.backup] = NoMeta] ELSE full
         /\ data' = IF k.kind = "data" THEN {d \in data : <<d[1], d[2]>> # <<k.backup, k.part>>} ELSE data
         /\ UNCHANGED <<pc, target, meta, rows, uploaded>>
  BY DEF EraseKey, dedup, parts
<1>3. pc[p] = "x_wait" /\ k.backup = target[p] /\ target[p] \in Backups
  BY <1>1, <1>2 DEF PendingInv, Stage, MetaKnown, HasMeta
<1>4. \A c \in Backups : /\ full'[c] # NoMeta => full'[c] = full[c]
                         /\ light'[c] # NoMeta => light'[c] = light[c]
  BY <1>1, <1>2, <1>3 DEF TypeOK
<1>5. \A d \in data : d \in data' \/ (k.kind = "data" /\ d[1] = target[p] /\ d[2] = k.part)
  BY <1>2, <1>3
<1>6. OwnStored'
  <2> SUFFICES ASSUME NEW b \in Backups, full'[b] # NoMeta, full'[b].state \in {"creating", "created", "failed"},
                      NEW e \in full'[b].parts, e.link = NoBackup
               PROVE  DataOf(b, e) \in data'
    BY DEF OwnStored
  <2>1. full[b] = full'[b] /\ DataOf(b, e) \in data
    BY <1>4 DEF DataInv, OwnStored
  <2>2. b # target[p]
    BY <1>1, <1>3, <2>1 DEF Stage, Erasing
  <2>3. DataOf(b, e)[1] = b
    BY DEF DataOf
  <2> QED BY <1>5, <2>1, <2>2, <2>3
<1>7. LinksResolve'
  <2> SUFFICES ASSUME NEW b \in Backups, Visible(b)', NEW e \in full'[b].parts, e.link # NoBackup
               PROVE  DataOf(b, e) \in data'
    BY DEF LinksResolve
  <2>1. Visible(b) /\ full[b] = full'[b]
    BY <1>4 DEF Visible
  <2>2. DataOf(b, e) \in data
    BY <2>1 DEF DataInv, LinksResolve
  <2>3. k.kind = "data" /\ e.link = target[p] => StoredName(e) # k.part
    BY <1>1, <1>3, <2>1 DEF Batch, Deletes
  <2>4. DataOf(b, e)[1] = e.link /\ DataOf(b, e)[2] = StoredName(e)
    BY DEF DataOf
  <2> QED BY <1>5, <2>2, <2>3, <2>4
<1>8. ASSUME NEW q \in Hosts PROVE InHand(q)'
  <2>1. pc[q] \notin BackupTry
    BY <1>1, <1>3 DEF LockInv, Locked, BackupTry
  <2>2. pc[q] \in Creates => pc[q] \in {"b_lock", "b_putFull"}
    BY <1>1, <1>3, <2>1, OutsideUnborn DEF LifeInv, Locked, UnbornAt, Creates, BackupTry
  <2>3. pc[q] \in Creates => meta[q].parts = {}
    BY <1>1, <2>2 DEF PartsInv, NoPartsAt
  <2> QED BY <1>2, <2>1, <2>3 DEF InHand, BackupTry
<1> QED BY <1>6, <1>7, <1>8

\* A host that goes on creating its backup, with nothing new in hand.
LEMMA HandsFull ==
    ASSUME DataInv, NEW p \in Hosts, data \subseteq data', pc[p] \in Creates,
           UNCHANGED target[p], meta'[p].parts \subseteq meta[p].parts,
           pc'[p] \in BackupTry => uploaded'[p] = {} \/ (pc[p] \in BackupTry /\ uploaded'[p] \subseteq uploaded[p]),
           pc'[p] \in {"b_dedup", "b_parts"} =>
              rows'[p] = {} \/ (pc[p] \in {"b_dedup", "b_parts"} /\ rows'[p] = rows[p])
    PROVE  InHand(p)'
BY DEF DataInv, InHand

LEMMA PopulateHand ==
    ASSUME LifeInv, DataInv, ReadsListed, NEW p \in Hosts, PopulateDedupInfo(p)
    PROVE  InHand(p)'
<1>1. TypeOK /\ InHand(p)
  BY DEF LifeInv, AccountInv, UnderLockInv, TypeInv, DataInv
<1>2. pc[p] = "b_dedup" /\ UNCHANGED <<pc, target, meta, uploaded, data>>
  BY DEF PopulateDedupInfo, storage, parts
<1>3. PICK s \in seen[p] : /\ Newest(s, seen[p]) /\ full[s.name] # NoMeta
                           /\ rows'[p] \subseteq rows[p] \cup NewRows(s.name, full[s.name], rows[p], sources[p])
  BY <1>1 DEF PopulateDedupInfo, TypeOK
<1>4. s.name \in Backups /\ full[s.name] \in Meta /\ Visible(s.name)
  BY <1>1, <1>2, <1>3 DEF TypeOK, Listed, ReadsListed, Visible
<1>5. ASSUME NEW r \in NewRows(s.name, full[s.name], rows[p], sources[p]), r.verified
      PROVE  RowData(r) \in data
  <2>1. PICK e \in full[s.name].parts : r = RowOf(s.name, e)
    BY DEF NewRows
  <2>2. e \in Part /\ e.link # NoBackup
    BY <1>4, <1>5, <2>1 DEF RowOf, Meta
  <2> QED BY <1>4, <2>1, <2>2, RowOfData DEF DataInv, LinksResolve
<1> QED BY <1>1, <1>2, <1>3, <1>5 DEF InHand

\* A part is linked to only where it is stored: a row is trusted, or the part it
\* stands for is found in the storage.
LEMMA DeduplicateHand ==
    ASSUME LifeInv, DataInv, NEW p \in Hosts, DeduplicatePart(p)
    PROVE  InHand(p)'
<1>1. TypeOK /\ MetaKnown /\ InHand(p) /\ OneSum
  BY DEF LifeInv, AccountInv, UnderLockInv, TypeInv, DataInv, Agree
<1>2. pc[p] = "b_parts" /\ UNCHANGED <<pc, target, rows, uploaded, data>>
  BY DEF DeduplicatePart, storage, dedup
<1>3. meta[p] \in Meta /\ target[p] \in Backups
  BY <1>1, <1>2 DEF MetaKnown, HasMeta, BackupTry
<1>4. PICK f \in todo[p] : \E r \in Matches(p, f) :
         /\ Usable(r, f)
         /\ meta' = [meta EXCEPT ![p].parts = @ \cup {LinkedPart(f, r)}]
  BY DEF DeduplicatePart
<1>5. PICK r \in Matches(p, f) : /\ Usable(r, f)
                                 /\ meta' = [meta EXCEPT ![p].parts = @ \cup {LinkedPart(f, r)}]
  BY <1>4
<1>6. f \in Frozen /\ r \in rows[p] /\ r \in DedupRow /\ r.sum = f.sum
  BY <1>1, <1>4, <1>5 DEF Matches, TypeOK
<1>7. meta'[p].parts = meta[p].parts \cup {LinkedPart(f, r)}
  BY <1>1, <1>3, <1>5 DEF TypeOK, Meta
<1>8. DataOf(target[p], LinkedPart(f, r)) = RowData(r) /\ StoredName(LinkedPart(f, r)) = RowData(r)[2]
  BY <1>3, <1>6, LinkedPartData
<1>9. RowData(r) \in data
  <2>1. CASE r.verified
    BY <1>1, <1>2, <1>6, <2>1 DEF InHand
  <2>2. CASE DataChecked(r, f)
    <3>1. PICK d \in data : <<d[1], d[2]>> = <<r.backup, RowData(r)[2]>>
      BY <1>8, <2>2 DEF DataChecked
    <3>2. d = <<d[1], d[2], d[3]>> /\ d[1] \in Backups /\ d[2] \in PartNames /\ d[3] \in Sums
      BY <1>1 DEF TypeOK
    <3>3. RowData(r) = <<d[1], d[2], r.sum>> /\ r.sum \in Sums
      BY <1>6, <3>1 DEF RowData, DedupRow
    <3>4. Claimed(d[1], d[2], d[3]) /\ Claimed(d[1], d[2], r.sum)
      BY <1>6, <3>2, <3>3 DEF Claimed
    <3> QED BY <1>1, <3>2, <3>3, <3>4 DEF OneSum
  <2> QED BY <1>5, <2>1, <2>2 DEF Usable
<1> QED BY <1>1, <1>2, <1>7, <1>8, <1>9 DEF InHand, Creates, BackupTry

LEMMA ObserveHand ==
    ASSUME LifeInv, DataInv, NEW p \in Hosts, ObserveUpload(p)
    PROVE  InHand(p)'
<1>1. TypeOK /\ MetaKnown /\ InHand(p)
  BY DEF LifeInv, AccountInv, UnderLockInv, TypeInv, DataInv
<1>2. pc[p] = "b_parts" /\ UNCHANGED <<pc, target, rows, data>>
  BY DEF ObserveUpload, dedup
<1>3. meta[p] \in Meta /\ target[p] \in Backups
  BY <1>1, <1>2 DEF MetaKnown, HasMeta, BackupTry
<1>4. PICK f \in uploaded[p] : /\ meta' = [meta EXCEPT ![p].parts = @ \cup {OwnPart(f)}]
                               /\ uploaded' = [uploaded EXCEPT ![p] = @ \ {f}]
  BY DEF ObserveUpload
<1>5. meta'[p].parts = meta[p].parts \cup {OwnPart(f)} /\ uploaded'[p] = uploaded[p] \ {f}
  BY <1>1, <1>3, <1>4 DEF TypeOK, Meta
<1>6. DataOf(target[p], OwnPart(f)) = <<target[p], f.name, f.sum>>
  BY DEF DataOf, OwnPart, StoredName
<1>7. <<target[p], f.name, f.sum>> \in data
  BY <1>1, <1>2, <1>4 DEF InHand, BackupTry
<1> QED BY <1>1, <1>2, <1>5, <1>6, <1>7 DEF InHand, Creates, BackupTry

LEMMA HandNext ==
    ASSUME LifeInv, DataInv, ReadsListed, NEW p \in Hosts, Progress(p) \/ StartCommand(p) \/ Fault(p), ~EraseKey(p)
    PROVE  InHand(p)'
<1> USE DEF Go, storage, locals, deletion, dedup, parts
<1>1. TypeOK /\ MetaKnown /\ InHand(p) /\ Resting /\ data \subseteq data'
  BY DataGrow DEF LifeInv, AccountInv, UnderLockInv, TypeInv, DataInv
<1>2. CASE pc'[p] \notin Creates
  BY <1>2 DEF InHand, Creates, BackupTry
<1>3. CASE StartBackup(p)
  <2>1. pc'[p] = "b_lock" /\ meta'[p].parts = {}
    BY <1>1, <1>3 DEF StartBackup, TypeOK
  <2> QED BY <2>1 DEF InHand, BackupTry
<1>4. CASE pc'[p] \in Creates /\ (AcquireLock(p) \/ UploadFull(p) \/ UploadLight(p))
  <2>1. PICK step \in Sequel : step[1] = pc[p] /\ Go(p, step[2])
    BY <1>4 DEF AcquireLock, UploadFull, UploadLight, Advance
  <2>2. pc'[p] = step[2] /\ UNCHANGED <<target, meta, rows, uploaded>>
    BY <1>1, <1>4, <2>1 DEF AcquireLock, UploadFull, UploadLight, TypeOK
  <2>3. /\ pc[p] \in Creates /\ pc'[p] \notin {"b_dedup", "b_parts"}
        /\ pc'[p] \in BackupTry => pc[p] \in BackupTry \cup {"b_putLight"}
    BY <1>4, <2>1, <2>2 DEF Sequel, OtherSequel, Creates, BackupTry
  <2>4. pc[p] = "b_putLight" => uploaded[p] = {}
    BY <1>1 DEF Resting, PartsAt, OnTheWay
  <2> QED BY <1>1, <2>2, <2>3, <2>4, HandsFull
<1>5. CASE CollectDedupInfo(p)
  <2>1. /\ pc[p] = "b_collect" /\ pc'[p] = "b_dedup" /\ rows'[p] = {}
        /\ UNCHANGED <<target, meta, uploaded>>
    BY <1>1, <1>5 DEF CollectDedupInfo, TypeOK, Resting, PartsAt
  <2> QED BY <1>1, <2>1, HandsFull DEF Creates, BackupTry
<1>6. CASE FreezeTable(p) \/ ScheduleUpload(p) \/ TableDone(p)
  <2>1. /\ pc[p] \in {"b_dedup", "b_parts"} /\ pc'[p] \in BackupTry
        /\ UNCHANGED <<target, meta, uploaded, rows>>
    BY <1>1, <1>6 DEF FreezeTable, ScheduleUpload, TableDone, TypeOK, BackupTry
  <2> QED BY <1>1, <2>1, HandsFull DEF Creates, BackupTry
<1>7. CASE PutPart(p)
  <2>1. PICK f \in uploading[p] : /\ <<target[p], f.name, f.sum>> \in data'
                                  /\ uploaded' = [uploaded EXCEPT ![p] = @ \cup {f}]
    BY <1>7 DEF PutPart
  <2>2. uploaded'[p] = uploaded[p] \cup {f} /\ UNCHANGED <<pc, target, meta, rows>>
    BY <1>1, <1>7, <2>1 DEF PutPart, TypeOK
  <2> QED BY <1>1, <2>1, <2>2 DEF InHand
<1>8. CASE ReloadFails(p) \/ BackupCreated(p) \/ BackupFailed(p)
  <2>1. pc[p] \in BackupTry /\ pc'[p] = "b_finalFull" /\ UNCHANGED target
    BY <1>1, <1>8 DEF ReloadFails, BackupCreated, BackupFailed, TypeOK, BackupTry
  <2>2. meta[p] \in Meta
    BY <1>1, <2>1 DEF MetaKnown, HasMeta
  <2>3. meta'[p].parts = meta[p].parts
    BY <1>1, <1>8, <2>2 DEF ReloadFails, BackupCreated, BackupFailed, TypeOK, Meta
  <2> QED BY <1>1, <2>1, <2>3, HandsFull DEF Creates, BackupTry
<1>9. CASE \/ LockTimeout(p) \/ ReleaseLock(p) \/ Exit(p) \/ SkipBackup(p) \/ UploadError(p) \/ Crash(p)
           \/ StartCommand(p)
  <2>1. pc'[p] \in {"idle", "exit", "unlock", "b_start", "d_lock", "p_lock"}
    BY <1>1, <1>9 DEF TypeOK, LockTimeout, ReleaseLock, Exit, SkipBackup, UploadError, Crash, Forget, StartCommand,
                      ListBackups, StartDelete, StartPurge
  <2> QED BY <1>2, <2>1 DEF Creates, BackupTry
<1>10. CASE DeleteStep(p) \/ DeletionFailed(p) \/ UnfreezeFailed(p)
  <2>1. pc'[p] \in {"unlock", "x_next", "x_markFull", "x_wait", "x_partFull"}
    BY <1>1, <1>10 DEF DeleteStep, PlanDelete, BackupNotFound, PlanPurge, PurgeTypeError, DeleteBatch, DeleteNext,
                       DeletionEnds, DeleteBackup, DeleteDataParts, DeletionWaited, DeletionFailed,
                       UnfreezeFailed, TypeOK
  <2> QED BY <1>2, <2>1 DEF Creates, BackupTry
<1> QED BY <1>2, <1>3, <1>4, <1>5, <1>6, <1>7, <1>8, <1>9, <1>10, PopulateHand, DeduplicateHand, ObserveHand
        DEF Progress, Fault, BackupStep

\* What the storage says stays true where data only grow.
LEMMA StoredNext ==
    ASSUME LifeInv, DataInv, NEW p \in Hosts, Progress(p) \/ StartCommand(p) \/ Fault(p), ~EraseKey(p), InHand(p)'
    PROVE  OwnStored' /\ LinksResolve'
<1>1. TypeOK /\ MetaKnown /\ Stage(p) /\ Fresh(p) /\ data \subseteq data'
  BY DataGrow DEF LifeInv, AccountInv, UnderLockInv, TypeInv, HostInv
<1>2. CASE UploadFull(p)
  <2>1. /\ pc[p] \in UploadFullAt /\ target[p] \in Backups /\ meta[p] \in Meta /\ meta[p] # NoMeta
        /\ UNCHANGED <<light, data, meta, target>>
        /\ full' = [full EXCEPT ![target[p]] = meta[p]]
    BY <1>1, <1>2, NoMetaIsAbsent DEF UploadFull, MetaKnown, HasMeta, locals
  <2>2. CASE pc[p] \in Creates
    <3>1. \A e \in meta[p].parts : DataOf(target[p], e) \in data
      BY <2>2 DEF DataInv, InHand
    <3> QED BY <1>1, <2>1, <3>1 DEF DataInv, OwnStored, LinksResolve, Visible, TypeOK
  <2>3. CASE pc[p] \in {"x_markFull", "x_partFull"}
    <3>1. /\ full[target[p]] # NoMeta /\ meta[p].state \in {"deleting", "partially_deleted"}
          /\ meta[p].parts = full[target[p]].parts \/ OwnOnly(meta[p])
      BY <1>1, <2>1, <2>3 DEF Stage, TypeOK, Meta
    <3> QED BY <1>1, <2>1, <3>1 DEF DataInv, OwnStored, LinksResolve, Visible, TypeOK, OwnOnly
  <2> QED BY <2>1, <2>2, <2>3 DEF UploadFullAt, Creates, BackupTry
<1>3. CASE UploadLight(p)
  <2>1. /\ pc[p] \in UploadLightAt /\ target[p] \in Backups
        /\ UNCHANGED <<full, data, meta, target>>
        /\ light' = [light EXCEPT ![target[p]] = LightOf(meta[p])]
    BY <1>1, <1>3 DEF UploadLight, MetaKnown, HasMeta, locals
  <2>2. \A b \in Backups : Visible(b)' => Visible(b) \/ b = target[p]
    BY <1>1, <2>1 DEF Visible, TypeOK
  <2>3. CASE pc[p] \in Creates
    <3>1. full[target[p]] # NoMeta => \A e \in full[target[p]].parts : DataOf(target[p], e) \in data
      BY <1>1, <2>3 DEF DataInv, InHand, Fresh
    <3> QED BY <2>1, <2>2, <3>1 DEF DataInv, OwnStored, LinksResolve, Visible
  <2>4. CASE pc[p] \in {"x_markLight", "x_partLight"}
    <3>1. pc[p] = "x_markLight" /\ full[target[p]] # NoMeta => Visible(target[p])
      BY <1>1 DEF Stage, Visible
    <3>2. pc[p] = "x_partLight" => OwnOnly(full[target[p]])
      BY <1>1 DEF Stage
    <3> QED BY <2>1, <2>2, <2>4, <3>1, <3>2 DEF DataInv, OwnStored, LinksResolve, Visible, OwnOnly
  <2> QED BY <2>1, <2>3, <2>4 DEF UploadLightAt, Creates, BackupTry
<1>4. CASE ObserveUpload(p)
  <2>1. /\ pc[p] = "b_parts" /\ target[p] \in Backups /\ UNCHANGED <<light, data, target, pc>>
        /\ full' = full \/ full' = [full EXCEPT ![target[p]] = meta'[p]]
    BY <1>1, <1>4 DEF ObserveUpload, MetaKnown, HasMeta, BackupTry
  <2>2. \A e \in meta'[p].parts : DataOf(target[p], e) \in data
    BY <2>1 DEF InHand, Creates, BackupTry
  <2> QED BY <1>1, <2>1, <2>2 DEF DataInv, OwnStored, LinksResolve, Visible, TypeOK, Stage, BackupTry
<1>5. CASE UNCHANGED <<full, light>>
  BY <1>1, <1>5 DEF DataInv, OwnStored, LinksResolve, Visible
<1> QED BY <1>2, <1>3, <1>4, <1>5, WhichStores

LEMMA DataNext == LifeInv /\ DataInv /\ ReadsListed /\ [Next]_vars => DataInv'
<1> SUFFICES ASSUME LifeInv, DataInv, ReadsListed, [Next]_vars PROVE DataInv'
  OBVIOUS
<1>1. CASE UNCHANGED vars
  BY <1>1 DEF vars, storage, locals, dedup, parts, DataInv, OwnStored, LinksResolve, Visible, InHand
<1>2. ASSUME NEW p \in Hosts, Progress(p) \/ StartCommand(p) \/ Fault(p)
      PROVE  DataInv'
  <2>1. CASE EraseKey(p)
    BY <2>1, EraseSpares DEF DataInv
  <2>2. CASE ~EraseKey(p)
    <3>1. InHand(p)' /\ data \subseteq data'
      BY <1>2, <2>2, HandNext, DataGrow
    <3>2. OwnStored' /\ LinksResolve'
      BY <1>2, <2>2, <3>1, StoredNext
    <3>3. ASSUME NEW q \in Hosts \ {p} PROVE InHand(q)'
      <4>1. UNCHANGED <<pc[q], target[q], meta[q], uploaded[q], rows[q]>>
        BY <1>2, StepOthers DEF Others, LifeInv, AccountInv, UnderLockInv, TypeInv
      <4> QED BY <3>1, <4>1 DEF DataInv, InHand
    <3> QED BY <3>1, <3>2, <3>3 DEF DataInv
  <2> QED BY <2>1, <2>2
<1> QED BY <1>1, <1>2 DEF Next

LEMMA DataInit == Init => DataInv
BY DEF Init, DataInv, OwnStored, LinksResolve, Visible, InHand, Creates, BackupTry

LEMMA Data == PurgesItsOwn /\ UniqueNames /\ Spec /\ []ReadsListed => [](LifeInv /\ DataInv)
BY Life, DataInit, DataNext, PTL DEF Spec

LEMMA DataRestorable == LifeInv /\ DataInv => CreatedRestorable /\ LinksResolve
<1> SUFFICES ASSUME LifeInv, DataInv, NEW b \in Backups, full[b] # NoMeta, full[b].state = "created",
                    NEW e \in full[b].parts
             PROVE  DataOf(b, e) \in data
  BY DEF CreatedRestorable, Restorable, DataInv
<1>1. Visible(b)
  BY DEF LifeInv, CreatedListed, Visible
<1> QED BY <1>1 DEF DataInv, OwnStored, LinksResolve

-----------------------------------------------------------------------------
(* Deletions that come to their end leave no metadata that is not listed.   *)

\* A deletion never ends, nor crashes, with objects of a backup still to delete.
NothingLeftBehind ==
    [][\A p \in Hosts : pc[p] = "x_wait" /\ pc'[p] # "x_wait" => pending[p] = {}]_vars

\* A backup is not listed before its light metadata is put.
Unlisted(p) ==
    pc[p] \in UnbornAt \cup {"b_putLight"} =>
        light[target[p]] = NoMeta /\ \A q \in Hosts : target[p] \notin NamesOf(seen[q])

\* Metadata that were listed and are no longer are about to be deleted.
Leaving ==
    \A b \in Backups : \A q \in Hosts :
        full[b] # NoMeta /\ light[b] = NoMeta /\ b \in NamesOf(seen[q]) =>
            \E p \in Hosts : pc[p] = "x_wait" /\ FullKey(b) \in pending[p]

LeavingInv == LifeInv /\ Leaving /\ \A p \in Hosts : Unlisted(p)

\* Listings are made of light metadata.
LEMMA SeenNext ==
    ASSUME TypeOK, NEW p \in Hosts, Progress(p) \/ StartCommand(p) \/ Fault(p), NEW q \in Hosts,
           NEW b \in NamesOf(seen'[q])
    PROVE  b \in NamesOf(seen[q]) \/ (q = p /\ ListBackups(p) /\ b \in Backups /\ light[b] # NoMeta)
<1> USE DEF locals, dedup
<1>1. CASE q # p
  BY <1>1, StepOthers DEF Others
<1>2. CASE q = p /\ ListBackups(p)
  <2>1. seen'[p] = Listing
    BY <1>2 DEF ListBackups, TypeOK
  <2>2. \A s \in Listing : s.name \in Backups /\ light[s.name] # NoMeta
    BY DEF Listing
  <2> QED BY <1>2, <2>1, <2>2 DEF NamesOf
<1>3. ASSUME seen'[p] \subseteq seen[p]
      PROVE  b \in NamesOf(seen[q])
  BY <1>1, <1>3 DEF NamesOf
<1>4. CASE SkipBackup(p) \/ LockTimeout(p) \/ Exit(p) \/ Crash(p)
  BY <1>3, <1>4 DEF SkipBackup, LockTimeout, Exit, Crash, Forget, TypeOK
<1>5. CASE CollectDedupInfo(p) \/ PopulateDedupInfo(p)
  <2>1. CASE CollectDedupInfo(p)
    BY <1>3, <2>1 DEF CollectDedupInfo, TypeOK
  <2>2. CASE PopulateDedupInfo(p)
    <3>1. \E s : seen' = [seen EXCEPT ![p] = {}] \/ seen' = [seen EXCEPT ![p] = @ \ {s}]
      BY <2>2 DEF PopulateDedupInfo
    <3> QED BY <1>3, <3>1 DEF TypeOK
  <2> QED BY <1>5, <2>1, <2>2
<1>6. CASE seen' = seen
  BY <1>3, <1>6
<1>7. CASE ~(SkipBackup(p) \/ LockTimeout(p) \/ Exit(p) \/ Crash(p) \/ CollectDedupInfo(p)
             \/ PopulateDedupInfo(p) \/ ListBackups(p))
  BY <1>6, <1>7 DEF Progress, StartCommand, Fault, BackupStep, DeleteStep, AcquireLock, ReleaseLock, UploadFull,
                    UploadLight, StartBackup, ReloadFails, FreezeTable, DeduplicatePart, ScheduleUpload, PutPart,
                    ObserveUpload, TableDone, BackupCreated, PlanDelete, BackupNotFound, PlanPurge,
                    PurgeTypeError, DeleteNext, DeletionEnds, DeleteBackup, DeleteDataParts, EraseKey,
                    DeletionWaited, StartDelete, StartPurge, UploadError, BackupFailed, DeletionFailed,
                    UnfreezeFailed
<1> QED BY <1>1, <1>2, <1>4, <1>5, <1>7

\* A backup comes to be with the command that is given its name.
LEMMA BornStep ==
    ASSUME TypeOK, NEW p \in Hosts, Progress(p) \/ StartCommand(p) \/ Fault(p),
           pc'[p] \in UnbornAt \cup {"b_putLight"}
    PROVE  pc'[p] = "b_start" \/ (pc[p] \in UnbornAt \cup {"b_putLight"} /\ target'[p] = target[p])
<1> USE DEF Go, UnbornAt
<1>1. CASE AcquireLock(p) \/ UploadFull(p) \/ UploadLight(p)
  BY <1>1 DEF AcquireLock, UploadFull, UploadLight, Advance, Sequel, OtherSequel, TypeOK, locals
<1>2. CASE PutPart(p) \/ EraseKey(p) \/ ListBackups(p) \/ StartBackup(p)
  BY <1>2 DEF PutPart, EraseKey, ListBackups, StartBackup, TypeOK
<1>3. CASE ~(AcquireLock(p) \/ UploadFull(p) \/ UploadLight(p) \/ PutPart(p) \/ EraseKey(p) \/ ListBackups(p)
             \/ StartBackup(p))
  <2>1. pc'[p] \in {"idle", "exit", "unlock", "d_lock", "p_lock", "x_next", "x_markFull", "x_wait", "x_partFull",
                    "b_dedup", "b_parts", "b_tableFull", "b_finalFull"}
    BY <1>3 DEF TypeOK, Progress, StartCommand, Fault, BackupStep, DeleteStep, LockTimeout, ReleaseLock,
                Exit, SkipBackup, CollectDedupInfo, PopulateDedupInfo,
                ReloadFails, FreezeTable, DeduplicatePart, ScheduleUpload, ObserveUpload, TableDone,
                BackupCreated, PlanDelete, BackupNotFound, PlanPurge, PurgeTypeError, DeleteBatch, DeleteNext,
                DeletionEnds, DeleteBackup, DeleteDataParts, DeletionWaited, StartDelete, StartPurge, UploadError,
                BackupFailed, DeletionFailed, UnfreezeFailed, Crash, Forget
  <2> QED BY <2>1
<1> QED BY <1>1, <1>2, <1>3

LEMMA UnlistedNext ==
    ASSUME LeavingInv, LifeInv', NEW p \in Hosts, Progress(p) \/ StartCommand(p) \/ Fault(p), NEW q \in Hosts
    PROVE  Unlisted(q)'
<1>1. TypeOK /\ MetaKnown /\ Unlisted(q) /\ OwnName(q) /\ Fresh(q)' /\ TypeOK'
  BY DEF LeavingInv, LifeInv, AccountInv, UnderLockInv, TypeInv, HostInv
<1>2. UnbornAt \cup {"b_putLight"} \subseteq Creates \cup {"b_start"}
  BY DEF UnbornAt, Creates
<1> SUFFICES ASSUME pc'[q] \in UnbornAt \cup {"b_putLight"}
             PROVE  light'[target'[q]] = NoMeta /\ \A r \in Hosts : target'[q] \notin NamesOf(seen'[r])
  BY DEF Unlisted
<1>3. CASE pc[q] \in UnbornAt \cup {"b_putLight"} /\ target'[q] = target[q]
  <2>1. target[q] \in Backups
    BY <1>1, <1>3 DEF MetaKnown, HasMeta, UnbornAt, UploadFullAt, UploadLightAt
  <2>2. light'[target[q]] = NoMeta
    <3>1. CASE UploadLight(p)
      <4>1. p # q
        BY <1>1, <3>1 DEF UploadLight, UploadLightAt, Advance, Go, Sequel, OtherSequel, TypeOK, UnbornAt
      <4> QED BY <1>1, <1>2, <1>3, <2>1, <3>1, <4>1 DEF UploadLight, OwnName, Unlisted, TypeOK
    <3>2. CASE EraseKey(p)
      BY <1>1, <1>3, <2>1, <3>2 DEF EraseKey, Unlisted, TypeOK
    <3>3. CASE light' = light
      BY <1>1, <1>3, <3>3 DEF Unlisted
    <3> QED BY <3>1, <3>2, <3>3, WhichStores
  <2>3. ASSUME NEW r \in Hosts PROVE target[q] \notin NamesOf(seen'[r])
    BY <1>1, <1>3, SeenNext DEF Unlisted
  <2> QED BY <1>3, <2>2, <2>3
<1>4. CASE pc[q] \notin UnbornAt \cup {"b_putLight"} \/ target'[q] # target[q]
  <2>1. q = p
    BY <1>1, <1>4, StepOthers DEF Others
  <2>2. pc'[p] = "b_start"
    BY <1>1, <1>4, <2>1, BornStep
  <2>3. light'[target'[q]] = NoMeta /\ target'[q] \in Backups
    BY <1>1, <2>1, <2>2 DEF Fresh, UnbornAt, LeavingInv, LifeInv, AccountInv, UnderLockInv, TypeInv, MetaKnown
  <2>4. ASSUME NEW r \in Hosts, target'[q] \in NamesOf(seen'[r]) PROVE FALSE
    <3>1. PICK s \in seen'[r] : s.name = target'[q]
      BY <2>4 DEF NamesOf
    <3>2. s.start \in Nat
      BY <1>1, <3>1 DEF TypeOK, Listed
    <3>3. ASSUME NEW b, b = target'[q] PROVE ~Started(b, s.start)'
      BY <1>1, <2>1, <2>2, <3>2, <3>3 DEF Fresh, Started
    <3>4. ~Started(s.name, s.start)'
      BY <3>1, <3>3
    <3> QED BY <3>1, <3>4 DEF Started
  <2> QED BY <2>3, <2>4
<1> QED BY <1>3, <1>4

\* What leaves a deletion that waits, or changes what it has scheduled.
LEMMA WaitStep ==
    ASSUME TypeOK, NEW p \in Hosts, Progress(p) \/ StartCommand(p) \/ Fault(p), pc[p] = "x_wait"
    PROVE  /\ pc'[p] # "x_wait" => pending[p] = {} \/ ~(Progress(p) \/ StartCommand(p))
           /\ pc'[p] = "x_wait" => EraseKey(p) \/ pending'[p] = pending[p]
<1> USE DEF Go
<1>1. CASE EraseKey(p) \/ PutPart(p)
  BY <1>1 DEF EraseKey, PutPart, deletion
<1>2. CASE DeletionWaited(p)
  BY <1>2 DEF DeletionWaited, deletion
<1>3. CASE Fault(p)
  <2>1. ~(Progress(p) \/ StartCommand(p))
    BY <1>3 DEF Fault, Progress, StartCommand, TypeOK
  <2>2. pc'[p] = "x_wait" => pending' = pending
    BY <1>3 DEF Fault, UploadError, BackupFailed, DeletionFailed, UnfreezeFailed, Crash, Forget, TypeOK, locals,
                deletion
  <2> QED BY <2>1, <2>2
<1> QED BY <1>1, <1>2, <1>3
        DEF Progress, StartCommand, BackupStep, DeleteStep, AcquireLock, LockTimeout, ReleaseLock, Exit, UploadFull,
            UploadLight, SkipBackup, StartBackup, CollectDedupInfo, PopulateDedupInfo, ReloadFails, FreezeTable,
            DeduplicatePart, ScheduleUpload, ObserveUpload, TableDone, BackupCreated, PlanDelete, BackupNotFound,
            PlanPurge, PurgeTypeError, DeleteNext, DeletionEnds, DeleteBackup, DeleteDataParts, ListBackups,
            StartDelete, StartPurge, Waiting, UploadFullAt, UploadLightAt

LEMMA LeavingNext ==
    ASSUME LeavingInv, LifeInv', NEW p \in Hosts, Progress(p) \/ StartCommand(p) \/ Fault(p),
           pc[p] = "x_wait" /\ pc'[p] # "x_wait" => pending[p] = {}
    PROVE  Leaving'
<1>1. UnderLockInv /\ TypeOK /\ PendingInv /\ Stage(p) /\ Leaving /\ Fresh(p) /\ Unlisted(p)
  BY DEF LeavingInv, LifeInv, AccountInv, UnderLockInv, TypeInv, HostInv
<1> SUFFICES ASSUME NEW b \in Backups, NEW q \in Hosts, full'[b] # NoMeta, light'[b] = NoMeta, b \in NamesOf(seen'[q])
             PROVE  \E r \in Hosts : pc'[r] = "x_wait" /\ FullKey(b) \in pending'[r]
  BY DEF Leaving
<1>2. b \in NamesOf(seen[q]) \/ light[b] # NoMeta
  BY <1>1, SeenNext
<1>3. CASE light[b] # NoMeta
  <2>1. EraseKey(p)
    <3>1. CASE UploadLight(p)
      BY <1>1, <1>3, <3>1, LightOfType, NoLightIsAbsent
         DEF UploadLight, TypeOK, UnderLockInv, TypeInv, MetaKnown, HasMeta
    <3> QED BY <1>3, <3>1, WhichStores
  <2>2. PICK k \in pending[p] :
           /\ pending' = [pending EXCEPT ![p] = @ \ {k}]
           /\ light' = IF k.kind = "light" THEN [light EXCEPT ![k.backup] = NoMeta] ELSE light
           /\ full' = IF k.kind = "full" THEN [full EXCEPT ![k.backup] = NoMeta] ELSE full
           /\ UNCHANGED pc
    BY <2>1 DEF EraseKey
  <2>3. k.kind = "light" /\ target[p] = b /\ pc[p] = "x_wait" /\ full[b] # NoMeta
    BY <1>1, <1>3, <2>2 DEF TypeOK, Stage, PendingInv
  <2>4. FullKey(b) \in pending[p] /\ FullKey(b) # k
    BY <1>1, <2>2, <2>3 DEF Stage, Erasing, FullKey
  <2> QED BY <1>1, <2>2, <2>3, <2>4 DEF TypeOK
<1>4. CASE light[b] = NoMeta
  <2>1. full[b] # NoMeta
    <3> SUFFICES ASSUME full[b] = NoMeta PROVE FALSE
      OBVIOUS
    <3>1. (UploadFull(p) \/ ObserveUpload(p)) /\ target[p] = b
      BY <1>1, WhoPuts
    <3>2. pc[p] = "b_putFull"
      BY <1>1, <3>1 DEF Stage, UploadFull, UploadFullAt, ObserveUpload, BackupTry
    <3> QED BY <1>1, <1>2, <1>4, <3>1, <3>2 DEF Unlisted, UnbornAt
  <2>2. PICK r \in Hosts : pc[r] = "x_wait" /\ FullKey(b) \in pending[r]
    BY <1>1, <1>2, <1>4, <2>1 DEF Leaving
  <2>3. CASE r # p
    BY <1>1, <2>2, <2>3, StepOthers DEF Others
  <2>4. CASE r = p
    <3>1. pc'[p] = "x_wait"
      BY <2>2, <2>4
    <3>2. FullKey(b) \in pending'[p]
      <4>1. CASE EraseKey(p)
        BY <1>1, <2>2, <2>4, <4>1 DEF EraseKey, TypeOK, FullKey
      <4>2. CASE ~EraseKey(p)
        BY <1>1, <2>2, <2>4, <3>1, <4>2, WaitStep
      <4> QED BY <4>1, <4>2
    <3> QED BY <2>4, <3>1, <3>2
  <2> QED BY <2>3, <2>4
<1> QED BY <1>3, <1>4

LEMMA LeavingStep ==
    UniqueNames /\ LeavingInv /\ [Next]_vars
    /\ [\A p \in Hosts : pc[p] = "x_wait" /\ pc'[p] # "x_wait" => pending[p] = {}]_vars
    => LeavingInv'
<1> SUFFICES ASSUME UniqueNames, LeavingInv, [Next]_vars,
                    [\A p \in Hosts : pc[p] = "x_wait" /\ pc'[p] # "x_wait" => pending[p] = {}]_vars
             PROVE  LeavingInv'
  OBVIOUS
<1>1. LifeInv'
  BY LifeNext DEF LeavingInv
<1>2. CASE UNCHANGED vars
  BY <1>1, <1>2 DEF vars, storage, locals, dedup, deletion, LeavingInv, Leaving, Unlisted
<1>3. ASSUME vars' # vars, NEW p \in Hosts, Progress(p) \/ StartCommand(p) \/ Fault(p)
      PROVE  LeavingInv'
  BY <1>1, <1>3, LeavingNext, UnlistedNext DEF LeavingInv
<1> QED BY <1>2, <1>3 DEF Next

LEMMA LeavingInit == PurgesItsOwn /\ Init => LeavingInv
<1> SUFFICES ASSUME PurgesItsOwn, Init PROVE LeavingInv
  OBVIOUS
<1>1. Leaving /\ \A p \in Hosts : Unlisted(p)
  BY DEF Init, Leaving, Unlisted, UnbornAt
<1> QED BY <1>1, LifeInit DEF LeavingInv

\* A host that reads metadata at b_dedup holds the lock, so no deletion is under way.
LEMMA ReadsWhatIsListed == LeavingInv => ReadsListed
<1> SUFFICES ASSUME LeavingInv, NEW p \in Hosts, pc[p] = "b_dedup", NEW s \in seen[p], full[s.name] # NoMeta,
                    light[s.name] = NoMeta
             PROVE  FALSE
  BY DEF ReadsListed
<1>1. LockInv /\ s.name \in Backups /\ s.name \in NamesOf(seen[p])
  BY DEF LeavingInv, LifeInv, AccountInv, UnderLockInv, TypeInv, TypeOK, Listed, NamesOf
<1>2. PICK q \in Hosts : pc[q] = "x_wait"
  BY <1>1 DEF LeavingInv, Leaving
<1> QED BY <1>1, <1>2 DEF LockInv, Locked, BackupTry

LEMMA NothingLeft == PurgesItsOwn /\ UniqueNames /\ Spec /\ NothingLeftBehind => []ReadsListed
<1>1. UniqueNames /\ LeavingInv /\ [Next]_vars
      /\ [\A p \in Hosts : pc[p] = "x_wait" /\ pc'[p] # "x_wait" => pending[p] = {}]_vars
      => (UniqueNames /\ LeavingInv)'
  BY LeavingStep
<1>2. PurgesItsOwn /\ UniqueNames /\ Init => UniqueNames /\ LeavingInv
  BY LeavingInit
<1> QED BY <1>1, <1>2, ReadsWhatIsListed, PTL DEF Spec, NothingLeftBehind

\* While a deletion waits, only workers take keys off those it has scheduled.
LEMMA NoFaultNothingLeft == MaxFaults = 0 /\ Spec => NothingLeftBehind
<1>1. ASSUME MaxFaults = 0, TypeInv, [Next]_vars
      PROVE  [\A p \in Hosts : pc[p] = "x_wait" /\ pc'[p] # "x_wait" => pending[p] = {}]_vars
  <2> SUFFICES ASSUME NEW p \in Hosts, Progress(p) \/ StartCommand(p) \/ Fault(p), NEW q \in Hosts,
                      pc[q] = "x_wait", pc'[q] # "x_wait"
               PROVE  pending[q] = {}
    BY <1>1 DEF Next
  <2>1. TypeOK /\ ~Fault(p)
    BY <1>1 DEF TypeInv, TypeOK, Fault
  <2>2. q = p
    BY <2>1, StepOthers DEF Others
  <2> QED BY <2>1, <2>2, WaitStep
<1>2. (MaxFaults = 0 /\ TypeOK /\ MetaKnown) /\ [Next]_vars
      => [\A p \in Hosts : pc[p] = "x_wait" /\ pc'[p] # "x_wait" => pending[p] = {}]_vars
  BY <1>1 DEF TypeInv
<1>3. MaxFaults = 0 => (MaxFaults = 0)'
  OBVIOUS
<1> QED BY <1>2, <1>3, TypeCorrect, PTL DEF Spec, NothingLeftBehind

-----------------------------------------------------------------------------
(* What a backup that exists is good for.                                   *)

\* Where hosts purge only what they back up themselves, each backup command has a name
\* of its own and deduplication reads the metadata of listed backups, the links of
\* every listed backup lead to stored data: _delete() spares them, whatever fails or
\* crashes.
THEOREM LinksLeadToData == PurgesItsOwn /\ UniqueNames /\ Spec /\ []ReadsListed => []LinksResolve
BY Data, DataRestorable, PTL

\* There, a backup that is CREATED can be restored for as long as it is CREATED.
THEOREM CreatedCanBeRestored == PurgesItsOwn /\ UniqueNames /\ Spec /\ []ReadsListed => []CreatedRestorable
BY Data, DataRestorable, PTL

-----------------------------------------------------------------------------
(* The restore points.                                                      *)

Created(b) == full[b] # NoMeta /\ full[b].state = "created"

\* What RestorePoints sees of backup b.
Point(b) == IF Created(b) THEN Recoverable(b) ELSE NoMeta

\* A CREATED backup yields all that its metadata say.
LEMMA RecoverableContent ==
    ASSUME CreatedRestorable, NEW b \in Backups, Created(b)
    PROVE  Recoverable(b) = Content(full[b])
<1>1. \A e \in full[b].parts : DataOf(b, e) \in data
  BY DEF CreatedRestorable, Restorable, Created
<1> QED BY <1>1 DEF Recoverable, Content

\* A backup becomes CREATED by the last metadata upload of its command.
LEMMA Publishes ==
    ASSUME LifeInv, TypeInv', NEW p \in Hosts, Progress(p) \/ StartCommand(p) \/ Fault(p), NEW b \in Backups,
           full'[b] # full[b], Created(b)'
    PROVE  ~Created(b) /\ Content(full'[b]) \in TableStates
<1>1. UnderLockInv /\ TypeOK /\ MetaKnown /\ PendingInv /\ PartsInv /\ Stage(p)
  BY DEF LifeInv, AccountInv, UnderLockInv, TypeInv
<1>2. ~Created(b)
  BY LifeStep DEF Created, Follows
<1>3. ~ObserveUpload(p)
  <2> SUFFICES ASSUME ObserveUpload(p) PROVE FALSE
    OBVIOUS
  <2>1. pc[p] = "b_parts" /\ meta[p] \in Meta /\ target[p] = b /\ full'[b] = meta'[p]
    BY <1>1, WhoPuts DEF ObserveUpload, MetaKnown, HasMeta, BackupTry, UploadFull, UploadFullAt
  <2>2. PICK e \in Part : Joins(p, e)
    BY <1>1, JoinNews DEF UnderLockInv
  <2>3. meta'[p].state = meta[p].state
    BY <2>1, <2>2 DEF Joins, Meta
  <2> QED BY <1>1, <2>1, <2>3 DEF Created, Stage, BackupTry
<1>4. UploadFull(p) /\ target[p] = b /\ full'[b] = meta[p] /\ meta[p] \in Meta
  BY <1>1, <1>3, WhoPuts DEF UploadFull, MetaKnown, HasMeta, Created
<1>5. pc[p] = "b_finalFull"
  BY <1>1, <1>4 DEF Created, Stage, UploadFull, UploadFullAt, BackupTry, TypeOK, Meta
<1> QED BY <1>1, <1>2, <1>4, <1>5 DEF PartsInv, AllPartsAt, Created

\* A step changes the metadata of one backup.
LEMMA OnePut ==
    ASSUME UnderLockInv, NEW p \in Hosts, Progress(p) \/ StartCommand(p) \/ Fault(p),
           NEW b \in Backups, full'[b] # full[b], NEW c \in Backups, c # b
    PROVE  full'[c] = full[c]
<1>1. TypeOK
  BY DEF UnderLockInv, TypeInv
<1>2. CASE UploadFull(p)
  BY <1>1, <1>2 DEF UploadFull, TypeOK
<1>3. CASE ObserveUpload(p)
  BY <1>1, <1>3 DEF ObserveUpload, TypeOK
<1>4. CASE EraseKey(p)
  BY <1>1, <1>4 DEF EraseKey, TypeOK
<1> QED BY <1>2, <1>3, <1>4, WhichStores

\* Each step publishes a backup, retires one or leaves all as they were.
LEMMA PointStep ==
    ASSUME LifeInv, TypeInv', CreatedRestorable, CreatedRestorable',
           NEW p \in Hosts, Progress(p) \/ StartCommand(p) \/ Fault(p)
    PROVE  LET points == [b \in Backups |-> Point(b)] IN
           \/ points' = points
           \/ \E b \in Backups :
                 \/ Point(b) # NoMeta /\ points' = [points EXCEPT ![b] = NoMeta]
                 \/ \E content \in TableStates :
                       Point(b) = NoMeta /\ points' = [points EXCEPT ![b] = content]
<1> DEFINE points == [b \in Backups |-> Point(b)]
<1>0. ASSUME NEW b \in Backups, Created(b)' PROVE Recoverable(b)' = Content(full'[b])
  <2>1. \A e \in full'[b].parts : DataOf(b, e) \in data'
    BY <1>0 DEF CreatedRestorable, Restorable, Created
  <2> QED BY <2>1 DEF Recoverable, Content
<1>1. ASSUME NEW b \in Backups, full'[b] = full[b] PROVE Point(b)' = Point(b)
  <2>1. Created(b)' <=> Created(b)
    BY <1>1 DEF Created
  <2>2. Created(b) => Recoverable(b)' = Recoverable(b)
    BY <1>0, <1>1, <2>1, RecoverableContent DEF Content
  <2> QED BY <2>1, <2>2 DEF Point
<1>2. CASE \A b \in Backups : full'[b] = full[b]
  BY <1>1, <1>2
<1>3. ASSUME NEW b \in Backups, full'[b] # full[b]
      PROVE  \/ points' = points
             \/ Point(b) # NoMeta /\ points' = [points EXCEPT ![b] = NoMeta]
             \/ \E content \in TableStates :
                   Point(b) = NoMeta /\ points' = [points EXCEPT ![b] = content]
  <2>1. ASSUME NEW c \in Backups, c # b PROVE full'[c] = full[c]
    BY <1>3, <2>1, OnePut DEF LifeInv, AccountInv
  <2>2. points' = [points EXCEPT ![b] = Point(b)']
    BY <1>1, <2>1
  <2>3. CASE Created(b)'
    <3>1. ~Created(b) /\ Content(full'[b]) \in TableStates
      BY <1>3, <2>3, Publishes
    <3>2. Point(b) = NoMeta /\ Point(b)' = Content(full'[b])
      BY <1>0, <2>3, <3>1 DEF Point
    <3> QED BY <2>2, <3>1, <3>2
  <2>4. CASE ~Created(b)'
    <3>1. Point(b)' = NoMeta
      BY <2>4 DEF Point
    <3> QED BY <2>2, <3>1
  <2> QED BY <2>3, <2>4
<1> QED BY <1>2, <1>3

\* Where hosts purge only what they back up themselves, each backup command has a name
\* of its own and deduplication reads the metadata of listed backups, the commands
\* provide restore points: one appears complete, with what the table held when it was
\* frozen, and stays as it is until its backup is deleted.
THEOREM RestorePointsProvided == PurgesItsOwn /\ UniqueNames /\ Spec /\ []ReadsListed => ImplementsRestorePoints
<1>1. Init => Points!Init
  BY DEF Init, Points!Init
<1>2. LifeInv /\ CreatedRestorable /\ (LifeInv /\ CreatedRestorable)' /\ [Next]_vars
      => [Points!Next]_([b \in Backups |->
             IF full[b] # NoMeta /\ full[b].state = "created" THEN Recoverable(b) ELSE NoMeta])
  <2> SUFFICES ASSUME LifeInv, CreatedRestorable, LifeInv', CreatedRestorable', [Next]_vars
               PROVE  [Points!Next]_([b \in Backups |-> Point(b)])
    BY DEF Point, Created
  <2>1. TypeInv'
    BY DEF LifeInv, AccountInv, UnderLockInv
  <2>2. CASE UNCHANGED vars
    BY <2>2 DEF vars, storage, Point, Created, Recoverable
  <2>3. ASSUME NEW p \in Hosts, Progress(p) \/ StartCommand(p) \/ Fault(p)
        PROVE  [Points!Next]_([b \in Backups |-> Point(b)])
    BY <2>1, <2>3, PointStep DEF Points!Next, Points!Retire, Points!Publish, Point, Created
  <2> QED BY <2>2, <2>3 DEF Next
<1> QED BY <1>1, <1>2, Data, DataRestorable, PTL DEF Spec, ImplementsRestorePoints, Points!Spec

\* Metadata that are not listed are what an interrupted deletion leaves: where every
\* deletion that got to its objects ends, uploads and commands may fail at any other
\* point, and what is CREATED can still be restored.
THEOREM RestorableUnlessCutShort ==
    PurgesItsOwn /\ UniqueNames /\ Spec /\ NothingLeftBehind =>
        []CreatedRestorable /\ []LinksResolve /\ ImplementsRestorePoints
BY NothingLeft, LinksLeadToData, CreatedCanBeRestored, RestorePointsProvided, PTL

\* So it is, in particular, where nothing fails.
THEOREM RestorableWithoutFaults ==
    MaxFaults = 0 /\ PurgesItsOwn /\ UniqueNames /\ Spec =>
        []CreatedRestorable /\ []LinksResolve /\ ImplementsRestorePoints
BY NoFaultNothingLeft, RestorableUnlessCutShort, PTL

-----------------------------------------------------------------------------
(* What is stored is accounted for, when nothing fails.                     *)

DataKey(d) == [kind |-> "data", backup |-> d[1], part |-> d[2]]

\* Parts are uploaded only while the backup of their table waits for them.
Quiet(p) == pc[p] # "b_parts" => uploading[p] = {} /\ uploaded[p] = {}

InMeta(p, d) == target[p] = d[1] /\ \E e \in meta[p].parts : DataOf(d[1], e) = d

Kept(d) == Visible(d[1]) /\ \E e \in full[d[1]].parts : DataOf(d[1], e) = d

\* The host that stored the part is about to put it into the metadata of its backup,
\* or another one to delete it.
InHands(p, d) ==
    \/ pc[p] = "b_parts" /\ target[p] = d[1] /\ \E f \in uploaded[p] : f.name = d[2] /\ f.sum = d[3]
    \/ pc[p] \in AllPartsAt \cup {"b_parts"} /\ InMeta(p, d)
    \/ pc[p] = "x_wait" /\ DataKey(d) \in pending[p]

Accounted(d) == Kept(d) \/ \E p \in Hosts : InHands(p, d)

\* Of the backup being deleted, what is not scheduled for deletion stays in the metadata.
LeftBehind(p) ==
    /\ pc[p] \in {"x_wait", "x_partFull"} =>
          \A d \in data : d[1] = target[p] => DataKey(d) \in pending[p] \/ (Spared(p) # {} /\ InMeta(p, d))
    /\ pc[p] = "x_wait" => Spared(p) = {} \/ light[target[p]] # NoMeta
    /\ pc[p] \in {"x_partFull", "x_partLight"} => light[target[p]] # NoMeta
    /\ pc[p] = "b_finalLight" => full[target[p]] = meta[p]

LeakInv ==
    /\ LifeInv
    /\ \A p \in Hosts : Quiet(p) /\ LeftBehind(p)
    /\ \A d \in data : Accounted(d)

LEMMA QuietNext ==
    ASSUME LeakInv, NEW p \in Hosts, Progress(p) \/ StartCommand(p)
    PROVE  Quiet(p)'
<1> USE DEF Go, storage, locals, parts, dedup, deletion
<1>1. TypeOK /\ Quiet(p) /\ Resting
  BY DEF LeakInv, LifeInv, AccountInv, UnderLockInv, TypeInv
<1>2. CASE SkipBackup(p) \/ LockTimeout(p) \/ Exit(p)
  BY <1>1, <1>2 DEF SkipBackup, LockTimeout, Exit, Forget, TypeOK, Quiet
<1>3. CASE PutPart(p) \/ ObserveUpload(p) \/ ScheduleUpload(p)
  BY <1>1, <1>3 DEF PutPart, ObserveUpload, ScheduleUpload, Quiet
<1>4. CASE TableDone(p) \/ DeduplicatePart(p)
  BY <1>1, <1>4 DEF TableDone, DeduplicatePart, Quiet
<1>5. CASE ~(SkipBackup(p) \/ LockTimeout(p) \/ Exit(p) \/ PutPart(p) \/ ObserveUpload(p) \/ ScheduleUpload(p)
             \/ TableDone(p) \/ DeduplicatePart(p))
  <2>1. pc[p] # "b_parts" \/ (EraseKey(p) /\ pc' = pc)
    BY <1>5 DEF Progress, StartCommand, BackupStep, DeleteStep, AcquireLock, ReleaseLock, UploadFull, UploadLight,
                StartBackup, CollectDedupInfo, PopulateDedupInfo, ReloadFails, FreezeTable, BackupCreated,
                PlanDelete, BackupNotFound, PlanPurge, PurgeTypeError, DeleteNext, DeletionEnds, DeleteBackup,
                DeleteDataParts, DeletionWaited, ListBackups, StartDelete, StartPurge, Waiting, UploadFullAt,
                UploadLightAt, EraseKey
  <2>2. UNCHANGED <<uploading, uploaded>>
    BY <1>5 DEF Progress, StartCommand, BackupStep, DeleteStep, AcquireLock, ReleaseLock, UploadFull, UploadLight,
                StartBackup, CollectDedupInfo, PopulateDedupInfo, ReloadFails, FreezeTable, BackupCreated,
                PlanDelete, BackupNotFound, PlanPurge, PurgeTypeError, DeleteNext, DeletionEnds, DeleteBackup,
                DeleteDataParts, DeletionWaited, ListBackups, StartDelete, StartPurge, EraseKey
  <2> QED BY <1>1, <2>1, <2>2 DEF Quiet
<1> QED BY <1>2, <1>3, <1>4, <1>5

\* Of another host, a step leaves alone what it stores and what it is about to delete.
LEMMA LeakBystander ==
    ASSUME LeakInv, NEW p \in Hosts, Progress(p) \/ StartCommand(p), NEW q \in Hosts \ {p}
    PROVE  Quiet(q)' /\ LeftBehind(q)'
<1>1. TypeInv /\ TypeOK /\ LockInv /\ PendingInv /\ Quiet(p) /\ Quiet(q) /\ LeftBehind(q)
  BY DEF LeakInv, LifeInv, AccountInv, UnderLockInv, TypeInv
<1>2. UNCHANGED <<pc[q], target[q], meta[q], uploading[q], uploaded[q], refs[q], pending[q]>>
  BY <1>1, StepOthers DEF Others
<1>3. Quiet(q)'
  BY <1>1, <1>2 DEF Quiet
<1>4. CASE pc[q] \in Locked
  <2>1. pc[p] \notin Locked
    BY <1>1, <1>4 DEF LockInv
  <2>2. UNCHANGED <<full, light>>
    BY <1>1, <2>1, UnlockedWrites DEF PendingInv
  <2>3. data' = data
    BY <1>1, <2>1, WhichStores DEF PutPart, EraseKey, Quiet, PendingInv, Locked, BackupTry
  <2> QED BY <1>1, <1>2, <1>3, <2>2, <2>3 DEF LeftBehind, InMeta, Spared, ReferencedIn
<1>5. CASE pc[q] \notin Locked
  BY <1>2, <1>3, <1>5 DEF LeftBehind, Locked, UploadFullAt, UploadLightAt
<1> QED BY <1>4, <1>5

\* While a host deletes, nobody else is in the middle of a backup or a deletion.
LEMMA AccountedAlone ==
    ASSUME LeakInv, NEW p \in Hosts, pc[p] \in Locked, NEW d \in data
    PROVE  Kept(d) \/ InHands(p, d)
<1>1. LockInv /\ Accounted(d)
  BY DEF LeakInv, LifeInv, AccountInv, UnderLockInv
<1>2. \A q \in Hosts : pc[q] \in Locked => q = p
  BY <1>1 DEF LockInv
<1>3. AllPartsAt \cup {"b_parts", "x_wait"} \subseteq Locked
  BY DEF AllPartsAt, Locked, BackupTry, UploadFullAt, UploadLightAt
<1> QED BY <1>1, <1>2, <1>3 DEF Accounted, InHands

\* What a deletion schedules and what it keeps are all there is.
LEMMA ScheduleLeft ==
    ASSUME LeakInv, NEW p \in Hosts, DeleteBackup(p) \/ DeleteDataParts(p)
    PROVE  LeftBehind(p)'
<1> USE DEF Go, storage, dedup, parts
<1>1. TypeOK /\ MetaKnown /\ PendingInv /\ Stage(p) /\ OwnNames /\ LinksOlder
  BY DEF LeakInv, LifeInv, AccountInv, UnderLockInv, TypeInv, Agree
<1>2. /\ pc[p] = "x_erase" /\ pc'[p] = "x_wait" /\ pending[p] = {} /\ Spared(p)' = Spared(p)
      /\ UNCHANGED <<full, light, data, target, refs>>
  BY <1>1 DEF DeleteBackup, DeleteDataParts, TypeOK, PendingInv, Spared, ReferencedIn
<1>3. /\ meta[p] \in Meta /\ target[p] \in Backups /\ full[target[p]] = meta[p] /\ meta[p] # NoMeta
      /\ light[target[p]] # NoMeta
  BY <1>1, <1>2, NoMetaIsAbsent DEF MetaKnown, HasMeta, Stage
<1>4. ASSUME NEW d \in data, d[1] = target[p]
      PROVE  DataKey(d) \in pending'[p] \/ (Spared(p) # {} /\ InMeta(p, d)')
  <2>1. CASE DeleteBackup(p)
    <3>1. pending'[p] = KeysOf(target[p])
      BY <1>1, <1>2, <2>1 DEF DeleteBackup, TypeOK
    <3> QED BY <1>4, <3>1 DEF KeysOf, DataKey
  <2>2. CASE DeleteDataParts(p)
    <3>1. Spared(p) # {} /\ meta'[p].parts = {e \in meta[p].parts : e.name \in Spared(p)}
      BY <1>1, <1>3, <2>2 DEF DeleteDataParts, TypeOK, Meta
    <3>2. PICK e \in meta[p].parts : DataOf(d[1], e) = d
      BY <1>2, <1>3, <1>4, AccountedAlone DEF Kept, InHands, Locked, AllPartsAt
    <3>3. e \in Part /\ PartOf(target[p], e)
      BY <1>2, <1>3, <3>2 DEF PartOf, Meta
    <3>4. e.link = NoBackup
      <4> SUFFICES ASSUME e.link = target[p] PROVE FALSE
        BY <1>4, <3>2 DEF DataOf
      <4>1. Started(target[p], meta[p].start) /\ meta[p].start \in Nat
        BY <1>2, <1>3 DEF Started, Meta
      <4> QED BY <1>1, <1>3, <3>3, <4>1 DEF LinksOlder
    <3>5. d[2] = e.name
      BY <1>1, <1>3, <3>2, <3>3, <3>4 DEF OwnNames, DataOf, StoredName
    <3>6. CASE e.name \in Spared(p)
      BY <1>2, <1>4, <3>1, <3>2, <3>6 DEF InMeta
    <3>7. CASE e.name \notin Spared(p)
      <4>1. [kind |-> "data", backup |-> target[p], part |-> e.name] \in pending'[p]
        BY <1>1, <2>2, <3>2, <3>4, <3>7 DEF DeleteDataParts, TypeOK
      <4> QED BY <1>4, <3>5, <4>1 DEF DataKey
    <3> QED BY <3>6, <3>7
  <2> QED BY <2>1, <2>2
<1> QED BY <1>2, <1>3, <1>4 DEF LeftBehind

LEMMA LeftBehindNext ==
    ASSUME LeakInv, NEW p \in Hosts, Progress(p) \/ StartCommand(p)
    PROVE  LeftBehind(p)'
<1> USE DEF Go, storage, locals, parts, dedup, deletion
<1>1. TypeOK /\ MetaKnown /\ PendingInv /\ Stage(p) /\ LeftBehind(p) /\ Quiet(p)
  BY DEF LeakInv, LifeInv, AccountInv, UnderLockInv, TypeInv
<1>2. CASE pc'[p] \notin {"x_wait", "x_partFull", "x_partLight", "b_finalLight"}
  BY <1>2 DEF LeftBehind
<1>3. CASE UploadFull(p) \/ UploadLight(p) \/ AcquireLock(p)
  <2>1. PICK step \in Sequel : step[1] = pc[p] /\ Go(p, step[2])
    BY <1>3 DEF AcquireLock, UploadFull, UploadLight, Advance
  <2>2. pc'[p] = step[2] /\ UNCHANGED <<target, meta>>
    BY <1>1, <1>3, <2>1 DEF AcquireLock, UploadFull, UploadLight, TypeOK
  <2>3. CASE pc'[p] \in {"x_partLight", "b_finalLight"}
    <3>1. /\ UploadFull(p) /\ light' = light
          /\ pc[p] = IF pc'[p] = "x_partLight" THEN "x_partFull" ELSE "b_finalFull"
      BY <1>3, <2>1, <2>2, <2>3
         DEF Sequel, OtherSequel, UploadFull, UploadLight, UploadLightAt, AcquireLock, Waiting
    <3>2. target[p] \in Backups
      BY <1>1, <3>1 DEF MetaKnown, HasMeta, UploadFull
    <3> QED BY <1>1, <2>2, <2>3, <3>1, <3>2 DEF LeftBehind, UploadFull, TypeOK
  <2>4. CASE pc'[p] \notin {"x_partLight", "b_finalLight"}
    <3>1. pc'[p] \notin {"x_wait", "x_partFull"}
      BY <2>1, <2>2 DEF Sequel, OtherSequel
    <3> QED BY <1>2, <2>4, <3>1
  <2> QED BY <2>3, <2>4
<1>4. CASE EraseKey(p)
  <2>1. PICK k \in pending[p] :
           /\ pending' = [pending EXCEPT ![p] = @ \ {k}]
           /\ light' = IF k.kind = "light" THEN [light EXCEPT ![k.backup] = NoMeta] ELSE light
           /\ data' = IF k.kind = "data" THEN {d \in data : <<d[1], d[2]>> # <<k.backup, k.part>>} ELSE data
           /\ UNCHANGED <<pc, target, meta, refs>>
    BY <1>4 DEF EraseKey
  <2>2. pc[p] = "x_wait" /\ Spared(p)' = Spared(p) /\ pending'[p] = pending[p] \ {k}
    BY <1>1, <2>1 DEF PendingInv, Spared, ReferencedIn, TypeOK
  <2>3. \A d \in data' : d \in data /\ DataKey(d) # k
    BY <2>1 DEF DataKey
  <2>4. Spared(p) # {} => light' = light
    BY <1>1, <2>1, <2>2 DEF Stage, Erasing
  <2> QED BY <1>1, <2>1, <2>2, <2>3, <2>4 DEF LeftBehind, InMeta
<1>5. CASE DeletionWaited(p)
  <2>1. /\ pc[p] = "x_wait" /\ pending[p] = {} /\ UNCHANGED <<full, light, data, target, refs, pending>>
        /\ Spared(p)' = Spared(p)
    BY <1>5 DEF DeletionWaited, Spared, ReferencedIn
  <2>2. meta[p] \in Meta
    BY <1>1, <2>1 DEF MetaKnown, HasMeta
  <2>3. CASE Spared(p) # {}
    <3>1. pc'[p] = "x_partFull" /\ meta'[p].parts = meta[p].parts
      BY <1>1, <1>5, <2>2, <2>3 DEF DeletionWaited, TypeOK, Meta
    <3> QED BY <1>1, <2>1, <2>3, <3>1 DEF LeftBehind, InMeta
  <2>4. CASE Spared(p) = {}
    BY <1>1, <1>2, <1>5, <2>4 DEF DeletionWaited, TypeOK
  <2> QED BY <2>3, <2>4
<1>6. CASE PutPart(p)
  BY <1>1, <1>2, <1>6 DEF PutPart, Quiet
<1>7. CASE LockTimeout(p) \/ ReleaseLock(p) \/ Exit(p) \/ SkipBackup(p) \/ StartCommand(p) \/ StartBackup(p)
  BY <1>1, <1>2, <1>7 DEF LockTimeout, ReleaseLock, Exit, SkipBackup, Forget, StartCommand, ListBackups, StartDelete,
                          StartPurge, StartBackup, TypeOK
<1>8. CASE BackupStep(p) /\ ~SkipBackup(p) /\ ~StartBackup(p) /\ ~PutPart(p)
  BY <1>1, <1>2, <1>8 DEF BackupStep, CollectDedupInfo, PopulateDedupInfo, ReloadFails, FreezeTable, DeduplicatePart,
                          ScheduleUpload, ObserveUpload, TableDone, BackupCreated, TypeOK
<1>9. CASE \/ PlanDelete(p) \/ BackupNotFound(p) \/ PlanPurge(p) \/ PurgeTypeError(p) \/ DeleteNext(p)
           \/ DeletionEnds(p)
  BY <1>1, <1>2, <1>9 DEF PlanDelete, BackupNotFound, PlanPurge, PurgeTypeError, DeleteBatch, DeleteNext,
                          DeletionEnds, TypeOK
<1> QED BY <1>3, <1>4, <1>5, <1>6, <1>7, <1>8, <1>9, ScheduleLeft DEF Progress, DeleteStep

\* A stored part that a listed backup has keeps its place, or is about to be deleted.
LEMMA KeptNext ==
    ASSUME LeakInv, NEW p \in Hosts, Progress(p) \/ StartCommand(p), TypeInv',
           NEW d \in data, d \in data', Kept(d)
    PROVE  Accounted(d)'
<1>1. TypeOK /\ MetaKnown /\ PendingInv /\ Stage(p) /\ LeftBehind(p) /\ Fresh(p) /\ d[1] \in Backups
  BY DEF LeakInv, LifeInv, AccountInv, UnderLockInv, TypeInv, HostInv, TypeOK
<1>2. CASE UploadFull(p)
  <2>1. /\ pc[p] \in UploadFullAt /\ target[p] \in Backups /\ meta[p] \in Meta /\ meta[p] # NoMeta
        /\ full' = [full EXCEPT ![target[p]] = meta[p]] /\ light' = light
    BY <1>1, <1>2, NoMetaIsAbsent DEF UploadFull, MetaKnown, HasMeta
  <2>2. CASE d[1] # target[p]
    BY <1>1, <2>1, <2>2 DEF Kept, Visible, Accounted, TypeOK
  <2>3. CASE d[1] = target[p]
    <3>1. full'[d[1]] = meta[p] /\ Visible(d[1])'
      BY <1>1, <2>1, <2>3 DEF Kept, Visible, TypeOK
    <3>2. pc[p] # "x_partFull" => full[target[p]].parts \subseteq meta[p].parts
      BY <1>1, <2>1, <2>3 DEF Fresh, Creates, Stage, Kept, Visible, UploadFullAt, BackupTry, TypeOK, Meta
    <3>3. \E e \in meta[p].parts : DataOf(d[1], e) = d
      BY <1>1, <2>3, <3>2 DEF Kept, LeftBehind, InMeta, PendingInv
    <3> QED BY <3>1, <3>3 DEF Accounted, Kept
  <2> QED BY <2>2, <2>3
<1>3. CASE ObserveUpload(p)
  <2>1. /\ pc[p] = "b_parts" /\ target[p] \in Backups /\ meta[p] \in Meta /\ light' = light
        /\ full' = full \/ full' = [full EXCEPT ![target[p]] = meta'[p]]
    BY <1>1, <1>3 DEF ObserveUpload, MetaKnown, HasMeta, BackupTry
  <2>2. PICK e \in Part : Joins(p, e)
    BY <1>1, <1>3, JoinNews DEF LeakInv, LifeInv, AccountInv, UnderLockInv
  <2>3. meta'[p].parts = meta[p].parts \cup {e} /\ meta'[p] # NoMeta
    BY <2>1, <2>2, AddPartsType, NoMetaIsAbsent DEF Joins, Meta
  <2>4. d[1] = target[p] => full[target[p]].parts \subseteq meta'[p].parts
    BY <1>1, <2>1, <2>3 DEF Fresh, Creates, BackupTry, Kept, Visible
  <2> QED BY <1>1, <2>1, <2>3, <2>4 DEF Kept, Visible, Accounted, TypeOK
<1>4. CASE EraseKey(p)
  <2>1. PICK k \in pending[p] :
           /\ pending' = [pending EXCEPT ![p] = @ \ {k}]
           /\ light' = IF k.kind = "light" THEN [light EXCEPT ![k.backup] = NoMeta] ELSE light
           /\ full' = IF k.kind = "full" THEN [full EXCEPT ![k.backup] = NoMeta] ELSE full
           /\ pc' = pc
    BY <1>4 DEF EraseKey
  <2>2. pc[p] = "x_wait" /\ k.backup = target[p] /\ target[p] \in Backups /\ pending'[p] = pending[p] \ {k}
    BY <1>1, <2>1 DEF PendingInv, Stage, MetaKnown, HasMeta, TypeOK
  <2>3. CASE k.kind = "data" \/ d[1] # target[p]
    BY <1>1, <2>1, <2>2, <2>3 DEF Kept, Visible, Accounted, TypeOK
  <2>4. CASE k.kind # "data" /\ d[1] = target[p]
    <3>1. Spared(p) = {}
      BY <1>1, <2>2, <2>4 DEF Stage, Erasing
    <3>2. DataKey(d) \in pending'[p]
      BY <1>1, <2>2, <2>4, <3>1 DEF LeftBehind, DataKey
    <3> QED BY <2>1, <2>2, <3>2 DEF Accounted, InHands
  <2> QED BY <2>3, <2>4
<1>5. CASE UploadLight(p)
  BY <1>1, <1>5, LightOfType, NoLightIsAbsent DEF UploadLight, MetaKnown, HasMeta, TypeOK, Kept, Visible, Accounted
<1>6. CASE UNCHANGED <<full, light>>
  BY <1>6 DEF Kept, Visible, Accounted
<1> QED BY <1>2, <1>3, <1>4, <1>5, <1>6, WhichStores

\* What the host that steps has in its hands stays there, or finds its place.
LEMMA HandsAccounted ==
    ASSUME LeakInv, NEW p \in Hosts, Progress(p) \/ StartCommand(p), TypeInv',
           NEW d \in data, d \in data', InHands(p, d)
    PROVE  Accounted(d)'
<1> USE DEF Go, storage, locals, parts, dedup, deletion
<1>1. TypeOK /\ MetaKnown /\ PendingInv /\ Stage(p) /\ LeftBehind(p) /\ d[1] \in Backups
  BY DEF LeakInv, LifeInv, AccountInv, UnderLockInv, TypeInv, TypeOK
<1>2. CASE pc[p] = "x_wait"
  <2>1. DataKey(d) \in pending[p]
    BY <1>2 DEF InHands, AllPartsAt
  <2>2. CASE EraseKey(p)
    <3>1. PICK k \in pending[p] :
             /\ pending' = [pending EXCEPT ![p] = @ \ {k}] /\ pc' = pc
             /\ data' = IF k.kind = "data" THEN {c \in data : <<c[1], c[2]>> # <<k.backup, k.part>>} ELSE data
      BY <2>2 DEF EraseKey
    <3>2. DataKey(d) # k
      BY <3>1 DEF DataKey
    <3>3. pc'[p] = "x_wait" /\ DataKey(d) \in pending'[p]
      BY <1>1, <1>2, <2>1, <3>1, <3>2 DEF TypeOK
    <3>4. InHands(p, d)'
      BY <3>3 DEF InHands, DataKey
    <3> QED BY <3>4 DEF Accounted
  <2>3. CASE ~EraseKey(p)
    <3>1. pc'[p] = "x_wait" /\ pending'[p] = pending[p]
      BY <1>1, <1>2, <2>1, <2>3, WaitStep
    <3>2. InHands(p, d)'
      BY <2>1, <3>1 DEF InHands, DataKey
    <3> QED BY <3>2 DEF Accounted
  <2> QED BY <2>2, <2>3
<1>3. CASE pc[p] \in AllPartsAt \cup {"b_parts"} /\ InMeta(p, d)
  <2>1. target[p] \in Backups /\ meta[p] \in Meta
    BY <1>1, <1>3 DEF MetaKnown, HasMeta, AllPartsAt, BackupTry, UploadFullAt, UploadLightAt
  <2>2. ASSUME pc'[p] \in AllPartsAt \cup {"b_parts"}, target'[p] = target[p], meta[p].parts \subseteq meta'[p].parts
        PROVE  Accounted(d)'
    <3>1. InHands(p, d)'
      BY <1>3, <2>2 DEF InHands, InMeta
    <3> QED BY <3>1 DEF Accounted
  <2>3. CASE UploadFull(p) \/ UploadLight(p)
    <3>1. PICK step \in Sequel : step[1] = pc[p] /\ Go(p, step[2])
      BY <2>3 DEF UploadFull, UploadLight, Advance
    <3>2. pc'[p] = step[2] /\ UNCHANGED <<target, meta>>
      BY <1>1, <2>3, <3>1 DEF UploadFull, UploadLight, TypeOK
    <3>3. pc[p] = "b_finalLight" \/ pc'[p] \in AllPartsAt
      BY <1>3, <3>1, <3>2, <2>3 DEF Sequel, OtherSequel, AllPartsAt, UploadFull, UploadLight, UploadFullAt, UploadLightAt
    <3>4. CASE pc[p] = "b_finalLight"
      <4>1. full'[d[1]] = meta[p] /\ meta[p] # NoMeta
        BY <1>1, <1>3, <2>1, <2>3, <3>4, NoMetaIsAbsent DEF LeftBehind, InMeta, UploadFull, UploadLight, UploadFullAt
      <4>2. light'[d[1]] # NoMeta
        BY <1>1, <1>3, <2>1, <2>3, <3>4, LightOfType, NoLightIsAbsent
           DEF InMeta, UploadFull, UploadLight, UploadFullAt, TypeOK
      <4>3. Kept(d)'
        BY <1>3, <4>1, <4>2 DEF Kept, Visible, InMeta
      <4> QED BY <4>3 DEF Accounted
    <3> QED BY <2>2, <3>2, <3>3, <3>4
  <2>4. CASE DeduplicatePart(p) \/ ObserveUpload(p)
    <3>1. PICK e \in Part : Joins(p, e)
      BY <1>1, <2>4, JoinNews DEF LeakInv, LifeInv, AccountInv, UnderLockInv
    <3>2. /\ pc'[p] = pc[p] /\ target'[p] = target[p]
          /\ meta'[p].parts = meta[p].parts \cup {e}
      BY <2>1, <3>1 DEF Joins, Meta
    <3> QED BY <1>3, <2>2, <3>2
  <2>5. CASE ScheduleUpload(p) \/ PutPart(p) \/ TableDone(p) \/ EraseKey(p)
    BY <1>1, <1>3, <2>2, <2>5 DEF ScheduleUpload, PutPart, TableDone, EraseKey, AllPartsAt, TypeOK
  <2>6. CASE BackupCreated(p)
    <3>1. meta'[p].parts = meta[p].parts
      BY <1>1, <2>1, <2>6 DEF BackupCreated, TypeOK, Meta
    <3> QED BY <1>1, <1>3, <2>2, <2>6, <3>1 DEF BackupCreated, AllPartsAt, TypeOK
  <2>7. ~(\/ AcquireLock(p) \/ LockTimeout(p) \/ ReleaseLock(p) \/ Exit(p) \/ StartCommand(p) \/ SkipBackup(p)
          \/ StartBackup(p) \/ CollectDedupInfo(p) \/ PopulateDedupInfo(p) \/ ReloadFails(p) \/ FreezeTable(p)
          \/ PlanDelete(p) \/ BackupNotFound(p) \/ PlanPurge(p) \/ PurgeTypeError(p) \/ DeleteNext(p)
          \/ DeletionEnds(p) \/ DeleteBackup(p) \/ DeleteDataParts(p) \/ DeletionWaited(p))
    BY <1>3 DEF AcquireLock, Waiting, LockTimeout, ReleaseLock, Exit, StartCommand, ListBackups, StartDelete,
                StartPurge, SkipBackup, StartBackup, CollectDedupInfo, PopulateDedupInfo, ReloadFails, FreezeTable,
                PlanDelete, BackupNotFound, PlanPurge, PurgeTypeError, DeleteNext, DeletionEnds, DeleteBackup,
                DeleteDataParts, DeletionWaited, AllPartsAt
  <2> QED BY <2>3, <2>4, <2>5, <2>6, <2>7 DEF Progress, BackupStep, DeleteStep
<1>4. CASE pc[p] = "b_parts" /\ target[p] = d[1] /\ \E f \in uploaded[p] : f.name = d[2] /\ f.sum = d[3]
  <2>1. target[p] \in Backups /\ meta[p] \in Meta
    BY <1>1, <1>4 DEF MetaKnown, HasMeta, BackupTry
  <2>2. PICK f \in uploaded[p] : f.name = d[2] /\ f.sum = d[3]
    BY <1>4
  <2>3. ASSUME pc'[p] = "b_parts", target'[p] = target[p], f \in uploaded'[p]
        PROVE  Accounted(d)'
    <3>1. InHands(p, d)'
      BY <1>4, <2>2, <2>3 DEF InHands
    <3> QED BY <3>1 DEF Accounted
  <2>4. CASE ObserveUpload(p)
    <3>1. PICK g \in uploaded[p] : /\ meta' = [meta EXCEPT ![p].parts = @ \cup {OwnPart(g)}]
                                   /\ uploaded' = [uploaded EXCEPT ![p] = @ \ {g}]
      BY <2>4 DEF ObserveUpload
    <3>2. UNCHANGED <<pc, target>>
      BY <2>4 DEF ObserveUpload
    <3>3. CASE g # f
      BY <1>1, <1>4, <2>2, <2>3, <3>1, <3>2, <3>3 DEF TypeOK
    <3>4. CASE g = f
      <4>1. OwnPart(f) \in meta'[p].parts
        BY <1>1, <2>1, <3>1, <3>4 DEF TypeOK, Meta
      <4>2. DataOf(d[1], OwnPart(f)) = d
        BY <1>1, <2>2 DEF DataOf, OwnPart, StoredName, TypeOK
      <4>3. InHands(p, d)'
        BY <1>4, <3>2, <4>1, <4>2 DEF InHands, InMeta
      <4> QED BY <4>3 DEF Accounted
    <3> QED BY <3>3, <3>4
  <2>5. CASE DeduplicatePart(p) \/ ScheduleUpload(p) \/ PutPart(p) \/ EraseKey(p)
    BY <1>1, <1>4, <2>2, <2>3, <2>5 DEF DeduplicatePart, ScheduleUpload, PutPart, EraseKey, TypeOK
  <2>6. ~TableDone(p)
    BY <1>4 DEF TableDone
  <2> QED BY <1>4, <2>4, <2>5, <2>6
          DEF Progress, StartCommand, BackupStep, DeleteStep, AcquireLock, Waiting, LockTimeout, ReleaseLock, Exit,
              UploadFull, UploadFullAt, UploadLight, UploadLightAt, ListBackups, StartDelete, StartPurge, SkipBackup,
              StartBackup, CollectDedupInfo, PopulateDedupInfo, ReloadFails, FreezeTable, BackupCreated, PlanDelete,
              BackupNotFound, PlanPurge, PurgeTypeError, DeleteNext, DeletionEnds, DeleteBackup, DeleteDataParts,
              DeletionWaited
<1> QED BY <1>2, <1>3, <1>4 DEF InHands

\* Faults are counted and never forgotten.
LEMMA FaultsGrow == TypeInv /\ [Next]_vars /\ faults' = 0 => faults = 0 /\ \A p \in Hosts : ~Fault(p)
<1> SUFFICES ASSUME TypeInv, [Next]_vars, faults' = 0
             PROVE  faults = 0 /\ \A p \in Hosts : ~Fault(p)
  OBVIOUS
<1>1. ASSUME NEW p \in Hosts PROVE ~Fault(p)
  BY DEF TypeInv, TypeOK, Fault
<1>2. faults' = faults
  BY <1>1 DEF Next, Progress, StartCommand, vars
<1> QED BY <1>1, <1>2

LEMMA LeakStep == UniqueNames /\ LeakInv /\ [Next]_vars /\ faults' = 0 => LeakInv'
<1> SUFFICES ASSUME UniqueNames, LeakInv, [Next]_vars, faults' = 0 PROVE LeakInv'
  OBVIOUS
<1>1. LifeInv' /\ TypeInv'
  BY LifeNext, NextType DEF LeakInv, LifeInv, AccountInv, UnderLockInv
<1>2. CASE UNCHANGED vars
  <2>1. ASSUME NEW p \in Hosts PROVE Quiet(p)' /\ LeftBehind(p)'
    BY <1>2 DEF vars, storage, locals, dedup, deletion, parts, LeakInv, Quiet, LeftBehind, Spared, InMeta
  <2>2. ASSUME NEW d \in data' PROVE Accounted(d)'
    BY <1>2 DEF vars, storage, locals, dedup, deletion, parts, LeakInv, Accounted, InHands, InMeta, Kept, Visible
  <2> QED BY <1>1, <2>1, <2>2 DEF LeakInv
<1>3. ASSUME NEW p \in Hosts, Progress(p) \/ StartCommand(p)
      PROVE  LeakInv'
  <2>1. ASSUME NEW q \in Hosts PROVE Quiet(q)' /\ LeftBehind(q)'
    BY <1>3, QuietNext, LeftBehindNext, LeakBystander
  <2>2. ASSUME NEW d \in data', d \in data PROVE Accounted(d)'
    <3>1. CASE Kept(d)
      BY <1>1, <1>3, <2>2, <3>1, KeptNext
    <3>2. CASE InHands(p, d)
      BY <1>1, <1>3, <2>2, <3>2, HandsAccounted
    <3>3. ASSUME NEW q \in Hosts \ {p}, InHands(q, d) PROVE Accounted(d)'
      <4>1. UNCHANGED <<pc[q], target[q], meta[q], uploaded[q], pending[q]>>
        BY <1>3, StepOthers DEF Others, LeakInv, LifeInv, AccountInv, UnderLockInv, TypeInv
      <4>2. InHands(q, d)'
        BY <3>3, <4>1 DEF InHands, InMeta
      <4> QED BY <4>2 DEF Accounted
    <3> QED BY <2>2, <3>1, <3>2, <3>3 DEF LeakInv, Accounted
  <2>3. ASSUME NEW d \in data', d \notin data PROVE Accounted(d)'
    <3>1. PutPart(p)
      BY <1>3, <2>3, WhichStores DEF EraseKey
    <3>2. PICK f \in uploading[p] : /\ data' = {c \in data : <<c[1], c[2]>> # <<target[p], f.name>>}
                                               \cup {<<target[p], f.name, f.sum>>}
                                    /\ uploaded' = [uploaded EXCEPT ![p] = @ \cup {f}]
      BY <3>1 DEF PutPart
    <3>3. d = <<target[p], f.name, f.sum>> /\ f \in uploaded'[p] /\ UNCHANGED <<pc, target>> /\ pc[p] = "b_parts"
      BY <2>3, <3>1, <3>2 DEF PutPart, LeakInv, LifeInv, AccountInv, UnderLockInv, TypeInv, TypeOK, Quiet
    <3>4. InHands(p, d)'
      BY <3>3 DEF InHands
    <3> QED BY <3>4 DEF Accounted
  <2> QED BY <1>1, <2>1, <2>2, <2>3 DEF LeakInv
<1>4. ASSUME NEW p \in Hosts PROVE ~Fault(p)
  BY FaultsGrow DEF LeakInv, LifeInv, AccountInv, UnderLockInv
<1> QED BY <1>2, <1>3, <1>4 DEF Next

LEMMA LeakInit == PurgesItsOwn /\ Init => LeakInv
<1> SUFFICES ASSUME PurgesItsOwn, Init PROVE LeakInv
  OBVIOUS
<1>1. data = {} /\ \A p \in Hosts : Quiet(p) /\ LeftBehind(p)
  BY DEF Init, Quiet, LeftBehind
<1> QED BY <1>1, LifeInit DEF LeakInv

\* Where hosts purge only what they back up themselves and each backup command has a
\* name of its own, what is stored between commands belongs to a backup that can be
\* listed and deleted, as long as nothing has failed: neither a backup nor a deletion
\* that ends leaves data no metadata tell of.
THEOREM NothingLeaks == PurgesItsOwn /\ UniqueNames /\ Spec => []NoLeak
<1> DEFINE Inv == UniqueNames /\ LifeInv /\ (faults = 0 => LeakInv)
<1>1. Inv /\ [Next]_vars => Inv'
  <2> SUFFICES ASSUME Inv, [Next]_vars PROVE Inv'
    OBVIOUS
  <2>1. UniqueNames' /\ LifeInv'
    BY LifeNext
  <2>2. ASSUME faults' = 0 PROVE LeakInv'
    <3>1. LeakInv
      BY <2>2, FaultsGrow DEF LifeInv, AccountInv, UnderLockInv
    <3> QED BY <2>2, <3>1, LeakStep
  <2> QED BY <2>1, <2>2
<1>2. PurgesItsOwn /\ UniqueNames /\ Init => Inv
  BY LeakInit, LifeInit
<1>3. Inv => NoLeak
  BY DEF LeakInv, NoLeak, Accounted, InHands, Kept, AllPartsAt
<1> QED BY <1>1, <1>2, <1>3, PTL DEF Spec

-----------------------------------------------------------------------------
(***************************************************************************)
(* The retention policy: a CREATED backup is purged only when retain_count *)
(* newer CREATED ones stay, while nobody deletes backups by name.          *)
(***************************************************************************)

(* What Retained keeps.                                                     *)

LEMMA HasNewest ==
    ASSUME NEW D, D # {}, NEW M \in Nat, \A t \in D : t.start \in 0..M
    PROVE  \E t \in D : \A u \in D : u.start <= t.start
<1> DEFINE ages == {M - t.start : t \in D}
<1>1. ages # {} /\ ages \subseteq Nat
  OBVIOUS
<1>2. PICK n \in ages : \A m \in ages : ~(<<m, n>> \in OpToRel(<, Nat))
  <2> HIDE DEF ages
  <2> QED BY <1>1, NatLessThanWellFounded, WFMin
<1>3. PICK t \in D : n = M - t.start
  BY <1>2
<1>4. ASSUME NEW u \in D
      PROVE  u.start <= t.start
  <2>1. M - u.start \in Nat /\ M - t.start \in Nat /\ M - u.start \in ages
    BY <1>3
  <2>2. ~(M - u.start < M - t.start)
    BY <1>2, <1>3, <2>1 DEF OpToRel
  <2> QED BY <2>2
<1> QED BY <1>4

ValidNewer(s, L) == {t \in NewerIn(s, L) : t.state = "created"}

\* Of the CREATED backups newer than one that is not retained, as many as the retain
\* count are retained: the newest ones, which have fewer before them.
LEMMA EnoughRetained ==
    ASSUME NEW L, IsFiniteSet(L), NEW M \in Nat, \A t \in L : t.start \in 0..M,
           NEW R \in Nat, NEW s \in L, R <= Cardinality(ValidNewer(s, L))
    PROVE  R <= Cardinality({t \in ValidNewer(s, L) : Cardinality(ValidNewer(t, L)) < R})
<1> DEFINE kept == {t \in ValidNewer(s, L) : Cardinality(ValidNewer(t, L)) < R}
           rest == ValidNewer(s, L) \ kept
<1>1. ValidNewer(s, L) \subseteq L /\ kept \subseteq L
  BY DEF ValidNewer, NewerIn
<1>2. IsFiniteSet(kept) /\ Cardinality(kept) \in Nat
  <2> HIDE DEF kept
  <2> QED BY <1>1, FS_Subset, FS_CardinalityType
<1> SUFFICES ASSUME Cardinality(kept) < R PROVE FALSE
  BY <1>2
<1>3. rest # {}
  <2> SUFFICES ASSUME rest = {} PROVE FALSE
    OBVIOUS
  <2>1. kept = ValidNewer(s, L)
    OBVIOUS
  <2> HIDE DEF kept
  <2> QED BY <1>2, <2>1
<1>4. PICK t \in rest : \A u \in rest : u.start <= t.start
  <2>1. \A u \in rest : u.start \in 0..M
    BY <1>1
  <2> HIDE DEF rest
  <2> QED BY <1>3, <2>1, HasNewest
<1>5. ValidNewer(t, L) \subseteq kept
  <2> SUFFICES ASSUME NEW u \in ValidNewer(t, L) PROVE u \in kept
    OBVIOUS
  <2>1. u \in L /\ u.start > t.start /\ u.state = "created" /\ t.start > s.start /\ t \in L
    BY DEF ValidNewer, NewerIn
  <2>2. u.start \in Nat /\ t.start \in Nat /\ s.start \in Nat
    BY <2>1
  <2>3. u \in ValidNewer(s, L)
    BY <2>1, <2>2 DEF ValidNewer, NewerIn
  <2>4. u \notin rest
    BY <1>4, <2>1, <2>2
  <2> QED BY <2>3, <2>4
<1>6. Cardinality(ValidNewer(t, L)) \in Nat /\ Cardinality(ValidNewer(t, L)) <= Cardinality(kept)
  <2> HIDE DEF kept
  <2> QED BY <1>2, <1>5, FS_Subset, FS_CardinalityType
<1>7. t \in kept
  <2>1. Cardinality(ValidNewer(t, L)) < R
    <3> HIDE DEF kept
    <3> QED BY <1>2, <1>6
  <2> QED BY <2>1
<1> QED BY <1>7

-----------------------------------------------------------------------------
(* What a deletion by the policy leaves.                                    *)

\* The CREATED backups that started after t, and those of them that are not in the
\* batch of host p.
ValidAfter(t) == {c \in Backups : Created(c) /\ full[c].start > t}
KeptAfter(p, t) == {c \in ValidAfter(t) : ~Doomed(p, c)}

\* Deletions are purges.
OnlyPurges == \A h \in Hosts : "delete" \notin Commands[h]

NoDeletes == \A p \in Hosts : pc[p] \notin {"d_lock", "d_plan"}

\* Light metadata say CREATED only when the full ones do, or say DELETING already.
LightAgrees ==
    \A b \in Backups : light[b] # NoMeta /\ light[b].state = "created" =>
        full[b] # NoMeta /\ full[b].state \in {"created", "deleting"}

LightMarked(p) ==
    /\ pc[p] = "b_finalLight" => full[target[p]] = meta[p]
    /\ pc[p] \in {"x_erase", "x_wait", "x_partFull"} /\ light[target[p]] # NoMeta =>
          light[target[p]].state # "created"

\* As many CREATED backups as the retain count are newer than any that is being
\* deleted, and stay.
Outdated ==
    \A b \in Backups : full[b] # NoMeta /\ full[b].state = "deleting" =>
        RetainCount <= Cardinality(ValidAfter(full[b].start))

BatchOutdated(p) ==
    /\ pc[p] \in Deletes \cup {"x_next"} =>
          \A s \in work[p] : RetainCount <= Cardinality(KeptAfter(p, s.start))
    /\ pc[p] = "x_markFull" => RetainCount <= Cardinality(KeptAfter(p, meta[p].start))

RetentionInv ==
    /\ LifeInv /\ LoadInv
    /\ NoDeletes
    /\ LightAgrees
    /\ Outdated
    /\ \A p \in Hosts : LightMarked(p) /\ BatchOutdated(p)

\* A purge, which knows all the backups there are, plans a deletion by the policy.
PlansPurge(p) ==
    /\ pc[p] = "p_plan"
    /\ \E limit : LET kept == Retained(Listing, RetainCount, limit) IN
          DeleteBatch(p, Listing \ kept, kept)
    /\ UNCHANGED <<storage, holder, clock, used, target, meta, dedup, parts, listed, pending>>

LEMMA PurgePlan ==
    ASSUME UnderLockInv, NEW p \in Hosts, PlanPurge(p)
    PROVE  PlansPurge(p)
<1> DEFINE known == {s \in Listing : s.name \in listed[p]}
           strangers == UNION {KeysOf(b) : b \in NamesOf(Listing \ known)}
<1>1. TypeOK /\ KnowsAll(p) /\ pc[p] = "p_plan"
  BY DEF UnderLockInv, TypeInv, PurgeInv, PlanPurge
<1>2. known = Listing
  BY <1>1 DEF KnowsAll, Described, Listing
<1>3. PICK limit : DeleteBatch(p, known \ Retained(known, RetainCount, limit), Retained(known, RetainCount, limit))
  BY DEF PlanPurge
<1>4. pending' = [pending EXCEPT ![p] = @ \cup strangers]
  BY DEF PlanPurge
<1>5. strangers = {}
  BY <1>2 DEF NamesOf
<1> HIDE DEF known, strangers
<1>6. pending' = pending
  BY <1>1, <1>4, <1>5 DEF TypeOK
<1> QED BY <1>1, <1>2, <1>3, <1>6 DEF PlanPurge, PlansPurge

\* Only a deletion marks a backup DELETING, and nothing else ends its being CREATED.
LEMMA WhoMarks ==
    ASSUME LifeInv, TypeInv', NEW p \in Hosts, Progress(p) \/ StartCommand(p) \/ Fault(p),
           NEW b \in Backups, full'[b] # full[b],
           Created(b) \/ (full'[b] # NoMeta /\ full'[b].state = "deleting")
    PROVE  UploadFull(p) /\ pc[p] = "x_markFull" /\ target[p] = b /\ full'[b] = meta[p]
<1>1. UnderLockInv /\ TypeOK /\ MetaKnown /\ Stage(p) /\ Fresh(p)
  BY DEF LifeInv, AccountInv, UnderLockInv, TypeInv, HostInv
<1>2. CASE full'[b] = NoMeta
  BY <1>2, LifeStep DEF Created
<1>3. CASE UploadFull(p) /\ target[p] = b /\ full'[b] = meta[p]
  <2>1. pc[p] \in UploadFullAt /\ meta[p] \in Meta
    BY <1>1, <1>3 DEF UploadFull, MetaKnown, HasMeta
  <2>2. pc[p] # "b_putFull"
    BY <1>1, <1>3 DEF Stage, Fresh, UnbornAt, Created
  <2>3. pc[p] # "b_tableFull"
    BY <1>1, <1>3 DEF Stage, BackupTry, Created
  <2>4. pc[p] # "b_finalFull"
    BY <1>1, <1>3 DEF Stage, Created
  <2>5. pc[p] # "x_partFull"
    BY <1>1, <1>3 DEF Stage, Created
  <2> QED BY <1>3, <2>1, <2>2, <2>3, <2>4, <2>5 DEF UploadFullAt
<1>4. CASE ObserveUpload(p) /\ target[p] = b /\ full'[b] = meta'[p]
  <2>1. pc[p] = "b_parts" /\ meta[p] \in Meta
    BY <1>1, <1>4 DEF ObserveUpload, MetaKnown, HasMeta, BackupTry
  <2>2. meta[p].state = "creating" /\ full[b].state = "creating"
    BY <1>1, <1>4, <2>1 DEF Stage, BackupTry
  <2>3. meta'[p].state = meta[p].state
    <3>1. PICK f : meta' = [meta EXCEPT ![p].parts = @ \cup {OwnPart(f)}]
      BY <1>4 DEF ObserveUpload
    <3> QED BY <1>1, <2>1, <3>1 DEF TypeOK, Meta
  <2> QED BY <1>4, <2>2, <2>3 DEF Created
<1> QED BY <1>1, <1>2, <1>3, <1>4, WhoPuts

\* A backup that is CREATED stays so unless a deletion marks it.
LEMMA ValidKept ==
    ASSUME LifeInv, TypeInv', NEW p \in Hosts, Progress(p) \/ StartCommand(p) \/ Fault(p), NEW t,
           NEW c \in ValidAfter(t), ~(UploadFull(p) /\ pc[p] = "x_markFull" /\ target[p] = c)
    PROVE  c \in ValidAfter(t)'
<1>1. c \in Backups /\ Created(c)
  BY DEF ValidAfter
<1>2. full'[c] = full[c]
  BY <1>1, WhoMarks
<1> QED BY <1>1, <1>2 DEF ValidAfter, Created

\* A command in a batch goes on with it, and takes no backup into it.
LEMMA BatchGoesOn ==
    ASSUME UnderLockInv, NoDeletes, NEW p \in Hosts, Progress(p) \/ StartCommand(p) \/ Fault(p),
           ~PlanPurge(p), pc'[p] \in Deletes \cup {"x_next"}
    PROVE  /\ pc[p] \in Deletes \cup {"x_next"}
           /\ work'[p] \subseteq work[p]
           /\ \/ DeleteNext(p)
              \/ UNCHANGED target[p] /\ (pc'[p] = "x_markFull" => UNCHANGED <<pc[p], meta[p]>>)
           /\ \A b : Doomed(p, b)' => Doomed(p, b)
<1> USE DEF Go, storage, locals, deletion, dedup, parts
<1>1. TypeOK /\ PendingInv
  BY DEF UnderLockInv, TypeInv
<1>2. CASE LockTimeout(p) \/ ReleaseLock(p) \/ Exit(p) \/ UploadError(p) \/ Crash(p)
  <2>1. pc'[p] \in {"idle", "exit", "unlock"}
    BY <1>1, <1>2 DEF TypeOK, LockTimeout, ReleaseLock, Exit, UploadError, Crash, Forget
  <2> QED BY <2>1 DEF Deletes
<1>3. CASE AcquireLock(p)
  <2>1. pc'[p] \in {"b_putFull", "d_plan", "p_plan"}
    BY <1>1, <1>3 DEF AcquireLock, Advance, Sequel, OtherSequel, Waiting, TypeOK
  <2> QED BY <2>1 DEF Deletes
<1>4. CASE UploadFull(p) \/ UploadLight(p)
  <2>1. PICK step \in Sequel : step[1] = pc[p] /\ Go(p, step[2])
    BY <1>4 DEF UploadFull, UploadLight, Advance
  <2>2. pc'[p] = step[2] /\ UNCHANGED <<target, work>>
    BY <1>1, <1>4, <2>1 DEF UploadFull, UploadLight, TypeOK
  <2>3. pc[p] \in UploadFullAt \cup UploadLightAt
    BY <1>4 DEF UploadFull, UploadLight
  <2>4. pc[p] \in Deletes /\ pc'[p] # "x_markFull"
    BY <2>1, <2>2, <2>3 DEF Sequel, OtherSequel, Deletes, UploadFullAt, UploadLightAt
  <2> QED BY <2>2, <2>4 DEF Doomed
<1>5. CASE PutPart(p)
  BY <1>1, <1>5 DEF PutPart, Doomed
<1>6. CASE BackupStep(p) \/ BackupFailed(p) \/ StartCommand(p)
  <2>1. CASE SkipBackup(p)
    BY <1>1, <2>1 DEF SkipBackup, Forget, TypeOK, Deletes
  <2>2. CASE StartBackup(p) \/ CollectDedupInfo(p) \/ PopulateDedupInfo(p) \/ ReloadFails(p) \/ FreezeTable(p)
    BY <1>1, <2>2 DEF TypeOK, StartBackup, CollectDedupInfo, PopulateDedupInfo, ReloadFails, FreezeTable, Deletes
  <2>3. CASE DeduplicatePart(p) \/ ScheduleUpload(p) \/ ObserveUpload(p) \/ TableDone(p) \/ BackupCreated(p)
    BY <1>1, <2>3 DEF TypeOK, DeduplicatePart, ScheduleUpload, ObserveUpload, TableDone, BackupCreated, Deletes
  <2>4. CASE BackupFailed(p) \/ StartCommand(p)
    BY <1>1, <2>4 DEF TypeOK, BackupFailed, StartCommand, ListBackups, StartDelete, StartPurge, Deletes
  <2> QED BY <1>5, <1>6, <2>1, <2>2, <2>3, <2>4 DEF BackupStep
<1>7. CASE PlanDelete(p) \/ BackupNotFound(p) \/ PurgeTypeError(p) \/ DeletionEnds(p) \/ DeletionFailed(p)
  BY <1>1, <1>7 DEF NoDeletes, PlanDelete, BackupNotFound, PurgeTypeError, DeletionEnds, DeletionFailed, TypeOK,
                    Deletes
<1>8. CASE DeleteNext(p)
  <2>1. PICK s \in work[p] : target'[p] = s.name /\ work'[p] = work[p] \ {s}
    BY <1>1, <1>8 DEF DeleteNext, TypeOK
  <2>2. pc[p] = "x_next"
    BY <1>8 DEF DeleteNext
  <2> QED BY <1>8, <2>1, <2>2 DEF Doomed, NamesOf
<1>9. CASE DeleteBackup(p) \/ DeleteDataParts(p) \/ DeletionWaited(p)
  <2>1. pc[p] \in {"x_erase", "x_wait"} /\ pc'[p] \in {"x_wait", "x_next", "x_partFull"} /\ UNCHANGED <<target, work>>
    BY <1>1, <1>9 DEF DeleteBackup, DeleteDataParts, DeletionWaited, TypeOK
  <2> QED BY <2>1 DEF Doomed, Deletes
<1>10. CASE EraseKey(p) \/ UnfreezeFailed(p)
  <2>1. pc[p] = "x_wait" /\ pc' = pc /\ target' = target /\ work'[p] \subseteq work[p]
    BY <1>1, <1>10 DEF EraseKey, UnfreezeFailed, TypeOK, PendingInv
  <2> QED BY <2>1 DEF Doomed, Deletes, NamesOf
<1> QED BY <1>2, <1>3, <1>4, <1>6, <1>7, <1>8, <1>9, <1>10 DEF Progress, Fault, DeleteStep

\* What the policy retains of the listed backups are enough CREATED ones, or else a
\* backup whose deletion has begun and for which enough were found.
LEMMA PlanRetains ==
    ASSUME IsFiniteSet(Backups), RetainCount \in Nat, RetentionInv, NEW p \in Hosts, NEW limit,
           NEW s \in Listing, s \notin Retained(Listing, RetainCount, limit)
    PROVE  RetainCount <= Cardinality(
             {c \in ValidAfter(s.start) : c \notin NamesOf(Listing \ Retained(Listing, RetainCount, limit))})
<1> DEFINE R == RetainCount
           kept == Retained(Listing, R, limit)
           enough == {t \in ValidNewer(s, Listing) : Cardinality(ValidNewer(t, Listing)) < R}
           stay(t) == {c \in ValidAfter(t) : c \notin NamesOf(Listing \ kept)}
<1>1. TypeOK /\ StartsAgree /\ CreatedListed /\ LightAgrees /\ Outdated
  BY DEF RetentionInv, LifeInv, AccountInv, UnderLockInv, TypeInv, Agree
<1>2. \A t \in Listing : /\ t.name \in Backups /\ light[t.name] # NoMeta /\ t.start = light[t.name].start
                         /\ t.state = light[t.name].state /\ t.start \in Nat
  BY <1>1 DEF Listing, TypeOK, Light
<1>3. \A t, u \in Listing : t.name = u.name => t = u
  BY DEF Listing
<1>4. ASSUME NEW b \in Backups, full[b] # NoMeta, light[b] # NoMeta
      PROVE  full[b].start = light[b].start /\ full[b].start \in Nat
  <2>1. full[b].start \in Nat /\ light[b].start \in Nat
    BY <1>1, <1>4 DEF TypeOK, Meta, Light
  <2>2. Started(b, full[b].start) /\ Started(b, light[b].start)
    BY <1>4 DEF Started
  <2> QED BY <1>1, <2>1, <2>2 DEF StartsAgree
<1>5. \A t \in Listing : t.start \in 0..clock
  <2> SUFFICES ASSUME NEW t \in Listing PROVE t.start \in 0..clock
    OBVIOUS
  <2>1. Started(t.name, t.start) /\ t.start \in Nat /\ clock \in Nat
    BY <1>1, <1>2 DEF Started, TypeOK
  <2> QED BY <1>1, <1>2, <2>1 DEF StartsAgree
<1>6. IsFiniteSet(Listing)
  <2> DEFINE names == NamesOf(Listing)
             record == [b \in names |-> [name |-> b, start |-> light[b].start, state |-> light[b].state]]
  <2>1. names \subseteq Backups
    BY <1>2 DEF NamesOf
  <2>2. IsFiniteSet(names)
    <3> HIDE DEF names
    <3> QED BY <2>1, FS_Subset
  <2>3. record \in Surjection(names, Listing)
    <3>1. \A b \in names : record[b] \in Listing
      BY DEF NamesOf, Listing
    <3>2. \A t \in Listing : t.name \in names /\ record[t.name] = t
      BY DEF NamesOf, Listing
    <3> HIDE DEF names
    <3> QED BY <3>1, <3>2 DEF Surjection
  <2> HIDE DEF names, record
  <2> QED BY <2>2, <2>3, FS_Surjection
<1>7. R <= Cardinality(enough)
  <2>1. R \in Nat /\ clock \in Nat
    BY <1>1 DEF TypeOK
  <2>2. ~(Cardinality(ValidNewer(s, Listing)) < R)
    BY DEF Retained, ValidNewer
  <2>3. Cardinality(ValidNewer(s, Listing)) \in Nat
    <3>1. ValidNewer(s, Listing) \subseteq Listing
      BY DEF ValidNewer, NewerIn
    <3> QED BY <1>6, <3>1, FS_Subset, FS_CardinalityType
  <2>4. R <= Cardinality(ValidNewer(s, Listing))
    BY <2>1, <2>2, <2>3
  <2> HIDE DEF R
  <2> QED BY <1>5, <1>6, <2>1, <2>4, EnoughRetained
<1>8. \A t \in enough : t \in kept /\ t \in Listing /\ t.start > s.start /\ t.state = "created"
  BY DEF Retained, ValidNewer, NewerIn
<1>9. IsFiniteSet(stay(s.start)) /\ Cardinality(stay(s.start)) \in Nat
  <2>1. stay(s.start) \subseteq Backups
    BY DEF ValidAfter
  <2> HIDE DEF stay
  <2> QED BY <2>1, FS_Subset, FS_CardinalityType
<1>10. CASE \A t \in enough : Created(t.name)
  <2> DEFINE name == [t \in enough |-> t.name]
  <2>1. ASSUME NEW t \in enough
        PROVE  t.name \in stay(s.start)
    <3>1. t.name \in Backups /\ full[t.name] # NoMeta /\ t \in Listing /\ t \in kept /\ t.start > s.start
      BY <1>2, <1>8, <1>10 DEF Created
    <3>2. full[t.name].start = t.start
      BY <1>2, <1>4, <3>1
    <3>3. t.name \notin NamesOf(Listing \ kept)
      BY <1>3, <3>1 DEF NamesOf
    <3> QED BY <1>10, <3>1, <3>2, <3>3 DEF ValidAfter
  <2>2. name \in Injection(enough, stay(s.start))
    <3> HIDE DEF kept, stay, enough
    <3> QED BY <1>3, <1>8, <2>1 DEF Injection, IsInjective
  <2>3. Cardinality(enough) <= Cardinality(stay(s.start)) /\ IsFiniteSet(enough)
    <3> HIDE DEF name, enough, stay
    <3> QED BY <1>9, <2>2, FS_Injection
  <2>4. Cardinality(enough) \in Nat
    <3> HIDE DEF enough
    <3> QED BY <2>3, FS_CardinalityType
  <2> QED BY <1>7, <1>9, <2>3, <2>4
<1>11. ASSUME NEW t \in enough, ~Created(t.name)
       PROVE  R <= Cardinality(stay(s.start))
  <2>1. t \in Listing /\ t.start > s.start /\ t.name \in Backups /\ t.start \in Nat /\ s.start \in Nat
    BY <1>2, <1>8
  <2>2. full[t.name] # NoMeta /\ full[t.name].state = "deleting"
    BY <1>1, <1>2, <1>8, <1>11 DEF LightAgrees, Created
  <2>3. full[t.name].start = t.start
    BY <1>2, <1>4, <2>1, <2>2
  <2>4. R <= Cardinality(ValidAfter(t.start))
    BY <1>1, <2>1, <2>2, <2>3 DEF Outdated
  <2>5. ASSUME NEW c \in ValidAfter(t.start)
        PROVE  c \in stay(s.start)
    <3>1. c \in Backups /\ full[c] # NoMeta /\ light[c] # NoMeta /\ full[c].start > t.start
      BY <1>1 DEF ValidAfter, Created, CreatedListed
    <3>2. PICK x \in Listing : x.name = c /\ x.start = full[c].start
      <4>1. [name |-> c, start |-> light[c].start, state |-> light[c].state] \in Listing
        BY <3>1 DEF Listing
      <4> QED BY <1>4, <3>1, <4>1
    <3>3. x.start \in Nat /\ x.start > t.start
      BY <1>2, <3>1, <3>2
    <3>4. ValidNewer(x, Listing) \subseteq ValidNewer(t, Listing)
      BY <1>2, <2>1, <3>3 DEF ValidNewer, NewerIn
    <3>5. IsFiniteSet(ValidNewer(t, Listing))
      <4>1. ValidNewer(t, Listing) \subseteq Listing
        BY DEF ValidNewer, NewerIn
      <4> QED BY <1>6, <4>1, FS_Subset
    <3>6. Cardinality(ValidNewer(x, Listing)) < R
      <4>1. Cardinality(ValidNewer(t, Listing)) < R
        OBVIOUS
      <4> QED BY <3>4, <3>5, <4>1, FS_Subset, FS_CardinalityType
    <3>7. x \in kept
      BY <3>6 DEF Retained, ValidNewer
    <3>8. c \notin NamesOf(Listing \ kept)
      BY <1>3, <3>2, <3>7 DEF NamesOf
    <3>9. full[c].start > s.start
      BY <2>1, <3>2, <3>3
    <3> QED BY <3>8, <3>9 DEF ValidAfter
  <2>6. Cardinality(ValidAfter(t.start)) <= Cardinality(stay(s.start)) /\ IsFiniteSet(ValidAfter(t.start))
    <3> HIDE DEF stay
    <3> QED BY <1>9, <2>5, FS_Subset
  <2>7. Cardinality(ValidAfter(t.start)) \in Nat
    BY <2>6, FS_CardinalityType
  <2> HIDE DEF stay
  <2> QED BY <1>9, <2>4, <2>6, <2>7
<1> QED BY <1>10, <1>11

-----------------------------------------------------------------------------
(* The steps.                                                               *)

\* Sets of backups are finite: what grows has no fewer elements.
LEMMA MoreBackups ==
    ASSUME IsFiniteSet(Backups), NEW S, NEW T, S \subseteq T, T \subseteq Backups,
           NEW R \in Nat, R <= Cardinality(S)
    PROVE  R <= Cardinality(T)
<1>1. IsFiniteSet(T)
  BY FS_Subset
<1>2. Cardinality(S) <= Cardinality(T) /\ IsFiniteSet(S)
  BY <1>1, FS_Subset
<1> QED BY <1>1, <1>2, FS_CardinalityType

LEMMA NoDeletesNext ==
    ASSUME OnlyPurges, TypeOK, NoDeletes, NEW p \in Hosts, Progress(p) \/ StartCommand(p) \/ Fault(p)
    PROVE  NoDeletes'
<1> USE DEF Go, TypeOK, locals, deletion, dedup, parts
<1>1. SUFFICES pc'[p] \notin {"d_lock", "d_plan"}
  BY StepOthers DEF NoDeletes, Others
<1>2. pc[p] \notin {"d_lock", "d_plan"}
  BY DEF NoDeletes
<1>3. CASE AcquireLock(p) \/ UploadFull(p) \/ UploadLight(p)
  BY <1>2, <1>3 DEF AcquireLock, UploadFull, UploadLight, Advance, Sequel, OtherSequel
<1>4. CASE LockTimeout(p) \/ ReleaseLock(p) \/ Exit(p) \/ UploadError(p) \/ Crash(p)
  BY <1>4 DEF LockTimeout, ReleaseLock, Exit, UploadError, Crash, Forget
<1>5. CASE BackupStep(p) \/ BackupFailed(p)
  BY <1>2, <1>5 DEF BackupStep, SkipBackup, Forget, StartBackup, CollectDedupInfo, PopulateDedupInfo,
                    ReloadFails, FreezeTable, DeduplicatePart, ScheduleUpload, PutPart, ObserveUpload,
                    TableDone, BackupCreated, BackupFailed
<1>6. CASE StartCommand(p)
  BY <1>6 DEF StartCommand, ListBackups, StartDelete, StartPurge, OnlyPurges
<1>7. CASE DeleteStep(p) \/ DeletionFailed(p) \/ UnfreezeFailed(p)
  <2>1. CASE PlanDelete(p) \/ PlanPurge(p)
    <3>1. PICK deleting, retained : DeleteBatch(p, deleting, retained)
      BY <2>1 DEF PlanDelete, PlanPurge
    <3> QED BY <3>1 DEF DeleteBatch
  <2>2. CASE BackupNotFound(p) \/ PurgeTypeError(p) \/ DeletionEnds(p) \/ DeletionFailed(p) \/ UnfreezeFailed(p)
    BY <2>2 DEF BackupNotFound, PurgeTypeError, DeletionEnds, DeletionFailed, UnfreezeFailed
  <2>3. CASE DeleteNext(p) \/ DeleteBackup(p) \/ DeleteDataParts(p) \/ EraseKey(p) \/ DeletionWaited(p)
    BY <1>2, <2>3 DEF DeleteNext, DeleteBackup, DeleteDataParts, EraseKey, DeletionWaited
  <2> QED BY <1>7, <2>1, <2>2, <2>3 DEF DeleteStep
<1> QED BY <1>3, <1>4, <1>5, <1>6, <1>7 DEF Progress, Fault

LEMMA LightMarkedNext ==
    ASSUME RetentionInv, NEW p \in Hosts, Progress(p) \/ StartCommand(p) \/ Fault(p)
    PROVE  LightMarked(p)'
<1> USE DEF Go, storage, locals, deletion, dedup, parts
<1>1. UnderLockInv /\ TypeOK /\ MetaKnown /\ PendingInv /\ Stage(p) /\ LightMarked(p)
  BY DEF RetentionInv, LifeInv, AccountInv, UnderLockInv, TypeInv
<1>2. CASE pc'[p] \notin {"b_finalLight", "x_erase", "x_wait", "x_partFull"}
  BY <1>2 DEF LightMarked
<1>3. CASE AcquireLock(p) \/ UploadFull(p) \/ UploadLight(p)
  <2>1. PICK step \in Sequel : step[1] = pc[p] /\ Go(p, step[2])
    BY <1>3 DEF AcquireLock, UploadFull, UploadLight, Advance
  <2>2. pc'[p] = step[2] /\ UNCHANGED <<target, meta>>
    BY <1>1, <1>3, <2>1 DEF AcquireLock, UploadFull, UploadLight, TypeOK
  <2>3. CASE pc[p] = "b_finalFull" /\ pc'[p] = "b_finalLight"
    <3>1. UploadFull(p)
      BY <1>3, <2>3 DEF AcquireLock, UploadLight, UploadLightAt, Waiting
    <3>2. target[p] \in Backups
      BY <1>1, <2>3 DEF MetaKnown, HasMeta, UploadFullAt
    <3> QED BY <1>1, <2>2, <2>3, <3>1, <3>2 DEF UploadFull, LightMarked, TypeOK
  <2>4. CASE pc[p] = "x_markLight" /\ pc'[p] = "x_erase"
    <3>1. UploadLight(p)
      BY <1>3, <2>4 DEF AcquireLock, UploadFull, UploadFullAt, Waiting
    <3>2. target[p] \in Backups /\ meta[p].state = "deleting"
      BY <1>1, <2>4 DEF MetaKnown, HasMeta, UploadLightAt, Stage
    <3> QED BY <1>1, <2>2, <2>4, <3>1, <3>2 DEF UploadLight, LightOf, LightMarked, TypeOK
  <2> QED BY <1>2, <2>1, <2>2, <2>3, <2>4 DEF Sequel, OtherSequel
<1>4. CASE LockTimeout(p) \/ ReleaseLock(p) \/ Exit(p) \/ UploadError(p) \/ Crash(p)
  BY <1>1, <1>2, <1>4 DEF TypeOK, LockTimeout, ReleaseLock, Exit, UploadError, Crash, Forget
<1>5. CASE PutPart(p)
  BY <1>1, <1>5 DEF PutPart, LightMarked
<1>6. CASE BackupStep(p) \/ BackupFailed(p) \/ StartCommand(p)
  <2>1. CASE SkipBackup(p)
    BY <1>1, <1>2, <2>1 DEF SkipBackup, Forget, TypeOK
  <2>2. CASE StartBackup(p) \/ CollectDedupInfo(p) \/ PopulateDedupInfo(p) \/ ReloadFails(p) \/ FreezeTable(p)
    BY <1>1, <1>2, <2>2 DEF TypeOK, StartBackup, CollectDedupInfo, PopulateDedupInfo, ReloadFails, FreezeTable
  <2>3. CASE DeduplicatePart(p) \/ ScheduleUpload(p) \/ ObserveUpload(p) \/ TableDone(p) \/ BackupCreated(p)
    BY <1>1, <1>2, <2>3 DEF TypeOK, DeduplicatePart, ScheduleUpload, ObserveUpload, TableDone, BackupCreated
  <2>4. CASE BackupFailed(p) \/ StartCommand(p)
    BY <1>1, <1>2, <2>4 DEF TypeOK, BackupFailed, StartCommand, ListBackups, StartDelete, StartPurge
  <2> QED BY <1>5, <1>6, <2>1, <2>2, <2>3, <2>4 DEF BackupStep
<1>7. CASE \/ PlanDelete(p) \/ BackupNotFound(p) \/ PlanPurge(p) \/ PurgeTypeError(p)
           \/ DeleteNext(p) \/ DeletionEnds(p) \/ DeletionFailed(p)
  <2>1. pc'[p] \in {"x_next", "x_markFull", "unlock"}
    BY <1>1, <1>7 DEF TypeOK, PlanDelete, BackupNotFound, PlanPurge, PurgeTypeError, DeleteBatch, DeleteNext,
                      DeletionEnds, DeletionFailed
  <2> QED BY <1>2, <2>1
<1>8. CASE DeleteBackup(p) \/ DeleteDataParts(p) \/ DeletionWaited(p)
  <2>1. pc[p] \in {"x_erase", "x_wait"} /\ pc'[p] # "b_finalLight" /\ UNCHANGED <<light, target>>
    BY <1>1, <1>8 DEF TypeOK, DeleteBackup, DeleteDataParts, DeletionWaited
  <2> QED BY <1>1, <2>1 DEF LightMarked
<1>9. CASE EraseKey(p) \/ UnfreezeFailed(p)
  <2>1. pc[p] = "x_wait" /\ UNCHANGED <<pc, target>>
    BY <1>1, <1>9 DEF TypeOK, EraseKey, UnfreezeFailed, PendingInv
  <2>2. target[p] \in Backups
    BY <1>1, <2>1 DEF MetaKnown, HasMeta
  <2>3. light'[target[p]] \in {NoMeta, light[target[p]]}
    BY <1>1, <1>9, <2>2 DEF EraseKey, UnfreezeFailed, TypeOK
  <2> QED BY <1>1, <2>1, <2>3 DEF LightMarked
<1> QED BY <1>3, <1>4, <1>6, <1>7, <1>8, <1>9 DEF Progress, Fault, DeleteStep

LEMMA LightAgreesNext ==
    ASSUME RetentionInv, TypeInv', ListedLoadable', NEW p \in Hosts, Progress(p) \/ StartCommand(p) \/ Fault(p)
    PROVE  LightAgrees'
<1>1. UnderLockInv /\ LifeInv /\ TypeOK /\ MetaKnown /\ Stage(p) /\ LightMarked(p) /\ LightAgrees
  BY DEF RetentionInv, LifeInv, AccountInv, UnderLockInv, TypeInv
<1> SUFFICES ASSUME NEW b \in Backups, light'[b] # NoMeta, light'[b].state = "created"
             PROVE  full'[b] # NoMeta /\ full'[b].state \in {"created", "deleting"}
  BY DEF LightAgrees
<1>2. CASE light'[b] = light[b]
  <2>1. full[b] # NoMeta /\ full[b].state \in {"created", "deleting"} /\ full'[b] # NoMeta
    BY <1>1, <1>2 DEF LightAgrees, ListedLoadable
  <2>2. ASSUME full'[b] # full[b], full'[b].state = "partially_deleted"
        PROVE  FALSE
    <3>1. \/ UploadFull(p) /\ target[p] = b /\ full'[b] = meta[p]
          \/ ObserveUpload(p) /\ target[p] = b
      BY <1>1, <2>1, <2>2, WhoPuts
    <3>2. CASE UploadFull(p) /\ target[p] = b /\ full'[b] = meta[p]
      <4>1. pc[p] \in UploadFullAt /\ meta[p].state = "partially_deleted"
        BY <2>2, <3>2 DEF UploadFull
      <4>2. pc[p] # "x_markFull"
        BY <1>1, <4>1 DEF Stage, TypeOK, Meta, MetaKnown, HasMeta
      <4>3. pc[p] = "x_partFull"
        BY <1>1, <4>1, <4>2 DEF Stage, UploadFullAt, BackupTry
      <4> QED BY <1>1, <1>2, <3>2, <4>3 DEF LightMarked
    <3>3. CASE ObserveUpload(p) /\ target[p] = b
      BY <1>1, <2>1, <3>3 DEF ObserveUpload, Stage, BackupTry
    <3> QED BY <3>1, <3>2, <3>3
  <2>3. CASE full'[b] # full[b]
    <3>1. full'[b].state \in Follows(full[b].state)
      BY <1>1, <2>1, <2>3, LifeStep
    <3> QED BY <2>1, <2>2, <2>3, <3>1 DEF Follows
  <2> QED BY <2>1, <2>3
<1>3. CASE light'[b] # light[b]
  <2>1. ~EraseKey(p)
    BY <1>1, <1>3 DEF EraseKey, TypeOK
  <2>2. UploadLight(p)
    BY <1>3, <2>1, WhichStores
  <2>3. pc[p] \in UploadLightAt /\ meta[p] \in Meta /\ target[p] = b /\ light'[b] = LightOf(meta[p]) /\ full' = full
    BY <1>1, <1>3, <2>2 DEF UploadLight, TypeOK, MetaKnown, HasMeta
  <2>4. meta[p].state = "created" /\ meta[p] # NoMeta
    BY <2>3, NoMetaIsAbsent DEF LightOf
  <2>5. pc[p] \in {"b_finalLight", "x_partLight"}
    BY <1>1, <2>3, <2>4 DEF UploadLightAt, Stage, BackupTry
  <2>6. full[b] = meta[p]
    BY <1>1, <2>3, <2>5 DEF Stage, LightMarked
  <2> QED BY <2>3, <2>4, <2>6
<1> QED BY <1>2, <1>3

LEMMA OutdatedNext ==
    ASSUME IsFiniteSet(Backups), RetainCount \in Nat, RetentionInv, TypeInv', NEW p \in Hosts,
           Progress(p) \/ StartCommand(p) \/ Fault(p)
    PROVE  Outdated'
<1>1. LifeInv /\ TypeOK /\ MetaKnown /\ Stage(p) /\ BatchOutdated(p) /\ Outdated
  BY DEF RetentionInv, LifeInv, AccountInv, UnderLockInv, TypeInv
<1> SUFFICES ASSUME NEW b \in Backups, full'[b] # NoMeta, full'[b].state = "deleting"
             PROVE  RetainCount <= Cardinality(ValidAfter(full[b].start)')
  BY DEF Outdated, ValidAfter, Created
<1> DEFINE t == full'[b].start
<1>2. t \in Nat /\ TypeOK' /\ ValidAfter(full[b].start)' \subseteq Backups
  BY DEF TypeInv, TypeOK, Meta, ValidAfter
<1>3. CASE UploadFull(p) /\ pc[p] = "x_markFull"
  <2> DEFINE m == meta[p].start
  <2>1. /\ meta[p] \in Meta /\ target[p] \in Backups /\ full' = [full EXCEPT ![target[p]] = meta[p]]
        /\ full[target[p]] \in Meta /\ meta[p] = [full[target[p]] EXCEPT !.state = "deleting"]
    BY <1>1, <1>3 DEF UploadFull, MetaKnown, HasMeta, UploadFullAt, Stage, TypeOK
  <2>2. m \in Nat /\ full[target[p]].start = m /\ full'[target[p]] = meta[p]
    BY <1>1, <2>1 DEF Meta, TypeOK
  <2>3. CASE t <= m
    <3>1. RetainCount <= Cardinality(KeptAfter(p, m))
      BY <1>1, <1>3 DEF BatchOutdated
    <3>2. ASSUME NEW c \in KeptAfter(p, m)
          PROVE  c \in ValidAfter(full[b].start)'
      <4>1. c # target[p] /\ c \in ValidAfter(m)
        BY <1>3 DEF KeptAfter, Doomed, Deletes
      <4>2. full'[c] = full[c] /\ c \in Backups /\ Created(c) /\ full[c].start > m
        BY <1>1, <2>1, <4>1 DEF ValidAfter, TypeOK
      <4>3. full[c].start \in Nat
        BY <1>1, <4>2 DEF TypeOK, Meta, Created
      <4>4. full[c].start > t
        BY <1>2, <2>2, <2>3, <4>2, <4>3
      <4> QED BY <4>2, <4>4 DEF ValidAfter, Created
    <3> HIDE DEF m
    <3> QED BY <1>2, <3>1, <3>2, MoreBackups
  <2>4. CASE t > m
    <3>1. b # target[p]
      BY <1>2, <2>2, <2>4
    <3>2. full'[b] = full[b]
      BY <1>1, <2>1, <3>1 DEF TypeOK
    <3>3. RetainCount <= Cardinality(ValidAfter(full[b].start))
      BY <1>1, <3>2 DEF Outdated
    <3>4. ASSUME NEW c \in ValidAfter(full[b].start)
          PROVE  c \in ValidAfter(full[b].start)'
      <4>1. c # target[p]
        BY <1>2, <2>2, <2>4, <3>2 DEF ValidAfter
      <4>2. full'[c] = full[c] /\ c \in Backups
        BY <1>1, <2>1, <4>1 DEF TypeOK, ValidAfter
      <4> QED BY <3>2, <4>2 DEF ValidAfter, Created
    <3> QED BY <1>2, <3>3, <3>4, MoreBackups
  <2> QED BY <1>2, <2>2, <2>3, <2>4
<1>4. CASE ~(UploadFull(p) /\ pc[p] = "x_markFull")
  <2>1. full'[b] = full[b]
    BY <1>1, <1>4, WhoMarks
  <2>2. RetainCount <= Cardinality(ValidAfter(full[b].start))
    BY <1>1, <2>1 DEF Outdated
  <2>3. \A c \in ValidAfter(full[b].start) : full'[c] = full[c]
    BY <1>1, <1>4, WhoMarks DEF ValidAfter
  <2>4. ValidAfter(full[b].start) \subseteq ValidAfter(full[b].start)'
    BY <2>1, <2>3 DEF ValidAfter, Created
  <2> QED BY <1>2, <2>2, <2>4, MoreBackups
<1> QED BY <1>3, <1>4

\* What stays when the batch is planned stays to its end.
LEMMA PlanOutdated ==
    ASSUME IsFiniteSet(Backups), RetainCount \in Nat, RetentionInv, NEW p \in Hosts, PlansPurge(p)
    PROVE  BatchOutdated(p)'
<1>1. TypeOK
  BY DEF RetentionInv, LifeInv, AccountInv, UnderLockInv, TypeInv
<1>2. PICK limit : DeleteBatch(p, Listing \ Retained(Listing, RetainCount, limit),
                               Retained(Listing, RetainCount, limit))
  BY DEF PlansPurge
<1> DEFINE batch == Listing \ Retained(Listing, RetainCount, limit)
<1>3. CASE pc'[p] = "x_next"
  <2>1. work'[p] = batch /\ full' = full
    BY <1>1, <1>2, <1>3 DEF DeleteBatch, Go, TypeOK, PlansPurge, storage
  <2>2. ASSUME NEW s \in batch
        PROVE  RetainCount <= Cardinality(KeptAfter(p, s.start)')
    <3>1. KeptAfter(p, s.start)' = {c \in ValidAfter(s.start) : c \notin NamesOf(batch)}
      <4> HIDE DEF batch
      <4> QED BY <1>3, <2>1 DEF KeptAfter, ValidAfter, Created, Doomed, Deletes
    <3> QED BY <3>1, PlanRetains
  <2> HIDE DEF batch
  <2> QED BY <1>3, <2>1, <2>2 DEF BatchOutdated, KeptAfter, ValidAfter, Doomed
<1>4. CASE pc'[p] # "x_next"
  <2>1. pc'[p] = "unlock"
    BY <1>1, <1>2, <1>4 DEF DeleteBatch, Go, TypeOK
  <2> QED BY <2>1 DEF BatchOutdated, Deletes
<1> QED BY <1>3, <1>4

LEMMA BatchOutdatedNext ==
    ASSUME IsFiniteSet(Backups), RetainCount \in Nat, RetentionInv, TypeInv', NEW p \in Hosts,
           Progress(p) \/ StartCommand(p) \/ Fault(p)
    PROVE  BatchOutdated(p)'
<1>1. UnderLockInv /\ LifeInv /\ TypeOK /\ StartsAgree /\ Batch(p) /\ BatchOutdated(p) /\ NoDeletes
  BY DEF RetentionInv, LifeInv, AccountInv, UnderLockInv, TypeInv, Agree
<1>2. CASE pc'[p] \notin Deletes \cup {"x_next"}
  BY <1>2 DEF BatchOutdated, Deletes
<1>3. CASE PlanPurge(p)
  BY <1>1, <1>3, PurgePlan, PlanOutdated
<1>4. CASE pc'[p] \in Deletes \cup {"x_next"} /\ ~PlanPurge(p)
  <2>1. /\ pc[p] \in Deletes \cup {"x_next"} /\ work'[p] \subseteq work[p]
        /\ \/ DeleteNext(p)
           \/ UNCHANGED target[p] /\ (pc'[p] = "x_markFull" => UNCHANGED <<pc[p], meta[p]>>)
        /\ \A b : Doomed(p, b)' => Doomed(p, b)
    BY <1>1, <1>4, BatchGoesOn
  <2>2. ASSUME NEW t, RetainCount <= Cardinality(KeptAfter(p, t))
        PROVE  RetainCount <= Cardinality({c \in ValidAfter(t)' : ~Doomed(p, c)'})
    <3>1. ASSUME NEW c \in KeptAfter(p, t)
          PROVE  c \in ValidAfter(t)' /\ ~Doomed(p, c)'
      <4>1. c \in ValidAfter(t) /\ ~Doomed(p, c)
        BY DEF KeptAfter
      <4>2. ~(UploadFull(p) /\ pc[p] = "x_markFull" /\ target[p] = c)
        BY <4>1 DEF Doomed, Deletes
      <4> QED BY <1>1, <2>1, <4>1, <4>2, ValidKept
    <3>2. {c \in ValidAfter(t)' : ~Doomed(p, c)'} \subseteq Backups
      BY DEF ValidAfter
    <3>3. KeptAfter(p, t) \subseteq {c \in ValidAfter(t)' : ~Doomed(p, c)'}
      BY <3>1
    <3> QED BY <2>2, <3>2, <3>3, MoreBackups
  <2>3. ASSUME NEW s \in work'[p]
        PROVE  RetainCount <= Cardinality(KeptAfter(p, s.start)')
    BY <1>1, <2>1, <2>2, <2>3 DEF BatchOutdated, KeptAfter, ValidAfter, Doomed
  <2>4. ASSUME pc'[p] = "x_markFull"
        PROVE  RetainCount <= Cardinality(KeptAfter(p, meta[p].start)')
    <3>1. RetainCount <= Cardinality(KeptAfter(p, meta'[p].start))
      <4>1. CASE DeleteNext(p)
        <5>1. PICK s \in work[p] : full[s.name] # NoMeta /\ meta'[p] = [full[s.name] EXCEPT !.state = "deleting"]
          BY <1>1, <4>1 DEF DeleteNext, TypeOK
        <5>2. s.name \in Backups /\ s.start \in Nat /\ full[s.name] \in Meta
          BY <1>1, <5>1 DEF TypeOK, Listed
        <5>3. Started(s.name, s.start) /\ Started(s.name, full[s.name].start) /\ full[s.name].start \in Nat
          BY <5>1, <5>2 DEF Started, Meta
        <5>4. meta'[p].start = s.start
          BY <1>1, <5>1, <5>2, <5>3 DEF StartsAgree, Meta
        <5> QED BY <1>1, <2>1, <5>4 DEF BatchOutdated
      <4>2. CASE ~DeleteNext(p)
        BY <1>1, <2>1, <2>4, <4>2 DEF BatchOutdated
      <4> QED BY <4>1, <4>2
    <3> QED BY <2>2, <3>1 DEF KeptAfter, ValidAfter, Doomed
  <2> QED BY <2>3, <2>4 DEF BatchOutdated
<1> QED BY <1>2, <1>3, <1>4

LEMMA RetentionBystander ==
    ASSUME RetentionInv, NEW p \in Hosts, Progress(p) \/ StartCommand(p) \/ Fault(p), NEW q \in Hosts \ {p}
    PROVE  LightMarked(q)' /\ BatchOutdated(q)'
<1>1. TypeOK /\ TypeInv /\ LockInv /\ PendingInv /\ LightMarked(q) /\ BatchOutdated(q)
  BY DEF RetentionInv, LifeInv, AccountInv, UnderLockInv, TypeInv
<1>2. UNCHANGED <<pc[q], target[q], meta[q], work[q]>>
  BY <1>1, StepOthers DEF Others
<1>3. CASE pc[q] \in Locked
  <2>1. pc[p] \notin Locked
    BY <1>1, <1>3 DEF LockInv
  <2>2. UNCHANGED <<full, light>>
    BY <1>1, <2>1, UnlockedWrites DEF PendingInv
  <2> QED BY <1>1, <1>2, <2>2 DEF LightMarked, BatchOutdated, KeptAfter, ValidAfter, Created, Doomed
<1>4. CASE pc[q] \notin Locked
  <2>1. pc[q] \notin Deletes \cup {"x_next", "b_finalLight"}
    BY <1>4 DEF Locked, Deletes, UploadFullAt, UploadLightAt
  <2> QED BY <1>2, <2>1 DEF LightMarked, BatchOutdated, Deletes
<1> QED BY <1>3, <1>4

LEMMA RetentionStutters == RetentionInv /\ UNCHANGED vars => RetentionInv'
<1> SUFFICES ASSUME RetentionInv, UNCHANGED vars PROVE RetentionInv'
  OBVIOUS
<1> USE DEF vars, storage, locals, deletion, dedup, parts, RetentionInv
<1>1. LifeInv' /\ LoadInv'
  BY LifeStutters, LoadNext DEF LifeInv, AccountInv
<1>2. NoDeletes' /\ LightAgrees' /\ Outdated'
  BY DEF NoDeletes, LightAgrees, Outdated, ValidAfter, Created
<1>3. ASSUME NEW p \in Hosts PROVE LightMarked(p)' /\ BatchOutdated(p)'
  BY DEF LightMarked, BatchOutdated, KeptAfter, ValidAfter, Created, Doomed
<1> QED BY <1>1, <1>2, <1>3

\* What the theorem assumes of the constants.
PurgedByCount ==
    /\ IsFiniteSet(Backups)
    /\ RetainCount \in Nat
    /\ PurgesItsOwn /\ OnlyPurges
    /\ UniqueNames

LEMMA RetentionNext == PurgedByCount /\ RetentionInv /\ [Next]_vars => RetentionInv'
<1> SUFFICES ASSUME PurgedByCount, RetentionInv, [Next]_vars PROVE RetentionInv'
  OBVIOUS
<1>1. UnderLockInv /\ TypeOK /\ LifeInv /\ LoadInv
  BY DEF RetentionInv, LifeInv, AccountInv, UnderLockInv, TypeInv
<1>2. LifeInv' /\ LoadInv'
  BY <1>1, LifeNext, LoadNext DEF PurgedByCount
<1>3. TypeInv' /\ ListedLoadable'
  BY <1>2 DEF LifeInv, AccountInv, UnderLockInv, LoadInv
<1>4. CASE UNCHANGED vars
  BY <1>4, RetentionStutters
<1>5. ASSUME NEW p \in Hosts, Progress(p) \/ StartCommand(p) \/ Fault(p)
      PROVE  RetentionInv'
  <2>1. NoDeletes'
    BY <1>1, <1>5, NoDeletesNext DEF PurgedByCount, RetentionInv
  <2>2. LightAgrees' /\ Outdated'
    BY <1>3, <1>5, LightAgreesNext, OutdatedNext DEF PurgedByCount
  <2>3. LightMarked(p)' /\ BatchOutdated(p)'
    BY <1>3, <1>5, LightMarkedNext, BatchOutdatedNext DEF PurgedByCount
  <2>4. ASSUME NEW q \in Hosts \ {p} PROVE LightMarked(q)' /\ BatchOutdated(q)'
    BY <1>5, <2>4, RetentionBystander
  <2> QED BY <1>2, <2>1, <2>2, <2>3, <2>4 DEF RetentionInv
<1> QED BY <1>4, <1>5 DEF Next

LEMMA RetentionInit == PurgesItsOwn /\ Init => RetentionInv
<1> SUFFICES ASSUME PurgesItsOwn, Init PROVE RetentionInv
  OBVIOUS
<1>1. LifeInv
  BY LifeInit
<1>2. LoadInv
  BY DEF Init, LoadInv, ListedLoadable, UploadLightAt
<1>3. NoDeletes /\ LightAgrees /\ Outdated
  BY DEF Init, NoDeletes, LightAgrees, Outdated
<1>4. ASSUME NEW p \in Hosts PROVE LightMarked(p) /\ BatchOutdated(p)
  BY DEF Init, LightMarked, BatchOutdated, Deletes
<1> QED BY <1>1, <1>2, <1>3, <1>4 DEF RetentionInv

\* Where hosts purge only what they back up themselves and nobody deletes a backup by
\* name, a CREATED backup begins to go only when at least retain_count newer CREATED
\* ones are there: purge counts the valid backups it retains, and what an interrupted
\* purge leaves half deleted never counts for one.
THEOREM OnlyOutdatedPurged == PurgedByCount /\ Spec => PurgesOnlyOutdated
<1> DEFINE StaysOutdated ==
      \A b \in Backups :
          /\ full[b] # NoMeta /\ full[b].state = "created"
          /\ full'[b] = NoMeta \/ full'[b].state # "created"
          => RetainCount <= Cardinality(
                {c \in Backups : /\ full[c] # NoMeta /\ full[c].state = "created"
                                 /\ full[c].start > full[b].start})
<1>1. PurgedByCount /\ Init => PurgedByCount /\ RetentionInv
  BY RetentionInit DEF PurgedByCount
<1>2. (PurgedByCount /\ RetentionInv) /\ [Next]_vars => (PurgedByCount /\ RetentionInv)'
  BY RetentionNext DEF PurgedByCount, PurgesItsOwn, OnlyPurges
<1>3. (PurgedByCount /\ RetentionInv) /\ [Next]_vars => [StaysOutdated]_vars
  <2> SUFFICES ASSUME PurgedByCount, RetentionInv, [Next]_vars, NEW b \in Backups,
                      full[b] # NoMeta, full[b].state = "created",
                      full'[b] = NoMeta \/ full'[b].state # "created"
               PROVE  RetainCount <= Cardinality(ValidAfter(full[b].start))
    BY DEF ValidAfter, Created
  <2>1. full'[b] # full[b]
    OBVIOUS
  <2>2. PICK p \in Hosts : Progress(p) \/ StartCommand(p) \/ Fault(p)
    BY <2>1 DEF Next, vars, storage
  <2>3. LifeInv /\ TypeOK /\ Stage(p) /\ BatchOutdated(p) /\ TypeInv'
    BY NextType DEF RetentionInv, LifeInv, AccountInv, UnderLockInv, TypeInv
  <2>4. pc[p] = "x_markFull" /\ target[p] = b
    BY <2>1, <2>2, <2>3, WhoMarks DEF Created
  <2>5. meta[p].start = full[b].start
    BY <2>3, <2>4 DEF Stage, TypeOK, Meta
  <2>6. RetainCount <= Cardinality(KeptAfter(p, full[b].start))
    BY <2>3, <2>4, <2>5 DEF BatchOutdated
  <2>7. KeptAfter(p, full[b].start) \subseteq ValidAfter(full[b].start)
        /\ ValidAfter(full[b].start) \subseteq Backups
    BY DEF KeptAfter, ValidAfter
  <2> QED BY <2>6, <2>7, MoreBackups DEF PurgedByCount
<1> QED BY <1>1, <1>2, <1>3, PTL DEF Spec, PurgesOnlyOutdated
=============================================================================
