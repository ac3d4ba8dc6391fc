----------------------- MODULE BackupRepositoryProofs -----------------------
(***************************************************************************)
(* Proofs about the backup repository, for any hosts, backups, parts and   *)
(* bounds.                                                                 *)
(***************************************************************************)
EXTENDS BackupRepositoryProperties, TLAPS

\* Where a command holds the metadata of its backup in memory.
HasMeta == BackupTry \cup UploadFullAt \cup UploadLightAt \cup {"b_lock", "x_erase", "x_wait"}

\* A command that uploads metadata has some, and a backup it belongs to.
MetaKnown ==
    \A p \in Hosts :
        /\ pc[p] \in HasMeta => meta[p] \in Meta
        /\ pc[p] \in HasMeta \cup {"b_start"} => target[p] \in Backups
        /\ uploading[p] # {} => target[p] \in Backups

TypeInv == TypeOK /\ MetaKnown

LEMMA SequelLabels ==
    ASSUME NEW step \in Sequel
    PROVE  /\ step[1] \in Labels /\ step[2] \in Labels
           /\ step[2] \in HasMeta => step[1] \in HasMeta
           /\ step[2] # "b_start"
BY DEF Sequel, OtherSequel, HasMeta, Labels, Locked, Waiting, BackupTry, UploadFullAt, UploadLightAt

LEMMA LightOfType ==
    ASSUME NEW m \in Meta
    PROVE  LightOf(m) \in Light
BY DEF LightOf, Meta, Light

LEMMA ListingType == TypeOK => Listing \subseteq Listed
BY DEF TypeOK, Listing, Listed, Light

LEMMA OwnPartType ==
    ASSUME NEW f \in Frozen
    PROVE  OwnPart(f) \in Part
BY DEF Frozen, OwnPart, Part

LEMMA LinkedPartType ==
    ASSUME NEW f \in Frozen, NEW r \in DedupRow
    PROVE  LinkedPart(f, r) \in Part
BY DEF Frozen, DedupRow, LinkedPart, Part

LEMMA NewRowsType ==
    ASSUME NEW b \in Backups, NEW m \in Meta, NEW known, NEW names
    PROVE  NewRows(b, m, known, names) \subseteq DedupRow
<1> SUFFICES ASSUME NEW e \in m.parts
             PROVE  RowOf(b, e) \in DedupRow
  BY DEF NewRows
<1> e \in Part
  BY DEF Meta
<1> QED BY DEF RowOf, DedupRow, Part

LEMMA ReferencesType ==
    ASSUME NEW metas, metas \subseteq Meta, NEW names, names \subseteq Backups
    PROVE  DedupReferences(metas, names) \subseteq Backups \X PartNames
<1> SUFFICES ASSUME NEW m \in metas, NEW e \in m.parts, e.link \in names
             PROVE  <<e.link, StoredName(e)>> \in Backups \X PartNames
  BY DEF DedupReferences
<1> e \in Part
  BY DEF Meta
<1> QED BY DEF StoredName, Part

LEMMA KeysType ==
    ASSUME TypeOK, NEW b \in Backups
    PROVE  KeysOf(b) \subseteq Key
BY DEF TypeOK, KeysOf, Key

LEMMA AddPartsType ==
    ASSUME NEW m \in Meta, NEW e \in Part
    PROVE  [m EXCEPT !.parts = @ \cup {e}] \in Meta
BY DEF Meta

LEMMA StateType ==
    ASSUME NEW m \in Meta, NEW s \in States
    PROVE  [m EXCEPT !.state = s] \in Meta
BY DEF Meta

LEMMA DropPartsType ==
    ASSUME NEW m \in Meta, NEW dropped
    PROVE  [m EXCEPT !.parts = @ \ dropped] \in Meta
BY DEF Meta

LEMMA ForgetType ==
    ASSUME TypeInv, NEW p \in Hosts, Forget(p), holder' \in Hosts \cup {NoHost}, faults' \in Nat
    PROVE  TypeInv'
<1> USE DEF TypeInv
<1>1. TypeOK'
  BY DEF TypeOK, Forget, Go, Labels, storage
<1>2. MetaKnown'
  BY DEF MetaKnown, TypeOK, Forget, Go, HasMeta, BackupTry, UploadFullAt, UploadLightAt
<1> QED BY <1>1, <1>2

LEMMA InitType == Init => TypeInv
<1> SUFFICES ASSUME Init
             PROVE  TypeInv
  OBVIOUS
<1>1. TypeOK
  BY ConfigAssumption DEF TypeOK, Init, Labels
<1>2. MetaKnown
  BY DEF MetaKnown, Init, HasMeta, BackupTry, UploadFullAt, UploadLightAt
<1> QED BY <1>1, <1>2 DEF TypeInv

\* The step of a command along Sequel keeps what MetaKnown says of it.
LEMMA AdvanceKeeps ==
    ASSUME TypeInv, NEW p \in Hosts, Advance(p), UNCHANGED <<meta, target, uploading>>
    PROVE  pc' \in [Hosts -> Labels] /\ MetaKnown'
<1>1. PICK step \in Sequel : step[1] = pc[p] /\ Go(p, step[2])
  BY DEF Advance
<1>2. /\ step[2] \in Labels
      /\ step[2] \in HasMeta => pc[p] \in HasMeta
      /\ step[2] # "b_start"
  BY <1>1, SequelLabels
<1> HIDE DEF HasMeta
<1> QED BY <1>1, <1>2 DEF TypeInv, TypeOK, MetaKnown, Go

LEMMA LockType ==
    ASSUME TypeInv, NEW p \in Hosts,
           AcquireLock(p) \/ LockTimeout(p) \/ ReleaseLock(p) \/ Exit(p),
           faults' \in Nat
    PROVE  TypeInv'
<1>1. CASE AcquireLock(p)
  <2>1. pc' \in [Hosts -> Labels] /\ MetaKnown'
    BY <1>1, AdvanceKeeps DEF AcquireLock, locals, parts
  <2>2. TypeOK'
    BY <1>1, <2>1 DEF TypeInv, TypeOK, AcquireLock, storage, locals, dedup, parts, deletion
  <2> QED BY <2>1, <2>2 DEF TypeInv
<1>2. CASE LockTimeout(p)
  BY <1>2, ForgetType DEF LockTimeout, TypeInv, TypeOK
<1>3. CASE ReleaseLock(p)
  <2>1. TypeOK'
    BY <1>3 DEF TypeInv, TypeOK, ReleaseLock, Go, Labels, storage, locals, dedup, parts, deletion
  <2>2. MetaKnown'
    BY <1>3 DEF TypeInv, TypeOK, MetaKnown, ReleaseLock, Go, locals, parts,
                HasMeta, BackupTry, UploadFullAt, UploadLightAt
  <2> QED BY <2>1, <2>2 DEF TypeInv
<1>4. CASE Exit(p)
  BY <1>4, ForgetType DEF Exit, TypeInv, TypeOK
<1> QED BY <1>1, <1>2, <1>3, <1>4

LEMMA UploadType ==
    ASSUME TypeInv, NEW p \in Hosts,
           UploadFull(p) \/ UploadLight(p) \/ UploadError(p), faults' \in Nat
    PROVE  TypeInv'
<1>1. CASE UploadFull(p)
  <2>1. pc' \in [Hosts -> Labels] /\ MetaKnown'
    BY <1>1, AdvanceKeeps DEF UploadFull, locals, parts
  <2>2. meta[p] \in Meta /\ target[p] \in Backups
    BY <1>1 DEF TypeInv, MetaKnown, UploadFull, HasMeta
  <2>3. TypeOK'
    BY <1>1, <2>1, <2>2 DEF TypeInv, TypeOK, UploadFull, locals, dedup, parts, deletion
  <2> QED BY <2>1, <2>3 DEF TypeInv
<1>2. CASE UploadLight(p)
  <2>1. pc' \in [Hosts -> Labels] /\ MetaKnown'
    BY <1>2, AdvanceKeeps DEF UploadLight, locals, parts
  <2>2. LightOf(meta[p]) \in Light /\ target[p] \in Backups
    BY <1>2, LightOfType DEF TypeInv, MetaKnown, UploadLight, HasMeta
  <2>3. TypeOK'
    BY <1>2, <2>1, <2>2 DEF TypeInv, TypeOK, UploadLight, locals, dedup, parts, deletion
  <2> QED BY <2>1, <2>3 DEF TypeInv
<1>3. CASE UploadError(p)
  <2>1. TypeOK'
    BY <1>3 DEF TypeInv, TypeOK, UploadError, Go, Labels, Locked, storage, locals, dedup, parts, deletion
  <2>2. MetaKnown'
    BY <1>3 DEF TypeInv, TypeOK, MetaKnown, UploadError, Go, locals, parts,
                HasMeta, BackupTry, UploadFullAt, UploadLightAt
  <2> QED BY <2>1, <2>2 DEF TypeInv
<1> QED BY <1>1, <1>2, <1>3

LEMMA BackupStepType ==
    ASSUME TypeInv, NEW p \in Hosts, BackupStep(p) \/ ListBackups(p) \/ BackupFailed(p),
           faults' \in Nat
    PROVE  TypeInv'
<1> USE DEF TypeInv, Go, storage, locals, dedup, parts, deletion
<1>1. CASE ListBackups(p)
  <2>1. TypeOK'
    BY <1>1, ListingType DEF TypeOK, ListBackups, Labels
  <2>2. MetaKnown'
    BY <1>1 DEF TypeOK, MetaKnown, ListBackups, HasMeta, BackupTry, UploadFullAt, UploadLightAt
  <2> QED BY <2>1, <2>2
<1>2. CASE SkipBackup(p)
  BY <1>2, ForgetType DEF SkipBackup, TypeOK
<1>3. CASE StartBackup(p)
  <2>1. TypeOK'
    BY <1>3 DEF TypeOK, StartBackup, Labels, Waiting, Meta, States
  <2>2. MetaKnown'
    BY <1>3 DEF TypeOK, MetaKnown, StartBackup, Meta, States
  <2> QED BY <2>1, <2>2
<1>4. CASE CollectDedupInfo(p)
  <2>1. TypeOK'
    BY <1>4 DEF TypeOK, CollectDedupInfo, Labels, Locked, BackupTry, NamesOf, Listed
  <2>2. MetaKnown'
    BY <1>4 DEF TypeOK, MetaKnown, CollectDedupInfo, HasMeta, BackupTry
  <2> QED BY <2>1, <2>2
<1>5. CASE PopulateDedupInfo(p)
  <2>1. PICK s \in seen[p] :
          /\ full[s.name] # NoMeta
          /\ rows' = [rows EXCEPT ![p] =
                IF handled[p] \/ ~(Replicated \/ full[s.name].host = p) THEN @
                ELSE @ \cup NewRows(s.name, full[s.name], @, sources[p])]
          /\ handled' = [handled EXCEPT ![p] = @ \/ (full[s.name].state = "created"
                            /\ (Replicated \/ full[s.name].host = p))]
          /\ seen' = [seen EXCEPT ![p] =
                IF full[s.name].state = "created" /\ full[s.name].host = p THEN {} ELSE @ \ {s}]
    BY <1>5 DEF PopulateDedupInfo
  <2>2. s.name \in Backups /\ full[s.name] \in Meta
    BY <2>1 DEF TypeOK, Listed
  <2>3. rows' \in [Hosts -> SUBSET DedupRow]
    BY <2>1, <2>2, NewRowsType DEF TypeOK
  <2>4. TypeOK'
    BY <1>5, <2>1, <2>3 DEF TypeOK, PopulateDedupInfo
  <2>5. MetaKnown'
    BY <1>5 DEF MetaKnown, PopulateDedupInfo
  <2> QED BY <2>4, <2>5
<1>6. CASE ReloadFails(p)
  <2>1. meta[p] \in Meta
    BY <1>6 DEF MetaKnown, ReloadFails, HasMeta, BackupTry
  <2>2. [meta[p] EXCEPT !.state = "failed"] \in Meta
    BY <2>1, StateType DEF States
  <2>3. TypeOK'
    BY <1>6, <2>2 DEF TypeOK, ReloadFails, Labels, Locked, UploadFullAt
  <2>4. MetaKnown'
    BY <1>6, <2>2 DEF TypeOK, MetaKnown, ReloadFails, HasMeta, BackupTry
  <2> QED BY <2>3, <2>4
<1>7. CASE FreezeTable(p)
  <2>1. TypeOK'
    BY <1>7, TableStatesAssumption DEF TypeOK, FreezeTable, Frozen, Labels, Locked, BackupTry
  <2>2. MetaKnown'
    BY <1>7 DEF TypeOK, MetaKnown, FreezeTable, HasMeta, BackupTry
  <2> QED BY <2>1, <2>2
<1>8. CASE DeduplicatePart(p)
  <2>1. PICK f \in todo[p] : \E r \in Matches(p, f) :
          /\ meta' = [meta EXCEPT ![p].parts = @ \cup {LinkedPart(f, r)}]
          /\ todo' = [todo EXCEPT ![p] = @ \ {f}]
    BY <1>8 DEF DeduplicatePart
  <2>2. PICK r \in Matches(p, f) :
          /\ meta' = [meta EXCEPT ![p].parts = @ \cup {LinkedPart(f, r)}]
          /\ todo' = [todo EXCEPT ![p] = @ \ {f}]
    BY <2>1
  <2>3. LinkedPart(f, r) \in Part
    BY LinkedPartType DEF TypeOK, Matches
  <2>4. meta[p] \in Meta
    BY <1>8 DEF MetaKnown, DeduplicatePart, HasMeta, BackupTry
  <2>5. [meta[p] EXCEPT !.parts = @ \cup {LinkedPart(f, r)}] \in Meta
    BY <2>3, <2>4, AddPartsType
  <2>6. TypeOK'
    BY <1>8, <2>2, <2>5 DEF TypeOK, DeduplicatePart
  <2>7. MetaKnown'
    BY <1>8, <2>2, <2>5 DEF TypeOK, MetaKnown, DeduplicatePart
  <2> QED BY <2>6, <2>7
<1>9. CASE ScheduleUpload(p)
  <2>1. TypeOK'
    BY <1>9 DEF TypeOK, ScheduleUpload
  <2>2. MetaKnown'
    BY <1>9 DEF TypeOK, MetaKnown, ScheduleUpload, HasMeta, BackupTry
  <2> QED BY <2>1, <2>2
<1>10. CASE PutPart(p)
  <2>1. uploading[p] # {} /\ target[p] \in Backups
    BY <1>10 DEF MetaKnown, PutPart
  <2>2. TypeOK'
    BY <1>10, <2>1 DEF TypeOK, PutPart, Frozen
  <2>3. MetaKnown'
    BY <1>10, <2>1 DEF TypeOK, MetaKnown, PutPart
  <2> QED BY <2>2, <2>3
<1>11. CASE ObserveUpload(p)
  <2>1. PICK f \in uploaded[p], flush \in BOOLEAN :
          /\ meta' = [meta EXCEPT ![p].parts = @ \cup {OwnPart(f)}]
          /\ uploaded' = [uploaded EXCEPT ![p] = @ \ {f}]
          /\ full' = IF flush THEN [full EXCEPT ![target[p]] = meta'[p]] ELSE full
    BY <1>11 DEF ObserveUpload
  <2>2. OwnPart(f) \in Part
    BY OwnPartType DEF TypeOK
  <2>3. meta[p] \in Meta
    BY <1>11 DEF MetaKnown, ObserveUpload, HasMeta, BackupTry
  <2>4. [meta[p] EXCEPT !.parts = @ \cup {OwnPart(f)}] \in Meta
    BY <2>2, <2>3, AddPartsType
  <2>5. meta' \in [Hosts -> Meta \cup {NoMeta}] /\ meta'[p] \in Meta
    BY <2>1, <2>4 DEF TypeOK
  <2>6. TypeOK'
    BY <1>11, <2>1, <2>5 DEF TypeOK, ObserveUpload
  <2>7. MetaKnown'
    BY <1>11, <2>1, <2>5 DEF TypeOK, MetaKnown, ObserveUpload
  <2> QED BY <2>6, <2>7
<1>12. CASE TableDone(p)
  <2>1. TypeOK'
    BY <1>12 DEF TypeOK, TableDone, Labels, Locked, BackupTry
  <2>2. MetaKnown'
    BY <1>12 DEF TypeOK, MetaKnown, TableDone, HasMeta, BackupTry
  <2> QED BY <2>1, <2>2
<1>13. CASE BackupCreated(p)
  <2>1. meta[p] \in Meta
    BY <1>13 DEF MetaKnown, BackupCreated, HasMeta, BackupTry
  <2>2. [meta[p] EXCEPT !.state = "created"] \in Meta
    BY <2>1, StateType DEF States
  <2>3. TypeOK'
    BY <1>13, <2>2 DEF TypeOK, BackupCreated, Labels, Locked, UploadFullAt
  <2>4. MetaKnown'
    BY <1>13, <2>2 DEF TypeOK, MetaKnown, BackupCreated, HasMeta, BackupTry
  <2> QED BY <2>3, <2>4
<1>14. CASE BackupFailed(p)
  <2>1. meta[p] \in Meta
    BY <1>14 DEF MetaKnown, BackupFailed, HasMeta
  <2>2. [meta[p] EXCEPT !.state = "failed"] \in Meta
    BY <2>1, StateType DEF States
  <2>3. TypeOK'
    BY <1>14, <2>2 DEF TypeOK, BackupFailed, Labels, Locked, UploadFullAt
  <2>4. MetaKnown'
    BY <1>14, <2>2 DEF TypeOK, MetaKnown, BackupFailed, HasMeta
  <2> QED BY <2>3, <2>4
<1> QED BY <1>1, <1>2, <1>3, <1>4, <1>5, <1>6, <1>7, <1>8, <1>9, <1>10, <1>11, <1>12, <1>13,
           <1>14 DEF BackupStep

LEMMA DeleteBatchType ==
    ASSUME TypeOK, NEW p \in Hosts, NEW deleting, deleting \subseteq Listed,
           NEW retained, retained \subseteq Listed, DeleteBatch(p, deleting, retained)
    PROVE  /\ pc' = [pc EXCEPT ![p] = "unlock"] \/ pc' = [pc EXCEPT ![p] = "x_next"]
           /\ work' \in [Hosts -> SUBSET Listed]
           /\ refs' \in [Hosts -> SUBSET (Backups \X PartNames)]
<1> DEFINE metas == {full[s.name] : s \in retained}
<1>1. CASE NoMeta \in metas
  BY <1>1 DEF TypeOK, DeleteBatch, Go
<1>2. CASE NoMeta \notin metas
  <2>1. metas \subseteq Meta /\ NamesOf(deleting) \subseteq Backups
    BY <1>2 DEF TypeOK, Listed, NamesOf
  <2>2. DedupReferences(metas, NamesOf(deleting)) \subseteq Backups \X PartNames
    BY <2>1, ReferencesType
  <2> QED BY <1>2, <2>2 DEF TypeOK, DeleteBatch, Go
<1> QED BY <1>1, <1>2

\* A step that takes the command of p to a place without metadata.
LEMMA LeaveMeta ==
    ASSUME TypeInv, NEW p \in Hosts, UNCHANGED <<meta, target, uploading>>,
           NEW label \in {"unlock", "x_next", "d_lock", "p_lock"},
           pc' = [pc EXCEPT ![p] = label]
    PROVE  pc' \in [Hosts -> Labels] /\ MetaKnown'
<1>1. label \in Labels /\ label \notin HasMeta \cup {"b_start"}
  BY DEF Labels, Locked, Waiting, HasMeta, BackupTry, UploadFullAt, UploadLightAt
<1> HIDE DEF HasMeta
<1> QED BY <1>1 DEF TypeInv, TypeOK, MetaKnown

LEMMA DeleteStepType ==
    ASSUME TypeInv, NEW p \in Hosts,
           \/ DeleteStep(p) \/ StartDelete(p) \/ StartPurge(p)
           \/ DeletionFailed(p) \/ UnfreezeFailed(p),
           faults' \in Nat
    PROVE  TypeInv'
<1> USE DEF TypeInv, Go, storage, locals, dedup, parts, deletion
<1>1. CASE StartDelete(p)
  <2>1. pc' \in [Hosts -> Labels] /\ MetaKnown'
    BY <1>1, LeaveMeta DEF StartDelete
  <2> QED BY <1>1, <2>1 DEF TypeOK, StartDelete
<1>2. CASE StartPurge(p)
  <2>1. pc' \in [Hosts -> Labels] /\ MetaKnown'
    BY <1>2, LeaveMeta DEF StartPurge
  <2>2. Prefixes \subseteq Backups
    BY DEF Prefixes
  <2> QED BY <1>2, <2>1, <2>2 DEF TypeOK, StartPurge
<1>3. CASE PlanDelete(p)
  <2>1. PICK name \in NamesOf(Listing), purgePartial \in BOOLEAN :
          DeleteBatch(p, DeletedByName(Listing, name, purgePartial),
                      Listing \ DeletedByName(Listing, name, purgePartial))
    BY <1>3 DEF PlanDelete
  <2> DEFINE deleting == DeletedByName(Listing, name, purgePartial)
             retained == Listing \ deleting
  <2>2. deleting \subseteq Listed /\ retained \subseteq Listed
    BY ListingType DEF DeletedByName
  <2>3. DeleteBatch(p, deleting, retained)
    BY <2>1
  <2> HIDE DEF deleting, retained
  <2>4. /\ pc' = [pc EXCEPT ![p] = "unlock"] \/ pc' = [pc EXCEPT ![p] = "x_next"]
        /\ work' \in [Hosts -> SUBSET Listed]
        /\ refs' \in [Hosts -> SUBSET (Backups \X PartNames)]
    BY <2>2, <2>3, DeleteBatchType
  <2>5. pc' \in [Hosts -> Labels] /\ MetaKnown'
    BY <1>3, <2>4, LeaveMeta DEF PlanDelete
  <2> QED BY <1>3, <2>4, <2>5 DEF TypeOK, PlanDelete
<1>4. CASE BackupNotFound(p)
  <2>1. pc' \in [Hosts -> Labels] /\ MetaKnown'
    BY <1>4, LeaveMeta DEF BackupNotFound
  <2> QED BY <1>4, <2>1 DEF TypeOK, BackupNotFound
<1>5. CASE PlanPurge(p)
  <2> DEFINE known == {s \in Listing : s.name \in listed[p]}
             foreign == NamesOf(Listing \ known)
  <2>1. PICK limit : DeleteBatch(p, known \ Retained(known, RetainCount, limit),
                                 Retained(known, RetainCount, limit))
    BY <1>5 DEF PlanPurge
  <2> DEFINE kept == Retained(known, RetainCount, limit)
             outdated == known \ kept
  <2>2. outdated \subseteq Listed /\ kept \subseteq Listed
    BY ListingType DEF Retained
  <2>3. DeleteBatch(p, outdated, kept)
    BY <2>1
  <2> HIDE DEF kept, outdated
  <2>4. /\ pc' = [pc EXCEPT ![p] = "unlock"] \/ pc' = [pc EXCEPT ![p] = "x_next"]
        /\ work' \in [Hosts -> SUBSET Listed]
        /\ refs' \in [Hosts -> SUBSET (Backups \X PartNames)]
    BY <2>2, <2>3, DeleteBatchType
  <2>5. pc' \in [Hosts -> Labels] /\ MetaKnown'
    BY <1>5, <2>4, LeaveMeta DEF PlanPurge
  <2>6. foreign \subseteq Backups
    BY ListingType DEF NamesOf, Listed
  <2>7. UNION {KeysOf(b) : b \in foreign} \subseteq Key
    BY <2>6, KeysType
  <2>8. pending' \in [Hosts -> SUBSET Key]
    BY <1>5, <2>7 DEF PlanPurge, TypeOK
  <2> QED BY <1>5, <2>4, <2>5, <2>8 DEF TypeOK, PlanPurge
<1>6. CASE PurgeTypeError(p)
  <2>1. PICK s \in Listing :
          pending' = [pending EXCEPT ![p] =
              @ \cup UNION {KeysOf(b) : b \in NamesOf(NewerIn(s, Listing))}]
    BY <1>6 DEF PurgeTypeError
  <2>2. NamesOf(NewerIn(s, Listing)) \subseteq Backups
    BY ListingType DEF NamesOf, NewerIn, Listed
  <2>3. UNION {KeysOf(b) : b \in NamesOf(NewerIn(s, Listing))} \subseteq Key
    BY <2>2, KeysType
  <2>4. pending' \in [Hosts -> SUBSET Key]
    BY <2>1, <2>3 DEF TypeOK
  <2>5. pc' \in [Hosts -> Labels] /\ MetaKnown'
    BY <1>6, LeaveMeta DEF PurgeTypeError
  <2> QED BY <1>6, <2>4, <2>5 DEF TypeOK, PurgeTypeError
<1>7. CASE DeleteNext(p)
  <2>1. PICK s \in work[p] :
          /\ full[s.name] # NoMeta
          /\ target' = [target EXCEPT ![p] = s.name]
          /\ meta' = [meta EXCEPT ![p] = [full[s.name] EXCEPT !.state = "deleting"]]
          /\ work' = [work EXCEPT ![p] = @ \ {s}]
    BY <1>7 DEF DeleteNext
  <2>2. s.name \in Backups /\ full[s.name] \in Meta
    BY <2>1 DEF TypeOK, Listed
  <2>3. [full[s.name] EXCEPT !.state = "deleting"] \in Meta
    BY <2>2, StateType DEF States
  <2>4. TypeOK'
    BY <1>7, <2>1, <2>2, <2>3 DEF TypeOK, DeleteNext, Labels, Locked, UploadFullAt
  <2>5. MetaKnown'
    BY <1>7, <2>1, <2>2, <2>3 DEF TypeOK, MetaKnown, DeleteNext
  <2> QED BY <2>4, <2>5
<1>8. CASE DeletionEnds(p)
  <2>1. pc' \in [Hosts -> Labels] /\ MetaKnown'
    BY <1>8, LeaveMeta DEF DeletionEnds
  <2> QED BY <1>8, <2>1 DEF TypeOK, DeletionEnds
<1>9. CASE DeleteBackup(p)
  <2>1. target[p] \in Backups /\ meta[p] \in Meta
    BY <1>9 DEF MetaKnown, DeleteBackup, HasMeta
  <2>2. KeysOf(target[p]) \subseteq Key
    BY <2>1, KeysType
  <2>3. TypeOK'
    BY <1>9, <2>2 DEF TypeOK, DeleteBackup, Labels, Locked
  <2>4. MetaKnown'
    BY <1>9, <2>1 DEF TypeOK, MetaKnown, DeleteBackup
  <2> QED BY <2>3, <2>4
<1>10. CASE DeleteDataParts(p)
  <2> DEFINE dropped == {e \in meta[p].parts : e.name \notin Spared(p)}
             own == {e \in dropped : e.link = NoBackup}
             keys == {[kind |-> "data", backup |-> target[p], part |-> e.name] : e \in own}
  <2>1. target[p] \in Backups /\ meta[p] \in Meta
    BY <1>10 DEF MetaKnown, DeleteDataParts, HasMeta
  <2>2. /\ pending' = [pending EXCEPT ![p] = @ \cup keys]
        /\ meta' = [meta EXCEPT ![p].parts = @ \ dropped]
        /\ pc' = [pc EXCEPT ![p] = "x_wait"]
        /\ UNCHANGED <<storage, holder, clock, used, target, dedup, parts, listed, work, refs>>
    BY <1>10 DEF DeleteDataParts
  <2>3. keys \subseteq Key
    BY <2>1 DEF Key, Meta, Part
  <2>4. [meta[p] EXCEPT !.parts = @ \ dropped] \in Meta
    BY <2>1, DropPartsType
  <2> HIDE DEF keys, dropped, own
  <2>5. TypeOK'
    BY <2>2, <2>3, <2>4 DEF TypeOK, Labels, Locked
  <2>6. MetaKnown'
    BY <2>1, <2>2, <2>4 DEF TypeOK, MetaKnown
  <2> QED BY <2>5, <2>6
<1>11. CASE EraseKey(p)
  <2>1. PICK k \in pending[p] :
          /\ pending' = [pending EXCEPT ![p] = @ \ {k}]
          /\ light' = IF k.kind = "light" THEN [light EXCEPT ![k.backup] = NoMeta] ELSE light
          /\ full' = IF k.kind = "full" THEN [full EXCEPT ![k.backup] = NoMeta] ELSE full
          /\ data' = IF k.kind = "data"
                     THEN {d \in data : <<d[1], d[2]>> # <<k.backup, k.part>>}
                     ELSE data
          /\ UNCHANGED <<holder, clock, used, pc, target, meta, dedup, parts, listed, work, refs>>
    BY <1>11 DEF EraseKey
  <2>2. TypeOK'
    BY <2>1 DEF TypeOK
  <2>3. MetaKnown'
    BY <2>1 DEF MetaKnown
  <2> QED BY <2>2, <2>3
<1>12. CASE DeletionWaited(p)
  <2>1. CASE Spared(p) = {}
    <3>1. pc' \in [Hosts -> Labels] /\ MetaKnown'
      BY <1>12, <2>1, LeaveMeta DEF DeletionWaited
    <3> QED BY <1>12, <2>1, <3>1 DEF TypeOK, DeletionWaited
  <2>2. CASE Spared(p) # {}
    <3>1. meta[p] \in Meta /\ target[p] \in Backups
      BY <1>12 DEF MetaKnown, DeletionWaited, HasMeta
    <3>2. [meta[p] EXCEPT !.state = "partially_deleted"] \in Meta
      BY <3>1, StateType DEF States
    <3>3. TypeOK'
      BY <1>12, <2>2, <3>2 DEF TypeOK, DeletionWaited, Labels, Locked, UploadFullAt
    <3>4. MetaKnown'
      BY <1>12, <2>2, <3>1, <3>2 DEF TypeOK, MetaKnown, DeletionWaited
    <3> QED BY <3>3, <3>4
  <2> QED BY <2>1, <2>2
<1>13. CASE DeletionFailed(p)
  <2>1. pc' \in [Hosts -> Labels] /\ MetaKnown'
    BY <1>13, LeaveMeta DEF DeletionFailed
  <2> QED BY <1>13, <2>1 DEF TypeOK, DeletionFailed
<1>14. CASE UnfreezeFailed(p)
  <2>1. TypeOK'
    BY <1>14 DEF TypeOK, UnfreezeFailed
  <2>2. MetaKnown'
    BY <1>14 DEF MetaKnown, UnfreezeFailed
  <2> QED BY <2>1, <2>2
<1> QED BY <1>1, <1>2, <1>3, <1>4, <1>5, <1>6, <1>7, <1>8, <1>9, <1>10, <1>11, <1>12, <1>13,
           <1>14 DEF DeleteStep

LEMMA NextType == TypeInv /\ [Next]_vars => TypeInv'
<1> SUFFICES ASSUME TypeInv, [Next]_vars
             PROVE  TypeInv'
  OBVIOUS
<1>1. ASSUME NEW p \in Hosts, Progress(p)
      PROVE  TypeInv'
  <2> faults' \in Nat
    BY <1>1 DEF Progress, TypeInv, TypeOK
  <2> QED BY <1>1, LockType, UploadType, BackupStepType, DeleteStepType DEF Progress
<1>2. ASSUME NEW p \in Hosts, StartCommand(p)
      PROVE  TypeInv'
  <2> faults' \in Nat
    BY <1>2 DEF StartCommand, TypeInv, TypeOK
  <2> QED BY <1>2, BackupStepType, DeleteStepType DEF StartCommand
<1>3. ASSUME NEW p \in Hosts, Fault(p)
      PROVE  TypeInv'
  <2>1. faults' \in Nat
    BY <1>3 DEF Fault, TypeInv, TypeOK
  <2>2. CASE Crash(p)
    BY <2>1, <2>2, ForgetType DEF Crash, TypeInv, TypeOK
  <2> QED BY <1>3, <2>1, <2>2, UploadType, BackupStepType, DeleteStepType DEF Fault
<1>4. CASE UNCHANGED vars
  BY <1>4 DEF vars, storage, locals, dedup, parts, deletion, TypeInv, TypeOK, MetaKnown
<1> QED BY <1>1, <1>2, <1>3, <1>4 DEF Next

\* Every variable keeps its type, whatever hosts crash or fail, and a command
\* never uploads metadata it does not have or to a backup it does not know.
THEOREM TypeCorrect == Spec => [](TypeOK /\ MetaKnown)
<1>1. Init => TypeInv
  BY InitType
<1>2. TypeInv /\ [Next]_vars => TypeInv'
  BY NextType
<1>3. TypeInv => TypeOK /\ MetaKnown
  BY DEF TypeInv
<1> QED BY <1>1, <1>2, <1>3, PTL DEF Spec

-----------------------------------------------------------------------------
(* The lock.  A host holds it exactly when its command is at a label of     *)
(* Locked, so what one command finds under the lock no other one changes.   *)

LockInv == \A p \in Hosts : pc[p] \in Locked <=> holder = p

LEMMA SequelLocked ==
    ASSUME NEW step \in Sequel
    PROVE  /\ step[1] \in Locked \cup Waiting
           /\ step[2] \in Locked
           /\ step[2] # "x_wait"
           /\ step[2] \in UploadLightAt => step[1] \in UploadFullAt
           /\ step[2] = "p_plan" => step[1] = "p_lock"
           /\ step[2] # "p_lock"
BY DEF Sequel, OtherSequel, Locked, Waiting, BackupTry, UploadFullAt, UploadLightAt

\* A command that goes on from one label to another on the same side of the
\* lock leaves its ownership alone.
LEMMA SameSide ==
    ASSUME TypeInv, LockInv, NEW p \in Hosts, NEW label,
           pc[p] \in Locked <=> label \in Locked,
           pc' = [pc EXCEPT ![p] = label], holder' = holder
    PROVE  LockInv'
<1> HIDE DEF Locked
<1> QED BY DEF TypeInv, TypeOK, LockInv

LEMMA LockNext == TypeInv /\ LockInv /\ [Next]_vars => LockInv'
<1> SUFFICES ASSUME TypeInv, LockInv, [Next]_vars
             PROVE  LockInv'
  OBVIOUS
<1>1. CASE UNCHANGED vars
  BY <1>1 DEF vars, LockInv
<1>2. SUFFICES ASSUME NEW p \in Hosts, Progress(p) \/ StartCommand(p) \/ Fault(p)
               PROVE  LockInv'
  BY <1>1 DEF Next
<1>3. CASE AcquireLock(p)
  <2>1. PICK step \in Sequel : step[1] = pc[p] /\ Go(p, step[2])
    BY <1>3 DEF AcquireLock, Advance
  <2>2. step[2] \in Locked
    BY <2>1, SequelLocked
  <2> QED BY <1>3, <2>1, <2>2, NoHostIsAbsent DEF TypeInv, TypeOK, LockInv, AcquireLock, Go
<1>4. CASE ReleaseLock(p)
  BY <1>4, NoHostIsAbsent DEF TypeInv, TypeOK, LockInv, ReleaseLock, Go, Locked, BackupTry, UploadFullAt,
                              UploadLightAt
<1>5. CASE Crash(p)
  BY <1>5, NoHostIsAbsent DEF TypeInv, TypeOK, LockInv, Crash, Forget, Go, Locked, BackupTry,
                              UploadFullAt, UploadLightAt
<1>6. CASE UploadFull(p) \/ UploadLight(p)
  <2>1. PICK step \in Sequel : step[1] = pc[p] /\ Go(p, step[2])
    BY <1>6 DEF UploadFull, UploadLight, Advance
  <2>2. step[2] \in Locked /\ pc[p] \in Locked
    BY <1>6, <2>1, SequelLocked DEF UploadFull, UploadLight, Locked
  <2> QED BY <1>6, <2>1, <2>2, SameSide DEF Go, UploadFull, UploadLight
<1>7. CASE LockTimeout(p) \/ Exit(p) \/ SkipBackup(p)
  <2>1. pc[p] \notin Locked
    BY <1>7 DEF LockTimeout, Exit, SkipBackup, Locked, Waiting, BackupTry, UploadFullAt, UploadLightAt
  <2>2. holder' = holder /\ pc' = [pc EXCEPT ![p] = "idle"]
    BY <1>7 DEF LockTimeout, Exit, SkipBackup, Forget, Go
  <2>3. "idle" \notin Locked
    BY DEF Locked, BackupTry, UploadFullAt, UploadLightAt
  <2> QED BY <2>1, <2>2, <2>3, SameSide
<1>8. CASE UploadError(p)
  BY <1>8, SameSide DEF UploadError, Go, Locked
<1>9. CASE BackupStep(p) /\ ~SkipBackup(p)
  <2> DEFINE Inside == \/ pc' = pc /\ holder' = holder
                       \/ \E label \in Labels :
                             /\ pc' = [pc EXCEPT ![p] = label] /\ holder' = holder
                             /\ pc[p] \in Locked <=> label \in Locked
  <2> SUFFICES Inside
    BY SameSide DEF LockInv
  <2>1. CASE StartBackup(p) \/ CollectDedupInfo(p)
    BY <2>1 DEF StartBackup, CollectDedupInfo, Labels,
                   Go, Locked, Waiting, BackupTry, UploadFullAt, UploadLightAt
  <2>2. CASE PopulateDedupInfo(p) \/ ReloadFails(p)
    BY <2>2 DEF PopulateDedupInfo, ReloadFails, Labels,
                   Go, Locked, Waiting, BackupTry, UploadFullAt, UploadLightAt
  <2>3. CASE FreezeTable(p) \/ DeduplicatePart(p)
    BY <2>3 DEF FreezeTable, DeduplicatePart, Labels,
                   Go, Locked, Waiting, BackupTry, UploadFullAt, UploadLightAt
  <2>4. CASE ScheduleUpload(p) \/ PutPart(p)
    BY <2>4 DEF ScheduleUpload, PutPart, Labels,
                   Go, Locked, Waiting, BackupTry, UploadFullAt, UploadLightAt
  <2>5. CASE ObserveUpload(p)
    BY <2>5 DEF ObserveUpload, Labels,
                   Go, Locked, Waiting, BackupTry, UploadFullAt, UploadLightAt
  <2>6. CASE TableDone(p) \/ BackupCreated(p)
    BY <2>6 DEF TableDone, BackupCreated, Labels,
                   Go, Locked, Waiting, BackupTry, UploadFullAt, UploadLightAt
  <2> QED BY <1>9, <2>1, <2>2, <2>3, <2>4, <2>5, <2>6 DEF BackupStep
<1>10. CASE ListBackups(p) \/ BackupFailed(p) \/ StartDelete(p) \/ StartPurge(p)
  BY <1>10, SameSide DEF ListBackups, BackupFailed, StartDelete, StartPurge, Go, Locked, BackupTry,
                         UploadFullAt, UploadLightAt
<1>11. CASE DeleteStep(p) \/ DeletionFailed(p) \/ UnfreezeFailed(p)
  <2> DEFINE Inside == \/ pc' = pc /\ holder' = holder
                       \/ \E label \in Labels :
                             /\ pc' = [pc EXCEPT ![p] = label] /\ holder' = holder
                             /\ pc[p] \in Locked <=> label \in Locked
  <2> SUFFICES Inside
    BY SameSide DEF LockInv
  <2>1. CASE PlanDelete(p) \/ BackupNotFound(p)
    BY <2>1 DEF PlanDelete, BackupNotFound, DeleteBatch, Labels,
                   Go, Locked, Waiting, BackupTry, UploadFullAt, UploadLightAt
  <2>2. CASE PlanPurge(p) \/ PurgeTypeError(p)
    BY <2>2 DEF PlanPurge, PurgeTypeError, DeleteBatch, Labels,
                   Go, Locked, Waiting, BackupTry, UploadFullAt, UploadLightAt
  <2>3. CASE DeleteNext(p) \/ DeletionEnds(p)
    BY <2>3 DEF DeleteNext, DeletionEnds, Labels,
                   Go, Locked, Waiting, BackupTry, UploadFullAt, UploadLightAt
  <2>4. CASE DeleteBackup(p) \/ DeleteDataParts(p)
    BY <2>4 DEF DeleteBackup, DeleteDataParts, Labels,
                   Go, Locked, Waiting, BackupTry, UploadFullAt, UploadLightAt
  <2>5. CASE EraseKey(p) \/ DeletionWaited(p)
    BY <2>5 DEF EraseKey, DeletionWaited, Labels,
                   Go, Locked, Waiting, BackupTry, UploadFullAt, UploadLightAt
  <2>6. CASE DeletionFailed(p) \/ UnfreezeFailed(p)
    BY <2>6 DEF DeletionFailed, UnfreezeFailed, Labels,
                   Go, Locked, Waiting, BackupTry, UploadFullAt, UploadLightAt
  <2> QED BY <1>11, <2>1, <2>2, <2>3, <2>4, <2>5, <2>6 DEF DeleteStep
<1> QED BY <1>2, <1>3, <1>4, <1>5, <1>6, <1>7, <1>8, <1>9, <1>10, <1>11
        DEF Progress, StartCommand, Fault

\* Outside the lock a step can only add the data of a part.
LEMMA UnlockedWrites ==
    ASSUME TypeInv, LockInv, NEW p \in Hosts, pending[p] # {} => pc[p] = "x_wait",
           Progress(p) \/ StartCommand(p) \/ Fault(p), pc[p] \notin Locked
    PROVE  UNCHANGED <<full, light>> /\ StoredParts \subseteq StoredParts'
<1>1. CASE AcquireLock(p) \/ LockTimeout(p) \/ Exit(p) \/ SkipBackup(p) \/ StartBackup(p) \/ Crash(p)
  BY <1>1 DEF AcquireLock, LockTimeout, Exit, SkipBackup, StartBackup, Crash, Forget, storage, StoredParts
<1>2. CASE StartCommand(p)
  BY <1>2 DEF StartCommand, ListBackups, StartDelete, StartPurge, storage, StoredParts
<1>3. CASE PutPart(p)
  <2>1. PICK f \in uploading[p] :
          data' = {d \in data : <<d[1], d[2]>> # <<target[p], f.name>>}
                  \cup {<<target[p], f.name, f.sum>>}
    BY <1>3 DEF PutPart
  <2>2. ASSUME NEW d \in data
        PROVE  <<d[1], d[2]>> \in StoredParts'
    <3>1. CASE <<d[1], d[2]>> = <<target[p], f.name>>
      <4>1. <<target[p], f.name, f.sum>> \in data'
        BY <2>1
      <4> QED BY <3>1, <4>1 DEF StoredParts
    <3>2. CASE <<d[1], d[2]>> # <<target[p], f.name>>
      BY <2>1, <3>2 DEF StoredParts
    <3> QED BY <3>1, <3>2
  <2> QED BY <1>3, <2>2 DEF StoredParts, PutPart
<1>4. pc[p] \notin BackupTry \cup UploadFullAt \cup UploadLightAt
                   \cup {"d_plan", "p_plan", "x_next", "x_erase", "x_wait", "unlock"}
  BY DEF Locked
<1>5. pending[p] = {}
  BY <1>4
<1> QED BY <1>1, <1>2, <1>3, <1>4, <1>5
        DEF Progress, Fault, ReleaseLock, UploadFull, UploadLight, BackupStep, DeleteStep,
            CollectDedupInfo, PopulateDedupInfo, ReloadFails, FreezeTable, DeduplicatePart,
            ScheduleUpload, ObserveUpload, TableDone, BackupCreated, BackupFailed, UploadError,
            PlanDelete, BackupNotFound, PlanPurge, PurgeTypeError, DeleteNext, DeletionEnds,
            DeleteBackup, DeleteDataParts, EraseKey, DeletionWaited, DeletionFailed,
            UnfreezeFailed, BackupTry

-----------------------------------------------------------------------------
(* The steps, one host at a time.                                           *)

\* What a step of host p leaves to the other hosts.
Others(p) ==
    \A q \in Hosts \ {p} :
        UNCHANGED <<pc[q], target[q], meta[q], seen[q], sources[q], rows[q], frozen[q], todo[q],
                    uploading[q], uploaded[q], listed[q], work[q], refs[q], pending[q]>>

LEMMA ForgetOthers ==
    ASSUME TypeOK, NEW p \in Hosts, Forget(p)
    PROVE  /\ Others(p)
           /\ pc'[p] = "idle" /\ target'[p] = NoBackup /\ meta'[p] = NoMeta
           /\ seen'[p] = {} /\ sources'[p] = {} /\ rows'[p] = {} /\ frozen'[p] = {}
           /\ todo'[p] = {} /\ uploading'[p] = {} /\ uploaded'[p] = {}
           /\ work'[p] = {} /\ refs'[p] = {} /\ pending'[p] = {}
           /\ UNCHANGED <<full, light, data, clock, used>>
BY DEF TypeOK, Forget, Go, Others, storage

LEMMA StepOthers ==
    ASSUME TypeOK, NEW p \in Hosts, Progress(p) \/ StartCommand(p) \/ Fault(p)
    PROVE  Others(p)
<1> USE DEF TypeOK, Others, Go, locals, dedup, parts, deletion
<1>1. CASE LockTimeout(p) \/ Exit(p) \/ SkipBackup(p) \/ Crash(p)
  BY <1>1, ForgetOthers DEF LockTimeout, Exit, SkipBackup, Crash
<1>2. CASE AcquireLock(p) \/ ReleaseLock(p) \/ UploadFull(p) \/ UploadLight(p) \/ UploadError(p)
  BY <1>2 DEF AcquireLock, ReleaseLock, UploadFull, UploadLight, UploadError, Advance
<1>3. CASE ListBackups(p) \/ StartBackup(p) \/ CollectDedupInfo(p)
  BY <1>3 DEF ListBackups, StartBackup, CollectDedupInfo
<1>4. CASE PopulateDedupInfo(p) \/ ReloadFails(p) \/ FreezeTable(p)
  BY <1>4 DEF PopulateDedupInfo, ReloadFails, FreezeTable
<1>5. CASE DeduplicatePart(p) \/ ScheduleUpload(p) \/ PutPart(p) \/ ObserveUpload(p)
  BY <1>5 DEF DeduplicatePart, ScheduleUpload, PutPart, ObserveUpload
<1>6. CASE TableDone(p) \/ BackupCreated(p) \/ BackupFailed(p) \/ StartDelete(p) \/ StartPurge(p)
  BY <1>6 DEF TableDone, BackupCreated, BackupFailed, StartDelete, StartPurge
<1>7. CASE PlanDelete(p) \/ BackupNotFound(p) \/ PlanPurge(p) \/ PurgeTypeError(p)
  <2>1. ASSUME NEW deleting, NEW retained, DeleteBatch(p, deleting, retained)
        PROVE  \A q \in Hosts \ {p} : UNCHANGED <<pc[q], work[q], refs[q]>>
    BY <2>1 DEF DeleteBatch
  <2>2. CASE PlanDelete(p)
    BY <2>1, <2>2 DEF PlanDelete
  <2>3. CASE PlanPurge(p)
    BY <2>1, <2>3 DEF PlanPurge
  <2>4. CASE BackupNotFound(p) \/ PurgeTypeError(p)
    BY <2>4 DEF BackupNotFound, PurgeTypeError
  <2> QED BY <1>7, <2>2, <2>3, <2>4
<1>8. CASE DeleteNext(p) \/ DeletionEnds(p) \/ DeleteBackup(p) \/ DeleteDataParts(p)
  BY <1>8 DEF DeleteNext, DeletionEnds, DeleteBackup, DeleteDataParts
<1>9. CASE EraseKey(p) \/ DeletionWaited(p) \/ DeletionFailed(p) \/ UnfreezeFailed(p)
  BY <1>9 DEF EraseKey, DeletionWaited, DeletionFailed, UnfreezeFailed
<1> QED BY <1>1, <1>2, <1>3, <1>4, <1>5, <1>6, <1>7, <1>8, <1>9
        DEF Progress, StartCommand, Fault, BackupStep, DeleteStep

-----------------------------------------------------------------------------
(* Hosts that purge what they back up.  A purge takes a backup whose name it *)
(* did not list for one without metadata: it schedules the deletion of all   *)
(* its objects and does not wait for it.  A host that purges therefore has   *)
(* to be the only one that backs up; then every deletion is of a backup the  *)
(* command knows, and is waited for under the lock.                         *)

PurgesItsOwn ==
    \A p, q \in Hosts : "purge" \in Commands[p] /\ "backup" \in Commands[q] => p = q

\* Deletions are scheduled only while their command waits for them.
PendingInv == \A p \in Hosts : pending[p] # {} => pc[p] = "x_wait"

\* Where a backup command is.
BackupPlaces ==
    BackupTry \cup {"b_start", "b_lock", "b_putFull", "b_putLight", "b_finalFull", "b_finalLight"}

\* A host runs only commands it was given.
Commanded(p) ==
    /\ pc[p] \in BackupPlaces => "backup" \in Commands[p]
    /\ pc[p] \in {"p_lock", "p_plan"} => "purge" \in Commands[p]

\* Where a deletion has its backup's full metadata in the storage.
Marking == {"x_markFull", "x_markLight", "x_erase", "x_partFull", "x_partLight"}

\* The metadata of the backup being deleted are there until its deletion, and stay
\* when others link to it.
TargetThere(p) ==
    /\ pc[p] \in Marking => full[target[p]] # NoMeta
    /\ pc[p] = "x_wait" /\ Spared(p) # {} =>
          full[target[p]] # NoMeta /\ \A k \in pending[p] : k.kind = "data"

\* The backups that have metadata of either kind.
Described == {b \in Backups : full[b] # NoMeta \/ light[b] # NoMeta}

\* A purge knows the names of all backups it will find under the lock.
KnowsAll(p) == pc[p] \in {"p_lock", "p_plan"} => Described \subseteq listed[p]

PurgeInv == \A p \in Hosts : Commanded(p) /\ TargetThere(p) /\ KnowsAll(p)

UnderLockInv == PurgesItsOwn /\ TypeInv /\ LockInv /\ PendingInv /\ PurgeInv

\* What delete and a purge that knows all backups do alike: they plan the deletion of
\* some of the listed backups, or give up.
Plans(p) ==
    /\ pc[p] \in {"d_plan", "p_plan"}
    /\ \E deleting \in SUBSET Listing : DeleteBatch(p, deleting, Listing \ deleting)
    /\ UNCHANGED <<storage, holder, clock, used, target, meta, dedup, parts, listed, pending>>

GivesUp(p) ==
    /\ pc[p] \in {"d_plan", "p_plan"}
    /\ Go(p, "unlock")
    /\ UNCHANGED <<storage, holder, clock, used, locals>>

LEMMA PlansAlike ==
    ASSUME TypeOK, NEW p \in Hosts, KnowsAll(p)
    PROVE  /\ PlanDelete(p) \/ PlanPurge(p) => Plans(p)
           /\ BackupNotFound(p) \/ PurgeTypeError(p) => GivesUp(p)
<1>1. ASSUME PlanDelete(p)
      PROVE  Plans(p)
  <2>1. PICK name \in NamesOf(Listing), purgePartial \in BOOLEAN :
          DeleteBatch(p, DeletedByName(Listing, name, purgePartial),
                      Listing \ DeletedByName(Listing, name, purgePartial))
    BY <1>1 DEF PlanDelete
  <2>2. DeletedByName(Listing, name, purgePartial) \in SUBSET Listing
    BY DEF DeletedByName
  <2> QED BY <1>1, <2>1, <2>2 DEF PlanDelete, Plans
<1>2. ASSUME pc[p] = "p_plan"
      PROVE  \A s \in Listing : s.name \in listed[p]
  BY <1>2 DEF KnowsAll, Described, Listing
<1>3. ASSUME PlanPurge(p)
      PROVE  Plans(p)
  <2> DEFINE known == {s \in Listing : s.name \in listed[p]}
             kept(limit) == Retained(known, RetainCount, limit)
             strangers == UNION {KeysOf(b) : b \in NamesOf(Listing \ known)}
  <2>1. known = Listing
    BY <1>2, <1>3 DEF PlanPurge
  <2>2. PICK limit : DeleteBatch(p, known \ kept(limit), kept(limit))
    BY <1>3 DEF PlanPurge
  <2>3. known \ kept(limit) \in SUBSET Listing /\ kept(limit) = Listing \ (known \ kept(limit))
    BY <2>1 DEF Retained
  <2>4. pending' = [pending EXCEPT ![p] = @ \cup strangers]
    BY <1>3 DEF PlanPurge
  <2>5. strangers = {}
    BY <2>1 DEF NamesOf
  <2> HIDE DEF known, kept, strangers
  <2>6. pending' = pending
    BY <2>4, <2>5 DEF TypeOK
  <2>7. DeleteBatch(p, known \ kept(limit), Listing \ (known \ kept(limit)))
    BY <2>2, <2>3
  <2> QED BY <1>3, <2>3, <2>6, <2>7 DEF PlanPurge, Plans
<1>4. ASSUME BackupNotFound(p)
      PROVE  GivesUp(p)
  BY <1>4 DEF BackupNotFound, GivesUp
<1>5. ASSUME PurgeTypeError(p)
      PROVE  GivesUp(p)
  <2>1. PICK s \in Listing :
          /\ \A t \in NewerIn(s, Listing) : t.name \notin listed[p]
          /\ pending' = [pending EXCEPT ![p] =
                @ \cup UNION {KeysOf(b) : b \in NamesOf(NewerIn(s, Listing))}]
    BY <1>5 DEF PurgeTypeError
  <2>2. NewerIn(s, Listing) = {}
    BY <1>2, <1>5, <2>1 DEF NewerIn, PurgeTypeError
  <2>3. UNION {KeysOf(b) : b \in NamesOf(NewerIn(s, Listing))} = {}
    BY <2>2 DEF NamesOf
  <2>4. pending' = pending
    BY <2>1, <2>3 DEF TypeOK
  <2> QED BY <1>5, <2>4 DEF PurgeTypeError, GivesUp, locals, deletion
<1> QED BY <1>1, <1>3, <1>4, <1>5

LEMMA SequelPlaces ==
    ASSUME NEW step \in Sequel
    PROVE  /\ step[2] \in BackupPlaces => step[1] \in BackupPlaces
           /\ step[2] = "p_plan" => step[1] = "p_lock"
           /\ step[2] # "p_lock"
           /\ step[2] \in Marking => step[1] \in Marking
           /\ step[1] \in UploadFullAt \cup UploadLightAt => step[1] \in BackupPlaces \cup Marking
           /\ step[1] \in UploadFullAt \cup UploadLightAt => step[2] # "p_plan"
           /\ step[2] # "x_wait"
BY DEF Sequel, OtherSequel, BackupPlaces, BackupTry, Marking, UploadFullAt, UploadLightAt

LEMMA PendingNext ==
    ASSUME UnderLockInv, NEW p \in Hosts, Progress(p) \/ StartCommand(p) \/ Fault(p)
    PROVE  PendingInv'
<1> USE DEF Go
<1>1. TypeOK /\ PendingInv /\ Others(p) /\ KnowsAll(p)
  BY StepOthers DEF UnderLockInv, TypeInv, PurgeInv
<1> USE <1>1 DEF TypeOK, PendingInv
<1> SUFFICES pending'[p] # {} => pc'[p] = "x_wait"
  BY DEF Others
<1>2. CASE AcquireLock(p) \/ UploadFull(p) \/ UploadLight(p)
  BY <1>2 DEF AcquireLock, UploadFull, UploadLight, Waiting, UploadFullAt, UploadLightAt, locals,
              deletion
<1>3. CASE LockTimeout(p) \/ Exit(p) \/ SkipBackup(p) \/ Crash(p)
  BY <1>3, ForgetOthers DEF LockTimeout, Exit, SkipBackup, Crash
<1>4. CASE ReleaseLock(p) \/ UploadError(p)
  BY <1>4 DEF ReleaseLock, UploadError, UploadFullAt, UploadLightAt, locals, deletion
<1>5. CASE StartBackup(p) \/ CollectDedupInfo(p) \/ PopulateDedupInfo(p) \/ ReloadFails(p)
  BY <1>5 DEF StartBackup, CollectDedupInfo, PopulateDedupInfo, ReloadFails, deletion
<1>6. CASE FreezeTable(p) \/ DeduplicatePart(p) \/ ScheduleUpload(p) \/ PutPart(p)
  BY <1>6 DEF FreezeTable, DeduplicatePart, ScheduleUpload, PutPart, deletion
<1>7. CASE ObserveUpload(p) \/ TableDone(p) \/ BackupCreated(p) \/ BackupFailed(p)
  BY <1>7 DEF ObserveUpload, TableDone, BackupCreated, BackupFailed, BackupTry, locals, deletion
<1>8. CASE ListBackups(p) \/ StartDelete(p) \/ StartPurge(p)
  BY <1>8 DEF ListBackups, StartDelete, StartPurge, locals, deletion
<1>9. CASE Plans(p) \/ GivesUp(p)
  BY <1>9 DEF Plans, GivesUp, locals, deletion
<1>10. CASE DeleteNext(p) \/ DeletionEnds(p) \/ DeleteBackup(p) \/ DeleteDataParts(p)
  BY <1>10 DEF DeleteNext, DeletionEnds, DeleteBackup, DeleteDataParts, locals, deletion
<1>11. CASE EraseKey(p) \/ DeletionWaited(p) \/ DeletionFailed(p) \/ UnfreezeFailed(p)
  BY <1>11 DEF EraseKey, DeletionWaited, DeletionFailed, UnfreezeFailed, deletion
<1> QED BY <1>2, <1>3, <1>4, <1>5, <1>6, <1>7, <1>8, <1>9, <1>10, <1>11, PlansAlike
        DEF Progress, StartCommand, Fault, BackupStep, DeleteStep

\* Only a backup command gives metadata to a backup that had none.
LEMMA DescribedNext ==
    ASSUME UnderLockInv, NEW p \in Hosts, Progress(p) \/ StartCommand(p) \/ Fault(p),
           pc[p] \notin BackupPlaces
    PROVE  Described' \subseteq Described
<1>1. TypeOK /\ TargetThere(p)
  BY DEF UnderLockInv, TypeInv, PurgeInv
<1>2. CASE UNCHANGED <<full, light>>
  BY <1>2 DEF Described
<1>3. CASE UploadFull(p) \/ UploadLight(p)
  <2>1. pc[p] \in Marking
    BY <1>3, SequelPlaces DEF UploadFull, UploadLight, Advance
  <2>2. full[target[p]] # NoMeta
    BY <1>1, <2>1 DEF TargetThere
  <2>3. \A b \in Backups \ {target[p]} : full'[b] = full[b] /\ light'[b] = light[b]
    BY <1>1, <1>3 DEF UploadFull, UploadLight, TypeOK
  <2> QED BY <2>2, <2>3 DEF Described
<1>4. CASE EraseKey(p)
  <2>1. \A b \in Backups : full'[b] \in {full[b], NoMeta} /\ light'[b] \in {light[b], NoMeta}
    BY <1>1, <1>4 DEF EraseKey, TypeOK
  <2> QED BY <2>1 DEF Described
<1>5. CASE ObserveUpload(p)
  BY <1>5 DEF ObserveUpload, BackupPlaces, BackupTry
<1> QED BY <1>2, <1>3, <1>4, <1>5
        DEF Progress, StartCommand, Fault, BackupStep, DeleteStep, AcquireLock, LockTimeout, ReleaseLock,
            Exit, SkipBackup, Forget, StartBackup, CollectDedupInfo, PopulateDedupInfo, ReloadFails,
            FreezeTable, DeduplicatePart, ScheduleUpload, PutPart, TableDone, BackupCreated, PlanDelete,
            BackupNotFound, PlanPurge, PurgeTypeError, DeleteNext, DeletionEnds, DeleteBackup,
            DeleteDataParts, DeletionWaited, ListBackups, StartDelete, StartPurge, UploadError,
            BackupFailed, DeletionFailed, UnfreezeFailed, Crash, storage

\* Where a step takes a command: to a place of the same command, or out of it.
LEMMA CommandedNext ==
    ASSUME UnderLockInv, NEW p \in Hosts, Progress(p) \/ StartCommand(p) \/ Fault(p)
    PROVE  /\ Commanded(p)'
           /\ pc'[p] \in {"p_lock", "p_plan"} =>
                 \/ StartPurge(p)
                 \/ pc[p] \in {"p_lock", "p_plan"} /\ listed' = listed
<1> USE DEF Go
<1>1. TypeOK /\ Commanded(p) /\ KnowsAll(p)
  BY DEF UnderLockInv, TypeInv, PurgeInv
<1> DEFINE Same == pc'[p] = pc[p] /\ listed' = listed
           Onward == pc[p] \in BackupPlaces /\ pc'[p] \in BackupPlaces
           Out == pc'[p] \notin BackupPlaces \cup {"p_lock", "p_plan"}
           Locking == pc[p] = "p_lock" /\ pc'[p] = "p_plan" /\ listed' = listed
<1> USE <1>1 DEF TypeOK, BackupPlaces, BackupTry, locals, deletion
<1>2. CASE AcquireLock(p) \/ UploadFull(p) \/ UploadLight(p)
  <2>1. PICK step \in Sequel : step[1] = pc[p] /\ Go(p, step[2])
    BY <1>2 DEF AcquireLock, UploadFull, UploadLight, Advance
  <2>2. /\ step[2] \in BackupPlaces => step[1] \in BackupPlaces
        /\ step[2] = "p_plan" => step[1] = "p_lock"
        /\ step[2] # "p_lock"
    BY <2>1, SequelPlaces
  <2>3. Onward \/ Out \/ Locking
    BY <1>2, <2>1, <2>2 DEF AcquireLock, UploadFull, UploadLight
  <2> QED BY <2>3 DEF Commanded
<1>3. CASE LockTimeout(p) \/ Exit(p) \/ SkipBackup(p) \/ Crash(p)
  <2>1. Out
    BY <1>3, ForgetOthers DEF LockTimeout, Exit, SkipBackup, Crash
  <2> QED BY <2>1 DEF Commanded
<1>4. CASE ReleaseLock(p) \/ UploadError(p)
  <2>1. Out
    BY <1>4 DEF ReleaseLock, UploadError
  <2> QED BY <2>1 DEF Commanded
<1>5. CASE BackupStep(p) /\ ~SkipBackup(p)
  <2>1. Same \/ Onward
    BY <1>5 DEF BackupStep, StartBackup, CollectDedupInfo, PopulateDedupInfo, ReloadFails, FreezeTable,
                DeduplicatePart, ScheduleUpload, PutPart, ObserveUpload, TableDone, BackupCreated
  <2> QED BY <2>1 DEF Commanded
<1>6. CASE BackupFailed(p)
  <2>1. Onward
    BY <1>6 DEF BackupFailed
  <2> QED BY <2>1 DEF Commanded
<1>7. CASE ListBackups(p) \/ StartDelete(p) \/ StartPurge(p)
  BY <1>7 DEF ListBackups, StartDelete, StartPurge, Commanded
<1>8. CASE Plans(p) \/ GivesUp(p)
  <2>1. Out
    BY <1>8 DEF Plans, GivesUp, DeleteBatch
  <2> QED BY <2>1 DEF Commanded
<1>9. CASE DeleteNext(p) \/ DeletionEnds(p) \/ DeleteBackup(p) \/ DeleteDataParts(p)
  <2>1. Out
    BY <1>9 DEF DeleteNext, DeletionEnds, DeleteBackup, DeleteDataParts
  <2> QED BY <2>1 DEF Commanded
<1>10. CASE EraseKey(p) \/ UnfreezeFailed(p)
  <2>1. Same
    BY <1>10 DEF EraseKey, UnfreezeFailed
  <2> QED BY <2>1 DEF Commanded
<1>11. CASE DeletionWaited(p) \/ DeletionFailed(p)
  <2>1. Out
    BY <1>11 DEF DeletionWaited, DeletionFailed
  <2> QED BY <2>1 DEF Commanded
<1> QED BY <1>2, <1>3, <1>4, <1>5, <1>6, <1>7, <1>8, <1>9, <1>10, <1>11, PlansAlike
        DEF Progress, StartCommand, Fault, DeleteStep

\* While a host purges no other one backs up, and nothing else adds a name.
LEMMA KnowsNext ==
    ASSUME UnderLockInv, NEW p \in Hosts, Progress(p) \/ StartCommand(p) \/ Fault(p), NEW q \in Hosts
    PROVE  KnowsAll(q)'
<1> SUFFICES ASSUME pc'[q] \in {"p_lock", "p_plan"}
             PROVE  Described' \subseteq listed'[q]
  BY DEF KnowsAll
<1>1. TypeOK /\ Others(p) /\ KnowsAll(q) /\ Commanded(p) /\ Commanded(q)
  BY StepOthers DEF UnderLockInv, TypeInv, PurgeInv
<1>2. CASE p = q /\ StartPurge(p)
  <2>1. UNCHANGED <<full, light>> /\ listed'[q] = Prefixes
    BY <1>1, <1>2 DEF StartPurge, TypeOK, storage
  <2> QED BY <2>1 DEF Described, Prefixes
<1>3. CASE ~(p = q /\ StartPurge(p))
  <2>1. pc[q] \in {"p_lock", "p_plan"} /\ listed'[q] = listed[q]
    BY <1>1, <1>3, CommandedNext DEF Others
  <2>2. pc[p] \notin BackupPlaces
    BY <1>1, <2>1 DEF Commanded, UnderLockInv, PurgesItsOwn, BackupPlaces, BackupTry
  <2> QED BY <1>1, <2>1, <2>2, DescribedNext DEF KnowsAll
<1> QED BY <1>2, <1>3

LEMMA TargetNext ==
    ASSUME UnderLockInv, NEW p \in Hosts, Progress(p) \/ StartCommand(p) \/ Fault(p)
    PROVE  TargetThere(p)'
<1> USE DEF Go
<1>1. TypeOK /\ MetaKnown /\ PendingInv /\ TargetThere(p) /\ KnowsAll(p)
  BY DEF UnderLockInv, TypeInv, PurgeInv
<1> DEFINE Away == pc'[p] \notin Marking \cup {"x_wait"}
<1> USE <1>1 DEF TypeOK, locals, dedup, parts, deletion, storage
<1>2. Away => TargetThere(p)'
  BY DEF TargetThere
<1>3. CASE AcquireLock(p) \/ UploadFull(p) \/ UploadLight(p)
  <2>1. PICK step \in Sequel : step[1] = pc[p] /\ Go(p, step[2])
    BY <1>3 DEF AcquireLock, UploadFull, UploadLight, Advance
  <2>2. /\ step[2] \in Marking => step[1] \in Marking
        /\ step[2] # "x_wait"
    BY <2>1, SequelPlaces
  <2>3. meta[p] # NoMeta \/ AcquireLock(p) \/ UploadLight(p)
    BY <1>3, NoMetaIsAbsent DEF MetaKnown, UploadFull, HasMeta
  <2> QED BY <1>3, <2>1, <2>2, <2>3 DEF AcquireLock, UploadFull, UploadLight, TargetThere
<1>4. CASE LockTimeout(p) \/ Exit(p) \/ SkipBackup(p) \/ Crash(p)
  BY <1>2, <1>4, ForgetOthers DEF LockTimeout, Exit, SkipBackup, Crash, Marking
<1>5. CASE ReleaseLock(p) \/ UploadError(p) \/ ListBackups(p) \/ StartDelete(p) \/ StartPurge(p)
  BY <1>2, <1>5 DEF ReleaseLock, UploadError, ListBackups, StartDelete, StartPurge, Marking
<1>6. CASE StartBackup(p) \/ CollectDedupInfo(p) \/ PopulateDedupInfo(p) \/ ReloadFails(p)
  BY <1>2, <1>6 DEF StartBackup, CollectDedupInfo, PopulateDedupInfo, ReloadFails, Marking
<1>7. CASE FreezeTable(p) \/ DeduplicatePart(p) \/ ScheduleUpload(p) \/ ObserveUpload(p)
  BY <1>2, <1>7 DEF FreezeTable, DeduplicatePart, ScheduleUpload, ObserveUpload, Marking
<1>8. CASE PutPart(p)
  BY <1>8 DEF PutPart, TargetThere, Spared
<1>9. CASE TableDone(p) \/ BackupCreated(p) \/ BackupFailed(p)
  BY <1>2, <1>9 DEF TableDone, BackupCreated, BackupFailed, Marking
<1>10. CASE Plans(p) \/ GivesUp(p)
  BY <1>2, <1>10 DEF Plans, GivesUp, DeleteBatch, Marking
<1>11. CASE DeleteNext(p)
  BY <1>11 DEF DeleteNext, TargetThere
<1>12. CASE DeletionEnds(p) \/ DeletionFailed(p)
  BY <1>2, <1>12 DEF DeletionEnds, DeletionFailed, Marking
<1>13. CASE DeleteBackup(p)
  BY <1>13 DEF DeleteBackup, TargetThere, Spared, Marking
<1>14. CASE DeleteDataParts(p)
  <2>1. /\ UNCHANGED <<full, target>> /\ pc' = [pc EXCEPT ![p] = "x_wait"]
        /\ pending[p] = {} /\ full[target[p]] # NoMeta
    BY <1>14 DEF DeleteDataParts, PendingInv, TargetThere, Marking
  <2>2. \A k \in pending'[p] : k.kind = "data"
    BY <1>14, <2>1 DEF DeleteDataParts
  <2> QED BY <2>1, <2>2 DEF TargetThere, Marking
<1>15. CASE EraseKey(p)
  <2>1. PICK k \in pending[p] :
          /\ pending' = [pending EXCEPT ![p] = @ \ {k}]
          /\ full' = IF k.kind = "full" THEN [full EXCEPT ![k.backup] = NoMeta] ELSE full
          /\ UNCHANGED <<pc, target, refs>>
    BY <1>15 DEF EraseKey
  <2>2. pc'[p] = "x_wait"
    BY <2>1 DEF PendingInv
  <2> QED BY <2>1, <2>2 DEF TargetThere, Spared, Marking
<1>16. CASE DeletionWaited(p)
  BY <1>16 DEF DeletionWaited, TargetThere, Spared, Marking
<1>17. CASE UnfreezeFailed(p)
  BY <1>17 DEF UnfreezeFailed, TargetThere, Spared
<1> QED BY <1>3, <1>4, <1>5, <1>6, <1>7, <1>8, <1>9, <1>10, <1>11, <1>12, <1>13, <1>14, <1>15, <1>16,
           <1>17, PlansAlike
        DEF Progress, StartCommand, Fault, BackupStep, DeleteStep

LEMMA PurgeNext ==
    ASSUME UnderLockInv, NEW p \in Hosts, Progress(p) \/ StartCommand(p) \/ Fault(p)
    PROVE  PurgeInv'
<1>1. Others(p) /\ PurgeInv
  BY StepOthers DEF UnderLockInv, TypeInv
<1> SUFFICES ASSUME NEW q \in Hosts \ {p}
             PROVE  Commanded(q)' /\ TargetThere(q)'
  BY CommandedNext, TargetNext, KnowsNext DEF PurgeInv
<1>2. Commanded(q)'
  BY <1>1 DEF Others, PurgeInv, Commanded
<1>3. CASE pc[q] \in Marking \cup {"x_wait"}
  <2>1. pc[p] \notin Locked
    BY <1>3 DEF UnderLockInv, LockInv, Locked, Marking, UploadFullAt, UploadLightAt
  <2>2. full' = full
    BY <2>1, UnlockedWrites DEF UnderLockInv, PendingInv
  <2> QED BY <1>1, <1>2, <2>2 DEF Others, PurgeInv, TargetThere, Spared
<1>4. CASE pc[q] \notin Marking \cup {"x_wait"}
  BY <1>1, <1>2, <1>4 DEF Others, TargetThere
<1> QED BY <1>3, <1>4

LEMMA UnderLockNext == UnderLockInv /\ [Next]_vars => UnderLockInv'
<1> SUFFICES ASSUME UnderLockInv, [Next]_vars
             PROVE  PendingInv' /\ PurgeInv'
  BY NextType, LockNext DEF UnderLockInv, PurgesItsOwn
<1>1. CASE UNCHANGED vars
  BY <1>1 DEF vars, storage, locals, deletion, UnderLockInv, PendingInv, PurgeInv, Commanded, TargetThere,
              Spared, KnowsAll, Described
<1> QED BY <1>1, PendingNext, PurgeNext DEF Next

LEMMA UnderLockInit == PurgesItsOwn /\ Init => UnderLockInv
<1> SUFFICES ASSUME PurgesItsOwn, Init
             PROVE  UnderLockInv
  OBVIOUS
<1>1. LockInv
  BY NoHostIsAbsent DEF Init, LockInv, Locked, BackupTry, UploadFullAt, UploadLightAt
<1>2. PendingInv /\ PurgeInv
  BY DEF Init, PendingInv, PurgeInv, Commanded, TargetThere, KnowsAll, BackupPlaces, BackupTry, Marking
<1> QED BY <1>1, <1>2, InitType DEF UnderLockInv

LEMMA UnderLock == PurgesItsOwn /\ Spec => []UnderLockInv
BY UnderLockInit, UnderLockNext, PTL DEF Spec

\* A command under the lock that has listed the backups plans their deletion or gives up.
LEMMA PlansOrGivesUp ==
    ASSUME UnderLockInv, NEW p \in Hosts,
           PlanDelete(p) \/ PlanPurge(p) \/ BackupNotFound(p) \/ PurgeTypeError(p)
    PROVE  Plans(p) \/ GivesUp(p)
BY PlansAlike DEF UnderLockInv, TypeInv, PurgeInv

\* Where hosts purge only what they back up themselves, metadata are put and objects
\* deleted only under the lock: backup() and _delete() leave nothing behind them when they release it.
THEOREM LockProtectsStorage == PurgesItsOwn /\ Spec => WritesUnderLock
<1> DEFINE Protected ==
      full' # full \/ light' # light \/ ~(StoredParts \subseteq StoredParts') => holder # NoHost
<1>1. UnderLockInv /\ [Next]_vars => Protected
  <2> SUFFICES ASSUME UnderLockInv, [Next]_vars, holder = NoHost
               PROVE  UNCHANGED <<full, light>> /\ StoredParts \subseteq StoredParts'
    OBVIOUS
  <2>1. CASE UNCHANGED vars
    BY <2>1 DEF vars, storage, StoredParts
  <2>2. ASSUME NEW p \in Hosts, Progress(p) \/ StartCommand(p) \/ Fault(p)
        PROVE  UNCHANGED <<full, light>> /\ StoredParts \subseteq StoredParts'
    <3>1. pc[p] \notin Locked
      BY NoHostIsAbsent DEF UnderLockInv, LockInv
    <3> QED BY <2>2, <3>1, UnlockedWrites DEF UnderLockInv, PendingInv
  <2> QED BY <2>1, <2>2 DEF Next
<1>2. UnderLockInv /\ [Next]_vars => [Protected]_vars
  BY <1>1
<1> QED BY <1>2, UnderLock, PTL DEF Spec, WritesUnderLock

-----------------------------------------------------------------------------
(* The two metadata objects of a backup.                                    *)

LightKey(b) == [kind |-> "light", backup |-> b, part |-> NoPart]

\* A light object is put after the full one of the same backup and deleted
\* before it: whoever is about to put it has the full one in the storage, and
\* whoever will delete the full one has the light one still to delete.
LoadInv ==
    /\ ListedLoadable
    /\ \A p \in Hosts :
        /\ pc[p] \in UploadLightAt => full[target[p]] # NoMeta
        /\ \A k \in pending[p] :
              k.kind = "full" /\ light[k.backup] # NoMeta => LightKey(k.backup) \in pending[p]

\* A step that touches neither the metadata objects nor the way to them.
LEMMA LoadUntouched ==
    ASSUME UnderLockInv, LoadInv, NEW p \in Hosts, UNCHANGED <<full, light>>,
           \A q \in Hosts \ {p} : UNCHANGED <<pc[q], target[q], pending[q]>>,
           pc'[p] \in UploadLightAt => pc[p] \in UploadLightAt /\ UNCHANGED target[p],
           pending'[p] \in {{}, pending[p]}
    PROVE  LoadInv'
BY DEF LoadInv, ListedLoadable, LightKey

\* Two hosts are not both in the middle of metadata uploads or deletions.
LEMMA OneInside ==
    ASSUME UnderLockInv, NEW p \in Hosts, pc[p] \in Locked, NEW q \in Hosts \ {p}
    PROVE  pending[q] = {} /\ pc[q] \notin UploadLightAt
<1>1. pc[q] \notin Locked
  BY DEF UnderLockInv, LockInv
<1> QED BY <1>1 DEF UnderLockInv, PendingInv, Locked

LEMMA LoadNext == UnderLockInv /\ LoadInv /\ [Next]_vars => LoadInv'
<1> SUFFICES ASSUME UnderLockInv, LoadInv, [Next]_vars
             PROVE  LoadInv'
  OBVIOUS
<1>1. UNCHANGED vars => LoadInv'
  BY DEF vars, storage, locals, deletion, LoadInv, ListedLoadable, LightKey
<1>2. SUFFICES ASSUME NEW p \in Hosts, Progress(p) \/ StartCommand(p) \/ Fault(p)
               PROVE  LoadInv'
  BY <1>1 DEF Next
<1> USE DEF Go
<1>3. TypeOK /\ MetaKnown /\ PendingInv /\ LockInv
  BY DEF UnderLockInv, TypeInv
<1>4. CASE AcquireLock(p)
  <2>1. PICK step \in Sequel : step[1] = pc[p] /\ Go(p, step[2])
    BY <1>4 DEF AcquireLock, Advance
  <2>2. step[2] \notin UploadLightAt
    BY <1>4, <2>1, SequelLocked DEF AcquireLock, Waiting, UploadFullAt
  <2> QED BY <1>3, <1>4, <2>1, <2>2, LoadUntouched DEF AcquireLock, TypeOK, storage, locals, deletion
<1>5. CASE UploadFull(p)
  <2>1. meta[p] \in Meta /\ target[p] \in Backups /\ pc[p] \in Locked /\ pending[p] = {}
    BY <1>3, <1>5 DEF UploadFull, MetaKnown, HasMeta, PendingInv, Locked, UploadFullAt
  <2>2. full'[target[p]] # NoMeta /\ \A b \in Backups : full[b] # NoMeta => full'[b] # NoMeta
    BY <1>3, <1>5, <2>1, NoMetaIsAbsent DEF UploadFull, TypeOK
  <2>3. PICK step \in Sequel : step[1] = pc[p] /\ Go(p, step[2])
    BY <1>5 DEF UploadFull, Advance
  <2>4. ListedLoadable'
    BY <1>5, <2>2 DEF UploadFull, LoadInv, ListedLoadable
  <2>5. ASSUME NEW q \in Hosts
        PROVE  /\ pc'[q] \in UploadLightAt => full'[target'[q]] # NoMeta
               /\ pending'[q] = {}
    BY <1>3, <1>5, <2>1, <2>2, <2>3, OneInside DEF UploadFull, TypeOK, locals, deletion
  <2> QED BY <2>4, <2>5 DEF LoadInv
<1>6. CASE UploadLight(p)
  <2>1. target[p] \in Backups /\ pc[p] \in Locked /\ pending[p] = {} /\ full[target[p]] # NoMeta
    BY <1>3, <1>6 DEF UploadLight, MetaKnown, HasMeta, PendingInv, Locked, UploadLightAt, LoadInv
  <2>2. PICK step \in Sequel : step[1] = pc[p] /\ Go(p, step[2])
    BY <1>6 DEF UploadLight, Advance
  <2>3. step[2] \notin UploadLightAt
    BY <1>6, <2>2, SequelLocked DEF UploadLight, UploadLightAt, UploadFullAt
  <2>4. ListedLoadable'
    BY <1>3, <1>6, <2>1 DEF UploadLight, TypeOK, LoadInv, ListedLoadable
  <2>5. ASSUME NEW q \in Hosts
        PROVE  pc'[q] \notin UploadLightAt /\ pending'[q] = {}
    BY <1>3, <1>6, <2>1, <2>2, <2>3, OneInside DEF UploadLight, TypeOK, locals, deletion
  <2> QED BY <2>4, <2>5 DEF LoadInv
<1>7. CASE ObserveUpload(p)
  <2>1. meta'[p] # NoMeta /\ target[p] \in Backups /\ pc[p] \in Locked /\ pending[p] = {}
    <3>1. meta[p] \in Meta /\ target[p] \in Backups
      BY <1>3, <1>7 DEF ObserveUpload, MetaKnown, HasMeta, BackupTry
    <3>2. PICK f \in uploaded[p] : meta' = [meta EXCEPT ![p].parts = @ \cup {OwnPart(f)}]
      BY <1>7 DEF ObserveUpload
    <3>3. [meta[p] EXCEPT !.parts = @ \cup {OwnPart(f)}] \in Meta
      BY <1>3, <3>1, OwnPartType, AddPartsType DEF TypeOK
    <3>4. meta'[p] \in Meta
      BY <1>3, <3>2, <3>3 DEF TypeOK
    <3> QED BY <1>3, <1>7, <3>1, <3>4, NoMetaIsAbsent DEF ObserveUpload, BackupTry, PendingInv, Locked
  <2>2. \A b \in Backups : full[b] # NoMeta => full'[b] # NoMeta
    BY <1>3, <1>7, <2>1 DEF ObserveUpload, TypeOK
  <2>3. ListedLoadable'
    BY <1>7, <2>2 DEF ObserveUpload, LoadInv, ListedLoadable
  <2>4. ASSUME NEW q \in Hosts
        PROVE  pc'[q] \notin UploadLightAt /\ pending'[q] = {}
    BY <1>7, <2>1, OneInside DEF ObserveUpload, UploadLightAt, deletion
  <2> QED BY <2>3, <2>4 DEF LoadInv
<1>8. CASE \/ LockTimeout(p) \/ Exit(p) \/ SkipBackup(p) \/ Crash(p)
  <2>1. /\ UNCHANGED <<full, light>>
        /\ pc' = [pc EXCEPT ![p] = "idle"]
        /\ target' = [target EXCEPT ![p] = NoBackup]
        /\ pending' = [pending EXCEPT ![p] = {}]
    <3>1. CASE LockTimeout(p)
      BY <3>1 DEF LockTimeout, Forget, storage
    <3>2. CASE Exit(p)
      BY <3>2 DEF Exit, Forget, storage
    <3>3. CASE SkipBackup(p)
      BY <3>3 DEF SkipBackup, Forget, storage
    <3>4. CASE Crash(p)
      BY <3>4 DEF Crash, Forget, storage
    <3> QED BY <1>8, <3>1, <3>2, <3>3, <3>4
  <2>2. /\ pc'[p] = "idle" /\ pending'[p] = {}
        /\ \A q \in Hosts \ {p} : UNCHANGED <<pc[q], target[q], pending[q]>>
    BY <1>3, <2>1 DEF TypeOK
  <2>3. pc'[p] \notin UploadLightAt
    BY <2>2 DEF UploadLightAt
  <2> QED BY <2>1, <2>2, <2>3, LoadUntouched
<1>9. CASE ReleaseLock(p) \/ UploadError(p)
  BY <1>3, <1>9, LoadUntouched DEF ReleaseLock, UploadError, TypeOK, storage, locals, deletion,
                                   UploadLightAt
<1>10. CASE BackupStep(p) /\ ~SkipBackup(p) /\ ~ObserveUpload(p)
  BY <1>3, <1>10, LoadUntouched
     DEF BackupStep, StartBackup, CollectDedupInfo, PopulateDedupInfo, ReloadFails, FreezeTable,
         DeduplicatePart, ScheduleUpload, PutPart, TableDone, BackupCreated, TypeOK, storage,
         locals, deletion, UploadLightAt
<1>11. CASE ListBackups(p) \/ BackupFailed(p) \/ StartDelete(p) \/ StartPurge(p)
  BY <1>3, <1>11, LoadUntouched
     DEF ListBackups, BackupFailed, StartDelete, StartPurge, TypeOK, storage, locals, deletion,
         UploadLightAt
<1>12. CASE Plans(p) \/ GivesUp(p)
  BY <1>3, <1>12, LoadUntouched
     DEF Plans, GivesUp, DeleteBatch, TypeOK, storage, locals, deletion, UploadLightAt
<1>13. PlanDelete(p) \/ PlanPurge(p) \/ BackupNotFound(p) \/ PurgeTypeError(p) => Plans(p) \/ GivesUp(p)
  BY PlansOrGivesUp
<1>14. CASE DeleteNext(p) \/ DeletionEnds(p) \/ DeletionWaited(p) \/ DeletionFailed(p) \/ UnfreezeFailed(p)
  BY <1>3, <1>14, LoadUntouched
     DEF DeleteNext, DeletionEnds, DeletionWaited, DeletionFailed, UnfreezeFailed, TypeOK, storage,
         locals, deletion, UploadLightAt
<1>15. CASE DeleteBackup(p)
  <2>1. UNCHANGED <<full, light, target>> /\ pc' = [pc EXCEPT ![p] = "x_wait"]
    BY <1>15 DEF DeleteBackup, storage
  <2>2. pending[p] = {} /\ pending' = [pending EXCEPT ![p] = KeysOf(target[p])]
    BY <1>3, <1>15 DEF DeleteBackup, PendingInv
  <2>3. ASSUME NEW k \in KeysOf(target[p]), k.kind = "full", light[k.backup] # NoMeta
        PROVE  LightKey(k.backup) \in KeysOf(target[p])
    BY <2>3 DEF KeysOf, LightKey
  <2>4. ASSUME NEW q \in Hosts, NEW k \in pending'[q], k.kind = "full", light[k.backup] # NoMeta
        PROVE  LightKey(k.backup) \in pending'[q]
    BY <1>3, <2>2, <2>3, <2>4 DEF TypeOK, LoadInv
  <2>5. ASSUME NEW q \in Hosts, pc'[q] \in UploadLightAt
        PROVE  full'[target'[q]] # NoMeta
    BY <1>3, <2>1, <2>5 DEF TypeOK, LoadInv, UploadLightAt
  <2> QED BY <2>1, <2>4, <2>5 DEF LoadInv, ListedLoadable, LightKey
<1>16. CASE DeleteDataParts(p)
  <2> DEFINE own == {e \in {d \in meta[p].parts : d.name \notin Spared(p)} : e.link = NoBackup}
             keys == {[kind |-> "data", backup |-> target[p], part |-> e.name] : e \in own}
  <2>1. /\ UNCHANGED <<full, light, target>>
        /\ pc' = [pc EXCEPT ![p] = "x_wait"]
        /\ pending' = [pending EXCEPT ![p] = @ \cup keys]
    BY <1>16 DEF DeleteDataParts, storage
  <2>2. \A k \in keys : k.kind = "data"
    OBVIOUS
  <2> HIDE DEF keys, own
  <2>3. ASSUME NEW q \in Hosts, NEW k \in pending'[q], k.kind = "full", light[k.backup] # NoMeta
        PROVE  LightKey(k.backup) \in pending'[q]
    BY <1>3, <2>1, <2>2, <2>3 DEF TypeOK, LoadInv
  <2>4. ASSUME NEW q \in Hosts, pc'[q] \in UploadLightAt
        PROVE  full'[target'[q]] # NoMeta
    BY <1>3, <2>1, <2>4 DEF TypeOK, LoadInv, UploadLightAt
  <2> QED BY <2>1, <2>3, <2>4 DEF LoadInv, ListedLoadable, LightKey
<1>17. CASE EraseKey(p)
  <2>1. PICK k \in pending[p] :
          /\ InOrder(k, pending[p])
          /\ pending' = [pending EXCEPT ![p] = @ \ {k}]
          /\ light' = IF k.kind = "light" THEN [light EXCEPT ![k.backup] = NoMeta] ELSE light
          /\ full' = IF k.kind = "full" THEN [full EXCEPT ![k.backup] = NoMeta] ELSE full
          /\ UNCHANGED <<pc, target>>
    BY <1>17 DEF EraseKey
  <2>2. pc[p] = "x_wait" /\ k \in Key
    BY <1>3 DEF PendingInv, TypeOK
  <2>3. pc[p] \in Locked /\ pc[p] \notin UploadLightAt
    BY <2>2 DEF Locked, UploadLightAt
  <2>4. ASSUME NEW q \in Hosts
        PROVE  pc'[q] \notin UploadLightAt
    BY <2>1, <2>3, OneInside
  <2>5. ASSUME NEW q \in Hosts \ {p}
        PROVE  pending'[q] = {}
    BY <1>3, <2>1, <2>3, OneInside DEF TypeOK
  <2>6. CASE k.kind = "light"
    <3>1. ASSUME NEW b \in Backups
          PROVE  light'[b] = NoMeta \/ light'[b] = light[b]
      BY <1>3, <2>1, <2>6 DEF TypeOK
    <3>2. ASSUME NEW j \in pending'[p], j.kind = "full", light'[j.backup] # NoMeta
          PROVE  LightKey(j.backup) \in pending'[p]
      <4>1. j \in pending[p] /\ j \in Key /\ light[j.backup] # NoMeta /\ j.backup # k.backup
        BY <1>3, <2>1, <2>2, <2>6, <3>1, <3>2 DEF TypeOK, Key
      <4>2. LightKey(j.backup) \in pending[p]
        BY <3>2, <4>1 DEF LoadInv
      <4> QED BY <1>3, <2>1, <4>1, <4>2 DEF TypeOK, LightKey
    <3>3. ListedLoadable'
      BY <2>1, <2>6, <3>1 DEF LoadInv, ListedLoadable
    <3> QED BY <2>4, <2>5, <3>2, <3>3 DEF LoadInv
  <2>7. CASE k.kind # "light"
    <3>1. light' = light
      BY <2>1, <2>7
    <3>2. ASSUME NEW j \in pending'[p], j.kind = "full", light'[j.backup] # NoMeta
          PROVE  LightKey(j.backup) \in pending'[p]
      BY <1>3, <2>1, <2>7, <3>1, <3>2 DEF LoadInv, LightKey, TypeOK
    <3>3. CASE k.kind = "full"
      <4>1. light[k.backup] = NoMeta
        <5>1. SUFFICES ASSUME LightKey(k.backup) \in pending[p]
                       PROVE  FALSE
          BY <3>3 DEF LoadInv
        <5>2. Rank["full"] <= Rank["light"]
          BY <2>1, <3>3, <5>1 DEF InOrder, LightKey
        <5> QED BY <5>2 DEF Rank
      <4>2. ListedLoadable'
        BY <1>3, <2>1, <2>2, <3>1, <3>3, <4>1 DEF TypeOK, LoadInv, ListedLoadable, Key
      <4> QED BY <2>4, <2>5, <3>2, <4>2 DEF LoadInv
    <3>4. CASE k.kind # "full"
      <4>1. ListedLoadable'
        BY <2>1, <3>1, <3>4 DEF LoadInv, ListedLoadable
      <4> QED BY <2>4, <2>5, <3>2, <4>1 DEF LoadInv
    <3> QED BY <3>3, <3>4
  <2> QED BY <2>6, <2>7
<1> QED BY <1>2, <1>4, <1>5, <1>6, <1>7, <1>8, <1>9, <1>10, <1>11, <1>12, <1>13, <1>14, <1>15, <1>16,
           <1>17 DEF Progress, StartCommand, Fault, DeleteStep

\* Where hosts purge only what they back up themselves, a backup that is listed can be
\* loaded, between any two requests of any command and after any crash or error.
THEOREM ListedIsLoadable == PurgesItsOwn /\ Spec => []ListedLoadable
<1>1. Init => LoadInv
  BY DEF Init, LoadInv, ListedLoadable, UploadLightAt
<1>2. UnderLockInv /\ LoadInv /\ [Next]_vars => LoadInv'
  BY LoadNext
<1>3. LoadInv => ListedLoadable
  BY DEF LoadInv
<1> QED BY <1>1, <1>2, <1>3, UnderLock, PTL DEF Spec

\* A purge by a host that purges only its own backups applies the retention policy
\* unless it suffers a fault itself: _delete_batch() finds every retained backup's
\* metadata, whatever earlier faults left behind.
THEOREM PurgesApplyPolicy == RetainCount \in Nat /\ PurgesItsOwn /\ Spec => PurgeAppliesPolicy
<1> SUFFICES ASSUME RetainCount \in Nat
             PROVE  PurgesItsOwn /\ Spec => PurgeAppliesPolicy
  OBVIOUS
<1> DEFINE Applied == \A p \in Hosts : pc[p] = "p_plan" /\ pc'[p] # "p_plan" /\ faults' = faults
                                          => pc'[p] = "x_next"
<1>1. UnderLockInv /\ ListedLoadable /\ [Next]_vars => Applied
  <2> SUFFICES ASSUME UnderLockInv, ListedLoadable, [Next]_vars, NEW p \in Hosts,
                      pc[p] = "p_plan", pc'[p] # "p_plan", faults' = faults
               PROVE  pc'[p] = "x_next"
    OBVIOUS
  <2>1. TypeOK /\ KnowsAll(p) /\ pending[p] = {}
    BY DEF UnderLockInv, TypeInv, PurgeInv, PendingInv
  <2>2. PICK q \in Hosts : Progress(q) \/ StartCommand(q) \/ Fault(q)
    BY DEF Next, vars
  <2>3. q = p
    BY <2>1, <2>2, StepOthers DEF Others
  <2>4. ~Fault(p)
    BY <2>1 DEF Fault, TypeOK
  <2>5. ~PurgeTypeError(p)
    BY ConfigAssumption DEF PurgeTypeError
  <2>6. PlanPurge(p)
    <3>1. pc[p] \notin Waiting \cup UploadFullAt \cup UploadLightAt \cup BackupTry
                       \cup {"idle", "unlock", "exit", "b_start", "x_next", "x_erase", "x_wait", "d_plan"}
      BY DEF Waiting, UploadFullAt, UploadLightAt, BackupTry
    <3> QED BY <2>1, <2>2, <2>3, <2>4, <2>5, <3>1
            DEF Progress, StartCommand, AcquireLock, LockTimeout, ReleaseLock, Exit, UploadFull, UploadLight,
                BackupStep, DeleteStep, SkipBackup, StartBackup, CollectDedupInfo, PopulateDedupInfo,
                ReloadFails, FreezeTable, DeduplicatePart, ScheduleUpload, PutPart, ObserveUpload,
                TableDone, BackupCreated, PlanDelete, BackupNotFound, DeleteNext, DeletionEnds,
                DeleteBackup, DeleteDataParts, EraseKey, DeletionWaited, ListBackups, StartDelete,
                StartPurge, BackupTry
  <2>7. Plans(p)
    BY <2>1, <2>6, PlansAlike
  <2>8. PICK deleting \in SUBSET Listing : DeleteBatch(p, deleting, Listing \ deleting)
    BY <2>7 DEF Plans
  <2>9. NoMeta \notin {full[s.name] : s \in Listing \ deleting}
    BY DEF ListedLoadable, Listing
  <2> QED BY <2>1, <2>8, <2>9 DEF DeleteBatch, Go, TypeOK
<1>2. UnderLockInv /\ ListedLoadable /\ [Next]_vars => [Applied]_vars
  BY <1>1
<1> QED BY <1>2, UnderLock, ListedIsLoadable, PTL DEF Spec, PurgeAppliesPolicy

-----------------------------------------------------------------------------
(***************************************************************************)
(* What the storage and the commands together say about a backup: its      *)
(* parts, when it started, which data it has stored and what links to it.  *)
(***************************************************************************)

(* The account.                                                             *)

\* Where a backup command has metadata, and where a deletion has.
Creates == BackupTry \cup {"b_lock", "b_putFull", "b_putLight", "b_finalFull", "b_finalLight"}
Deletes == {"x_markFull", "x_markLight", "x_erase", "x_wait", "x_partFull", "x_partLight"}

\* Part e is in the metadata of backup b, in the storage or in memory.
PartOf(b, e) ==
    \/ full[b] # NoMeta /\ e \in full[b].parts
    \/ \E p \in Hosts : pc[p] \in HasMeta /\ target[p] = b /\ e \in meta[p].parts

\* Backup b started at t: so say its metadata or a listing some host still has.
Started(b, t) ==
    \/ full[b] # NoMeta /\ full[b].start = t
    \/ light[b] # NoMeta /\ light[b].start = t
    \/ \E p \in Hosts : pc[p] \in HasMeta /\ target[p] = b /\ meta[p].start = t
    \/ \E p \in Hosts : \E s \in seen[p] \cup work[p] : s.name = b /\ s.start = t

\* The data a row stands for.
RowData(r) ==
    <<r.backup, IF r.linkPartName = NoPart THEN r.name ELSE r.linkPartName, r.sum>>

\* Parts of the host's backup that are still to be put into its metadata.
OnTheWay(p) == todo[p] \cup uploading[p] \cup uploaded[p]

\* Someone takes part n of backup b to hold data with checksum s: the storage, the
\* metadata of b, a link to b, a row of deduplication, or the host that uploads b.
Claimed(b, n, s) ==
    \/ <<b, n, s>> \in data
    \/ \E c \in Backups : \E e \in Part : PartOf(c, e) /\ DataOf(c, e) = <<b, n, s>>
    \/ \E p \in Hosts : \E r \in rows[p] : RowData(r) = <<b, n, s>>
    \/ \E p \in Hosts : \E f \in OnTheWay(p) : target[p] = b /\ f.name = n /\ f.sum = s

\* The data of part n of backup b are linked to, or may be by a row.
LinkedTo(b, n) ==
    \/ \E c \in Backups : \E e \in Part : PartOf(c, e) /\ e.link = b /\ StoredName(e) = n
    \/ \E p \in Hosts : \E r \in rows[p] : r.backup = b /\ RowData(r)[2] = n

\* A step after which nothing is said of a backup that was not said before.
NoNewParts == \A b \in Backups : \A e \in Part : PartOf(b, e)' => PartOf(b, e)
NoNewStarts == \A b \in Backups : \A t \in Nat : Started(b, t)' => Started(b, t)
NoNewClaims ==
    \A b \in Backups : \A n \in PartNames : \A s \in Sums : Claimed(b, n, s)' => Claimed(b, n, s)
NoNewLinks == \A b \in Backups : \A n \in PartNames : LinkedTo(b, n)' => LinkedTo(b, n)

NothingNew == NoNewParts /\ NoNewStarts /\ NoNewClaims /\ NoNewLinks

\* A step of host p that says nothing new: what it stores, lists and remembers it
\* takes from what was said before.
LEMMA OldNews ==
    ASSUME TypeInv, TypeInv', NEW p \in Hosts, Others(p),
           \A b \in Backups : full'[b] # NoMeta =>
              \/ full[b] # NoMeta /\ full'[b].start = full[b].start /\ full'[b].parts \subseteq full[b].parts
              \/ /\ pc[p] \in HasMeta /\ target[p] = b
                 /\ full'[b].start = meta[p].start /\ full'[b].parts \subseteq meta[p].parts,
           pc'[p] \in HasMeta =>
              \E m \in Meta :
                 /\ meta'[p].start = m.start /\ meta'[p].parts \subseteq m.parts
                 /\ \/ pc[p] \in HasMeta /\ target[p] = target'[p] /\ m = meta[p]
                    \/ full[target'[p]] # NoMeta /\ m = full[target'[p]],
           \A b \in Backups : light'[b] # NoMeta => Started(b, light'[b].start),
           \A s \in seen'[p] \cup work'[p] : Started(s.name, s.start),
           rows'[p] \subseteq rows[p],
           \A d \in data' : d \in data \/ \E f \in OnTheWay(p) : d = <<target[p], f.name, f.sum>>,
           \A f \in OnTheWay(p)' : f \in OnTheWay(p) /\ target'[p] = target[p]
    PROVE  NothingNew
<1> HIDE DEF HasMeta
<1>1. ASSUME NEW b \in Backups, NEW e \in Part, PartOf(b, e)'
      PROVE  PartOf(b, e)
  BY <1>1 DEF PartOf, Others
<1>2. ASSUME NEW b \in Backups, NEW t \in Nat, Started(b, t)'
      PROVE  Started(b, t)
  BY <1>2 DEF Started, Others
<1>3. ASSUME NEW b \in Backups, NEW n \in PartNames, NEW s \in Sums, Claimed(b, n, s)'
      PROVE  Claimed(b, n, s)
  <2>1. CASE <<b, n, s>> \in data'
    BY <2>1 DEF Claimed
  <2>2. CASE \E c \in Backups : \E e \in Part : PartOf(c, e)' /\ DataOf(c, e) = <<b, n, s>>
    BY <1>1, <2>2 DEF Claimed
  <2>3. CASE \E q \in Hosts : \E r \in rows'[q] : RowData(r) = <<b, n, s>>
    BY <2>3 DEF Claimed, Others
  <2>4. CASE \E q \in Hosts : \E f \in OnTheWay(q)' : target'[q] = b /\ f.name = n /\ f.sum = s
    BY <2>4 DEF Claimed, Others, OnTheWay
  <2> QED BY <1>3, <2>1, <2>2, <2>3, <2>4 DEF Claimed
<1>4. ASSUME NEW b \in Backups, NEW n \in PartNames, LinkedTo(b, n)'
      PROVE  LinkedTo(b, n)
  <2>1. CASE \E c \in Backups : \E e \in Part : PartOf(c, e)' /\ e.link = b /\ StoredName(e) = n
    BY <1>1, <2>1 DEF LinkedTo
  <2>2. CASE \E q \in Hosts : \E r \in rows'[q] : r.backup = b /\ RowData(r)[2] = n
    BY <2>2 DEF LinkedTo, Others
  <2> QED BY <1>4, <2>1, <2>2 DEF LinkedTo
<1> QED BY <1>1, <1>2, <1>3, <1>4 DEF NothingNew, NoNewParts, NoNewStarts, NoNewClaims, NoNewLinks

-----------------------------------------------------------------------------
(* The steps, one host at a time.                                           *)

\* Where parts can be on their way into the metadata, and where a backup has looked
\* for parts to reuse.
PartsAt ==
    {"b_parts", "b_tableFull", "b_tableLight", "b_done", "b_finalFull", "b_finalLight",
     "unlock", "exit"}

\* A command has parts on their way, and sources to reuse, only once it got there.
Resting ==
    \A p \in Hosts :
        /\ pc[p] \notin PartsAt => OnTheWay(p) = {}
        /\ pc[p] \notin PartsAt \cup {"b_dedup"} => sources[p] = {} /\ rows[p] = {}

LEMMA RestingNext ==
    ASSUME UnderLockInv, Resting, NEW p \in Hosts, Progress(p) \/ StartCommand(p) \/ Fault(p)
    PROVE  Resting'
<1> USE DEF TypeOK, Go, locals, dedup, parts, deletion
<1>1. TypeOK /\ Others(p) /\ PendingInv
  BY StepOthers DEF UnderLockInv, TypeInv
<1> SUFFICES /\ pc'[p] \notin PartsAt => OnTheWay(p)' = {}
             /\ pc'[p] \notin PartsAt \cup {"b_dedup"} => sources'[p] = {} /\ rows'[p] = {}
  BY <1>1 DEF Resting, Others, OnTheWay
<1> USE <1>1 DEF Resting, OnTheWay
<1>2. CASE LockTimeout(p) \/ Exit(p) \/ SkipBackup(p) \/ Crash(p)
  BY <1>2, ForgetOthers DEF LockTimeout, Exit, SkipBackup, Crash
<1>3. CASE AcquireLock(p) \/ UploadFull(p) \/ UploadLight(p)
  <2>1. PICK step \in Sequel : step[1] = pc[p] /\ Go(p, step[2])
    BY <1>3 DEF AcquireLock, UploadFull, UploadLight, Advance
  <2>2. /\ step[2] \notin PartsAt => step[1] \notin PartsAt
        /\ step[2] \notin PartsAt \cup {"b_dedup"} => step[1] \notin PartsAt \cup {"b_dedup"}
    BY DEF Sequel, OtherSequel, PartsAt
  <2> QED BY <1>3, <2>1, <2>2 DEF AcquireLock, UploadFull, UploadLight
<1>4. CASE ReleaseLock(p) \/ UploadError(p) \/ ListBackups(p) \/ StartBackup(p) \/ CollectDedupInfo(p)
  BY <1>4 DEF ReleaseLock, UploadError, ListBackups, StartBackup, CollectDedupInfo, PartsAt
<1>5. CASE PopulateDedupInfo(p) \/ ReloadFails(p) \/ FreezeTable(p)
  BY <1>5 DEF PopulateDedupInfo, ReloadFails, FreezeTable, PartsAt
<1>6. CASE DeduplicatePart(p) \/ ScheduleUpload(p) \/ ObserveUpload(p) \/ TableDone(p)
  BY <1>6 DEF DeduplicatePart, ScheduleUpload, ObserveUpload, TableDone, PartsAt
<1>7. CASE PutPart(p) \/ BackupCreated(p) \/ BackupFailed(p) \/ StartDelete(p) \/ StartPurge(p)
  BY <1>7 DEF PutPart, BackupCreated, BackupFailed, StartDelete, StartPurge, PartsAt
<1>8. CASE Plans(p) \/ GivesUp(p)
  BY <1>8 DEF Plans, GivesUp, DeleteBatch, PartsAt
<1>9. PlanDelete(p) \/ PlanPurge(p) \/ BackupNotFound(p) \/ PurgeTypeError(p) => Plans(p) \/ GivesUp(p)
  BY PlansOrGivesUp
<1>10. CASE DeleteNext(p) \/ DeletionEnds(p) \/ DeleteBackup(p) \/ DeleteDataParts(p)
  BY <1>10 DEF DeleteNext, DeletionEnds, DeleteBackup, DeleteDataParts, PartsAt
<1>11. CASE EraseKey(p) \/ DeletionWaited(p) \/ DeletionFailed(p) \/ UnfreezeFailed(p)
  BY <1>11 DEF EraseKey, DeletionWaited, DeletionFailed, UnfreezeFailed, PartsAt
<1> QED BY <1>2, <1>3, <1>4, <1>5, <1>6, <1>7, <1>8, <1>9, <1>10, <1>11
        DEF Progress, StartCommand, Fault, BackupStep, DeleteStep

\* The steps that say nothing new: all but those that give a backup its start time,
\* its parts or its links.
LEMMA OldNewsSteps ==
    ASSUME UnderLockInv, TypeInv', Resting, NEW p \in Hosts, Progress(p) \/ StartCommand(p) \/ Fault(p),
           ~(\/ StartBackup(p) \/ PopulateDedupInfo(p) \/ FreezeTable(p)
             \/ DeduplicatePart(p) \/ ObserveUpload(p))
    PROVE  NothingNew
<1> USE DEF Go, storage, locals, dedup, parts, deletion
<1> HIDE DEF HasMeta
<1>1. TypeOK /\ TypeInv /\ MetaKnown /\ Others(p) /\ PendingInv
  BY StepOthers DEF UnderLockInv, TypeInv
<1>2. ASSUME NEW b \in Backups
      PROVE  /\ light[b] # NoMeta => Started(b, light[b].start)
             /\ full[b] # NoMeta => Started(b, full[b].start)
  BY DEF Started
<1>3. ASSUME NEW s \in seen[p] \cup work[p]
      PROVE  Started(s.name, s.start)
  BY DEF Started
<1>4. CASE LockTimeout(p) \/ Exit(p) \/ SkipBackup(p) \/ Crash(p)
  <2>1. Forget(p)
    BY <1>4 DEF LockTimeout, Exit, SkipBackup, Crash
  <2>2. pc'[p] \notin HasMeta /\ data' = data
    BY <1>1, <2>1, ForgetOthers DEF HasMeta, BackupTry, UploadFullAt, UploadLightAt, Forget
  <2>3. /\ UNCHANGED <<full, light>>
        /\ seen'[p] = {} /\ work'[p] = {} /\ rows'[p] = {}
    BY <1>1, <2>1, ForgetOthers
  <2>4. OnTheWay(p)' = {}
    BY <1>1, <2>1, ForgetOthers DEF OnTheWay
  <2> QED BY <1>1, <1>2, <2>2, <2>3, <2>4, OldNews
<1>5. CASE AcquireLock(p) \/ UploadFull(p) \/ UploadLight(p)
  <2>1. PICK step \in Sequel : step[1] = pc[p] /\ Go(p, step[2])
    BY <1>5 DEF AcquireLock, UploadFull, UploadLight, Advance
  <2>2. pc'[p] \in HasMeta => pc[p] \in HasMeta
    BY <1>1, <2>1, SequelLabels DEF TypeOK
  <2>3. pc[p] \in HasMeta => meta[p] \in Meta
    BY <1>1 DEF MetaKnown
  <2>4. UNCHANGED <<target[p], meta[p], seen[p], work[p], rows[p], OnTheWay(p)>>
    BY <1>5 DEF AcquireLock, UploadFull, UploadLight, OnTheWay
  <2>5. data' = data
    BY <1>5 DEF AcquireLock, UploadFull, UploadLight
  <2>6. \A b \in Backups : full'[b] = full[b] \/ (pc[p] \in HasMeta /\ target[p] = b /\ full'[b] = meta[p])
    BY <1>1, <1>5 DEF AcquireLock, UploadFull, UploadLight, TypeOK, HasMeta
  <2>7. \A b \in Backups : light'[b] # NoMeta => Started(b, light'[b].start)
    <3>1. CASE UploadLight(p)
      <4>1. pc[p] \in HasMeta /\ target[p] \in Backups /\ meta[p] \in Meta
        BY <1>1, <3>1 DEF UploadLight, HasMeta, MetaKnown
      <4>2. Started(target[p], meta[p].start)
        BY <4>1 DEF Started
      <4> QED BY <1>1, <1>2, <3>1, <4>1, <4>2 DEF UploadLight, TypeOK, LightOf
    <3>2. CASE light' = light
      BY <1>2, <3>2
    <3> QED BY <1>5, <3>1, <3>2 DEF AcquireLock, UploadFull
  <2> QED BY <1>1, <1>3, <2>2, <2>3, <2>4, <2>5, <2>6, <2>7, OldNews
<1>6. ASSUME UNCHANGED <<full, light, data, target[p], meta[p]>>,
             seen'[p] \subseteq seen[p] \cup Listing, work'[p] \subseteq work[p] \cup Listing,
             UNCHANGED rows[p], OnTheWay(p)' \subseteq OnTheWay(p),
             pc'[p] \in HasMeta => pc[p] \in HasMeta
      PROVE  NothingNew
  <2>1. \A s \in Listing : Started(s.name, s.start)
    BY <1>2 DEF Listing
  <2>2. pc[p] \in HasMeta => meta[p] \in Meta
    BY <1>1 DEF MetaKnown
  <2> QED BY <1>1, <1>2, <1>3, <1>6, <2>1, <2>2, OldNews
<1>7. CASE ReleaseLock(p) \/ UploadError(p) \/ CollectDedupInfo(p) \/ ScheduleUpload(p) \/ TableDone(p)
  <2>1. UNCHANGED <<full, light, data, target[p], meta[p], rows[p], work[p]>>
    BY <1>7 DEF ReleaseLock, UploadError, CollectDedupInfo, ScheduleUpload, TableDone
  <2>2. seen'[p] \subseteq seen[p]
    <3>1. CASE CollectDedupInfo(p)
      <4>1. PICK limit \in 0..clock : seen' = [seen EXCEPT ![p] = {s \in seen[p] : s.start > limit}]
        BY <3>1 DEF CollectDedupInfo
      <4> QED BY <1>1, <4>1 DEF TypeOK
    <3>2. CASE seen' = seen
      BY <3>2
    <3> QED BY <1>7, <3>1, <3>2 DEF ReleaseLock, UploadError, ScheduleUpload, TableDone
  <2>3. OnTheWay(p)' \subseteq OnTheWay(p)
    BY <1>1, <1>7 DEF ReleaseLock, UploadError, CollectDedupInfo, ScheduleUpload, TableDone, TypeOK, OnTheWay
  <2>4. pc'[p] \in HasMeta => pc[p] \in HasMeta
    BY <1>1, <1>7 DEF ReleaseLock, UploadError, CollectDedupInfo, ScheduleUpload, TableDone, TypeOK,
                     HasMeta, BackupTry, UploadFullAt, UploadLightAt
  <2> QED BY <1>6, <2>1, <2>2, <2>3, <2>4
<1>8. CASE ListBackups(p)
  <2>1. OnTheWay(p) = {} /\ OnTheWay(p)' = {}
    BY <1>8 DEF ListBackups, Resting, PartsAt, OnTheWay
  <2>2. pc'[p] \notin HasMeta
    BY <1>1, <1>8 DEF ListBackups, TypeOK, HasMeta, BackupTry, UploadFullAt, UploadLightAt
  <2>3. UNCHANGED <<full, light, data, work[p], rows[p]>> /\ seen'[p] = Listing
    BY <1>1, <1>8 DEF ListBackups, TypeOK
  <2>4. \A s \in Listing : Started(s.name, s.start)
    BY <1>2 DEF Listing
  <2> QED BY <1>1, <1>2, <1>3, <2>1, <2>2, <2>3, <2>4, OldNews
<1>9. CASE ReloadFails(p) \/ BackupCreated(p) \/ BackupFailed(p)
  <2>1. pc[p] \in HasMeta /\ meta[p] \in Meta
    BY <1>1, <1>9 DEF ReloadFails, BackupCreated, BackupFailed, HasMeta, BackupTry, MetaKnown
  <2>2. meta'[p].start = meta[p].start /\ meta'[p].parts = meta[p].parts
    BY <1>1, <1>9, <2>1 DEF ReloadFails, BackupCreated, BackupFailed, TypeOK, Meta
  <2>3. UNCHANGED <<full, light, data, target[p], seen[p], work[p], rows[p]>>
    BY <1>9 DEF ReloadFails, BackupCreated, BackupFailed
  <2>4. OnTheWay(p)' \subseteq OnTheWay(p)
    BY <1>1, <1>9 DEF ReloadFails, BackupCreated, BackupFailed, OnTheWay, TypeOK
  <2>5. \E m \in Meta :
           /\ meta'[p].start = m.start /\ meta'[p].parts \subseteq m.parts
           /\ pc[p] \in HasMeta /\ target[p] = target'[p] /\ m = meta[p]
    BY <2>1, <2>2, <2>3
  <2> QED BY <2>5, <1>1, <1>2, <1>3, <2>1, <2>2, <2>3, <2>4, OldNews
<1>10. CASE PutPart(p)
  <2>1. PICK f \in uploading[p] :
          /\ data' = {d \in data : <<d[1], d[2]>> # <<target[p], f.name>>}
                     \cup {<<target[p], f.name, f.sum>>}
          /\ uploading' = [uploading EXCEPT ![p] = @ \ {f}]
          /\ uploaded' = [uploaded EXCEPT ![p] = @ \cup {f}]
    BY <1>10 DEF PutPart
  <2>2. OnTheWay(p)' \subseteq OnTheWay(p) /\ f \in OnTheWay(p)
    BY <1>1, <1>10, <2>1 DEF PutPart, TypeOK, OnTheWay
  <2>3. \A d \in data' : d \in data \/ d = <<target[p], f.name, f.sum>>
    BY <2>1
  <2>4. UNCHANGED <<full, light, pc, target[p], meta[p], seen[p], work[p], rows[p]>>
    BY <1>10 DEF PutPart
  <2>5. pc[p] \in HasMeta => meta[p] \in Meta
    BY <1>1 DEF MetaKnown
  <2> QED BY <1>1, <1>2, <1>3, <2>2, <2>3, <2>4, <2>5, OldNews
<1>11. CASE \/ StartDelete(p) \/ StartPurge(p) \/ Plans(p) \/ GivesUp(p)
            \/ DeletionEnds(p) \/ DeletionFailed(p)
  <2>1. UNCHANGED <<full, light, data, target[p], meta[p], rows[p], seen[p], OnTheWay(p)>>
    BY <1>11 DEF StartDelete, StartPurge, Plans, GivesUp, DeletionEnds, DeletionFailed, OnTheWay
  <2>2. work'[p] \subseteq work[p] \cup Listing
    <3>1. CASE Plans(p)
      <4>1. PICK deleting \in SUBSET Listing : DeleteBatch(p, deleting, Listing \ deleting)
        BY <3>1 DEF Plans
      <4>2. work' = work \/ work' = [work EXCEPT ![p] = deleting]
        BY <4>1 DEF DeleteBatch
      <4> QED BY <1>1, <4>2 DEF TypeOK
    <3>2. CASE work' = work
      BY <3>2
    <3> QED BY <1>11, <3>1, <3>2 DEF StartDelete, StartPurge, GivesUp, DeletionEnds, DeletionFailed
  <2>3. pc'[p] \notin HasMeta
    <3>1. pc \in [Hosts -> Labels]
      BY <1>1 DEF TypeOK
    <3>2. pc'[p] \in {"d_lock", "p_lock", "x_next", "unlock"}
      <4>1. CASE Plans(p)
        BY <3>1, <4>1 DEF Plans, DeleteBatch, Go
      <4>2. CASE StartDelete(p) \/ StartPurge(p) \/ GivesUp(p) \/ DeletionEnds(p) \/ DeletionFailed(p)
        BY <3>1, <4>2 DEF StartDelete, StartPurge, GivesUp, DeletionEnds, DeletionFailed, Go
      <4> QED BY <1>11, <4>1, <4>2
    <3> QED BY <3>2 DEF HasMeta, BackupTry, UploadFullAt, UploadLightAt
  <2> QED BY <1>6, <2>1, <2>2, <2>3
<1>12. CASE DeleteNext(p)
  <2>1. PICK s \in work[p] :
          /\ full[s.name] # NoMeta
          /\ target' = [target EXCEPT ![p] = s.name]
          /\ meta' = [meta EXCEPT ![p] = [full[s.name] EXCEPT !.state = "deleting"]]
          /\ work' = [work EXCEPT ![p] = @ \ {s}]
    BY <1>12 DEF DeleteNext
  <2>2. s.name \in Backups /\ full[s.name] \in Meta
    BY <1>1, <2>1 DEF TypeOK, Listed
  <2>3. /\ target'[p] = s.name /\ meta'[p].start = full[s.name].start
        /\ meta'[p].parts = full[s.name].parts /\ work'[p] \subseteq work[p]
    BY <1>1, <2>1, <2>2 DEF TypeOK, Meta
  <2>4. OnTheWay(p)' = {}
    BY <1>12 DEF DeleteNext, Resting, PartsAt, OnTheWay
  <2>5. UNCHANGED <<full, light, data, seen[p], rows[p]>>
    BY <1>12 DEF DeleteNext
  <2>6. \E m \in Meta :
           /\ meta'[p].start = m.start /\ meta'[p].parts \subseteq m.parts
           /\ full[target'[p]] # NoMeta /\ m = full[target'[p]]
    BY <2>1, <2>2, <2>3
  <2> QED BY <1>1, <1>2, <1>3, <2>3, <2>4, <2>5, <2>6, OldNews
<1>13. CASE DeleteBackup(p) \/ DeleteDataParts(p) \/ EraseKey(p) \/ DeletionWaited(p) \/ UnfreezeFailed(p)
  <2>1. pc[p] \in HasMeta /\ meta[p] \in Meta
    BY <1>1, <1>13 DEF DeleteBackup, DeleteDataParts, EraseKey, DeletionWaited, UnfreezeFailed, HasMeta, MetaKnown,
                     PendingInv
  <2>2. meta'[p].start = meta[p].start /\ meta'[p].parts \subseteq meta[p].parts
    BY <1>1, <1>13, <2>1 DEF DeleteBackup, DeleteDataParts, EraseKey, DeletionWaited, UnfreezeFailed, TypeOK, Meta
  <2>3. UNCHANGED <<target[p], seen[p], rows[p], OnTheWay(p)>> /\ work'[p] \subseteq work[p]
    BY <1>1, <1>13 DEF DeleteBackup, DeleteDataParts, EraseKey, DeletionWaited, UnfreezeFailed, OnTheWay, TypeOK
  <2>4. /\ \A b \in Backups : full'[b] \in {full[b], NoMeta} /\ light'[b] \in {light[b], NoMeta}
        /\ data' \subseteq data
    BY <1>1, <1>13 DEF DeleteBackup, DeleteDataParts, EraseKey, DeletionWaited, UnfreezeFailed, TypeOK
  <2> QED BY <1>1, <1>2, <1>3, <2>1, <2>2, <2>3, <2>4, OldNews
<1>14. PlanDelete(p) \/ PlanPurge(p) \/ BackupNotFound(p) \/ PurgeTypeError(p) => Plans(p) \/ GivesUp(p)
  BY PlansOrGivesUp
<1> QED BY <1>4, <1>5, <1>7, <1>8, <1>9, <1>10, <1>11, <1>12, <1>13, <1>14
        DEF Progress, StartCommand, Fault, BackupStep, DeleteStep

-----------------------------------------------------------------------------
(* The parts of the table a backup command froze.                           *)

NoPartsAt == {"b_lock", "b_putFull", "b_putLight", "b_collect", "b_dedup"}
AllPartsAt == {"b_tableFull", "b_tableLight", "b_done", "b_finalFull", "b_finalLight"}

\* A frozen part is yet to be processed, being uploaded, uploaded, or in the
\* metadata: one of them.
Split(p) ==
    /\ frozen[p] \in TableStates
    /\ frozen[p] = OnTheWay(p) \cup Content(meta[p])
    /\ todo[p] \cap (uploading[p] \cup uploaded[p] \cup Content(meta[p])) = {}
    /\ uploading[p] \cap (uploaded[p] \cup Content(meta[p])) = {}
    /\ uploaded[p] \cap Content(meta[p]) = {}

PartsInv ==
    \A p \in Hosts :
        /\ pc[p] \in NoPartsAt => meta[p].parts = {}
        /\ pc[p] = "b_parts" => Split(p)
        /\ pc[p] \in AllPartsAt /\ (meta[p].state = "failed" => pc[p] \in BackupTry) =>
              frozen[p] \in TableStates /\ frozen[p] = Content(meta[p])

\* Part e, made of frozen part f, joins metadata m.
LEMMA ContentGrows ==
    ASSUME NEW m \in Meta, NEW f \in Frozen, NEW e \in Part, e.name = f.name, e.sum = f.sum
    PROVE  Content([m EXCEPT !.parts = @ \cup {e}]) = Content(m) \cup {f}
<1>1. [m EXCEPT !.parts = @ \cup {e}].parts = m.parts \cup {e}
  BY DEF Meta
<1>2. [name |-> e.name, sum |-> e.sum] = f
  BY DEF Frozen
<1> QED BY <1>1, <1>2 DEF Content

LEMMA PartsNext ==
    ASSUME UnderLockInv, Resting, PartsInv, NEW p \in Hosts, Progress(p) \/ StartCommand(p) \/ Fault(p)
    PROVE  PartsInv'
<1> USE DEF Go, storage, locals, dedup, parts, deletion
<1>1. TypeOK /\ MetaKnown /\ Others(p) /\ PendingInv
  BY StepOthers DEF UnderLockInv, TypeInv
<1> DEFINE Kept == /\ pc'[p] \in NoPartsAt => meta'[p].parts = {}
                   /\ pc'[p] = "b_parts" => Split(p)'
                   /\ pc'[p] \in AllPartsAt /\ (meta'[p].state = "failed" => pc'[p] \in BackupTry) =>
                         frozen'[p] \in TableStates /\ frozen'[p] = Content(meta'[p])
<1> SUFFICES Kept
  BY <1>1 DEF PartsInv, Others, Split, OnTheWay, Content
<1> USE DEF NoPartsAt, AllPartsAt
<1>2. ASSUME pc'[p] \notin NoPartsAt \cup AllPartsAt \cup {"b_parts"}
      PROVE  Kept
  BY <1>2
<1>3. CASE LockTimeout(p) \/ Exit(p) \/ SkipBackup(p) \/ Crash(p)
  BY <1>1, <1>2, <1>3, ForgetOthers DEF LockTimeout, Exit, SkipBackup, Crash
<1>4. CASE AcquireLock(p) \/ UploadFull(p) \/ UploadLight(p)
  <2>1. PICK step \in Sequel : step[1] = pc[p] /\ Go(p, step[2])
    BY <1>4 DEF AcquireLock, UploadFull, UploadLight, Advance
  <2>2. /\ step[2] \in NoPartsAt => step[1] \in NoPartsAt
        /\ step[2] \in AllPartsAt => step[1] \in AllPartsAt /\ (step[2] \in BackupTry => step[1] \in BackupTry)
        /\ step[2] # "b_parts"
    BY DEF Sequel, OtherSequel, BackupTry
  <2>3. UNCHANGED <<meta, frozen>> /\ pc'[p] = step[2]
    BY <1>1, <1>4, <2>1 DEF AcquireLock, UploadFull, UploadLight, TypeOK
  <2> QED BY <2>1, <2>2, <2>3 DEF PartsInv
<1>5. CASE ReleaseLock(p) \/ UploadError(p) \/ ListBackups(p)
  BY <1>1, <1>2, <1>5 DEF ReleaseLock, UploadError, ListBackups, TypeOK
<1>6. CASE StartBackup(p)
  BY <1>1, <1>6 DEF StartBackup, TypeOK
<1>7. CASE CollectDedupInfo(p) \/ PopulateDedupInfo(p)
  BY <1>1, <1>7 DEF CollectDedupInfo, PopulateDedupInfo, TypeOK, PartsInv
<1>8. CASE ReloadFails(p) \/ BackupFailed(p)
  <2>1. meta[p] \in Meta
    BY <1>1, <1>8 DEF MetaKnown, ReloadFails, BackupFailed, HasMeta, BackupTry
  <2>2. pc'[p] = "b_finalFull" /\ meta'[p].state = "failed"
    BY <1>1, <1>8, <2>1 DEF ReloadFails, BackupFailed, TypeOK, Meta
  <2> QED BY <2>2 DEF BackupTry
<1>9. CASE FreezeTable(p)
  <2>1. OnTheWay(p) = {} /\ meta[p].parts = {}
    BY <1>9 DEF FreezeTable, Resting, PartsAt, PartsInv
  <2>2. PICK f \in TableStates : frozen' = [frozen EXCEPT ![p] = f] /\ todo' = [todo EXCEPT ![p] = f]
    BY <1>9 DEF FreezeTable
  <2>3. Content(meta'[p]) = {}
    BY <1>9, <2>1 DEF FreezeTable, Content
  <2>4. pc'[p] = "b_parts" /\ frozen'[p] = f /\ todo'[p] = f /\ uploading'[p] = {} /\ uploaded'[p] = {}
    BY <1>1, <1>9, <2>1, <2>2 DEF FreezeTable, OnTheWay, TypeOK
  <2>5. Split(p)'
    BY <2>3, <2>4 DEF Split, OnTheWay
  <2> QED BY <2>4, <2>5
<1>10. CASE DeduplicatePart(p)
  <2>1. PICK f \in todo[p] : \E r \in Matches(p, f) :
          /\ meta' = [meta EXCEPT ![p].parts = @ \cup {LinkedPart(f, r)}]
          /\ todo' = [todo EXCEPT ![p] = @ \ {f}]
    BY <1>10 DEF DeduplicatePart
  <2>2. PICK r \in Matches(p, f) :
          /\ meta' = [meta EXCEPT ![p].parts = @ \cup {LinkedPart(f, r)}]
          /\ todo' = [todo EXCEPT ![p] = @ \ {f}]
    BY <2>1
  <2>3. f \in Frozen /\ r \in DedupRow /\ meta[p] \in Meta
    BY <1>1, <1>10 DEF TypeOK, Matches, MetaKnown, DeduplicatePart, HasMeta, BackupTry
  <2>4. LinkedPart(f, r) \in Part /\ LinkedPart(f, r).name = f.name /\ LinkedPart(f, r).sum = f.sum
    BY <2>3, LinkedPartType DEF LinkedPart
  <2>5. Content(meta'[p]) = Content(meta[p]) \cup {f}
    <3>1. meta'[p] = [meta[p] EXCEPT !.parts = @ \cup {LinkedPart(f, r)}]
      BY <1>1, <2>2 DEF TypeOK
    <3> QED BY <2>3, <2>4, <3>1, ContentGrows
  <2>6. pc[p] = "b_parts" /\ UNCHANGED <<pc, frozen, uploading, uploaded>> /\ todo'[p] = todo[p] \ {f}
    BY <1>1, <1>10, <2>2 DEF DeduplicatePart, TypeOK
  <2>7. Split(p)
    BY <2>6 DEF PartsInv
  <2>8. Split(p)'
    BY <2>5, <2>6, <2>7 DEF Split, OnTheWay
  <2> QED BY <2>6, <2>8
<1>11. CASE ScheduleUpload(p)
  <2>1. PICK f \in todo[p] : /\ todo' = [todo EXCEPT ![p] = @ \ {f}]
                             /\ uploading' = [uploading EXCEPT ![p] = @ \cup {f}]
    BY <1>11 DEF ScheduleUpload
  <2>2. /\ pc[p] = "b_parts" /\ UNCHANGED <<pc, meta, frozen, uploaded>>
        /\ todo'[p] = todo[p] \ {f} /\ uploading'[p] = uploading[p] \cup {f}
    BY <1>1, <1>11, <2>1 DEF ScheduleUpload, TypeOK
  <2>3. Split(p)
    BY <2>2 DEF PartsInv
  <2>4. Split(p)'
    BY <2>2, <2>3 DEF Split, OnTheWay
  <2> QED BY <2>2, <2>4
<1>12. CASE PutPart(p)
  <2>1. PICK f \in uploading[p] : /\ uploading' = [uploading EXCEPT ![p] = @ \ {f}]
                                  /\ uploaded' = [uploaded EXCEPT ![p] = @ \cup {f}]
    BY <1>12 DEF PutPart
  <2>2. /\ UNCHANGED <<pc, meta, frozen, todo>>
        /\ uploading'[p] = uploading[p] \ {f} /\ uploaded'[p] = uploaded[p] \cup {f}
    BY <1>1, <1>12, <2>1 DEF PutPart, TypeOK
  <2>3. Split(p) => Split(p)'
    BY <2>2 DEF Split, OnTheWay
  <2> QED BY <2>2, <2>3 DEF PartsInv
<1>13. CASE ObserveUpload(p)
  <2>1. PICK f \in uploaded[p] : /\ meta' = [meta EXCEPT ![p].parts = @ \cup {OwnPart(f)}]
                                 /\ uploaded' = [uploaded EXCEPT ![p] = @ \ {f}]
    BY <1>13 DEF ObserveUpload
  <2>2. f \in Frozen /\ meta[p] \in Meta
    BY <1>1, <1>13 DEF TypeOK, MetaKnown, ObserveUpload, HasMeta, BackupTry
  <2>3. OwnPart(f) \in Part /\ OwnPart(f).name = f.name /\ OwnPart(f).sum = f.sum
    BY <2>2, OwnPartType DEF OwnPart
  <2>4. Content(meta'[p]) = Content(meta[p]) \cup {f}
    <3>1. meta'[p] = [meta[p] EXCEPT !.parts = @ \cup {OwnPart(f)}]
      BY <1>1, <2>1 DEF TypeOK
    <3> QED BY <2>2, <2>3, <3>1, ContentGrows
  <2>5. pc[p] = "b_parts" /\ UNCHANGED <<pc, frozen, todo, uploading>> /\ uploaded'[p] = uploaded[p] \ {f}
    BY <1>1, <1>13, <2>1 DEF ObserveUpload, TypeOK
  <2>6. Split(p)
    BY <2>5 DEF PartsInv
  <2>7. Split(p)'
    BY <2>4, <2>5, <2>6 DEF Split, OnTheWay
  <2> QED BY <2>5, <2>7
<1>14. CASE TableDone(p)
  <2>1. /\ pc[p] = "b_parts" /\ pc'[p] = "b_tableFull"
        /\ todo[p] = {} /\ uploading[p] = {} /\ uploaded[p] = {}
    BY <1>1, <1>14 DEF TableDone, TypeOK
  <2>2. UNCHANGED <<meta, frozen, todo, uploading, uploaded>>
    BY <1>14 DEF TableDone
  <2>3. Split(p)
    BY <2>1 DEF PartsInv
  <2>4. Split(p)'
    BY <2>2, <2>3 DEF Split, OnTheWay
  <2>5. frozen[p] \in TableStates /\ frozen[p] = Content(meta[p])
    BY <2>1, <2>3 DEF Split, OnTheWay
  <2>6. frozen'[p] \in TableStates /\ frozen'[p] = Content(meta'[p])
    BY <2>2, <2>5 DEF Content
  <2> QED BY <2>1, <2>6
<1>15. CASE BackupCreated(p)
  <2>1. meta[p] \in Meta
    BY <1>1, <1>15 DEF MetaKnown, BackupCreated, HasMeta, BackupTry
  <2>2. meta'[p].parts = meta[p].parts /\ pc'[p] = "b_finalFull"
    BY <1>1, <1>15, <2>1 DEF BackupCreated, TypeOK, Meta
  <2>3. Content(meta'[p]) = Content(meta[p])
    BY <2>2 DEF Content
  <2>4. pc[p] = "b_done" /\ frozen' = frozen
    BY <1>15 DEF BackupCreated
  <2>5. frozen[p] \in TableStates /\ frozen[p] = Content(meta[p])
    BY <2>4 DEF PartsInv, BackupTry
  <2> QED BY <2>2, <2>3, <2>4, <2>5
<1>16. CASE StartDelete(p) \/ StartPurge(p) \/ Plans(p) \/ GivesUp(p)
  BY <1>1, <1>2, <1>16 DEF StartDelete, StartPurge, Plans, GivesUp, DeleteBatch, TypeOK
<1>17. CASE DeleteNext(p) \/ DeletionEnds(p) \/ DeleteBackup(p) \/ DeleteDataParts(p)
  BY <1>1, <1>2, <1>17 DEF DeleteNext, DeletionEnds, DeleteBackup, DeleteDataParts, TypeOK
<1>18. CASE EraseKey(p) \/ DeletionWaited(p) \/ DeletionFailed(p) \/ UnfreezeFailed(p)
  BY <1>1, <1>2, <1>18 DEF EraseKey, DeletionWaited, DeletionFailed, UnfreezeFailed, TypeOK, PendingInv
<1>19. PlanDelete(p) \/ PlanPurge(p) \/ BackupNotFound(p) \/ PurgeTypeError(p) => Plans(p) \/ GivesUp(p)
  BY PlansOrGivesUp
<1> QED BY <1>3, <1>4, <1>5, <1>6, <1>7, <1>8, <1>9, <1>10, <1>11, <1>12, <1>13, <1>14, <1>15, <1>16,
           <1>17, <1>18, <1>19 DEF Progress, StartCommand, Fault, BackupStep, DeleteStep

-----------------------------------------------------------------------------
(* What a step does to the metadata objects and to the names a host knows.  *)

StepFacts(p) ==
    /\ used \subseteq used'
    /\ clock' = clock \/ StartBackup(p)
    /\ \A b \in Backups :
          /\ full'[b] \in {full[b], NoMeta} \/ (pc[p] \in HasMeta /\ target[p] = b /\ full'[b] = meta'[p])
          /\ light'[b] \in {light[b], NoMeta} \/ (pc[p] \in HasMeta /\ target[p] = b)
    /\ sources'[p] \subseteq sources[p] \cup NamesOf(seen[p])
    /\ \/ target'[p] \in {target[p], NoBackup}
       \/ ListBackups(p)
       \/ pc[p] = "x_next" /\ \E s \in work[p] : full[s.name] # NoMeta /\ target'[p] = s.name

LEMMA AllStepFacts ==
    ASSUME UnderLockInv, NEW p \in Hosts, Progress(p) \/ StartCommand(p) \/ Fault(p)
    PROVE  StepFacts(p)
<1> USE DEF TypeOK, StepFacts, Go, storage, locals, dedup, parts, deletion
<1> HIDE DEF HasMeta
<1>1. TypeOK /\ MetaKnown /\ PendingInv
  BY DEF UnderLockInv, TypeInv
<1>2. CASE LockTimeout(p) \/ Exit(p) \/ SkipBackup(p) \/ Crash(p)
  BY <1>1, <1>2, ForgetOthers DEF LockTimeout, Exit, SkipBackup, Crash
<1>3. CASE AcquireLock(p) \/ ReleaseLock(p) \/ UploadError(p)
  BY <1>1, <1>3 DEF AcquireLock, ReleaseLock, UploadError
<1>4. CASE UploadFull(p)
  BY <1>1, <1>4 DEF UploadFull, HasMeta
<1>5. CASE UploadLight(p)
  BY <1>1, <1>5 DEF UploadLight, HasMeta
<1>6. CASE ListBackups(p)
  BY <1>1, <1>6 DEF ListBackups
<1>7. CASE StartBackup(p) \/ PopulateDedupInfo(p) \/ ReloadFails(p) \/ FreezeTable(p)
  BY <1>1, <1>7 DEF StartBackup, PopulateDedupInfo, ReloadFails, FreezeTable
<1>8. CASE CollectDedupInfo(p)
  <2>1. PICK limit \in 0..clock :
          sources' = [sources EXCEPT ![p] = NamesOf({s \in seen[p] : s.start > limit})]
    BY <1>8 DEF CollectDedupInfo
  <2>2. sources'[p] \subseteq NamesOf(seen[p])
    BY <1>1, <2>1 DEF NamesOf
  <2> QED BY <1>1, <1>8, <2>2 DEF CollectDedupInfo
<1>9. CASE DeduplicatePart(p) \/ ScheduleUpload(p) \/ PutPart(p) \/ TableDone(p)
  BY <1>1, <1>9 DEF DeduplicatePart, ScheduleUpload, PutPart, TableDone
<1>10. CASE ObserveUpload(p)
  <2>1. pc[p] \in HasMeta
    BY <1>10 DEF ObserveUpload, HasMeta, BackupTry
  <2>2. target[p] \in Backups
    BY <1>1, <2>1 DEF MetaKnown
  <2>3. full' = full \/ full' = [full EXCEPT ![target[p]] = meta'[p]]
    BY <1>10 DEF ObserveUpload
  <2>4. \A b \in Backups : full'[b] = full[b] \/ (target[p] = b /\ full'[b] = meta'[p])
    BY <1>1, <2>2, <2>3
  <2> QED BY <1>1, <1>10, <2>1, <2>4 DEF ObserveUpload
<1>11. CASE \/ BackupCreated(p) \/ BackupFailed(p) \/ StartDelete(p) \/ StartPurge(p)
            \/ Plans(p) \/ GivesUp(p)
  BY <1>1, <1>11 DEF BackupCreated, BackupFailed, StartDelete, StartPurge, Plans, GivesUp, DeleteBatch
<1>12. CASE DeleteNext(p)
  BY <1>1, <1>12 DEF DeleteNext
<1>13. CASE DeletionEnds(p) \/ DeleteBackup(p) \/ DeleteDataParts(p) \/ DeletionWaited(p)
  BY <1>1, <1>13 DEF DeletionEnds, DeleteBackup, DeleteDataParts, DeletionWaited
<1>14. CASE EraseKey(p) \/ DeletionFailed(p) \/ UnfreezeFailed(p)
  BY <1>1, <1>14 DEF EraseKey, DeletionFailed, UnfreezeFailed
<1>15. PlanDelete(p) \/ PlanPurge(p) \/ BackupNotFound(p) \/ PurgeTypeError(p) => Plans(p) \/ GivesUp(p)
  BY PlansOrGivesUp
<1> QED BY <1>2, <1>3, <1>4, <1>5, <1>6, <1>7, <1>8, <1>9, <1>10, <1>11, <1>12, <1>13, <1>14, <1>15
        DEF Progress, StartCommand, Fault, BackupStep, DeleteStep

-----------------------------------------------------------------------------
(* The steps that say something new of the backup being created.            *)

\* A row that deduplication adds stands for data that the backup it is made from
\* has or links to.
LEMMA RowOfData ==
    ASSUME NEW b \in Backups, NEW e \in Part
    PROVE  RowData(RowOf(b, e)) = DataOf(b, e)
BY DEF RowData, RowOf, DataOf, StoredName

\* The part made of a row has the data of the row.
LEMMA LinkedPartData ==
    ASSUME NEW b \in Backups, NEW f \in Frozen, NEW r \in DedupRow, r.sum = f.sum
    PROVE  /\ DataOf(b, LinkedPart(f, r)) = RowData(r)
           /\ StoredName(LinkedPart(f, r)) = RowData(r)[2]
           /\ LinkedPart(f, r).link = r.backup /\ LinkedPart(f, r).name = f.name
<1>1. r.backup # NoBackup
  BY AbsentValues DEF DedupRow
<1>2. r.name # NoPart
  BY AbsentValues DEF DedupRow
<1>3. f.name # NoPart
  BY AbsentValues DEF Frozen
<1> QED BY <1>1, <1>2, <1>3 DEF LinkedPart, DataOf, StoredName, RowData

LEMMA StartNews ==
    ASSUME TypeInv, TypeInv', NEW p \in Hosts, StartBackup(p)
    PROVE  /\ NoNewParts /\ NoNewClaims /\ NoNewLinks
           /\ meta'[p].start = clock + 1
           /\ \A b \in Backups : \A t \in Nat :
                 Started(b, t)' => Started(b, t) \/ (b = target[p] /\ t = clock + 1)
<1> USE DEF TypeInv, TypeOK
<1>1. /\ UNCHANGED <<full, light, data, target, seen, rows, todo, uploading, uploaded, work>>
      /\ \A q \in Hosts \ {p} : UNCHANGED <<pc[q], meta[q]>>
      /\ meta'[p].start = clock + 1 /\ meta'[p].parts = {}
  BY DEF StartBackup, Go, storage, dedup, parts, deletion
<1>2. ASSUME NEW b \in Backups, NEW e \in Part, PartOf(b, e)'
      PROVE  PartOf(b, e)
  BY <1>1, <1>2 DEF PartOf
<1>3. ASSUME NEW b \in Backups, NEW t \in Nat, Started(b, t)'
      PROVE  Started(b, t) \/ (b = target[p] /\ t = clock + 1)
  BY <1>1, <1>3 DEF Started
<1>4. NoNewClaims
  BY <1>1, <1>2 DEF NoNewClaims, Claimed, OnTheWay
<1>5. NoNewLinks
  BY <1>1, <1>2 DEF NoNewLinks, LinkedTo
<1> QED BY <1>1, <1>2, <1>3, <1>4, <1>5 DEF NoNewParts

LEMMA PopulateNews ==
    ASSUME TypeInv, TypeInv', NEW p \in Hosts, PopulateDedupInfo(p),
           \A b \in Backups : \A e \in Part :
              PartOf(b, e) /\ e.link = NoBackup => e.linkPartName = NoPart
    PROVE  /\ NoNewParts /\ NoNewStarts /\ NoNewClaims
           /\ seen'[p] \subseteq seen[p]
           /\ \A r \in rows'[p] \ rows[p] : r.backup \in NamesOf(seen[p]) \cup sources[p]
           /\ \A b \in Backups : \A n \in PartNames : LinkedTo(b, n)' =>
                 \/ LinkedTo(b, n)
                 \/ /\ b \in NamesOf(seen[p]) /\ full[b] # NoMeta
                    /\ \E e \in full[b].parts : e.name = n /\ e.link = NoBackup
<1> USE DEF TypeInv, TypeOK
<1>1. /\ UNCHANGED <<full, light, data, pc, target, meta, sources, todo, uploading, uploaded, work>>
      /\ \A q \in Hosts \ {p} : UNCHANGED <<rows[q], seen[q]>>
  BY DEF PopulateDedupInfo, storage, parts, deletion
<1>2. PICK s \in seen[p] :
        /\ full[s.name] # NoMeta
        /\ rows' = [rows EXCEPT ![p] =
              IF handled[p] \/ ~(Replicated \/ full[s.name].host = p) THEN @
              ELSE @ \cup NewRows(s.name, full[s.name], @, sources[p])]
        /\ seen' = [seen EXCEPT ![p] =
              IF full[s.name].state = "created" /\ full[s.name].host = p THEN {} ELSE @ \ {s}]
  BY DEF PopulateDedupInfo
<1>3. s.name \in Backups /\ full[s.name] \in Meta /\ s.name \in NamesOf(seen[p])
  BY <1>2 DEF Listed, NamesOf
<1>4. seen'[p] \subseteq seen[p]
  BY <1>2
<1>5. ASSUME NEW r \in rows'[p] \ rows[p]
      PROVE  \E e \in full[s.name].parts : r = RowOf(s.name, e) /\ (e.link # NoBackup => e.link \in sources[p])
  BY <1>2, <1>5 DEF NewRows
<1>6. ASSUME NEW e \in full[s.name].parts
      PROVE  e \in Part /\ PartOf(s.name, e)
  BY <1>2, <1>3 DEF Meta, PartOf
<1>7. ASSUME NEW b \in Backups, NEW e \in Part
      PROVE  PartOf(b, e)' <=> PartOf(b, e)
  BY <1>1 DEF PartOf
<1>8. NoNewStarts
  BY <1>1, <1>4 DEF NoNewStarts, Started
<1>9. ASSUME NEW b \in Backups, NEW n \in PartNames, NEW m \in Sums, Claimed(b, n, m)'
      PROVE  Claimed(b, n, m)
  <2>1. CASE \E q \in Hosts : \E r \in rows'[q] : RowData(r) = <<b, n, m>>
    <3>1. PICK q \in Hosts : \E r \in rows'[q] : RowData(r) = <<b, n, m>>
      BY <2>1
    <3>2. PICK r \in rows'[q] : RowData(r) = <<b, n, m>>
      BY <3>1
    <3>3. CASE q = p /\ r \notin rows[p]
      <4>1. PICK e \in full[s.name].parts : r = RowOf(s.name, e)
        BY <1>5, <3>3
      <4>2. DataOf(s.name, e) = <<b, n, m>>
        BY <1>3, <1>6, <3>2, <4>1, RowOfData
      <4> QED BY <1>3, <1>6, <4>2 DEF Claimed
    <3>4. CASE r \in rows[q]
      BY <3>2, <3>4 DEF Claimed
    <3> QED BY <1>1, <3>3, <3>4
  <2>2. CASE ~ \E q \in Hosts : \E r \in rows'[q] : RowData(r) = <<b, n, m>>
    BY <1>1, <1>7, <1>9, <2>2 DEF Claimed, OnTheWay
  <2> QED BY <2>1, <2>2
<1>10. ASSUME NEW b \in Backups, NEW n \in PartNames, LinkedTo(b, n)', ~LinkedTo(b, n)
       PROVE  /\ b \in NamesOf(seen[p]) /\ full[b] # NoMeta
              /\ \E e \in full[b].parts : e.name = n /\ e.link = NoBackup
  <2>1. PICK q \in Hosts : \E r \in rows'[q] : r.backup = b /\ RowData(r)[2] = n
    BY <1>7, <1>10 DEF LinkedTo
  <2>2. PICK r \in rows'[q] : r.backup = b /\ RowData(r)[2] = n
    BY <2>1
  <2>3. q = p /\ r \notin rows[p]
    BY <1>1, <1>10, <2>2 DEF LinkedTo
  <2>4. PICK e \in full[s.name].parts : r = RowOf(s.name, e)
    BY <1>5, <2>3
  <2>5. e \in Part /\ PartOf(s.name, e)
    BY <1>6
  <2>6. RowData(r) = DataOf(s.name, e)
    BY <1>3, <2>4, <2>5, RowOfData
  <2>7. CASE e.link = NoBackup
    <3>1. e.linkPartName = NoPart
      BY <1>3, <2>5, <2>7
    <3>2. b = s.name /\ e.name = n
      BY <2>2, <2>4, <2>6, <2>7, <3>1 DEF DataOf, StoredName, RowOf
    <3> QED BY <1>2, <1>3, <2>7, <3>2
  <2>8. CASE e.link # NoBackup
    <3>1. e.link = b /\ StoredName(e) = n
      BY <2>2, <2>4, <2>6, <2>8 DEF DataOf, RowOf
    <3> QED BY <1>3, <1>10, <2>5, <3>1 DEF LinkedTo
  <2> QED BY <2>7, <2>8
<1>11. ASSUME NEW r \in rows'[p] \ rows[p]
       PROVE  r.backup \in NamesOf(seen[p]) \cup sources[p]
  <2>1. PICK e \in full[s.name].parts : r = RowOf(s.name, e) /\ (e.link # NoBackup => e.link \in sources[p])
    BY <1>5, <1>11
  <2>2. r.backup = IF e.link = NoBackup THEN s.name ELSE e.link
    BY <2>1 DEF RowOf
  <2> QED BY <1>3, <2>1, <2>2
<1> QED BY <1>4, <1>7, <1>8, <1>9, <1>10, <1>11 DEF NoNewParts, NoNewClaims

LEMMA FreezeNews ==
    ASSUME TypeInv, TypeInv', NEW p \in Hosts, FreezeTable(p), OnTheWay(p) = {}
    PROVE  /\ NoNewParts /\ NoNewStarts /\ NoNewLinks
           /\ \E f \in TableStates :
                \A b \in Backups : \A n \in PartNames : \A s \in Sums : Claimed(b, n, s)' =>
                   Claimed(b, n, s) \/ (b = target[p] /\ \E g \in f : g.name = n /\ g.sum = s)
<1> USE DEF TypeInv, TypeOK
<1>1. /\ UNCHANGED <<full, light, data, target, meta, seen, rows, uploading, uploaded, work>>
      /\ \A q \in Hosts \ {p} : UNCHANGED <<pc[q], todo[q]>>
      /\ pc[p] \in HasMeta
  BY DEF FreezeTable, Go, storage, dedup, deletion, HasMeta, BackupTry
<1> HIDE DEF HasMeta
<1>2. PICK f \in TableStates : todo' = [todo EXCEPT ![p] = f]
  BY DEF FreezeTable
<1>3. OnTheWay(p)' = f /\ \A q \in Hosts \ {p} : OnTheWay(q)' = OnTheWay(q)
  BY <1>1, <1>2 DEF OnTheWay
<1>4. ASSUME NEW b \in Backups, NEW e \in Part, PartOf(b, e)'
      PROVE  PartOf(b, e)
  BY <1>1, <1>4 DEF PartOf
<1>5. NoNewStarts
  BY <1>1 DEF NoNewStarts, Started
<1>6. NoNewLinks
  BY <1>1, <1>4 DEF NoNewLinks, LinkedTo
<1>7. ASSUME NEW b \in Backups, NEW n \in PartNames, NEW s \in Sums, Claimed(b, n, s)'
      PROVE  Claimed(b, n, s) \/ (b = target[p] /\ \E g \in f : g.name = n /\ g.sum = s)
  <2>1. CASE <<b, n, s>> \in data' \/ \E q \in Hosts : \E r \in rows'[q] : RowData(r) = <<b, n, s>>
    BY <1>1, <2>1 DEF Claimed
  <2>2. CASE \E c \in Backups : \E e \in Part : PartOf(c, e)' /\ DataOf(c, e) = <<b, n, s>>
    BY <1>4, <2>2 DEF Claimed
  <2>3. ASSUME NEW q \in Hosts, NEW g \in OnTheWay(q)', target'[q] = b, g.name = n, g.sum = s
        PROVE  Claimed(b, n, s) \/ (b = target[p] /\ \E h \in f : h.name = n /\ h.sum = s)
    <3>1. CASE q = p
      BY <1>1, <1>3, <2>3, <3>1
    <3>2. CASE q # p
      BY <1>1, <1>3, <2>3, <3>2 DEF Claimed
    <3> QED BY <3>1, <3>2
  <2> QED BY <1>7, <2>1, <2>2, <2>3 DEF Claimed
<1> QED BY <1>2, <1>4, <1>5, <1>6, <1>7 DEF NoNewParts

\* A part joins the metadata of the backup: its own, or a link made of a row.
Joins(p, e) ==
    /\ pc[p] = "b_parts" /\ pc' = pc
    /\ meta'[p] = [meta[p] EXCEPT !.parts = @ \cup {e}]
    /\ UNCHANGED <<seen, sources, rows, target>>
    /\ \E f \in todo[p] \cup uploaded[p] : f.name = e.name
    /\ \/ e.link = NoBackup /\ e.linkPartName = NoPart
       \/ \E r \in rows[p] : e.link = r.backup

LEMMA JoinNews ==
    ASSUME TypeInv, TypeInv', NEW p \in Hosts, DeduplicatePart(p) \/ ObserveUpload(p)
    PROVE  /\ NoNewStarts /\ NoNewClaims /\ NoNewLinks
           /\ \E e \in Part :
                 /\ Joins(p, e)
                 /\ \A b \in Backups : \A g \in Part : PartOf(b, g)' =>
                       PartOf(b, g) \/ (b = target[p] /\ g = e)
<1> USE DEF TypeInv, TypeOK
<1>1. /\ UNCHANGED <<light, data, pc, target, seen, sources, rows, uploading, work>>
      /\ \A q \in Hosts \ {p} : UNCHANGED <<meta[q], todo[q], uploaded[q]>>
      /\ pc[p] = "b_parts" /\ pc[p] \in HasMeta
      /\ todo'[p] \subseteq todo[p] /\ uploaded'[p] \subseteq uploaded[p]
  BY DEF DeduplicatePart, ObserveUpload, storage, dedup, parts, deletion, HasMeta, BackupTry
<1> HIDE DEF HasMeta
<1>2. meta[p] \in Meta /\ target[p] \in Backups
  BY <1>1 DEF MetaKnown
<1>3. PICK e \in Part :
        /\ Joins(p, e)
        /\ Claimed(target[p], DataOf(target[p], e)[2], e.sum) \/ e.link # NoBackup
        /\ e.link # NoBackup => \E r \in rows[p] : RowData(r) = DataOf(target[p], e) /\ r.backup = e.link
        /\ full' = full \/ full' = [full EXCEPT ![target[p]] = meta'[p]]
  <2>1. CASE DeduplicatePart(p)
    <3>1. PICK f \in todo[p] : \E r \in Matches(p, f) :
            meta' = [meta EXCEPT ![p].parts = @ \cup {LinkedPart(f, r)}]
      BY <2>1 DEF DeduplicatePart
    <3>2. PICK r \in Matches(p, f) : meta' = [meta EXCEPT ![p].parts = @ \cup {LinkedPart(f, r)}]
      BY <3>1
    <3>3. f \in Frozen /\ r \in DedupRow /\ r \in rows[p] /\ r.sum = f.sum
      BY DEF Matches
    <3>4. LinkedPart(f, r) \in Part
      BY <3>3, LinkedPartType
    <3>5. meta'[p] = [meta[p] EXCEPT !.parts = @ \cup {LinkedPart(f, r)}]
      BY <3>2
    <3>6. /\ DataOf(target[p], LinkedPart(f, r)) = RowData(r)
          /\ LinkedPart(f, r).link = r.backup /\ LinkedPart(f, r).name = f.name
      BY <1>2, <3>3, LinkedPartData
    <3>7. LinkedPart(f, r).link # NoBackup
      BY <3>3, <3>6, AbsentValues DEF DedupRow
    <3>8. Joins(p, LinkedPart(f, r))
      BY <1>1, <3>3, <3>5, <3>6 DEF Joins
    <3>9. full' = full
      BY <2>1 DEF DeduplicatePart, storage
    <3> QED BY <3>3, <3>4, <3>6, <3>7, <3>8, <3>9
  <2>2. CASE ObserveUpload(p)
    <3>1. PICK f \in uploaded[p] :
            /\ meta' = [meta EXCEPT ![p].parts = @ \cup {OwnPart(f)}]
            /\ full' = full \/ full' = [full EXCEPT ![target[p]] = meta'[p]]
      BY <2>2 DEF ObserveUpload
    <3>2. f \in Frozen /\ OwnPart(f) \in Part
      BY OwnPartType
    <3>3. meta'[p] = [meta[p] EXCEPT !.parts = @ \cup {OwnPart(f)}]
      BY <3>1
    <3>4. /\ OwnPart(f).link = NoBackup /\ OwnPart(f).linkPartName = NoPart /\ OwnPart(f).name = f.name
          /\ DataOf(target[p], OwnPart(f)) = <<target[p], f.name, f.sum>> /\ OwnPart(f).sum = f.sum
      BY DEF OwnPart, DataOf, StoredName
    <3>5. Claimed(target[p], f.name, f.sum)
      BY DEF Claimed, OnTheWay
    <3>6. Joins(p, OwnPart(f))
      BY <1>1, <3>3, <3>4 DEF Joins
    <3> QED BY <3>1, <3>2, <3>4, <3>5, <3>6
  <2> QED BY <2>1, <2>2
<1>4. meta'[p].start = meta[p].start /\ meta'[p].parts = meta[p].parts \cup {e}
  BY <1>2, <1>3 DEF Joins, Meta
<1>5. \A b \in Backups : full'[b] = full[b] \/ (target[p] = b /\ full'[b] = meta'[p])
  BY <1>2, <1>3
<1>6. ASSUME NEW b \in Backups, NEW g \in Part, PartOf(b, g)'
      PROVE  PartOf(b, g) \/ (b = target[p] /\ g = e)
  <2>1. g \in meta'[p].parts => g \in meta[p].parts \/ g = e
    BY <1>4
  <2>2. CASE full'[b] # NoMeta /\ g \in full'[b].parts
    BY <1>1, <1>5, <2>1, <2>2 DEF PartOf
  <2>3. CASE \E q \in Hosts : pc'[q] \in HasMeta /\ target'[q] = b /\ g \in meta'[q].parts
    <3>1. PICK q \in Hosts : pc'[q] \in HasMeta /\ target'[q] = b /\ g \in meta'[q].parts
      BY <2>3
    <3>2. CASE q = p
      BY <1>1, <2>1, <3>1, <3>2 DEF PartOf
    <3>3. CASE q # p
      BY <1>1, <3>1, <3>3 DEF PartOf
    <3> QED BY <3>2, <3>3
  <2> QED BY <1>6, <2>2, <2>3 DEF PartOf
<1>7. ASSUME NEW b \in Backups, NEW t \in Nat, Started(b, t)'
      PROVE  Started(b, t)
  <2>1. CASE full'[b] # NoMeta /\ full'[b].start = t
    BY <1>1, <1>4, <1>5, <2>1 DEF Started
  <2>2. CASE \E q \in Hosts : pc'[q] \in HasMeta /\ target'[q] = b /\ meta'[q].start = t
    BY <1>1, <1>4, <2>2 DEF Started
  <2>3. CASE \E q \in Hosts : \E s \in seen'[q] \cup work'[q] : s.name = b /\ s.start = t
    BY <1>1, <2>3 DEF Started
  <2> QED BY <1>1, <1>7, <2>1, <2>2, <2>3 DEF Started
<1>8. ASSUME NEW b \in Backups, NEW n \in PartNames, NEW s \in Sums, Claimed(b, n, s)'
      PROVE  Claimed(b, n, s)
  <2>1. CASE DataOf(target[p], e) = <<b, n, s>>
    <3>1. CASE e.link = NoBackup
      BY <1>3, <2>1, <3>1 DEF DataOf
    <3>2. CASE e.link # NoBackup
      BY <1>3, <2>1, <3>2 DEF Claimed
    <3> QED BY <3>1, <3>2
  <2>2. CASE DataOf(target[p], e) # <<b, n, s>>
    <3>1. CASE \E c \in Backups : \E g \in Part : PartOf(c, g)' /\ DataOf(c, g) = <<b, n, s>>
      BY <1>6, <2>2, <3>1 DEF Claimed
    <3>2. CASE \E q \in Hosts : \E f \in OnTheWay(q)' : target'[q] = b /\ f.name = n /\ f.sum = s
      BY <1>1, <3>2 DEF Claimed, OnTheWay
    <3> QED BY <1>1, <1>8, <3>1, <3>2 DEF Claimed
  <2> QED BY <2>1, <2>2
<1>9. ASSUME NEW b \in Backups, NEW n \in PartNames, LinkedTo(b, n)'
      PROVE  LinkedTo(b, n)
  <2>1. CASE e.link = b /\ StoredName(e) = n
    <3>1. PICK r \in rows[p] : RowData(r) = DataOf(target[p], e) /\ r.backup = b
      BY <1>3, <2>1, AbsentValues
    <3>2. RowData(r)[2] = n
      BY <2>1, <3>1 DEF DataOf
    <3> QED BY <3>1, <3>2 DEF LinkedTo
  <2>2. CASE ~(e.link = b /\ StoredName(e) = n)
    BY <1>1, <1>6, <1>9, <2>2 DEF LinkedTo
  <2> QED BY <2>1, <2>2
<1> QED BY <1>3, <1>6, <1>7, <1>8, <1>9 DEF NoNewStarts, NoNewClaims, NoNewLinks

-----------------------------------------------------------------------------
(* The account agrees.                                                      *)

\* All there is of a part of a backup has one checksum.
OneSum ==
    \A b \in Backups : \A n \in PartNames : \A s, t \in Sums :
        Claimed(b, n, s) /\ Claimed(b, n, t) => s = t

StartsAgree ==
    \A b \in Backups : \A t, u \in Nat : Started(b, t) /\ Started(b, u) => t = u /\ t <= clock

\* Links lead to backups that started earlier.
LinksOlder ==
    \A b \in Backups : \A e \in Part : PartOf(b, e) /\ e.link \in Backups =>
        \A t, u \in Nat : Started(e.link, t) /\ Started(b, u) => t < u

PartsOnce ==
    \A b \in Backups : \A e, g \in Part : PartOf(b, e) /\ PartOf(b, g) /\ e.name = g.name => e = g

\* Links lead to parts whose data lies in their own backup, under their own name.
OwnNames ==
    \A b \in Backups : \A e \in Part : PartOf(b, e) /\ e.link = NoBackup => e.linkPartName = NoPart

LinksToOwn ==
    \A b \in Backups : \A e \in Part : PartOf(b, e) /\ LinkedTo(b, e.name) => e.link = NoBackup

Agree == OneSum /\ StartsAgree /\ LinksOlder /\ PartsOnce /\ OwnNames /\ LinksToOwn

\* What a backup has not come to yet: a name no one used, no metadata in the storage,
\* no data and no part of it anywhere.
UnbornAt == {"b_start", "b_lock", "b_putFull"}
BareAt == UnbornAt \cup {"b_putLight", "b_collect", "b_dedup"}

\* What host p knows of other backups when it creates one, and others of its own.
RowsKnown(p) ==
    /\ \A r \in rows[p] : r.backup \in sources[p]
    /\ pc[p] = "b_dedup" => NamesOf(seen[p]) \subseteq sources[p]

OwnName(p) ==
    pc[p] \in Creates \cup {"b_start"} =>
        /\ target[p] \notin sources[p] \cup NamesOf(seen[p])
        /\ \A q \in Hosts \ {p} : target[q] # target[p]
        /\ \A n \in PartNames : ~LinkedTo(target[p], n)

Fresh(p) ==
    /\ pc[p] \in BareAt => \A n \in PartNames : \A s \in Sums : ~Claimed(target[p], n, s)
    /\ pc[p] = "b_start" => /\ \A t \in Nat : ~Started(target[p], t)
                            /\ \A q \in Hosts : target[p] \notin sources[q]
    /\ pc[p] \in UnbornAt => full[target[p]] = NoMeta /\ light[target[p]] = NoMeta
    /\ pc[p] \in Creates /\ full[target[p]] # NoMeta => full[target[p]].parts \subseteq meta[p].parts

SourcesOlder(p) ==
    pc[p] \in Creates =>
        \A b \in sources[p] \cup NamesOf(seen[p]) : \A t \in Nat : Started(b, t) => t < meta[p].start

HostInv(p) == RowsKnown(p) /\ OwnName(p) /\ Fresh(p) /\ SourcesOlder(p)

\* A name that something in the storage or some host knows was given to a backup.
Met(b) ==
    \/ \E t \in Nat : Started(b, t)
    \/ \E n \in PartNames : \E s \in Sums : Claimed(b, n, s)
    \/ \E p \in Hosts : b \in sources[p] \/ target[p] = b

UsedCovers == \A b \in Backups : Met(b) => b \in used

AccountInv ==
    /\ UnderLockInv /\ Resting /\ PartsInv
    /\ Agree
    /\ \A p \in Hosts : HostInv(p)
    /\ UsedCovers

LEMMA OldAgree ==
    ASSUME Agree, NothingNew, clock' = clock
    PROVE  Agree'
<1> USE DEF Agree, NothingNew
<1>1. OneSum'
  BY DEF OneSum, NoNewClaims
<1>2. StartsAgree'
  BY DEF StartsAgree, NoNewStarts
<1>3. LinksOlder'
  BY DEF LinksOlder, NoNewParts, NoNewStarts
<1>4. PartsOnce'
  BY DEF PartsOnce, NoNewParts
<1>5. OwnNames'
  BY DEF OwnNames, NoNewParts
<1>6. LinksToOwn'
  BY DEF LinksToOwn, NoNewParts, NoNewLinks, Part
<1> QED BY <1>1, <1>2, <1>3, <1>4, <1>5, <1>6

\* A linked part is a link to the name its data is stored under.
LEMMA LinkOfPart ==
    ASSUME NEW b \in Backups, NEW e \in Part, PartOf(b, e), e.link \in Backups
    PROVE  LinkedTo(e.link, StoredName(e)) /\ StoredName(e) \in PartNames
BY DEF LinkedTo, StoredName, Part

LEMMA StartAgree ==
    ASSUME TypeInv, TypeInv', Agree, NEW p \in Hosts, HostInv(p), StartBackup(p)
    PROVE  Agree'
<1> USE DEF Agree
<1>1. /\ NoNewParts /\ NoNewClaims /\ NoNewLinks /\ clock' = clock + 1 /\ clock \in Nat
      /\ \A b \in Backups : \A t \in Nat :
            Started(b, t)' => Started(b, t) \/ (b = target[p] /\ t = clock + 1)
      /\ pc[p] = "b_start" /\ target[p] \in Backups
  BY StartNews DEF StartBackup, TypeInv, TypeOK, MetaKnown
<1>2. /\ \A t \in Nat : ~Started(target[p], t)
      /\ \A n \in PartNames : ~LinkedTo(target[p], n)
      /\ \A n \in PartNames : \A s \in Sums : ~Claimed(target[p], n, s)
      /\ full[target[p]] = NoMeta /\ \A q \in Hosts \ {p} : target[q] # target[p]
  BY <1>1 DEF HostInv, OwnName, Fresh, BareAt, UnbornAt
<1>3. OneSum'
  BY <1>1 DEF OneSum, NoNewClaims
<1>4. StartsAgree'
  BY <1>1, <1>2 DEF StartsAgree
<1>5. LinksOlder'
  <2> SUFFICES ASSUME NEW b \in Backups, NEW e \in Part, PartOf(b, e), e.link \in Backups,
                      NEW t \in Nat, NEW u \in Nat, Started(e.link, t)', Started(b, u)'
               PROVE  t < u
    BY <1>1 DEF LinksOlder, NoNewParts
  <2>1. e.link # target[p]
    BY <1>2, LinkOfPart
  <2>2. Started(e.link, t) /\ t <= clock
    BY <1>1, <2>1 DEF StartsAgree
  <2> QED BY <1>1, <2>2 DEF LinksOlder
<1>6. PartsOnce'
  BY <1>1 DEF PartsOnce, NoNewParts
<1>7. OwnNames'
  BY <1>1 DEF OwnNames, NoNewParts
<1>8. LinksToOwn'
  BY <1>1 DEF LinksToOwn, NoNewParts, NoNewLinks, Part
<1> QED BY <1>3, <1>4, <1>5, <1>6, <1>7, <1>8

LEMMA PopulateAgree ==
    ASSUME TypeInv, TypeInv', Agree, NEW p \in Hosts, PopulateDedupInfo(p)
    PROVE  Agree'
<1> USE DEF Agree
<1>1. /\ NoNewParts /\ NoNewStarts /\ NoNewClaims /\ clock' = clock
      /\ \A b \in Backups : \A n \in PartNames : LinkedTo(b, n)' =>
            \/ LinkedTo(b, n)
            \/ /\ full[b] # NoMeta
               /\ \E e \in full[b].parts : e.name = n /\ e.link = NoBackup
  <2>1. \A b \in Backups : \A e \in Part : PartOf(b, e) /\ e.link = NoBackup => e.linkPartName = NoPart
    BY DEF OwnNames
  <2>2. clock' = clock
    BY DEF PopulateDedupInfo
  <2> QED BY <2>1, <2>2, PopulateNews
<1>2. OneSum' /\ StartsAgree'
  BY <1>1 DEF OneSum, NoNewClaims, StartsAgree, NoNewStarts
<1>3. LinksOlder' /\ PartsOnce' /\ OwnNames'
  BY <1>1 DEF LinksOlder, NoNewParts, NoNewStarts, PartsOnce, OwnNames
<1>4. ASSUME NEW b \in Backups, NEW e \in Part, PartOf(b, e), LinkedTo(b, e.name)'
      PROVE  e.link = NoBackup
  <2>1. e.name \in PartNames
    BY DEF Part
  <2>2. CASE LinkedTo(b, e.name)
    BY <1>4, <2>2 DEF LinksToOwn
  <2>3. CASE full[b] # NoMeta /\ \E g \in full[b].parts : g.name = e.name /\ g.link = NoBackup
    <3>1. PICK g \in full[b].parts : g.name = e.name /\ g.link = NoBackup
      BY <2>3
    <3>2. g \in Part /\ PartOf(b, g)
      BY <2>3 DEF TypeInv, TypeOK, Meta, PartOf
    <3> QED BY <1>4, <3>1, <3>2 DEF PartsOnce
  <2> QED BY <1>1, <1>4, <2>1, <2>2, <2>3
<1> QED BY <1>1, <1>2, <1>3, <1>4 DEF LinksToOwn, NoNewParts

LEMMA FreezeAgree ==
    ASSUME TypeInv, TypeInv', Agree, Resting, NEW p \in Hosts, HostInv(p), FreezeTable(p)
    PROVE  Agree'
<1> USE DEF Agree
<1>1. pc[p] = "b_dedup" /\ clock' = clock /\ OnTheWay(p) = {}
  BY DEF FreezeTable, Resting, PartsAt
<1>2. /\ NoNewParts /\ NoNewStarts /\ NoNewLinks
      /\ \E f \in TableStates :
           \A b \in Backups : \A n \in PartNames : \A s \in Sums : Claimed(b, n, s)' =>
              Claimed(b, n, s) \/ (b = target[p] /\ \E g \in f : g.name = n /\ g.sum = s)
  BY <1>1, FreezeNews
<1>3. PICK f \in TableStates :
        \A b \in Backups : \A n \in PartNames : \A s \in Sums : Claimed(b, n, s)' =>
           Claimed(b, n, s) \/ (b = target[p] /\ \E g \in f : g.name = n /\ g.sum = s)
  BY <1>2
<1>4. \A n \in PartNames : \A s \in Sums : ~Claimed(target[p], n, s)
  BY <1>1 DEF HostInv, Fresh, BareAt
<1>5. \A g, h \in f : g.name = h.name => g = h
  BY TableStatesAssumption DEF SamePart
<1>6. OneSum'
  BY <1>3, <1>4, <1>5 DEF OneSum
<1>7. StartsAgree' /\ LinksOlder'
  BY <1>1, <1>2 DEF StartsAgree, LinksOlder, NoNewParts, NoNewStarts
<1>8. PartsOnce' /\ OwnNames'
  BY <1>2 DEF PartsOnce, OwnNames, NoNewParts
<1>9. LinksToOwn'
  BY <1>2 DEF LinksToOwn, NoNewParts, NoNewLinks, Part
<1> QED BY <1>6, <1>7, <1>8, <1>9

LEMMA JoinAgree ==
    ASSUME UnderLockInv, TypeInv', PartsInv, Agree, NEW p \in Hosts, HostInv(p),
           DeduplicatePart(p) \/ ObserveUpload(p)
    PROVE  Agree'
<1> USE DEF Agree
<1>1. TypeInv
  BY DEF UnderLockInv
<1>2. PICK e \in Part :
        /\ Joins(p, e)
        /\ \A b \in Backups : \A g \in Part : PartOf(b, g)' =>
              PartOf(b, g) \/ (b = target[p] /\ g = e)
  BY <1>1, JoinNews
<1>3. NoNewStarts /\ NoNewClaims /\ NoNewLinks /\ clock' = clock
  BY <1>1, JoinNews DEF DeduplicatePart, ObserveUpload
<1>4. /\ pc[p] = "b_parts" /\ pc[p] \in Creates /\ pc[p] \in HasMeta
      /\ target[p] \in Backups /\ meta[p] \in Meta
  BY <1>1, <1>2 DEF Joins, Creates, BackupTry, HasMeta, TypeInv, MetaKnown
<1>5. /\ \A q \in Hosts \ {p} : target[q] # target[p]
      /\ \A n \in PartNames : ~LinkedTo(target[p], n)
      /\ full[target[p]] # NoMeta => full[target[p]].parts \subseteq meta[p].parts
      /\ \A r \in rows[p] : r.backup \in sources[p]
      /\ \A b \in sources[p] : \A t \in Nat : Started(b, t) => t < meta[p].start
  BY <1>4 DEF HostInv, OwnName, Fresh, RowsKnown, SourcesOlder
<1>6. Started(target[p], meta[p].start) /\ meta[p].start \in Nat
  BY <1>4 DEF Started, Meta
<1>7. \A g \in Part : PartOf(target[p], g) => g \in meta[p].parts
  BY <1>4, <1>5 DEF PartOf
<1>8. \A g \in meta[p].parts : g.name # e.name
  <2>1. Split(p)
    BY <1>4 DEF PartsInv
  <2>2. PICK f \in todo[p] \cup uploaded[p] : f.name = e.name
    BY <1>2 DEF Joins
  <2> SUFFICES ASSUME NEW g \in meta[p].parts, g.name = f.name
               PROVE  FALSE
    BY <2>2
  <2>3. [name |-> g.name, sum |-> g.sum] \in Content(meta[p])
    BY DEF Content
  <2>4. [name |-> g.name, sum |-> g.sum] \in frozen[p] /\ f \in frozen[p]
    BY <2>1, <2>3 DEF Split, OnTheWay
  <2>5. [name |-> g.name, sum |-> g.sum] = f
    BY <2>1, <2>4, TableStatesAssumption DEF Split, SamePart
  <2> QED BY <2>1, <2>3, <2>5 DEF Split
<1>9. OneSum' /\ StartsAgree'
  BY <1>3 DEF OneSum, NoNewClaims, StartsAgree, NoNewStarts
<1>10. LinksOlder'
  <2> SUFFICES ASSUME NEW b \in Backups, NEW g \in Part, PartOf(b, g)', g.link \in Backups,
                      NEW t \in Nat, NEW u \in Nat, Started(g.link, t), Started(b, u)
               PROVE  t < u
    BY <1>3 DEF LinksOlder, NoNewStarts
  <2>1. CASE PartOf(b, g)
    BY <2>1 DEF LinksOlder
  <2>2. CASE b = target[p] /\ g = e
    <3>1. u = meta[p].start
      BY <1>6, <2>2 DEF StartsAgree
    <3>2. e.link \in sources[p]
      BY <1>2, <1>5, <2>2, AbsentValues DEF Joins
    <3> QED BY <1>5, <2>2, <3>1, <3>2
  <2> QED BY <1>2, <2>1, <2>2
<1>11. PartsOnce'
  <2> SUFFICES ASSUME NEW b \in Backups, NEW g \in Part, NEW h \in Part,
                      PartOf(b, g)', PartOf(b, h)', g.name = h.name
               PROVE  g = h
    BY DEF PartsOnce
  <2>1. CASE PartOf(b, g) /\ PartOf(b, h)
    BY <2>1 DEF PartsOnce
  <2>2. CASE b = target[p] /\ (g = e \/ h = e)
    BY <1>2, <1>7, <1>8, <2>2
  <2> QED BY <1>2, <2>1, <2>2
<1>12. OwnNames'
  <2>1. e.link = NoBackup => e.linkPartName = NoPart
    BY <1>1, <1>2, AbsentValues DEF Joins, TypeInv, TypeOK, DedupRow
  <2> QED BY <1>2, <2>1 DEF OwnNames
<1>13. LinksToOwn'
  <2> SUFFICES ASSUME NEW b \in Backups, NEW g \in Part, PartOf(b, g)', LinkedTo(b, g.name)
               PROVE  g.link = NoBackup
    BY <1>3 DEF LinksToOwn, NoNewLinks, Part
  <2>1. b # target[p]
    BY <1>5 DEF Part
  <2> QED BY <1>2, <2>1 DEF LinksToOwn
<1> QED BY <1>9, <1>10, <1>11, <1>12, <1>13

-----------------------------------------------------------------------------
(* What hosts know, one step at a time.                                     *)

\* All that a step can say anew.
News(p) ==
    /\ \A b \in Backups : \A t \in Nat :
          Started(b, t)' => Started(b, t) \/ (StartBackup(p) /\ b = target[p] /\ t = clock + 1)
    /\ \A b \in Backups : \A n \in PartNames : \A s \in Sums :
          Claimed(b, n, s)' => Claimed(b, n, s) \/ (FreezeTable(p) /\ b = target[p])
    /\ \A b \in Backups : \A n \in PartNames :
          LinkedTo(b, n)' => \/ LinkedTo(b, n)
                             \/ pc[p] = "b_dedup" /\ b \in NamesOf(seen[p]) /\ full[b] # NoMeta

LEMMA AllNews ==
    ASSUME AccountInv, TypeInv', NEW p \in Hosts, Progress(p) \/ StartCommand(p) \/ Fault(p)
    PROVE  News(p)
<1>1. TypeInv /\ UnderLockInv /\ Resting /\ Agree
  BY DEF AccountInv, UnderLockInv
<1>2. CASE StartBackup(p)
  BY <1>1, <1>2, StartNews DEF News, NoNewClaims, NoNewLinks
<1>3. CASE PopulateDedupInfo(p)
  <2>1. \A b \in Backups : \A e \in Part : PartOf(b, e) /\ e.link = NoBackup => e.linkPartName = NoPart
    BY <1>1 DEF Agree, OwnNames
  <2>2. pc[p] = "b_dedup"
    BY <1>3 DEF PopulateDedupInfo
  <2>3. /\ NoNewStarts /\ NoNewClaims
        /\ \A b \in Backups : \A n \in PartNames : LinkedTo(b, n)' =>
              LinkedTo(b, n) \/ (b \in NamesOf(seen[p]) /\ full[b] # NoMeta)
    BY <1>1, <1>3, <2>1, PopulateNews
  <2> QED BY <2>2, <2>3 DEF News, NoNewStarts, NoNewClaims
<1>4. CASE FreezeTable(p)
  <2>1. OnTheWay(p) = {}
    BY <1>1, <1>4 DEF FreezeTable, Resting, PartsAt
  <2>2. NoNewStarts /\ NoNewLinks
    BY <1>1, <1>4, <2>1, FreezeNews
  <2>3. \A b \in Backups : \A n \in PartNames : \A s \in Sums :
          Claimed(b, n, s)' => Claimed(b, n, s) \/ b = target[p]
    BY <1>1, <1>4, <2>1, FreezeNews
  <2> QED BY <1>4, <2>2, <2>3 DEF News, NoNewStarts, NoNewLinks
<1>5. CASE DeduplicatePart(p) \/ ObserveUpload(p)
  BY <1>1, <1>5, JoinNews DEF News, NoNewStarts, NoNewClaims, NoNewLinks
<1>6. CASE ~(\/ StartBackup(p) \/ PopulateDedupInfo(p) \/ FreezeTable(p)
             \/ DeduplicatePart(p) \/ ObserveUpload(p))
  BY <1>1, <1>6, OldNewsSteps DEF News, NothingNew, NoNewStarts, NoNewClaims, NoNewLinks
<1> QED BY <1>2, <1>3, <1>4, <1>5, <1>6

LEMMA CreatesHasMeta == Creates \subseteq HasMeta
BY DEF Creates, HasMeta, UploadFullAt, UploadLightAt

\* A host that creates a backup outside the lock has stored nothing of it.
LEMMA OutsideUnborn ==
    ASSUME AccountInv, NEW p \in Hosts, pc[p] \in Locked, NEW q \in Hosts \ {p},
           pc[q] \in Creates \cup {"b_start"}
    PROVE  pc[q] \in UnbornAt /\ full[target[q]] = NoMeta
<1>1. pc[q] \notin Locked
  BY DEF AccountInv, UnderLockInv, LockInv
<1>2. pc[q] \in UnbornAt
  BY <1>1 DEF Creates, UnbornAt, Locked, UploadFullAt, UploadLightAt
<1> QED BY <1>2 DEF AccountInv, HostInv, Fresh

\* A name given to a backup command is not that of another backup.
LEMMA TargetApart ==
    ASSUME AccountInv, UniqueNames, TypeInv', NEW p \in Hosts, Progress(p) \/ StartCommand(p) \/ Fault(p),
           NEW q \in Hosts \ {p}, pc[q] \in Creates \cup {"b_start"}
    PROVE  target'[p] # target[q]
<1>1. StepFacts(p)
  BY AllStepFacts DEF AccountInv
<1>2. target[q] \in Backups /\ target[q] # target[p]
  BY CreatesHasMeta DEF AccountInv, UnderLockInv, TypeInv, MetaKnown, HostInv, OwnName
<1>3. CASE ListBackups(p)
  <2>1. PICK name \in Backups : name \notin used /\ target' = [target EXCEPT ![p] = name]
    BY <1>3 DEF ListBackups
  <2>2. target'[p] = name
    BY <2>1 DEF AccountInv, UnderLockInv, TypeInv, TypeOK
  <2>3. target[q] \in used
    BY <1>2 DEF AccountInv, UsedCovers, Met
  <2> QED BY <2>1, <2>2, <2>3
<1>4. CASE pc[p] = "x_next" /\ \E s \in work[p] : full[s.name] # NoMeta /\ target'[p] = s.name
  <2>1. full[target[q]] = NoMeta
    BY <1>4, OutsideUnborn DEF Locked
  <2> QED BY <1>4, <2>1
<1> QED BY <1>1, <1>2, <1>3, <1>4, AbsentValues DEF StepFacts

LEMMA Bystander ==
    ASSUME AccountInv, UniqueNames, TypeInv', NEW p \in Hosts, Progress(p) \/ StartCommand(p) \/ Fault(p),
           NEW q \in Hosts \ {p}
    PROVE  HostInv(q)'
<1> HIDE DEF HasMeta, Creates, BareAt, UnbornAt
<1>1. TypeOK /\ MetaKnown /\ HostInv(q) /\ HostInv(p)
  BY DEF AccountInv, UnderLockInv, TypeInv
<1>2. Others(p) /\ StepFacts(p) /\ News(p)
  BY <1>1, StepOthers, AllStepFacts, AllNews DEF AccountInv
<1>3. UNCHANGED <<pc[q], target[q], meta[q], seen[q], sources[q], rows[q]>>
  BY <1>2 DEF Others
<1>4. RowsKnown(q)'
  BY <1>1, <1>3 DEF HostInv, RowsKnown
<1>5. ASSUME pc[q] \in Creates \cup {"b_start"}
      PROVE  /\ target[q] \in Backups /\ target[q] # target[p] /\ target'[p] # target[q]
             /\ pc[p] \in Locked => full[target[q]] = NoMeta
  <2>1. target[q] \in Backups
    BY <1>1, <1>5, CreatesHasMeta DEF MetaKnown
  <2> QED BY <1>1, <1>5, <2>1, TargetApart, OutsideUnborn DEF HostInv, OwnName
<1>6. OwnName(q)'
  <2> SUFFICES ASSUME pc[q] \in Creates \cup {"b_start"}
               PROVE  /\ target[q] \notin sources[q] \cup NamesOf(seen[q])
                      /\ \A r \in Hosts \ {q} : target'[r] # target[q]
                      /\ \A n \in PartNames : ~LinkedTo(target[q], n)'
    BY <1>3 DEF OwnName
  <2>1. \A r \in Hosts \ {q} : target'[r] # target[q]
    BY <1>1, <1>2, <1>5 DEF HostInv, OwnName, Others
  <2>2. \A n \in PartNames : ~LinkedTo(target[q], n)'
    BY <1>1, <1>2, <1>3, <1>5 DEF HostInv, OwnName, News, Locked, BackupTry
  <2> QED BY <1>1, <2>1, <2>2 DEF HostInv, OwnName
<1>7. Fresh(q)'
  <2>1. BareAt \subseteq Creates \cup {"b_start"} /\ UnbornAt \subseteq Creates \cup {"b_start"}
    BY DEF BareAt, UnbornAt, Creates, BackupTry
  <2>2. ASSUME pc[q] \in BareAt, NEW n \in PartNames, NEW s \in Sums
        PROVE  ~Claimed(target[q], n, s)'
    BY <1>1, <1>2, <1>3, <1>5, <2>1, <2>2 DEF HostInv, Fresh, News
  <2>3. ASSUME pc[q] = "b_start"
        PROVE  /\ \A t \in Nat : ~Started(target[q], t)'
               /\ \A r \in Hosts : target[q] \notin sources'[r]
    <3>1. \A t \in Nat : ~Started(target[q], t)'
      BY <1>1, <1>2, <1>3, <1>5, <2>3 DEF HostInv, Fresh, News
    <3>2. target[q] \notin NamesOf(seen[p])
      BY <1>1, <2>3 DEF HostInv, Fresh, NamesOf, Started, TypeOK, Listed
    <3>3. \A r \in Hosts : target[q] \notin sources'[r]
      BY <1>1, <1>2, <2>3, <3>2 DEF HostInv, Fresh, StepFacts, Others
    <3> QED BY <3>1, <3>3
  <2>4. ASSUME pc[q] \in Creates \cup {"b_start"}
        PROVE  full'[target[q]] \in {full[target[q]], NoMeta} /\ light'[target[q]] \in {light[target[q]], NoMeta}
    BY <1>2, <1>5, <2>4 DEF StepFacts
  <2> QED BY <1>1, <1>3, <2>1, <2>2, <2>3, <2>4 DEF HostInv, Fresh
<1>8. SourcesOlder(q)'
  <2> SUFFICES ASSUME pc[q] \in Creates, NEW b \in sources[q] \cup NamesOf(seen[q]), NEW t \in Nat, Started(b, t)'
               PROVE  t < meta[q].start
    BY <1>3 DEF SourcesOlder
  <2>1. b \in Backups
    BY <1>1 DEF TypeOK, NamesOf, Listed
  <2>2. CASE StartBackup(p) /\ b = target[p]
    <3>1. pc[p] = "b_start"
      BY <2>2 DEF StartBackup
    <3>2. b \notin sources[q] /\ \A u \in Nat : ~Started(b, u)
      BY <1>1, <2>2, <3>1 DEF HostInv, Fresh
    <3>3. PICK s \in seen[q] : s.name = b
      BY <3>2 DEF NamesOf
    <3>4. s.start \in Nat /\ Started(b, s.start)
      BY <1>1, <3>3 DEF TypeOK, Listed, Started
    <3> QED BY <3>2, <3>4
  <2> QED BY <1>1, <1>2, <2>1, <2>2 DEF HostInv, SourcesOlder, News
<1> QED BY <1>4, <1>6, <1>7, <1>8 DEF HostInv

\* A host whose next step does not create a backup.
LEMMA NotCreating ==
    ASSUME AccountInv, NEW p \in Hosts, pc'[p] \notin Creates \cup {"b_start"},
           rows'[p] = {} \/ UNCHANGED <<rows[p], sources[p]>>
    PROVE  HostInv(p)'
<1>1. pc'[p] \notin BareAt \cup UnbornAt /\ pc'[p] \notin {"b_dedup", "b_start"}
  BY DEF BareAt, UnbornAt, Creates, BackupTry
<1>2. RowsKnown(p)
  BY DEF AccountInv, HostInv
<1>3. RowsKnown(p)'
  BY <1>1, <1>2 DEF RowsKnown
<1> QED BY <1>1, <1>3 DEF HostInv, OwnName, Fresh, SourcesOlder

\* A host that goes on creating its backup.
LEMMA GoesOn ==
    ASSUME AccountInv, UniqueNames, TypeInv', NEW p \in Hosts,
           Progress(p) \/ StartCommand(p) \/ Fault(p), ~StartBackup(p),
           pc[p] \in Creates, pc'[p] \in Creates,
           UNCHANGED target[p], meta'[p].start = meta[p].start, meta[p].parts \subseteq meta'[p].parts,
           seen'[p] \subseteq seen[p],
           \A r \in rows'[p] : r.backup \in sources'[p],
           pc'[p] = "b_dedup" => NamesOf(seen'[p]) \subseteq sources'[p],
           pc'[p] \in BareAt => pc[p] \in BareAt,
           pc'[p] \in UnbornAt => pc[p] \in UnbornAt /\ UNCHANGED <<full, light>>
    PROVE  HostInv(p)'
<1> HIDE DEF HasMeta, Creates, BareAt, UnbornAt
<1>1. TypeOK /\ MetaKnown /\ HostInv(p)
  BY DEF AccountInv, UnderLockInv, TypeInv
<1>2. StepFacts(p) /\ News(p) /\ Others(p)
  BY <1>1, StepOthers, AllStepFacts, AllNews DEF AccountInv
<1>3. target[p] \in Backups /\ meta[p] \in Meta
  BY <1>1, CreatesHasMeta DEF MetaKnown
<1>4. sources'[p] \cup NamesOf(seen'[p]) \subseteq sources[p] \cup NamesOf(seen[p])
  BY <1>2 DEF StepFacts, NamesOf
<1>5. pc'[p] # "b_start" /\ pc[p] # "b_start"
  BY DEF Creates, BackupTry
<1>6. RowsKnown(p)'
  BY DEF RowsKnown
<1>7. OwnName(p)'
  <2>1. target[p] \notin sources'[p] \cup NamesOf(seen'[p])
    BY <1>1, <1>4 DEF HostInv, OwnName
  <2>2. \A q \in Hosts \ {p} : target'[q] # target[p]
    BY <1>1, <1>2 DEF HostInv, OwnName, Others
  <2>3. \A n \in PartNames : ~LinkedTo(target[p], n)'
    BY <1>1, <1>2, <1>3 DEF HostInv, OwnName, News
  <2> QED BY <2>1, <2>2, <2>3 DEF OwnName
<1>8. Fresh(p)'
  <2>1. ASSUME pc'[p] \in BareAt
        PROVE  \A n \in PartNames : \A s \in Sums : ~Claimed(target[p], n, s)'
    <3>1. ~FreezeTable(p)
      BY <1>1, <2>1 DEF FreezeTable, Go, TypeOK, BareAt, UnbornAt
    <3> QED BY <1>1, <1>2, <1>3, <2>1, <3>1 DEF HostInv, Fresh, News
  <2>2. pc'[p] \in UnbornAt => full'[target[p]] = NoMeta /\ light'[target[p]] = NoMeta
    BY <1>1 DEF HostInv, Fresh
  <2>3. full'[target[p]] # NoMeta => full'[target[p]].parts \subseteq meta'[p].parts
    BY <1>1, <1>2, <1>3 DEF HostInv, Fresh, StepFacts
  <2> QED BY <1>5, <2>1, <2>2, <2>3 DEF Fresh
<1>9. SourcesOlder(p)'
  <2> SUFFICES ASSUME NEW b \in sources'[p] \cup NamesOf(seen'[p]), NEW t \in Nat, Started(b, t)'
               PROVE  t < meta[p].start
    BY DEF SourcesOlder
  <2>1. b \in sources[p] \cup NamesOf(seen[p]) /\ b \in Backups
    BY <1>1, <1>4 DEF TypeOK, NamesOf, Listed
  <2>2. Started(b, t)
    BY <1>2, <2>1 DEF News
  <2> QED BY <1>1, <2>1, <2>2 DEF HostInv, SourcesOlder
<1> QED BY <1>6, <1>7, <1>8, <1>9 DEF HostInv

LEMMA ListBackupsKeeps ==
    ASSUME AccountInv, UniqueNames, TypeInv', NEW p \in Hosts, ListBackups(p)
    PROVE  HostInv(p)'
<1>1. TypeOK /\ MetaKnown /\ HostInv(p) /\ UsedCovers /\ Resting
  BY DEF AccountInv, UnderLockInv, TypeInv
<1>3. PICK name \in Backups : /\ name \notin used /\ name \notin NamesOf(Listing)
                              /\ target' = [target EXCEPT ![p] = name]
  BY DEF ListBackups
<1>4. /\ target'[p] = name /\ pc'[p] = "b_start" /\ seen'[p] = Listing
      /\ UNCHANGED <<full, light, data, meta, rows, sources, todo, uploading, uploaded, work>>
      /\ \A q \in Hosts \ {p} : UNCHANGED <<pc[q], target[q], seen[q]>>
      /\ pc[p] = "idle"
  BY <1>1, <1>3 DEF ListBackups, TypeOK, Go, storage, parts, deletion
<1>5. sources'[p] = {} /\ rows'[p] = {} /\ OnTheWay(p) = {}
  BY <1>1, <1>4 DEF Resting, PartsAt
<1>6. ~Met(name)
  BY <1>1, <1>3 DEF UsedCovers
<1>7. \A t \in Nat : ~Started(name, t)
  BY <1>6 DEF Met
<1>8. full[name] = NoMeta /\ light[name] = NoMeta
  BY <1>1, <1>7 DEF Started, TypeOK, Meta, Light
<1>9. \A t \in Nat : ~Started(name, t)'
  <2>1. \A s \in Listing : s.name # name
    BY <1>3 DEF NamesOf
  <2>2. pc'[p] \notin HasMeta
    BY <1>4 DEF HasMeta, BackupTry, UploadFullAt, UploadLightAt
  <2> HIDE DEF HasMeta
  <2> QED BY <1>4, <1>7, <2>1, <2>2 DEF Started
<1>10. \A n \in PartNames : \A s \in Sums : ~Claimed(name, n, s)'
  <2> SUFFICES ASSUME NEW n \in PartNames, NEW s \in Sums, Claimed(name, n, s)'
               PROVE  FALSE
    OBVIOUS
  <2>1. ASSUME NEW b \in Backups, NEW e \in Part, PartOf(b, e)'
        PROVE  PartOf(b, e)
    <3>1. pc'[p] \notin HasMeta
      BY <1>4 DEF HasMeta, BackupTry, UploadFullAt, UploadLightAt
    <3> HIDE DEF HasMeta
    <3> QED BY <1>4, <2>1, <3>1 DEF PartOf
  <2>2. OnTheWay(p)' = {} /\ \A q \in Hosts \ {p} : OnTheWay(q)' = OnTheWay(q)
    BY <1>4, <1>5 DEF OnTheWay
  <2>3. Claimed(name, n, s)
    BY <1>4, <2>1, <2>2 DEF Claimed
  <2> QED BY <1>6, <2>3 DEF Met
<1>11. \A n \in PartNames : ~LinkedTo(name, n)'
  <2> SUFFICES ASSUME NEW n \in PartNames, LinkedTo(name, n)'
               PROVE  FALSE
    OBVIOUS
  <2>1. CASE \E c \in Backups : \E e \in Part : PartOf(c, e)' /\ e.link = name /\ StoredName(e) = n
    <3>1. PICK c \in Backups, e \in Part : PartOf(c, e)' /\ e.link = name /\ StoredName(e) = n
      BY <2>1
    <3>2. DataOf(c, e) = <<name, n, e.sum>> /\ e.sum \in Sums
      BY <3>1, AbsentValues DEF DataOf, Part
    <3>3. Claimed(name, n, e.sum)'
      BY <3>1, <3>2 DEF Claimed
    <3> QED BY <1>10, <3>2, <3>3
  <2>2. CASE \E q \in Hosts : \E r \in rows'[q] : r.backup = name /\ RowData(r)[2] = n
    <3>1. PICK q \in Hosts : \E r \in rows'[q] : r.backup = name /\ RowData(r)[2] = n
      BY <2>2
    <3> PICK r \in rows'[q] : r.backup = name /\ RowData(r)[2] = n
      BY <3>1
    <3>2. r.sum \in Sums /\ RowData(r) = <<name, n, r.sum>>
      BY <1>1, <1>4, <3>1 DEF RowData, TypeOK, DedupRow
    <3>3. Claimed(name, n, r.sum)'
      BY <3>1, <3>2 DEF Claimed
    <3> QED BY <1>10, <3>2, <3>3
  <2> QED BY <2>1, <2>2 DEF LinkedTo
<1>12. \A q \in Hosts : name \notin sources[q] /\ target[q] # name
  BY <1>6 DEF Met
<1>13. "b_start" \notin Creates
  BY DEF Creates, BackupTry
<1>14. RowsKnown(p)'
  BY <1>4, <1>5 DEF RowsKnown
<1>15. OwnName(p)'
  BY <1>3, <1>4, <1>5, <1>11, <1>12 DEF OwnName
<1>16. Fresh(p)'
  BY <1>4, <1>8, <1>9, <1>10, <1>12, <1>13 DEF Fresh
<1>17. SourcesOlder(p)'
  BY <1>4, <1>13 DEF SourcesOlder
<1> QED BY <1>14, <1>15, <1>16, <1>17 DEF HostInv

LEMMA StartBackupKeeps ==
    ASSUME AccountInv, UniqueNames, TypeInv', NEW p \in Hosts, StartBackup(p)
    PROVE  HostInv(p)'
<1>1. TypeOK /\ TypeInv /\ MetaKnown /\ HostInv(p) /\ Resting /\ StartsAgree
  BY DEF AccountInv, UnderLockInv, TypeInv, Agree
<1>2. /\ pc[p] = "b_start" /\ pc'[p] = "b_lock" /\ meta'[p].start = clock + 1
      /\ UNCHANGED <<full, light, target, seen, rows, sources>>
      /\ target[p] \in Backups
  BY <1>1 DEF StartBackup, Go, TypeOK, MetaKnown, storage, dedup
<1>3. /\ NoNewClaims /\ NoNewLinks
      /\ \A b \in Backups : \A t \in Nat :
            Started(b, t)' => Started(b, t) \/ (b = target[p] /\ t = clock + 1)
  BY <1>1, StartNews
<1>4. RowsKnown(p)'
  BY <1>1, <1>2 DEF HostInv, RowsKnown
<1>5. OwnName(p)'
  BY <1>1, <1>2, <1>3 DEF HostInv, OwnName, NoNewLinks
<1>6. Fresh(p)'
  <2>1. \A n \in PartNames : \A s \in Sums : ~Claimed(target[p], n, s)'
    BY <1>1, <1>2, <1>3 DEF HostInv, Fresh, BareAt, UnbornAt, NoNewClaims
  <2>2. full'[target[p]] = NoMeta /\ light'[target[p]] = NoMeta
    BY <1>1, <1>2 DEF HostInv, Fresh, UnbornAt
  <2> QED BY <1>2, <2>1, <2>2 DEF Fresh
<1>7. SourcesOlder(p)'
  <2> SUFFICES ASSUME NEW b \in sources[p] \cup NamesOf(seen[p]), NEW t \in Nat, Started(b, t)'
               PROVE  t < clock + 1
    BY <1>2 DEF SourcesOlder
  <2>1. b \in Backups /\ b # target[p]
    BY <1>1, <1>2 DEF TypeOK, NamesOf, Listed, HostInv, OwnName
  <2>2. Started(b, t)
    BY <1>3, <2>1
  <2> QED BY <1>1, <2>1, <2>2 DEF StartsAgree, TypeOK
<1> QED BY <1>4, <1>5, <1>6, <1>7 DEF HostInv

LEMMA OwnStep ==
    ASSUME AccountInv, UniqueNames, TypeInv', NEW p \in Hosts,
           Progress(p) \/ StartCommand(p) \/ Fault(p)
    PROVE  HostInv(p)'
<1> USE DEF TypeOK, Go, storage, locals, dedup, parts, deletion
<1>1. TypeOK /\ TypeInv /\ MetaKnown /\ PendingInv /\ HostInv(p) /\ OwnNames
  BY DEF AccountInv, UnderLockInv, TypeInv, Agree
<1>2. ASSUME NEW label \in {"idle", "unlock", "exit", "d_lock", "p_lock", "x_next", "x_markFull", "x_erase",
                            "x_wait", "x_partFull"},
             pc'[p] = label, rows'[p] = {} \/ UNCHANGED <<rows[p], sources[p]>>
      PROVE  HostInv(p)'
  <2>1. label \notin Creates \cup {"b_start"}
    BY DEF Creates, BackupTry
  <2> QED BY <1>2, <2>1, NotCreating
<1>3. CASE LockTimeout(p) \/ Exit(p) \/ SkipBackup(p) \/ Crash(p)
  BY <1>1, <1>2, <1>3, ForgetOthers DEF LockTimeout, Exit, SkipBackup, Crash
<1>4. CASE AcquireLock(p) \/ UploadFull(p) \/ UploadLight(p)
  <2>1. PICK step \in Sequel : step[1] = pc[p] /\ Go(p, step[2])
    BY <1>4 DEF AcquireLock, UploadFull, UploadLight, Advance
  <2>2. /\ step[2] \in Creates <=> step[1] \in Creates /\ step[2] # "unlock"
        /\ step[2] \in BareAt => step[1] \in BareAt
        /\ step[2] \in UnbornAt => step[1] \in UnbornAt \cap Waiting
        /\ step[2] \notin {"b_start", "b_dedup"}
    BY DEF Sequel, OtherSequel, Creates, BareAt, UnbornAt, BackupTry, Waiting
  <2>3. pc'[p] = step[2] /\ UNCHANGED <<target, meta, seen, sources, rows>>
    BY <1>1, <1>4, <2>1 DEF AcquireLock, UploadFull, UploadLight
  <2>4. CASE step[2] \in Creates
    <3>1. step[2] \in UnbornAt => UNCHANGED <<full, light>>
      BY <1>4, <2>1, <2>2 DEF AcquireLock, UploadFull, UploadLight, Waiting, UploadFullAt, UploadLightAt
    <3>2. \A r \in rows'[p] : r.backup \in sources'[p]
      BY <1>1, <2>3 DEF HostInv, RowsKnown
    <3>3. ~StartBackup(p)
      BY <2>1, <2>2, <2>4 DEF StartBackup, Creates, BackupTry
    <3> QED BY <2>1, <2>2, <2>3, <2>4, <3>1, <3>2, <3>3, GoesOn
  <2>5. CASE step[2] \notin Creates
    BY <2>2, <2>3, <2>5, NotCreating
  <2> QED BY <2>4, <2>5
<1>5. CASE ReleaseLock(p) \/ UploadError(p)
  BY <1>1, <1>2, <1>5 DEF ReleaseLock, UploadError
<1>6. CASE ListBackups(p)
  BY <1>6, ListBackupsKeeps
<1>7. CASE StartBackup(p)
  BY <1>7, StartBackupKeeps
<1>8. ASSUME NEW label \in BackupTry \cup {"b_finalFull"}, pc[p] \in BackupTry, pc'[p] = label,
             pc'[p] \in {"b_collect", "b_dedup"} => pc[p] \in {"b_collect", "b_dedup"},
             UNCHANGED target[p], meta'[p].start = meta[p].start, meta[p].parts \subseteq meta'[p].parts,
             seen'[p] \subseteq seen[p],
             \A r \in rows'[p] : r.backup \in sources'[p],
             pc'[p] = "b_dedup" => NamesOf(seen'[p]) \subseteq sources'[p]
      PROVE  HostInv(p)'
  <2>1. /\ pc[p] \in Creates /\ pc'[p] \in Creates
        /\ pc'[p] \in BareAt => pc[p] \in BareAt
        /\ pc'[p] \notin UnbornAt
        /\ ~StartBackup(p)
    BY <1>8 DEF Creates, BareAt, UnbornAt, BackupTry, StartBackup
  <2> QED BY <1>8, <2>1, GoesOn
<1>9. \A r \in rows[p] : r.backup \in sources[p]
  BY <1>1 DEF HostInv, RowsKnown
<1>10. CASE CollectDedupInfo(p)
  <2>1. PICK limit \in 0..clock :
          /\ seen' = [seen EXCEPT ![p] = {s \in seen[p] : s.start > limit}]
          /\ sources' = [sources EXCEPT ![p] = NamesOf({s \in seen[p] : s.start > limit})]
    BY <1>10 DEF CollectDedupInfo
  <2>2. seen'[p] \subseteq seen[p] /\ sources'[p] = NamesOf(seen'[p])
    BY <1>1, <2>1
  <2>3. rows'[p] = {}
    BY <1>10 DEF CollectDedupInfo, AccountInv, Resting, PartsAt
  <2>4. pc[p] = "b_collect" /\ pc'[p] = "b_dedup" /\ UNCHANGED <<target, meta>>
    BY <1>1, <1>10 DEF CollectDedupInfo
  <2> QED BY <1>8, <2>2, <2>3, <2>4 DEF BackupTry
<1>11. CASE PopulateDedupInfo(p)
  <2>1. pc[p] = "b_dedup" /\ UNCHANGED <<pc, target, meta, sources>>
    BY <1>11 DEF PopulateDedupInfo
  <2>2. NamesOf(seen[p]) \subseteq sources[p]
    BY <1>1, <2>1 DEF HostInv, RowsKnown
  <2>3. \A b \in Backups : \A e \in Part : PartOf(b, e) /\ e.link = NoBackup => e.linkPartName = NoPart
    BY <1>1 DEF OwnNames
  <2>4. /\ seen'[p] \subseteq seen[p]
        /\ \A r \in rows'[p] \ rows[p] : r.backup \in NamesOf(seen[p]) \cup sources[p]
    BY <1>1, <1>11, <2>3, PopulateNews
  <2>5. NamesOf(seen'[p]) \subseteq sources'[p]
    BY <2>1, <2>2, <2>4 DEF NamesOf
  <2>6. \A r \in rows'[p] : r.backup \in sources'[p]
    BY <1>9, <2>1, <2>2, <2>4
  <2> QED BY <1>8, <2>1, <2>4, <2>5, <2>6 DEF BackupTry
<1>12. CASE ReloadFails(p) \/ BackupCreated(p) \/ BackupFailed(p)
  <2>1. pc[p] \in BackupTry /\ meta[p] \in Meta
    BY <1>1, <1>12 DEF ReloadFails, BackupCreated, BackupFailed, MetaKnown, HasMeta, BackupTry
  <2>2. meta'[p].start = meta[p].start /\ meta'[p].parts = meta[p].parts
    BY <1>1, <1>12, <2>1 DEF ReloadFails, BackupCreated, BackupFailed, Meta
  <2>3. pc'[p] = "b_finalFull" /\ UNCHANGED <<target, seen, sources, rows>>
    BY <1>1, <1>12 DEF ReloadFails, BackupCreated, BackupFailed
  <2> QED BY <1>8, <1>9, <2>1, <2>2, <2>3
<1>13. CASE FreezeTable(p) \/ ScheduleUpload(p) \/ TableDone(p)
  <2>1. /\ pc[p] \in BackupTry /\ pc'[p] \in {"b_parts", "b_tableFull"}
        /\ UNCHANGED <<target, meta, seen, sources, rows>>
    BY <1>1, <1>13 DEF FreezeTable, ScheduleUpload, TableDone, BackupTry
  <2> QED BY <1>8, <1>9, <2>1 DEF BackupTry
<1>14. CASE DeduplicatePart(p) \/ ObserveUpload(p)
  <2>1. PICK e \in Part : Joins(p, e)
    BY <1>1, <1>14, JoinNews
  <2>2. meta[p] \in Meta
    BY <1>1, <2>1 DEF Joins, MetaKnown, HasMeta, BackupTry
  <2>3. /\ pc[p] = "b_parts" /\ UNCHANGED <<pc, target, seen, sources, rows>>
        /\ meta'[p].start = meta[p].start /\ meta[p].parts \subseteq meta'[p].parts
    BY <2>1, <2>2 DEF Joins, Meta
  <2> QED BY <1>8, <1>9, <2>3 DEF BackupTry
<1>15. CASE PutPart(p)
  <2>1. UNCHANGED <<full, light, pc, target, meta, seen, sources, rows>>
    BY <1>15 DEF PutPart
  <2>2. pc[p] # "b_start" /\ ~StartBackup(p)
    BY <1>15 DEF PutPart, AccountInv, Resting, PartsAt, OnTheWay, StartBackup
  <2>3. CASE pc[p] \in Creates
    <3>1. pc[p] = "b_dedup" => NamesOf(seen[p]) \subseteq sources[p]
      BY <1>1 DEF HostInv, RowsKnown
    <3> QED BY <1>9, <2>1, <2>2, <2>3, <3>1, GoesOn
  <2>4. CASE pc[p] \notin Creates
    BY <2>1, <2>2, <2>4, NotCreating
  <2> QED BY <2>3, <2>4
<1>16. CASE \/ StartDelete(p) \/ StartPurge(p) \/ Plans(p) \/ GivesUp(p)
            \/ DeletionEnds(p) \/ DeletionFailed(p)
  BY <1>1, <1>2, <1>16 DEF StartDelete, StartPurge, Plans, GivesUp, DeletionEnds, DeletionFailed, DeleteBatch
<1>17. CASE DeleteNext(p) \/ DeleteBackup(p) \/ DeleteDataParts(p) \/ DeletionWaited(p)
  BY <1>1, <1>2, <1>17 DEF DeleteNext, DeleteBackup, DeleteDataParts, DeletionWaited
<1>18. CASE EraseKey(p) \/ UnfreezeFailed(p)
  BY <1>1, <1>2, <1>18 DEF EraseKey, UnfreezeFailed, PendingInv
<1>19. PlanDelete(p) \/ PlanPurge(p) \/ BackupNotFound(p) \/ PurgeTypeError(p) => Plans(p) \/ GivesUp(p)
  BY PlansOrGivesUp DEF AccountInv
<1> QED BY <1>3, <1>4, <1>5, <1>6, <1>7, <1>10, <1>11, <1>12, <1>13, <1>14, <1>15, <1>16, <1>17, <1>18,
           <1>19 DEF Progress, StartCommand, Fault, BackupStep, DeleteStep

LEMMA UsedNext ==
    ASSUME AccountInv, UniqueNames, TypeInv', NEW p \in Hosts,
           Progress(p) \/ StartCommand(p) \/ Fault(p)
    PROVE  UsedCovers'
<1>1. TypeOK /\ UsedCovers
  BY DEF AccountInv, UnderLockInv, TypeInv
<1>2. StepFacts(p) /\ News(p) /\ Others(p)
  BY <1>1, StepOthers, AllStepFacts, AllNews DEF AccountInv
<1> SUFFICES ASSUME NEW b \in Backups, Met(b)'
             PROVE  b \in used'
  BY DEF UsedCovers
<1>3. Met(b) => b \in used'
  BY <1>1, <1>2 DEF UsedCovers, StepFacts
<1>4. target[p] = b => Met(b)
  BY DEF Met
<1>5. ASSUME NEW t \in Nat, Started(b, t)'
      PROVE  Met(b)
  BY <1>2, <1>4, <1>5 DEF News, Met
<1>6. ASSUME NEW n \in PartNames, NEW s \in Sums, Claimed(b, n, s)'
      PROVE  Met(b)
  BY <1>2, <1>4, <1>6 DEF News, Met
<1>7. ASSUME NEW q \in Hosts, NEW s \in seen[q] \cup work[q], s.name = b
      PROVE  Met(b)
  <2>1. s.start \in Nat /\ Started(b, s.start)
    BY <1>1, <1>7 DEF TypeOK, Listed, Started
  <2> QED BY <2>1 DEF Met
<1>8. ASSUME NEW q \in Hosts, b \in sources'[q]
      PROVE  Met(b)
  <2>1. b \in sources[q] \/ b \in NamesOf(seen[q])
    BY <1>2, <1>8 DEF StepFacts, Others
  <2> QED BY <1>7, <2>1 DEF Met, NamesOf
<1>9. ASSUME NEW q \in Hosts, target'[q] = b
      PROVE  b \in used'
  <2>1. CASE ListBackups(p) /\ q = p
    BY <1>1, <1>9, <2>1 DEF ListBackups, TypeOK
  <2>2. CASE target'[q] = target[q]
    BY <1>3, <1>9, <2>2 DEF Met
  <2>3. CASE \E s \in work[q] : target'[q] = s.name
    BY <1>3, <1>7, <1>9, <2>3
  <2> QED BY <1>2, <1>9, <2>1, <2>2, <2>3, AbsentValues DEF StepFacts, Others
<1> QED BY <1>3, <1>5, <1>6, <1>8, <1>9 DEF Met

LEMMA AgreeNext ==
    ASSUME AccountInv, TypeInv', NEW p \in Hosts, Progress(p) \/ StartCommand(p) \/ Fault(p)
    PROVE  Agree'
<1>1. TypeInv /\ UnderLockInv /\ Resting /\ PartsInv /\ Agree /\ HostInv(p)
  BY DEF AccountInv, UnderLockInv
<1>2. CASE StartBackup(p)
  BY <1>1, <1>2, StartAgree
<1>3. CASE PopulateDedupInfo(p)
  BY <1>1, <1>3, PopulateAgree
<1>4. CASE FreezeTable(p)
  BY <1>1, <1>4, FreezeAgree
<1>5. CASE DeduplicatePart(p) \/ ObserveUpload(p)
  BY <1>1, <1>5, JoinAgree
<1>6. CASE ~(\/ StartBackup(p) \/ PopulateDedupInfo(p) \/ FreezeTable(p)
             \/ DeduplicatePart(p) \/ ObserveUpload(p))
  <2>1. NothingNew
    BY <1>1, <1>6, OldNewsSteps
  <2>2. clock' = clock
    BY <1>1, <1>6, AllStepFacts DEF StepFacts
  <2> QED BY <1>1, <2>1, <2>2, OldAgree
<1> QED BY <1>2, <1>3, <1>4, <1>5, <1>6

LEMMA AccountStutters == AccountInv /\ UNCHANGED vars => AccountInv'
<1> SUFFICES ASSUME AccountInv, UNCHANGED vars
             PROVE  AccountInv'
  OBVIOUS
<1>1. UNCHANGED <<full, light, data, clock, used, pc, target, meta, seen, sources, rows, frozen, todo,
                  uploading, uploaded, work>>
  BY DEF vars, storage, locals, dedup, parts, deletion
<1>2. UnderLockInv'
  BY UnderLockNext DEF AccountInv
<1>3. Resting' /\ PartsInv'
  BY <1>1 DEF AccountInv, Resting, PartsInv, OnTheWay, Split
<1>4. /\ \A b \in Backups : \A e \in Part : PartOf(b, e)' <=> PartOf(b, e)
      /\ \A b \in Backups : \A t \in Nat : Started(b, t)' <=> Started(b, t)
  BY <1>1 DEF PartOf, Started
<1>5. NothingNew
  BY <1>1, <1>4 DEF NothingNew, NoNewParts, NoNewStarts, NoNewClaims, NoNewLinks, Claimed, LinkedTo, OnTheWay
<1>6. Agree'
  BY <1>1, <1>5, OldAgree DEF AccountInv
<1>7. \A p \in Hosts : HostInv(p)'
  <2> SUFFICES ASSUME NEW p \in Hosts
               PROVE  HostInv(p)'
    OBVIOUS
  <2>1. HostInv(p) /\ MetaKnown /\ TypeOK
    BY DEF AccountInv, UnderLockInv, TypeInv
  <2>2. pc[p] \in Creates \cup {"b_start"} => target[p] \in Backups
    BY <2>1, CreatesHasMeta DEF MetaKnown
  <2>3. BareAt \subseteq Creates \cup {"b_start"}
    BY DEF BareAt, UnbornAt, Creates, BackupTry
  <2>4. RowsKnown(p)'
    BY <1>1, <2>1 DEF HostInv, RowsKnown
  <2>5. OwnName(p)'
    BY <1>1, <1>5, <2>1, <2>2 DEF HostInv, OwnName, NothingNew, NoNewLinks
  <2>6. Fresh(p)'
    BY <1>1, <1>5, <2>1, <2>2, <2>3 DEF HostInv, Fresh, NothingNew, NoNewStarts, NoNewClaims
  <2>7. SourcesOlder(p)'
    <3>1. sources[p] \cup NamesOf(seen[p]) \subseteq Backups
      BY <2>1 DEF TypeOK, NamesOf, Listed
    <3>2. \A b \in Backups : \A t \in Nat : Started(b, t)' => Started(b, t)
      BY <1>5 DEF NothingNew, NoNewStarts
    <3> QED BY <1>1, <2>1, <3>1, <3>2 DEF HostInv, SourcesOlder
  <2> QED BY <2>4, <2>5, <2>6, <2>7 DEF HostInv
<1>8. UsedCovers'
  BY <1>1, <1>5 DEF AccountInv, UsedCovers, Met, NothingNew, NoNewStarts, NoNewClaims
<1> QED BY <1>2, <1>3, <1>6, <1>7, <1>8 DEF AccountInv

LEMMA AccountNext == UniqueNames /\ AccountInv /\ [Next]_vars => AccountInv'
<1> SUFFICES ASSUME UniqueNames, AccountInv, [Next]_vars
             PROVE  AccountInv'
  OBVIOUS
<1>1. UNCHANGED vars => AccountInv'
  BY AccountStutters
<1>2. SUFFICES ASSUME NEW p \in Hosts, Progress(p) \/ StartCommand(p) \/ Fault(p)
               PROVE  AccountInv'
  BY <1>1 DEF Next
<1>3. UnderLockInv /\ Resting /\ PartsInv
  BY DEF AccountInv
<1>4. UnderLockInv'
  BY <1>3, UnderLockNext
<1>5. TypeInv'
  BY <1>4 DEF UnderLockInv
<1>6. Resting' /\ PartsInv'
  BY <1>2, <1>3, RestingNext, PartsNext
<1>7. Agree' /\ UsedCovers'
  BY <1>2, <1>5, AgreeNext, UsedNext
<1>8. \A q \in Hosts : HostInv(q)'
  <2>1. HostInv(p)'
    BY <1>2, <1>5, OwnStep
  <2>2. \A q \in Hosts \ {p} : HostInv(q)'
    BY <1>2, <1>5, Bystander
  <2> QED BY <2>1, <2>2
<1> QED BY <1>4, <1>6, <1>7, <1>8 DEF AccountInv

LEMMA AccountInit == PurgesItsOwn /\ Init => AccountInv
<1> SUFFICES ASSUME PurgesItsOwn, Init
             PROVE  AccountInv
  OBVIOUS
<1>1. UnderLockInv
  BY UnderLockInit
<1>2. /\ \A p \in Hosts : /\ pc[p] = "idle" /\ pc[p] \notin HasMeta \cup Creates \cup {"b_start"}
                          /\ rows[p] = {} /\ OnTheWay(p) = {} /\ seen[p] = {} /\ sources[p] = {} /\ work[p] = {}
                          /\ target[p] = NoBackup
      /\ \A b \in Backups : full[b] = NoMeta /\ light[b] = NoMeta
      /\ data = {}
  BY DEF Init, HasMeta, Creates, BackupTry, UploadFullAt, UploadLightAt, OnTheWay
<1> HIDE DEF HasMeta, Creates
<1>3. \A b \in Backups : \A e \in Part : ~PartOf(b, e)
  BY <1>2 DEF PartOf
<1>4. \A b \in Backups : \A t \in Nat : ~Started(b, t)
  BY <1>2 DEF Started
<1>5. \A b \in Backups : \A n \in PartNames : \A s \in Sums : ~Claimed(b, n, s)
  BY <1>2, <1>3 DEF Claimed
<1>6. Agree
  BY <1>3, <1>4, <1>5 DEF Agree, OneSum, StartsAgree, LinksOlder, PartsOnce, OwnNames, LinksToOwn
<1>7. Resting /\ PartsInv
  BY <1>2 DEF Resting, PartsInv, NoPartsAt, AllPartsAt
<1>8. ASSUME NEW p \in Hosts
      PROVE  HostInv(p)
  <2>1. pc[p] \notin BareAt \cup UnbornAt
    BY <1>2 DEF BareAt, UnbornAt
  <2> QED BY <1>2, <2>1 DEF HostInv, RowsKnown, OwnName, Fresh, SourcesOlder
<1>9. UsedCovers
  BY <1>2, <1>4, <1>5, AbsentValues DEF UsedCovers, Met
<1> QED BY <1>1, <1>6, <1>7, <1>8, <1>9 DEF AccountInv

LEMMA Account == PurgesItsOwn /\ UniqueNames /\ Spec => []AccountInv
<1>1. PurgesItsOwn /\ Init => AccountInv
  BY AccountInit
<1>2. UniqueNames /\ AccountInv /\ [Next]_vars => UniqueNames' /\ AccountInv'
  BY AccountNext
<1> QED BY <1>1, <1>2, PTL DEF Spec

\* Where hosts purge only what they back up themselves and each backup command has a
\* name of its own, the metadata in the storage and in the memories of the hosts never
\* contradict one another: one start time to a backup, one checksum to a part, and
\* links that lead to data parts of older backups which are those backups' own.
THEOREM AccountAgrees == PurgesItsOwn /\ UniqueNames /\ Spec => []Agree
<1>1. AccountInv => Agree
  BY DEF AccountInv
<1> QED BY <1>1, Account, PTL

-----------------------------------------------------------------------------
(* What a backup holds when it becomes CREATED, whatever names are given.   *)

FrozenInv == UnderLockInv /\ Resting /\ PartsInv

LEMMA FrozenNext == FrozenInv /\ [Next]_vars => FrozenInv'
<1> SUFFICES ASSUME FrozenInv, [Next]_vars
             PROVE  FrozenInv'
  OBVIOUS
<1>1. UnderLockInv'
  BY UnderLockNext DEF FrozenInv
<1>2. CASE UNCHANGED vars
  <2>1. UNCHANGED <<pc, meta, sources, rows, frozen, todo, uploading, uploaded>>
    BY <1>2 DEF vars, locals, dedup, parts
  <2> QED BY <1>1, <2>1 DEF FrozenInv, Resting, PartsInv, OnTheWay, Split
<1>3. ASSUME NEW p \in Hosts, Progress(p) \/ StartCommand(p) \/ Fault(p)
      PROVE  Resting' /\ PartsInv'
  BY <1>3, RestingNext, PartsNext DEF FrozenInv
<1> QED BY <1>1, <1>2, <1>3 DEF FrozenInv, Next

\* Full metadata are put by the host that creates or deletes the backup, which
\* holds the lock.
LEMMA WhoPuts ==
    ASSUME UnderLockInv, NEW p \in Hosts, Progress(p) \/ StartCommand(p) \/ Fault(p),
           NEW b \in Backups, full'[b] # full[b]
    PROVE  /\ pc[p] \in Locked
           /\ \/ full'[b] = NoMeta /\ pc[p] = "x_wait"
              \/ UploadFull(p) /\ target[p] = b /\ full'[b] = meta[p]
              \/ ObserveUpload(p) /\ target[p] = b /\ full'[b] = meta'[p]
<1>1. TypeOK /\ MetaKnown /\ PendingInv
  BY DEF UnderLockInv, TypeInv
<1>2. CASE UploadFull(p)
  BY <1>1, <1>2 DEF TypeOK, UploadFull, Locked
<1>3. CASE ObserveUpload(p)
  <2>1. full' = full \/ full' = [full EXCEPT ![target[p]] = meta'[p]]
    BY <1>3 DEF ObserveUpload
  <2>2. pc[p] \in Locked
    BY <1>3 DEF ObserveUpload, Locked, BackupTry
  <2>3. full \in [Backups -> Meta \cup {NoMeta}]
    BY <1>1 DEF TypeOK
  <2> QED BY <1>3, <2>1, <2>2, <2>3
<1>4. CASE EraseKey(p)
  <2>1. pc[p] = "x_wait"
    BY <1>1, <1>4 DEF EraseKey, PendingInv
  <2> QED BY <1>1, <1>4, <2>1 DEF TypeOK, EraseKey, Locked
<1>5. CASE ~(UploadFull(p) \/ ObserveUpload(p) \/ EraseKey(p))
  BY <1>5 DEF Progress, StartCommand, Fault, BackupStep, DeleteStep, AcquireLock, LockTimeout, ReleaseLock,
              Exit, UploadLight, SkipBackup, StartBackup, CollectDedupInfo, PopulateDedupInfo, ReloadFails,
              FreezeTable, DeduplicatePart, ScheduleUpload, PutPart, TableDone, BackupCreated, PlanDelete,
              BackupNotFound, PlanPurge, PurgeTypeError, DeleteNext, DeletionEnds, DeleteBackup,
              DeleteDataParts, DeletionWaited, ListBackups, StartDelete, StartPurge, UploadError,
              BackupFailed, DeletionFailed, UnfreezeFailed, Crash, Forget, storage
<1> QED BY <1>2, <1>3, <1>4, <1>5

\* Where hosts purge only what they back up themselves, a backup becomes CREATED with
\* exactly the parts its host froze: each of them was deduplicated or its upload
\* observed, once.
THEOREM CreatedWithWhatWasFrozen == PurgesItsOwn /\ Spec => BackupsWhatWasFrozen
<1> DEFINE Complete == \A p \in Hosts, b \in Backups :
              full'[b] # full[b] /\ target[p] = b /\ pc[p] = "b_finalFull" /\ full'[b].state = "created"
              => Content(full'[b]) = frozen[p]
<1>1. PurgesItsOwn /\ Init => FrozenInv
  BY AccountInit DEF FrozenInv, AccountInv
<1>2. FrozenInv /\ [Next]_vars => FrozenInv'
  BY FrozenNext
<1>3. FrozenInv /\ [Next]_vars => Complete
  <2> SUFFICES ASSUME FrozenInv, [Next]_vars, NEW p \in Hosts, NEW b \in Backups, full'[b] # full[b],
                      target[p] = b, pc[p] = "b_finalFull", full'[b].state = "created"
               PROVE  Content(full'[b]) = frozen[p]
    OBVIOUS
  <2>1. PICK q \in Hosts : Progress(q) \/ StartCommand(q) \/ Fault(q)
    BY DEF Next, vars, storage
  <2>2. UnderLockInv
    BY DEF FrozenInv
  <2>3. pc[q] \in Locked
    BY <2>1, <2>2, WhoPuts
  <2>4. q = p
    BY <2>2, <2>3 DEF UnderLockInv, LockInv, Locked, UploadFullAt
  <2>5. full'[b] = meta[p]
    BY <2>1, <2>2, <2>4, WhoPuts DEF ObserveUpload
  <2> QED BY <2>5 DEF FrozenInv, PartsInv, AllPartsAt
<1>4. FrozenInv /\ [Next]_vars => [Complete]_vars
  BY <1>3
<1> QED BY <1>1, <1>2, <1>4, PTL DEF Spec, BackupsWhatWasFrozen
=============================================================================
