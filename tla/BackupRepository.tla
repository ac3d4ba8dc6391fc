-------------------------- MODULE BackupRepository --------------------------
(***************************************************************************)
(* The backup repository: an object storage shared by the ch-backup        *)
(* processes of several hosts, which run the backup, delete and purge      *)
(* commands under a ZooKeeper lock.                                        *)
(*                                                                         *)
(* A backup is a prefix of the storage that holds a full metadata object,  *)
(* a light one and the data of the parts uploaded by the backup.  Parts    *)
(* found in an older backup are not uploaded again: the metadata links to  *)
(* the older backup, so a deletion has to spare what others link to.       *)
(*                                                                         *)
(* A process may crash at any point, and then loses its lock and all it    *)
(* held in memory; any access to the storage may fail.                     *)
(***************************************************************************)
EXTENDS BackupMetadata

CONSTANTS
    Commands,     \* Commands[p]: which of "backup", "delete", "purge" host p runs
    TableStates,  \* the sets of [name, sum] parts a freeze of the table can see
    Size,         \* Size[s]: size of the object made of a part with checksum s
    Replicated,   \* the table's engine is replicated
    RetainCount,  \* backup.retain_count, or NoCount when it is not set
    NoCount,
    RetainTime,   \* backup.retain_time is set
    UniqueNames,  \* every backup command is given a name of its own
    MaxStarts,    \* bound on the number of backup commands
    MaxFaults     \* bound on the number of crashes and errors

ASSUME CommandsAssumption ==
    Commands \in [Hosts -> SUBSET {"backup", "delete", "purge"}]

\* A table holds one part of a block range at a time, under one name.
ASSUME TableStatesAssumption ==
    \A frozen \in TableStates :
        /\ frozen \subseteq [name: PartNames, sum: Sums]
        /\ \A f, g \in frozen : SamePart(f.name, g.name) => f = g

ASSUME SizeAssumption == Size \in [Sums -> Nat]

ASSUME ConfigAssumption ==
    /\ Replicated \in BOOLEAN
    /\ RetainCount \in Nat \cup {NoCount}
    /\ NoCount \notin Nat
    /\ RetainTime \in BOOLEAN
    /\ UniqueNames \in BOOLEAN
    /\ MaxStarts \in Nat
    /\ MaxFaults \in Nat

NoHost == "none"

ASSUME NoHostIsAbsent == NoHost \notin Hosts

VARIABLES
    full,         \* full[b]: backup_struct.json of backup b, or NoMeta
    light,        \* light[b]: backup_light_struct.json of backup b, or NoMeta
    data,         \* stored part data: triples <<backup, part name, checksum>>
    holder,       \* the host that holds the ZooKeeper lock, or NoHost
    clock,        \* the last start_time given to a backup
    faults,       \* crashes and errors so far
    used,         \* names given to backup commands so far
    pc,           \* pc[p]: where the command of host p is
    target,       \* the backup being created or deleted
    meta,         \* its metadata in memory
    seen,         \* backups listed before the lock and left for deduplication
    sources,      \* names of the backups used for deduplication
    rows,         \* the _deduplication_info table
    handled,      \* deduplication met a CREATED backup of the table
    frozen,       \* frozen parts of the table
    todo,         \* frozen parts not processed yet
    uploading,    \* parts whose upload is scheduled
    uploaded,     \* parts uploaded whose callback has not run
    listed,       \* names purge listed before the lock
    work,         \* backups left to delete
    refs,         \* data objects to spare
    pending       \* objects whose asynchronous deletion is scheduled

storage == <<full, light, data>>
dedup == <<seen, sources, rows, handled>>
parts == <<frozen, todo, uploading, uploaded>>
deletion == <<listed, work, refs, pending>>
locals == <<target, meta, dedup, parts, deletion>>
vars == <<storage, holder, clock, used, faults, pc, locals>>

-----------------------------------------------------------------------------
BackupTry == {"b_collect", "b_dedup", "b_parts", "b_tableFull", "b_tableLight",
              "b_done"}

UploadFullAt == {"b_putFull", "b_tableFull", "b_finalFull", "x_markFull",
                 "x_partFull"}
UploadLightAt == {"b_putLight", "b_tableLight", "b_finalLight", "x_markLight",
                  "x_partLight"}

Locked == BackupTry \cup UploadFullAt \cup UploadLightAt
          \cup {"d_plan", "p_plan", "x_next", "x_erase", "x_wait", "unlock"}

Waiting == {"b_lock", "d_lock", "p_lock"}

Labels == Locked \cup Waiting \cup {"idle", "b_start", "exit"}

\* Control points that follow one another: the lock and what it was awaited
\* for, the two objects upload_backup_metadata puts and what comes next.
OtherSequel ==
    {<<"b_tableFull", "b_tableLight">>, <<"b_tableLight", "b_done">>,
     <<"b_finalFull", "b_finalLight">>, <<"b_finalLight", "unlock">>,
     <<"d_lock", "d_plan">>,            <<"p_lock", "p_plan">>,
     <<"x_markFull", "x_markLight">>,   <<"x_markLight", "x_erase">>,
     <<"x_partFull", "x_partLight">>,   <<"x_partLight", "x_next">>}

\* A backup that puts its light metadata before the full one.
LightFirst ==
    {<<"b_lock", "b_putLight">>, <<"b_putLight", "b_putFull">>, <<"b_putFull", "b_collect">>}
    \cup OtherSequel

Sequel ==
    {<<"b_lock", "b_putFull">>, <<"b_putFull", "b_putLight">>, <<"b_putLight", "b_collect">>}
    \cup OtherSequel

Go(p, label) == pc' = [pc EXCEPT ![p] = label]

Advance(p) == \E step \in Sequel : step[1] = pc[p] /\ Go(p, step[2])

\* get_backups(use_light_meta=True)
Listing ==
    {[name |-> b, start |-> light[b].start, state |-> light[b].state] :
        b \in {c \in Backups : light[c] # NoMeta}}

\* get_backup_names: every prefix that holds an object.
Prefixes ==
    {b \in Backups : \/ full[b] # NoMeta
                     \/ light[b] # NoMeta
                     \/ \E d \in data : d[1] = b}

Newest(s, L) == s \in L /\ NewerIn(s, L) = {}

Listed == [name: Backups, start: Nat, state: States]

Frozen == [name: PartNames, sum: Sums]

Key == [kind: {"light", "full", "data"}, backup: Backups,
        part: PartNames \cup {NoPart}]

Init ==
    /\ full = [b \in Backups |-> NoMeta]
    /\ light = [b \in Backups |-> NoMeta]
    /\ data = {}
    /\ holder = NoHost
    /\ clock = 0
    /\ used = {}
    /\ faults = 0
    /\ pc = [p \in Hosts |-> "idle"]
    /\ target = [p \in Hosts |-> NoBackup]
    /\ meta = [p \in Hosts |-> NoMeta]
    /\ seen = [p \in Hosts |-> {}]
    /\ sources = [p \in Hosts |-> {}]
    /\ rows = [p \in Hosts |-> {}]
    /\ handled = [p \in Hosts |-> FALSE]
    /\ frozen = [p \in Hosts |-> {}]
    /\ todo = [p \in Hosts |-> {}]
    /\ uploading = [p \in Hosts |-> {}]
    /\ uploaded = [p \in Hosts |-> {}]
    /\ listed = [p \in Hosts |-> {}]
    /\ work = [p \in Hosts |-> {}]
    /\ refs = [p \in Hosts |-> {}]
    /\ pending = [p \in Hosts |-> {}]

\* The process of host p ends: its memory is gone.
Forget(p) ==
    /\ Go(p, "idle")
    /\ target' = [target EXCEPT ![p] = NoBackup]
    /\ meta' = [meta EXCEPT ![p] = NoMeta]
    /\ seen' = [seen EXCEPT ![p] = {}]
    /\ sources' = [sources EXCEPT ![p] = {}]
    /\ rows' = [rows EXCEPT ![p] = {}]
    /\ handled' = [handled EXCEPT ![p] = FALSE]
    /\ frozen' = [frozen EXCEPT ![p] = {}]
    /\ todo' = [todo EXCEPT ![p] = {}]
    /\ uploading' = [uploading EXCEPT ![p] = {}]
    /\ uploaded' = [uploaded EXCEPT ![p] = {}]
    /\ listed' = [listed EXCEPT ![p] = {}]
    /\ work' = [work EXCEPT ![p] = {}]
    /\ refs' = [refs EXCEPT ![p] = {}]
    /\ pending' = [pending EXCEPT ![p] = {}]
    /\ UNCHANGED <<storage, clock, used>>

-----------------------------------------------------------------------------
(* The lock                                                                *)

\* LockManager.__enter__
AcquireLock(p) ==
    /\ pc[p] \in Waiting
    /\ holder = NoHost
    /\ holder' = p
    /\ Advance(p)
    /\ UNCHANGED <<storage, clock, used, locals>>

\* The lock was not acquired within lock_timeout: the process exits.
LockTimeout(p) ==
    /\ pc[p] \in Waiting
    /\ Forget(p)
    /\ UNCHANGED holder

\* LockManager.__exit__; deletions still scheduled outlive the lock.
ReleaseLock(p) ==
    /\ pc[p] = "unlock"
    /\ holder' = NoHost
    /\ Go(p, "exit")
    /\ UNCHANGED <<storage, clock, used, locals>>

\* The interpreter exits once its worker processes are done.
Exit(p) ==
    /\ pc[p] = "exit"
    /\ pending[p] = {} /\ uploading[p] = {}
    /\ Forget(p)
    /\ UNCHANGED holder

-----------------------------------------------------------------------------
(* upload_backup_metadata: the full object first, then the light one.       *)

UploadFull(p) ==
    /\ pc[p] \in UploadFullAt
    /\ full' = [full EXCEPT ![target[p]] = meta[p]]
    /\ Advance(p)
    /\ UNCHANGED <<light, data, holder, clock, used, locals>>

UploadLight(p) ==
    /\ pc[p] \in UploadLightAt
    /\ light' = [light EXCEPT ![target[p]] = LightOf(meta[p])]
    /\ Advance(p)
    /\ UNCHANGED <<full, data, holder, clock, used, locals>>

\* The first and the last uploads of a command are outside its try block: the
\* error ends the command.
UploadError(p) ==
    /\ pc[p] \in (UploadFullAt \cup UploadLightAt) \ BackupTry
    /\ Go(p, "unlock")
    /\ UNCHANGED <<storage, holder, clock, used, locals>>

-----------------------------------------------------------------------------
(* backup                                                                  *)

\* The existing backups are listed and the name is checked before the lock.
ListBackups(p) ==
    /\ "backup" \in Commands[p]
    /\ pc[p] = "idle"
    /\ clock + Cardinality({q \in Hosts : pc[q] = "b_start"}) < MaxStarts
    /\ \E name \in Backups :
        /\ UniqueNames => name \notin used
        /\ name \notin NamesOf(Listing)
        /\ used' = used \cup {name}
        /\ target' = [target EXCEPT ![p] = name]
    /\ seen' = [seen EXCEPT ![p] = Listing]
    /\ Go(p, "b_start")
    /\ UNCHANGED <<storage, holder, clock, meta, sources, rows, handled, parts, deletion>>

\* The last backup is younger than backup.min_interval.
SkipBackup(p) ==
    /\ pc[p] = "b_start"
    /\ seen[p] # {}
    /\ Forget(p)
    /\ UNCHANGED holder

\* BackupMetadata.__init__ takes the start time.
StartBackup(p) ==
    /\ pc[p] = "b_start"
    /\ clock' = clock + 1
    /\ meta' = [meta EXCEPT ![p] =
          [start |-> clock + 1, host |-> p, state |-> "creating", parts |-> {}]]
    /\ Go(p, "b_lock")
    /\ UNCHANGED <<storage, holder, used, target, dedup, parts, deletion>>

\* collect_dedup_info: backups started at or after the age limit are used; a
\* limit after every backup stands for deduplicate_parts being off.
CollectDedupInfo(p) ==
    /\ pc[p] = "b_collect"
    /\ \E limit \in 0..clock :
        LET recent == {s \in seen[p] : s.start > limit} IN
        /\ seen' = [seen EXCEPT ![p] = recent]
        /\ sources' = [sources EXCEPT ![p] = NamesOf(recent)]
    /\ Go(p, "b_dedup")
    /\ UNCHANGED <<storage, holder, clock, used, target, meta, rows, handled, parts, deletion>>

\* One turn of the loop of _populate_dedup_info: newest backup first.
PopulateDedupInfo(p) ==
    /\ pc[p] = "b_dedup"
    /\ \E s \in seen[p] :
        LET m == full[s.name]
            sameHost == m.host = p
            created == m.state = "created" IN
        /\ Newest(s, seen[p])
        /\ m # NoMeta
        /\ rows' = [rows EXCEPT ![p] =
              IF handled[p] \/ ~(Replicated \/ sameHost) THEN @
              ELSE @ \cup NewRows(s.name, m, @, sources[p])]
        /\ handled' = [handled EXCEPT ![p] = @ \/ (created /\ (Replicated \/ sameHost))]
        /\ seen' = [seen EXCEPT ![p] = IF created /\ sameHost THEN {} ELSE @ \ {s}]
    /\ UNCHANGED <<storage, holder, clock, used, pc, target, meta, sources, parts, deletion>>

\* reload_backup of a backup deleted since it was listed fails the command.
ReloadFails(p) ==
    /\ pc[p] = "b_dedup"
    /\ \E s \in seen[p] : Newest(s, seen[p]) /\ full[s.name] = NoMeta
    /\ meta' = [meta EXCEPT ![p].state = "failed"]
    /\ Go(p, "b_finalFull")
    /\ UNCHANGED <<storage, holder, clock, used, target, dedup, parts, deletion>>

\* The table is frozen and its parts are scanned.
FreezeTable(p) ==
    /\ pc[p] = "b_dedup"
    /\ seen[p] = {}
    /\ \E f \in TableStates :
        /\ frozen' = [frozen EXCEPT ![p] = f]
        /\ todo' = [todo EXCEPT ![p] = f]
    /\ Go(p, "b_parts")
    /\ UNCHANGED <<storage, holder, clock, used, target, meta, dedup, uploading, uploaded, deletion>>

\* check_data_part of the part f would be linked to through row r: the stored
\* object has the size the part calls for.
DataChecked(r, f) ==
    \E d \in data : /\ <<d[1], d[2]>> = <<r.backup, StoredName(LinkedPart(f, r))>>
                    /\ Size[d[3]] = Size[f.sum]

\* A row that is used without looking at the stored data.
UsableUnchecked(r, f) == SamePart(r.name, f.name)

Usable(r, f) ==
    /\ SamePart(r.name, f.name)
    /\ r.verified \/ DataChecked(r, f)

\* Rows joined with part f.  The query keeps one of them, that of the greatest
\* backup name: names have no order here, so any of them may be the one.
Matches(p, f) == {r \in rows[p] : r.sum = f.sum}

\* The part is found in an older backup: only metadata is added.
DeduplicatePart(p) ==
    /\ pc[p] = "b_parts"
    /\ \E f \in todo[p] : \E r \in Matches(p, f) :
        /\ Usable(r, f)
        /\ meta' = [meta EXCEPT ![p].parts = @ \cup {LinkedPart(f, r)}]
        /\ todo' = [todo EXCEPT ![p] = @ \ {f}]
    /\ UNCHANGED <<storage, holder, clock, used, pc, target, dedup, frozen, uploading, uploaded, deletion>>

\* upload_data_part schedules the upload.
ScheduleUpload(p) ==
    /\ pc[p] = "b_parts"
    /\ \E f \in todo[p] :
        /\ Matches(p, f) = {} \/ \E r \in Matches(p, f) : ~Usable(r, f)
        /\ todo' = [todo EXCEPT ![p] = @ \ {f}]
        /\ uploading' = [uploading EXCEPT ![p] = @ \cup {f}]
    /\ UNCHANGED <<storage, holder, clock, used, pc, target, meta, dedup, frozen, uploaded, deletion>>

\* A worker puts the tarball of a part.
PutPart(p) ==
    /\ \E f \in uploading[p] :
        /\ data' = {d \in data : <<d[1], d[2]>> # <<target[p], f.name>>}
                   \cup {<<target[p], f.name, f.sum>>}
        /\ uploading' = [uploading EXCEPT ![p] = @ \ {f}]
        /\ uploaded' = [uploaded EXCEPT ![p] = @ \cup {f}]
    /\ UNCHANGED <<full, light, holder, clock, used, pc, target, meta, dedup, frozen, todo, deletion>>

\* An observer that adds the part only when it uploads the metadata.
ObserveUploadWhenFlushed(p) ==
    /\ pc[p] = "b_parts"
    /\ \E f \in uploaded[p], flush \in BOOLEAN :
        /\ meta' = [meta EXCEPT ![p].parts = IF flush THEN @ \cup {OwnPart(f)} ELSE @]
        /\ uploaded' = [uploaded EXCEPT ![p] = @ \ {f}]
        /\ full' = IF flush THEN [full EXCEPT ![target[p]] = meta'[p]] ELSE full
    /\ UNCHANGED <<light, data, holder, clock, used, pc, target, dedup, frozen, todo, uploading, deletion>>

\* UploadPartObserver: the part joins the metadata, which is uploaded when the
\* update interval has passed.
ObserveUpload(p) ==
    /\ pc[p] = "b_parts"
    /\ \E f \in uploaded[p], flush \in BOOLEAN :
        /\ meta' = [meta EXCEPT ![p].parts = @ \cup {OwnPart(f)}]
        /\ uploaded' = [uploaded EXCEPT ![p] = @ \ {f}]
        /\ full' = IF flush THEN [full EXCEPT ![target[p]] = meta'[p]] ELSE full
    /\ UNCHANGED <<light, data, holder, clock, used, pc, target, dedup, frozen, todo, uploading, deletion>>

\* A table that is done once its uploads are scheduled.
TableNotWaited(p) ==
    /\ pc[p] = "b_parts"
    /\ todo[p] = {}
    /\ Go(p, "b_tableFull")
    /\ UNCHANGED <<storage, holder, clock, used, locals>>

\* All parts are in the metadata, which is uploaded for the database.
TableDone(p) ==
    /\ pc[p] = "b_parts"
    /\ todo[p] = {} /\ uploading[p] = {} /\ uploaded[p] = {}
    /\ Go(p, "b_tableFull")
    /\ UNCHANGED <<storage, holder, clock, used, locals>>

BackupCreated(p) ==
    /\ pc[p] = "b_done"
    /\ meta' = [meta EXCEPT ![p].state = "created"]
    /\ Go(p, "b_finalFull")
    /\ UNCHANGED <<storage, holder, clock, used, target, dedup, parts, deletion>>

\* An exception or a termination signal inside the try block.  The uploads
\* scheduled are cancelled when it comes from wait(); otherwise they go on, for
\* some of them until the process exits.
BackupFailed(p) ==
    /\ pc[p] \in BackupTry
    /\ meta' = [meta EXCEPT ![p].state = "failed"]
    /\ todo' = [todo EXCEPT ![p] = {}]
    /\ \E left \in SUBSET uploading[p] : uploading' = [uploading EXCEPT ![p] = left]
    /\ uploaded' = [uploaded EXCEPT ![p] = {}]
    /\ Go(p, "b_finalFull")
    /\ UNCHANGED <<storage, holder, clock, used, target, dedup, frozen, deletion>>

-----------------------------------------------------------------------------
(* delete and purge                                                        *)

StartDelete(p) ==
    /\ "delete" \in Commands[p]
    /\ pc[p] = "idle"
    /\ Go(p, "d_lock")
    /\ UNCHANGED <<storage, holder, clock, used, locals>>

\* purge lists the names of the backups before it takes the lock.
StartPurge(p) ==
    /\ "purge" \in Commands[p]
    /\ pc[p] = "idle"
    /\ RetainTime \/ RetainCount # NoCount
    /\ listed' = [listed EXCEPT ![p] = Prefixes]
    /\ Go(p, "p_lock")
    /\ UNCHANGED <<storage, holder, clock, used, target, meta, dedup, parts, work, refs, pending>>

KeysOf(b) ==
    {[kind |-> "light", backup |-> b, part |-> NoPart] : m \in {light[b]} \ {NoMeta}}
    \cup {[kind |-> "full", backup |-> b, part |-> NoPart] : m \in {full[b]} \ {NoMeta}}
    \cup {[kind |-> "data", backup |-> b, part |-> n] :
             n \in {d[2] : d \in {c \in data : c[1] = b}}}

\* collect_dedup_references_for_batch_backup_deletion, then the loop over the
\* deleted backups; a retained backup that cannot be loaded ends the command.
DeleteBatch(p, deleting, retained) ==
    LET metas == {full[s.name] : s \in retained} IN
    IF NoMeta \in metas
    THEN Go(p, "unlock") /\ UNCHANGED <<work, refs>>
    ELSE /\ Go(p, "x_next")
         /\ work' = [work EXCEPT ![p] = deleting]
         /\ refs' = [refs EXCEPT ![p] = DedupReferences(metas, NamesOf(deleting))]

PlanDelete(p) ==
    /\ pc[p] = "d_plan"
    /\ \E name \in NamesOf(Listing), purgePartial \in BOOLEAN :
        LET deleting == DeletedByName(Listing, name, purgePartial) IN
        DeleteBatch(p, deleting, Listing \ deleting)
    /\ UNCHANGED <<storage, holder, clock, used, target, meta, dedup, parts, listed, pending>>

\* The backup to delete does not exist: BackupNotFound.
BackupNotFound(p) ==
    /\ pc[p] = "d_plan"
    /\ NamesOf(Listing) # Backups
    /\ Go(p, "unlock")
    /\ UNCHANGED <<storage, holder, clock, used, locals>>

\* A backup whose name was not listed before the lock is taken for one without
\* metadata: its objects are scheduled for deletion and it plays no part in
\* the retention.
PlanPurge(p) ==
    /\ pc[p] = "p_plan"
    /\ LET known == {s \in Listing : s.name \in listed[p]}
           foreign == NamesOf(Listing \ known) IN
       /\ RetainCount \in Nat \/ known = {}
       /\ \E limit \in IF RetainTime THEN 1 .. clock + 1 ELSE {clock + 1} :
            LET kept == Retained(known, RetainCount, limit) IN
            DeleteBatch(p, known \ kept, kept)
       /\ pending' = [pending EXCEPT ![p] = @ \cup UNION {KeysOf(b) : b \in foreign}]
    /\ UNCHANGED <<storage, holder, clock, used, target, meta, dedup, parts, listed>>

\* Without a retain count the comparison with zero raises TypeError at the
\* newest backup whose name was listed.
PurgeTypeError(p) ==
    /\ pc[p] = "p_plan"
    /\ RetainCount = NoCount
    /\ \E s \in Listing :
        /\ s.name \in listed[p]
        /\ \A t \in NewerIn(s, Listing) : t.name \notin listed[p]
        /\ pending' = [pending EXCEPT ![p] =
              @ \cup UNION {KeysOf(b) : b \in NamesOf(NewerIn(s, Listing))}]
    /\ Go(p, "unlock")
    /\ UNCHANGED <<storage, holder, clock, used, target, meta, dedup, parts, listed, work, refs>>

\* Backups are deleted in any order.
AnyNext(s, L) == s \in L

\* Backups are deleted newest first.
NextToDelete(s, L) == Newest(s, L)

\* A deletion that keeps the state the backup had.
DeleteNextUnmarked(p) ==
    /\ pc[p] = "x_next"
    /\ \E s \in work[p] :
        /\ NextToDelete(s, work[p])
        /\ full[s.name] # NoMeta
        /\ target' = [target EXCEPT ![p] = s.name]
        /\ meta' = [meta EXCEPT ![p] = full[s.name]]
        /\ work' = [work EXCEPT ![p] = @ \ {s}]
    /\ Go(p, "x_markFull")
    /\ UNCHANGED <<storage, holder, clock, used, dedup, parts, listed, refs, pending>>

\* _delete reloads the metadata and marks the backup DELETING.
DeleteNext(p) ==
    /\ pc[p] = "x_next"
    /\ \E s \in work[p] :
        /\ NextToDelete(s, work[p])
        /\ full[s.name] # NoMeta
        /\ target' = [target EXCEPT ![p] = s.name]
        /\ meta' = [meta EXCEPT ![p] = [full[s.name] EXCEPT !.state = "deleting"]]
        /\ work' = [work EXCEPT ![p] = @ \ {s}]
    /\ Go(p, "x_markFull")
    /\ UNCHANGED <<storage, holder, clock, used, dedup, parts, listed, refs, pending>>

\* The batch is done, or the next backup cannot be loaded.
DeletionEnds(p) ==
    /\ pc[p] = "x_next"
    /\ \A s \in work[p] : NextToDelete(s, work[p]) => full[s.name] = NoMeta
    /\ Go(p, "unlock")
    /\ UNCHANGED <<storage, holder, clock, used, locals>>

Spared(p) == ReferencedIn(target[p], refs[p])

\* delete_backup: nothing links to the backup, its whole prefix goes.
DeleteBackup(p) ==
    /\ pc[p] = "x_erase"
    /\ Spared(p) = {}
    /\ pending' = [pending EXCEPT ![p] = @ \cup KeysOf(target[p])]
    /\ Go(p, "x_wait")
    /\ UNCHANGED <<storage, holder, clock, used, target, meta, dedup, parts, listed, work, refs>>

\* A partial deletion that leaves the data of the parts it drops.
DropDataParts(p) ==
    /\ pc[p] = "x_erase"
    /\ Spared(p) # {}
    /\ meta' = [meta EXCEPT ![p].parts = {e \in @ : e.name \in Spared(p)}]
    /\ Go(p, "x_wait")
    /\ UNCHANGED <<storage, holder, clock, used, target, dedup, parts, deletion>>

\* _delete_data_parts: the own parts nobody links to are deleted, and every part
\* that is not referenced leaves the metadata.
DeleteDataParts(p) ==
    /\ pc[p] = "x_erase"
    /\ Spared(p) # {}
    /\ LET dropped == {e \in meta[p].parts : e.name \notin Spared(p)}
           own == {e \in dropped : e.link = NoBackup} IN
       /\ pending' = [pending EXCEPT ![p] = @ \cup
             {[kind |-> "data", backup |-> target[p], part |-> e.name] : e \in own}]
       /\ meta' = [meta EXCEPT ![p].parts = @ \ dropped]
    /\ Go(p, "x_wait")
    /\ UNCHANGED <<storage, holder, clock, used, target, dedup, parts, listed, work, refs>>

Rank == [light |-> 0, full |-> 1, data |-> 2]

\* Keys are deleted in any order.
AnyOrder(k, keys) == k \in keys

\* Each key waits for all the others of its backup.
StrictlyFirst(k, keys) == \A j \in keys \ {k} : j.backup = k.backup => Rank[k.kind] < Rank[j.kind]

\* Keys are deleted in the order of the listing: light metadata, full metadata,
\* parts.
InOrder(k, keys) == \A j \in keys : j.backup = k.backup => Rank[k.kind] <= Rank[j.kind]

\* A worker deletes one scheduled object.
EraseKey(p) ==
    \E k \in pending[p] :
        /\ InOrder(k, pending[p])
        /\ pending' = [pending EXCEPT ![p] = @ \ {k}]
        /\ light' = IF k.kind = "light" THEN [light EXCEPT ![k.backup] = NoMeta] ELSE light
        /\ full' = IF k.kind = "full" THEN [full EXCEPT ![k.backup] = NoMeta] ELSE full
        /\ data' = IF k.kind = "data"
                   THEN {d \in data : <<d[1], d[2]>> # <<k.backup, k.part>>}
                   ELSE data
        /\ UNCHANGED <<holder, clock, used, pc, target, meta, dedup, parts, listed, work, refs>>

\* A final block that leaves the backup DELETING.
DeletionNotRecorded(p) ==
    /\ pc[p] = "x_wait"
    /\ pending[p] = {}
    /\ Go(p, "x_next")
    /\ UNCHANGED <<storage, holder, clock, used, locals>>

\* The final block without the wait.
DeletionNotWaited(p) ==
    /\ pc[p] = "x_wait"
    /\ IF Spared(p) = {}
       THEN Go(p, "x_next") /\ UNCHANGED meta
       ELSE /\ Go(p, "x_partFull")
            /\ meta' = [meta EXCEPT ![p].state = "partially_deleted"]
    /\ UNCHANGED <<storage, holder, clock, used, target, dedup, parts, deletion>>

\* The final block of _delete: a backup others link to is PARTIALLY_DELETED.
DeletionWaited(p) ==
    /\ pc[p] = "x_wait"
    /\ pending[p] = {}
    /\ IF Spared(p) = {}
       THEN Go(p, "x_next") /\ UNCHANGED meta
       ELSE /\ Go(p, "x_partFull")
            /\ meta' = [meta EXCEPT ![p].state = "partially_deleted"]
    /\ UNCHANGED <<storage, holder, clock, used, target, dedup, parts, deletion>>

\* An asynchronous deletion failed: the wait raises and the rest is dropped.
DeletionFailed(p) ==
    /\ pc[p] = "x_wait"
    /\ pending[p] # {}
    /\ pending' = [pending EXCEPT ![p] = {}]
    /\ Go(p, "unlock")
    /\ UNCHANGED <<storage, holder, clock, used, target, meta, dedup, parts, listed, work, refs>>

\* SYSTEM UNFREEZE failed: the final block still runs for this backup, but the
\* error ends the batch.
UnfreezeFailed(p) ==
    /\ pc[p] = "x_wait"
    /\ work' = [work EXCEPT ![p] = {}]
    /\ UNCHANGED <<storage, holder, clock, used, pc, target, meta, dedup, parts, listed, refs, pending>>

-----------------------------------------------------------------------------
\* The process dies; the lock it held goes with its ZooKeeper session.
Crash(p) ==
    /\ pc[p] # "idle"
    /\ Forget(p)
    /\ holder' = IF holder = p THEN NoHost ELSE holder

BackupStep(p) ==
    \/ SkipBackup(p) \/ StartBackup(p) \/ CollectDedupInfo(p)
    \/ PopulateDedupInfo(p) \/ ReloadFails(p) \/ FreezeTable(p)
    \/ DeduplicatePart(p) \/ ScheduleUpload(p) \/ PutPart(p) \/ ObserveUpload(p)
    \/ TableDone(p) \/ BackupCreated(p)

DeleteStep(p) ==
    \/ PlanDelete(p) \/ BackupNotFound(p) \/ PlanPurge(p) \/ PurgeTypeError(p)
    \/ DeleteNext(p) \/ DeletionEnds(p) \/ DeleteBackup(p) \/ DeleteDataParts(p)
    \/ EraseKey(p) \/ DeletionWaited(p)

\* A running command takes its next step.
Progress(p) ==
    /\ \/ AcquireLock(p) \/ LockTimeout(p) \/ ReleaseLock(p) \/ Exit(p)
       \/ UploadFull(p) \/ UploadLight(p)
       \/ BackupStep(p)
       \/ DeleteStep(p)
    /\ UNCHANGED faults

StartCommand(p) ==
    /\ ListBackups(p) \/ StartDelete(p) \/ StartPurge(p)
    /\ UNCHANGED faults

Fault(p) ==
    /\ faults < MaxFaults
    /\ faults' = faults + 1
    /\ \/ UploadError(p) \/ BackupFailed(p) \/ DeletionFailed(p)
       \/ UnfreezeFailed(p) \/ Crash(p)

Next == \E p \in Hosts : Progress(p) \/ StartCommand(p) \/ Fault(p)

Spec == Init /\ [][Next]_vars

FairSpec == Spec /\ \A p \in Hosts : WF_vars(Progress(p))
=============================================================================
