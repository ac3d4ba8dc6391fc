# A verification development of ch-backup

ch-backup makes, deletes and restores backups of ClickHouse servers. Its backups live in an object
storage shared by the hosts of a cluster, refer to one another's data, and are written and deleted
by commands that run on different hosts, may crash at any request and exclude one another, partly,
with a lock. This directory models that system in TLA+, checks it with TLC and proves theorems
about it with TLAPS. Paths below are relative to `src/`.

## 1. The system

| component | state | operations | talks to | what makes it correct |
|---|---|---|---|---|
| commands, `ch_backup/ch_backup.py` | none between commands | `backup`, `delete`, `purge`, `restore`, ... | all below | CREATED backups stay restorable; deletion removes only what it may; every command ends |
| backup layout, `backup/layout.py` | objects under `<path_root>/<backup name>/` | upload, get and delete of metadata, parts, whole backups; listing | storage loader | a listed backup can be loaded; links lead to data |
| backup metadata, `backup/metadata/*` | backup → databases → tables → parts with links | add part, remove part, dump, load, light form | layout, deduplication | states only move forward; parts are those frozen |
| deduplication, `backup/deduplication.py` | `_deduplication_info` table in ClickHouse | collect, populate, deduplicate; references for deletion | layout, ClickHouse | a linked part has the wanted content and stays stored while linked |
| table backup, `logic/table.py`, observer `logic/upload_part_observer.py` | change times of table metadata, frozen parts | freeze, scan, upload, observe | ClickHouse, layout | statement and data are of one moment; metadata list what was frozen, each part once |
| lock manager, `logic/lock_manager.py` | flock, ZooKeeper lock | enter, exit, timeout | ZooKeeper | one command of the cluster at a time; nobody waits for ever |
| executor pool, `storage/async_pipeline/base_pipeline/exec_pool.py` | futures, callbacks | submit, wait_all, as_completed, shutdown | worker processes | callbacks run once, failures surface, nothing is left behind |
| pipelines and stages, `storage/async_pipeline/*` | bounded queues, byte FIFO, tar state, token bucket, multipart state | read, compress, encrypt, chunk, limit, upload, and back | storage engine | bytes arrive complete and in order; rate never exceeded, never stuck |
| S3 engine, `storage/engine/s3/*` | client, multipart uploads | put, get, ranged get, list, delete, multipart | S3 | a download is of one version of an object |
| restore context, `backup/restore_context.py` | JSON file of restored and failed parts | add, dump, load | table restore | no part restored twice or forgotten across restarts |
| table restore, `logic/table.py`, `logic/partial_restore.py` | queue of table objects, context | drop, attach, clean and create tables, in dependency order; attach parts | ClickHouse, layout | ends; creates what can be created; spares other tables and those restored before |
| database restore and synchronisation, `logic/database.py`, `logic/database_sync.py` | log pointers | poll until in sync | ClickHouse, ZooKeeper | reports in-sync databases as in sync; ends |
| metadata cleaner, `clickhouse/metadata_cleaner.py` | scheduled drops of replicas | drop with fallbacks | ZooKeeper, ClickHouse | a failed drop is reported |
| temporary disks, `clickhouse/disks.py` | disks added to the configuration | copy parts, remove disks | ClickHouse | no disk left behind |
| access control, named collections, UDF, workload entities, `logic/access.py`, ... | files or ZooKeeper nodes of entities | copy, delete, create | ClickHouse, ZooKeeper, layout | a restore that succeeds has brought all back; repeating it helps |
| ClickHouse control and client, calculators | — | SQL, sizes | ClickHouse | a tarball is not larger than it was estimated |
| compression, encryption, CLI and configuration | — | library calls, parsing | — | none of it depends on order or concurrency |

**What is hard.** (1) Everything the commands do before they take the lock is stale afterwards:
the list of backups used for deduplication, the list of names `purge` starts from, the check that
a backup name is free. (2) A backup is many objects put and deleted one by one; a crash or an
error may come between any two. (3) Parts are shared: a part of one backup may be stored in
another, under another name when a mutation has renamed it, and links are copied from backup to
backup without looking at the storage. (4) Deletions and uploads are asynchronous and end in any
order. (5) Errors are handled differently inside and outside of try blocks, `finally` blocks and
waits. (6) Users go on working: tables are exchanged while they are frozen, users are renamed
while they are copied. (7) A restore meets a server in any condition, and must tell what to keep
from what to remove, in ClickHouse and in ZooKeeper. (8) One upload is a pipeline of threads with
bounded queues, a rate limit and parallel parts, and the object it replaces may be read at the
same time. `PROJECT.json` lists all the places under "hazards", the ones no property reaches yet
included, with the reason.

## 2. Modules

```
BackupMetadata              parts, links, deduplication rows, retention, references (no state)
  BackupRepository          the storage, the lock and the backup, delete and purge commands
    BackupRepositoryProperties   what is checked   ---- INSTANCE ----> RestorePoints (abstract)
      MCBackupRepository         instances for TLC
      BackupRepositoryProofs     theorems: types, the lock, listed metadata, the policy of a purge,
                                 what the metadata everywhere say of a backup
        BackupContentProofs      theorems: lifecycle, links, restore points, leaks, retention

FreezeTables                tables frozen, checked and read while users change them
  MCFreezeTables            instances for TLC
  FreezeTablesProofs        theorems

ClickHouseServer            a server and its nodes in ZooKeeper, as statements change them
  RestoreCommand            the restore command, the threads of its cleaner, and DDL workers
    MCRestoreCommand        servers and backups for TLC
    RestoreCommandProofs    theorems about what the restore command leaves alone and restores

TableRestoreQueue           the retries of table objects in a restore
  MCTableRestoreQueue       instances for TLC
  TableRestoreQueueProofs   theorems

RestoreParts                download and attachment of parts, and their state file
  MCRestoreParts            instances for TLC
  RestorePartsProofs        theorems

Entities                    backup and restore of access entities, functions, named
                            collections and workload entities
  EntitiesProofs            theorem

BytesFIFO                   the ring buffer of the stages, and turns of ChunkingStage (no state)
  TarStream                 chunks, archives, encryption, estimated sizes, unpacking (no state)
    UploadPipeline          the stages of an upload, multipart upload, rate limiter
      DownloadPipeline      ranged requests, decryption, unpacking
        ObjectTransfer      an upload and a download of one object
                                               ---- INSTANCE ----> AtomicObject (abstract)
          MCObjectTransfer  transfers for TLC
          ObjectTransferProofs  theorems, from the ring buffer to the atomic object
```

The commands meet in three places: the storage, which `BackupRepository` has with whole objects
and `ObjectTransfer` with one object and its bytes; the tables of a server, which `FreezeTables`
has as the backup sees them and `RestoreCommand` as the restore does; and the parts of a table,
whose way is `FreezeTables`, `BackupRepository`, `RestoreParts`. Each module takes what the others
promise as its environment: `BackupRepository` freezes tables at once, because what `FreezeTables`
puts in the backup is of one moment; its objects change at once, because `ObjectTransfer`
implements `AtomicObject`; the stages of `UploadPipeline` cut streams with `Chunked`, because the
ring buffer is a queue (`ObjectTransferProofs`).

### BackupMetadata

The pure decisions, as operators: `SamePart` is `_is_mutation_renamed` (and equality),
`RowOf`/`NewRows` the rows `_populate_dedup_info` inserts, `LinkedPart` the metadata
`deduplicate_parts` builds, `DedupReferences` the links
`collect_dedup_references_for_batch_backup_deletion` collects, `DeletedByName` and `Retained` the
choices of `delete` and `purge`. There is one table of one database. A part is a name and a
checksum; `Block` says which names differ in their mutation version only.

### BackupRepository

`full`, `light` and `data` are the storage: `backup_struct.json`, `backup_light_struct.json` and
the part objects of each backup. `holder` is the ZooKeeper lock. Every other variable is the
memory of one process, indexed by host, and is lost when the process ends (`Forget`). `pc[p]`
names the place of the command:

| labels | code |
|---|---|
| `b_start`, `b_lock` | `backup`: listing, name check, start time; waiting for the lock |
| `b_putFull`, `b_putLight` | the first `upload_backup_metadata` |
| `b_collect`, `b_dedup` | `collect_dedup_info`, the loop of `_populate_dedup_info` |
| `b_parts` | freezing, deduplication, uploads and their observer |
| `b_tableFull`, `b_tableLight`, `b_done` | metadata upload after the database; end of the try block |
| `b_finalFull`, `b_finalLight` | the last `upload_backup_metadata`, CREATED or FAILED |
| `d_lock`, `d_plan`, `p_lock`, `p_plan` | `delete`, `purge`: waiting; choice of what to delete and to spare |
| `x_next`, `x_markFull`, `x_markLight`, `x_erase`, `x_wait`, `x_partFull`, `x_partLight` | `_delete` of one backup after another |
| `unlock`, `exit` | leaving the lock; interpreter exit, which waits for the workers |

Each request that changes the storage is a step of its own; reading the listing, and what is
computed from values already read, is part of the step that uses it. Actions are named after what
happens (`DeduplicatePart`, `ScheduleUpload`, `PutPart`, `ObserveUpload`, `DeleteDataParts`,
`EraseKey`, ...) and the map in `PROJECT.json` gives their lines. Error paths are actions too:
`UploadError` (outside the try block), `BackupFailed` (inside), `ReloadFails`, `BackupNotFound`,
`PurgeTypeError`, `DeletionFailed`, `UnfreezeFailed`, `LockTimeout`; `Crash` ends a process at any
place. Definitions such as `TableNotWaited`, `AnyOrder` or `LightFirst` are variants of the code
with a plausible mistake; nothing in the specification uses them: they are there to show that each
property can fail.

### RestorePoints

What a user is promised: a restore point appears complete, with a content the table had, and keeps
exactly that content until it is retired. `ImplementsRestorePoints` maps the repository to it:
backup `b` is a point while its full metadata say CREATED, and its content is what a restore would
find in the storage *now*. Any upload, deletion, crash or failure that shows through a CREATED
backup breaks the refinement.

### TableRestoreQueue

`_restore_table_objects` restores tables without knowing what they require of one another.
`chained` is the iterator over the tables, `unprocessed` the deque and `errors` the list that is
cleared by each success; `requires`, drawn once in `Init`, is what ClickHouse knows and the code
does not. `Enqueue` is the construction of the deque, `Restored`, `Refused` and `Disturbed` the
outcomes of one turn of the loop (created; refused for want of a table or because it exists; any
other error), `CheckReadonly` the check after the loop, `pc` the place. `leftover` are tables that
a failed attempt made and could not drop: the next attempt finds them in the way and drops them.
`disturbed` records which of the errors had another cause than requirements; it has no counterpart
in the code and is there to state `GivesUpOnlyHopeless`. Which engine is restored with which
statement, and the order of engines, are abstracted to `Order`. `Restored` stands for replicas
too, whose restore is part of the attempt. In `CheckReadonly` any restored replica may be found
`readonly`, as RESTORE REPLICA does not promise that it becomes active; which of them are reported
depends on what `chained` still holds.

### RestoreParts

`_restore_data` with `RestoreContext`. `file` is the state file (or `Absent`, or `Torn`: opened
for writing, not complete), `detached` and `attached` are ClickHouse's directories and tables;
they survive a crash, the rest does not. `context`, `loaded`, `updates` and `dumping` are the
fields of the restore context: `Change` is `change_part_state` with its decorator, a dump is the
dump begins with `Dump`, which names the place its exceptions go to, and ends with `WriteState` or
`DumpFails`. One run goes `Begin` (tables are in place, some perhaps dropped and created anew),
for each table `OpenTable` (what is recorded decides what is downloaded and attached), `Download`
by workers, `Downloaded`/`DownloadFailed` in `wait()`, `Chown`, `Attach` and `RecordRestored`, or
`AttachFails`, `AddFailedPart` and `MarkInvalid`, then `DumpFinally`; then `Finish`. `Begin` is
enabled again after a run that stopped, crashed or ended, in a new process with an empty context.

Errors go where the code takes them: when a download cannot be scheduled, the part is left out
with `--keep-going` (`unscheduled`: neither to attach nor failed) and the run ends without it
(`TableFails`, as when the table cannot be read); an error of the dump that `change_part_state`
makes after an attachment is caught like one of the attachment, any other one goes to the finally
block (`raise`), which dumps again, and then out (`exit`). An attachment may succeed while its
answer is lost. Parts on cloud storage and parts stored file by file are left out; the order of
parts and tables is free. The workers end with a crashed process. A crash or an error while the
file is written may leave it `Torn`; then every later run on that host fails at its first part
(`LoadFails`) until the file is removed by hand, or a process that has the state in memory writes
it again. `RestoreCompletes` excepts a file that stays so.

### FreezeTables

The threads of `_freeze_table` and the main thread of `_backup`, and users beside them. `files`
are the metadata files whose change time decides whether a table may be backed up, `tables` the
storage (the UUID) each name has now, `shadow` the frozen parts by storage, `versions` and
`schema` what users change. `UserChanges` are `Exchange`, `Alter`, `ChangeData` (an INSERT or a
merge), `Drop` (also DETACH), `RemoveFile` (the metadata file goes after the table) and `Create`.
`CollectChangeTimes` and `Stat` are the listing whose times are expected later; `SubmitTables` the
second listing and the tasks of the pool. A thread goes `ReadStatement`, then `FreezeTable` at
once or `ListPartitions` and `FreezePartition` one after another (`freeze_partition_threads`).
After an error it asks whether the change time is the expected one (`TimeMatches`) and whether the
table is there (`Exists`), and ends with `FreezeSkipped` or `FreezeFails`. `AddTable` and
`SkipTable` are the check of the change time when a task is done, `ReadFrozenParts` the scan of
the shadow directory partition by partition, `TableUploaded` its removal. Time is the number of
changes, the removal of files not counted. `mixed` is not in the code: it marks storages frozen
under another name while they were read (section 4). Of other errors (`FreezeErrs`) those that
ClickHouse answers lead to the same questions, and the rest, a lost connection or the timeout of
the partitions, are no `ClickhouseError` and fail the thread at once; either may leave some
partitions frozen. One failing partition cancels those not begun.

### ClickHouseServer and RestoreCommand

`ClickHouseServer` has the statements of `control.py` as functions of the record `server`:
databases with engines, tables, detached tables, ZooKeeper nodes (`<<path, replica>>`), nodes that
are `broken`, and the log of each Replicated database with its pointer, which `DDLWorker` moves,
or does not. A table is readonly when its replica has no node, or a broken one.

`RestoreCommand` is `_restore` step by step; `restore` is a record of its locals and `restore.pc`
its place. `todo` is what the loop at that place has left.

| places | code |
|---|---|
| `mismatched`, `clean_databases`, `await_databases`, `create_databases` | `DatabaseBackup.restore`: databases of another engine are dropped, ZooKeeper is cleaned, databases are created |
| `sync`, `poll` | `DatabaseSync`: log pointers, polls, stall threshold, deadline; again over the databases that failed, after the data (`SyncAgain`) |
| `list_tables`, `list_existing`, `list_readonly` | the lists of detached, existing and readonly tables, one after another |
| `clean_readonly`, `await_readonly`, `restore_replicas` | readonly replicas whose metadata are cleaned and which are restored |
| `preprocess`, `clean_tables`, `await_tables` | `_preprocess_tables_to_restore`: attach, keep, drop; metadata of tables to create |
| `create`, `created` | `_restore_tables` with its queue and error list |
| `temporary_disks`, `data` | disks for cloud storage, attachment of data |

`DropReplica` are the threads of the cleaner and `AwaitTask` the awaiting of their results, which
passes over the errors the cleaner ignores. `Raise` is an error where nothing catches it, `Error`
one that `keep_going` passes over. A part that cannot be attached is neither: `AttachFails` records
it in `restore.failed` whatever `keep_going` says, and the restore ends with a warning, or as
failed if `restore_fail_on_attach_error` is set (`End`). `DataFail` has the other ways data may
fail: a table that is not there and, with `keep_going`, a download that cannot be scheduled are
passed over, any other error ends the restore. A
statement ClickHouse refuses (a name or a UUID that is taken, a replica that exists) is not a
fault; an error of anything else is, and is bounded. Dependencies of tables, crashes of a restore
and single parts are in the two modules below. External engines, dictionaries,
`force_non_replicated`, the sorting of tables by engine, cloud storage and the names of replicas
and macros are left out.

### Entities

One kind of entity at a time: ids are UUIDs (replicated and local access) or names (the rest).
`stored` are the files or nodes with their statements, `links` the nodes of names that replicated
access control keeps beside them. `Users` create, alter, rename and drop, with the uniqueness
ClickHouse enforces, while the backup goes `List`, then `Copy` file by file, and while the restore
runs. `Start` begins a restore with a listing and, for local access, removes the directory
(in replicated mode the code removes it too, but no entity is in it);
`RestoreByStatement`, `RestoreNode`, `RestoreLink` and `Relink` are its steps; between the
deletion of a conflicting entity and the change of its link there is a step of its own, and
`Fault` may come between any two. A failed restore is run again. `FixAdmin` is `fix_admin_user`.
`unlinked` and `touched` are not in the code; the properties need them to say what they except.
One type of access entities is modelled, and neither the encryption of statements nor versions of
ClickHouse. Backups have the names of their access entities (`acl_meta`); of one that lacks them
nothing is restored to ZooKeeper, with a warning. `ServerStatement` is what the restore finds of an
entity on the server, which each kind looks for in its own way.

### BytesFIFO, TarStream, UploadPipeline, DownloadPipeline, ObjectTransfer

A stage with one worker is a function of the values it is given; what runs at the same time are
the limiter, the chunking stage, the stage that starts the multipart upload, the workers that put
its parts, and the stage that completes it, joined by queues of bounded length. `BytesFIFO`
translates the ring buffer cell by cell and `ChunkingStage` uses it in `UploadPipeline`; other
chunking stages are `Chunked`, which is justified by `ChunkingKeepsStream`. `TarStream` has the
archive (long names, padding, end), the boxes of encrypted chunks, the estimates of
`calculators.py`, and the state machine of `UnpackTarballStage`/`WriteFilesStage`, which takes the
stream in pieces of any size. `Tick` is the time of one retry interval of the limiter.

`DownloadPipeline` is a download in ranges: the first request decides size and ETag, the others
must have the same ETag. `AtomicObject` is the promise: the object changes from the old to the new
version at once, a download returns one of them as it was at some moment, or fails.
`ObjectTransfer` maps the upload, with all its parts and stages, to it.

An answer to the completion that is lost makes the code complete again, and fail although the
object is complete. A multipart upload that failed is left in S3. Compression is left out of the
model (it changes sizes; the estimates take it for no change).

### Abstractions and assumptions

* The ZooKeeper lock is on (`lock.zk_flock`). By default it is off, and `flock` is then taken in
  shared mode (`logic/lock_manager.py:110`), which excludes nobody. The loss of the ZooKeeper
  session while a command runs is not noticed by the code and not modelled. A crash frees the lock
  at once.
* Worker processes end with a crashed process; on a normal exit the interpreter waits for them
  (`Exit`). In the code they outlive a killed parent by up to twenty seconds.
* Clocks agree: a backup that starts later has a later `start_time`.
* `check_data_part` compares the size of the stored object with the computed one. `Size` maps
  contents to sizes; the runs give all contents one size, the worst case.
* The deduplication query keeps one row per checksum, that of the greatest backup name; the model
  lets it keep any.
* Bulk deletion is modelled key by key in the order of the listing (light metadata, full metadata,
  parts: the order of their names). Errors that S3 reports for single keys, which the code does
  not look at, are not modelled.
* A listing is atomic.
* The legacy form of links (an URL instead of a name), cloud storage metadata, schema objects,
  labels and sizes are left out of the repository. So are schema-only backups and `show`.
* What ClickHouse, ZooKeeper and S3 do is modelled as the code uses it (`external` in the map):
  names and UUIDs are unique, a table needs a free replica, complete_multipart_upload wants parts
  in order.

## 3. Runs

Backups are `b1`–`b3`, hosts `h1`, `h2`. `MCTableStates`: part `a0` may have been renamed `a1` by a
mutation that keeps its data, and `c0` dropped; `MCRecreatedTable`: the table may also be created
anew, with the same names of parts and other data. Backup names are symmetric (`overlapping`,
`one_host`, `purge_race`). Where `CHECK_DEADLOCK` is off the system may come to rest: once
`MaxStarts` backups have been made and all deleted, or a restore is over. The runs of `freeze`,
`restore_command`, `transfer` and `entities` check that nothing stops before its end.

| run | instance | shows |
|---|---|---|
| `overlapping` | `h1` backs up and purges (count and age), `h2` deletes; 3 backups, 1 fault | `TypeOK`; `CreatedRestorable`; `LinksResolve`; `ListedLoadable`; `NoLeak` |
| `two_writers` | both back up tables of their own (not replicated), `h2` also deletes; 2 backups, 1 fault, with fairness | `LegalLifecycle`; `BackupsWhatWasFrozen`; `WritesUnderLock`; `ImplementsRestorePoints`; `CommandsFinish`; `DeletionCompletes` |
| `one_host` | one host backs up and purges by count, the table may be created anew and names of backups reused; 3 backups, 2 faults | `CreatedRestorable`; `ImplementsRestorePoints`; `PurgesOnlyOutdated`; `PurgeAppliesPolicy` |
| `freeze` | two names, three storages, two partitions, all three ways to back up; 2 changes of users, 1 fault | `BackedUpTogether`; `UntouchedBackedUp`; `ChangesAreNoFailures`; `BackupCompletes` |
| `restore_command` | 14 pairs of backup, options and server (readonly, detached, renamed, mismatching tables; a new host with stale metadata; Replicated databases; filters); 2 faults | `SuccessRestoresAll`; `UnrelatedUntouched`; `KeepsRestoredTables`; `SyncedAtTheEnd`; `RestoreEnds` |
| `any_requirements` | four tables, any of the 65536 ways they may require one another or themselves; 1 fault | `QueueOK`; `GivesUpOnlyHopeless`; `ReportsWhatFailed`; `RetriesEnd` |
| `interrupted_restore` | two tables, three parts, a dump every two updates; 1 error, 2 lost answers or failed writes of the file, 1 crash, any number of runs with or without `--keep-going`, with fairness | `TypeOK`; `FileIsTruthful`; `SuccessIsComplete`; `DoubledOnlyByIncidents`; `RestoreCompletes` |
| `entities` | each kind with three ids, any consistent state; 2 changes of users, 1 fault, restores repeated until one succeeds | `SuccessBringsBack`; `RepeatedRestoreSucceeds` |
| `transfer` | a tarball with a long path, data that grow and shrink, members with an empty one, a file with a limited rate; two workers, 1 fault | `DeletesOnlyStored`; `FailsOnlyByFaults`; `WithinRate`; `ImplementsAtomicObject`; `TransferEnds` |
| `purge_race` | `h1` backs up, `h2` purges | `PurgesOnlyOutdated` fails |
| `recreated_table` | a later run of a restore may drop tables, 1 error | `SuccessIsComplete` fails |
| `readonly_replicas` | two tables, any requirements | `ReadonlyReported` fails |

**Bounds.** In the repository `MaxStarts` (backup commands) and `MaxFaults` (crashes and errors)
are the only counters; `delete`, `purge` and retries are not bounded. Three backups are a chain of
links with an older backup that holds the data, a middle one that carries the links on, and a newer
one; longer chains copy links the same way. Two parts make partial deletions, and the order of
uploads, matter. One fault is enough to leave a CREATING, FAILED or DELETING backup behind for all
the other commands; the two of `one_host` let a second fault meet what the first has left. `NoLeak`
and `DeletionCompletes` promise something only as long as nothing has failed (`faults = 0`).
Symmetry is on where no liveness is checked. For the queue of tables, four tables have chains of
three requirements in the worst order, a cycle next to a chain, and several views over one table;
one fault makes a table fail that could be created, and may leave it behind. For the restore of
parts, a threshold of two makes dumps fall between any two updates of a table of two parts, and the
second table is begun with a context that was not loaded by it; a crash, two lost answers and an
error meet what one another has left, in any order (the property that counts incidents is about any
number of them in the theorem).

For `freeze`, two tables can be exchanged, and the third storage is what a table created anew
gets. Two changes are a drop and a creation, an exchange and a change of data, or an exchange and
its reversal. For `restore_command`, two faults let an error that `keep_going` passes over be
followed by another; three polls and a threshold of two tell a stall from a deadline. For
`entities`, two changes make a rename and a creation under the old name; three ids a chain of
workloads. For `transfer`, a block is two cells and chunks are 2 to 4, so that headers, paths,
data and boxes fall across chunks in many ways, and at most three parts may be put, so that larger
objects need larger chunks; the polls per second do not exceed the limit (see below).

**What the bounds exclude.** The violations of the repository below are real, so the passing runs
do not combine what causes them: a purging host with *another* host that backs up (`purge_race`),
reused names on two hosts, `RetainCount = NoCount` with `RetainTime`; a restored table that is
dropped (`Recreate`). Three backups are also too few for one more (*stale deduplication*, section
4): it takes a backup that holds the data, one that is broken off while it is deleted and links to
it, one that is complete, and the one that reads them. With four backups of one part and one
fault, TLC finds `CreatedRestorable` violated after 91 steps; with three it holds. The theorems of
section 5, which have any number of backups, therefore name what they need (`ReadsListed`).

**Fairness.** `FairSpec` of the repository has weak fairness of `Progress(p)` for each host: a
process that can take a step of its command takes one. Nothing is assumed of the lock: a waiting
command ends by `LockTimeout` (`lock.lock_timeout`) even if it never gets it. Starting commands and
faults are not fair. A command that runs alone waits only for its own worker processes, which make
progress like it. The queue of tables is a loop of a single process, so `TableRestoreQueue` has
weak fairness of `Next`. `RestoreCompletes` assumes that a process that can take a step does
(`WF(Step)`) and that the operator runs the restore again until a run without `--keep-going`
reports no failed part: one with `--keep-going` may report none and lack some (section 4).
`Entities` assumes the same of a restore that failed (`WF(Commands)`). `FreezeTables` has weak
fairness of the threads and of the main thread, none of users. `RestoreCommand` has it of the
command and of its cleaner; DDL workers need not run, and the command ends all the same.
`ObjectTransfer` has it of the stages of upload and download, and of time.

## 4. Disagreements between the code and what it says

* `purge_race`: `purge()` takes the names of the backups before it waits for the lock
  (`ch_backup/ch_backup.py:469`). A backup that another host completes meanwhile is listed under
  the lock, is not among the names, and is deleted as a "backup without metadata", although it is
  the newest valid one and within `retain_count`. The deletion is not waited for either, so it may
  go on after the lock is released.
* `recreated_table`: parts recorded as restored are skipped (`ch_backup/logic/table.py:1092`)
  although the same run has dropped and recreated their table. Nothing removes the state file, so
  this also happens when a table was dropped by hand between two restores.
* `readonly_replicas`: `_check_readonly_restored_tables` is to report replicas that are readonly
  after a successful RESTORE REPLICA (`ch_backup/logic/table.py:1289`). It iterates over the
  `chain` object that the deque has exhausted (`:1230`, `:1256`), sees no table and reports none.
  `ReportsWhatFailed`, which passes, promises only that tables which were not restored are
  reported, and that others are only if they are readonly.

Other behaviour a user may not expect. The models have it, and the properties except it where they
must:

* **Repository.** With `retain_time` and no `retain_count`, `retain_count > 0` raises `TypeError`
  at the first backup (`ch_backup/ch_backup.py:479`, `PurgeTypeError`): nothing is purged by age.
  The check of the name runs before the lock and is not repeated under it
  (`ch_backup/ch_backup.py:136`): the second of two backups of one name overwrites the first.
  *Stale deduplication*: the backups to deduplicate from are listed before the lock
  (`ch_backup/ch_backup.py:132`), their full metadata are read under it
  (`ch_backup/backup/deduplication.py:163`), and their links are trusted (`:200`). Say `A` holds
  a part, `X` a copy of its own, `B` a link to `A`; `C` has listed all three and waits. A deletion
  of `B` marks it DELETING, erases its light metadata and crashes. A deletion of `A` sees only `A`
  and `X`, spares nothing and erases `A`. `C` now reads the full metadata of `B`, believes its
  link to `A`, and stops at `X` before it would have missed `A`: `C` is CREATED and cannot be
  restored. That partially deleted backups serve deduplication is intended
  (`tests/integration/features/deduplication.feature:154`); that they were listed is what is
  missing.
* **Freezing.** *Exchanged tables*: `a` is frozen, checked and being read; users EXCHANGE `a` and
  `b` and change what was `a`; the thread that freezes `b` by its name freezes the storage of `a`
  again, into the same shadow directory. The backup of `a` then holds parts of two moments. `b` is
  skipped, but nobody looks at `a` again, although the comment at `ch_backup/logic/table.py:89`
  speaks of optimistic concurrency control. `BackedUpTogether` excepts such storages (`mixed`).
  With `freeze_partition_threads`, a table that is dropped or detached before its partitions are
  listed has none, and is recorded without data. A table created anew between the two checks after
  an error fails the backup (`ChangesAreNoFailures` excepts it).
* **Restore, tables.** The lists of existing and detached tables are read once: a table that is
  attached because it was found detached is dropped and created again, as it was not in the list
  of existing ones (`KeepsRestoredTables` speaks of attached tables). A table that was renamed to
  the name of a table of the backup, and has the UUID of another with the same schema, counts as
  existing and is then dropped with its UUID: a restore succeeds without it. A table with the
  replica of one of the backup but another name, detached say, is attached, then dropped to make
  room, and takes the replica of the table created meanwhile with it: the restore succeeds, and the
  table is readonly. `Replaced` excepts both from `SuccessRestoresAll`; TLC finds a violation
  without any part of it. Existing tables with the right schema get the data attached again. Data
  are restored before the second synchronisation of databases (`ch_backup/ch_backup.py:684`,
  `:702`), so tables that a DDL worker has not made yet are "not found".
* **Restore, data.** A part that cannot be attached is recorded as failed whatever `--keep-going`
  says (`ch_backup/logic/table.py:1177`), and at the end only warned of, unless
  `restore_fail_on_attach_error` is set, which by default it is not (`ch_backup/ch_backup.py:714`):
  a restore that succeeds may lack data. `SuccessRestoresAll` excepts data it has warned of
  (`WarnedOf`). The dump of the state is inside the try block of the attachment
  (`ch_backup/logic/table.py:1174`): if the state file cannot be written then, a part that is
  attached is recorded as failed and invalid, and the next run attaches it again
  (`DoubledOnlyByIncidents` counts it).
  With `--keep-going` an exception while the download of a part is scheduled
  (`get_detached_part_path`, the check of the object, the submission) is logged as "Restore of
  part ... failed" (`ch_backup/logic/table.py:1129`) and the part is left out: it is not attached,
  and not recorded as failed, so `has_failed_parts` is false
  (`ch_backup/backup/restore_context.py:101`), nothing warns at the end and
  `restore_fail_on_attach_error` does not see it. `SuccessIsComplete` excepts such parts
  (`unscheduled`), of runs with `--keep-going` only; without the exception TLC finds a run that
  reports no failed part and lacks one.
* **Restore, selection.** A pattern that matches no table gives an empty list, which means all
  tables (`ch_backup/logic/table.py:353`, `ch_backup/ch_backup.py:306`; `ch_backup/cli.py:550`
  says otherwise). An excluding filter replaces the including one (`ch_backup/cli.py:623`; `:559`
  says otherwise).
* **Restore, ZooKeeper.** Metadata are also cleaned for a mismatching table in a Replicated
  database that will not be dropped without the flag (`ch_backup/logic/table.py:758`), and for
  tables that share a path with one of the backup. Only the last replica of a database is awaited
  (`ch_backup/clickhouse/metadata_cleaner.py:293`), so CREATE DATABASE may come before the others
  are gone. An error of the cleaning of tables ends the restore in spite of `keep_going`. Leaving
  temporary disks removes the first only (`ch_backup/clickhouse/disks.py:122`).
* **Entities.** The statement of a workload entity that exists is looked for in `<name>.sql`
  (`ch_backup/backup/layout.py:370`), its file is called `workload_<name>.sql` or
  `resource_<name>.sql`: an identical entity is always dropped and created again, contrary to
  `ch_backup/logic/workload_entities.py:217`. A workload with children cannot be dropped, so a
  hierarchy cannot be restored to a server that has it. A workload without its file is skipped;
  its children then make every restore fail. A crash between `ch_backup/logic/access.py:279` and
  `:282` leaves a name that leads to no node, and later restores of that name raise `NoNodeError`
  (all of these are `Hopeless`). If two users exchanged names since the backup, the node of one
  restored before may be deleted when the other is, and the restore succeeds (`unlinked`). Local
  access entities are removed before those of the backup are downloaded
  (`ch_backup/logic/access.py:93`). A named collection from the configuration, or dropped between
  listing and copy, fails the backup.
* **Transfer.** A rate limit below the number of retry intervals per second refills by zero tokens
  at each poll (`ch_backup/storage/async_pipeline/base_pipeline/rate_limiter.py:27`) and the
  upload may never end. An empty source uploads nothing. `UnpackTarballStage` drops empty files.
  Sizes of tarballs are underestimated for names whose length is a multiple of 512 or that are not
  ASCII.

## 5. Proofs

The theorems hold for every value of the constants (any number of hosts, backups, parts, table
states, commands per host, any bounds), as far as they are not named as hypotheses.

**Repository.** `BackupContentProofs` extends `BackupRepositoryProofs`. The hypotheses they use:

| hypothesis | says | needed because |
|---|---|---|
| `PurgesItsOwn` | a host that purges is the only one that backs up (any host may delete) | `purge` schedules the deletion of backups it did not list and does not wait for it; `purge_race` is the counterexample |
| `UniqueNames` | each backup command is given a name of its own | the name is checked before the lock: two backups of one name overwrite each other |
| `ReadsListed` | deduplication reads full metadata of listed backups only | *stale deduplication*, section 4 |
| `NothingLeftBehind` | no deletion ends, fails or crashes with objects still to delete | implies `ReadsListed`: only such deletions leave full metadata without light ones |
| `PurgedByCount` | the first two, a `RetainCount`, finitely many names, no `delete` | `delete` removes a backup whatever its age |

`ReadsListed` and `NothingLeftBehind` restrict behaviours, not constants. Uploads, deduplication,
freezing and commands may still fail or crash anywhere else, deletions between two backups of
their batch included; and `MaxFaults = 0` implies both (`NoFaultNothingLeft`).

`BackupRepositoryProofs`:

* `TypeCorrect`: `Spec => [](TypeOK /\ MetaKnown)`. `TypeOK` alone is not inductive:
  `upload_backup_metadata` puts whatever the process has in memory, so `MetaKnown` adds that at
  each label of `HasMeta` the process has metadata and knows its backup, and that a process with
  scheduled uploads knows theirs.
* `LockProtectsStorage`: `PurgesItsOwn /\ Spec => WritesUnderLock`. `LockInv` (a host is the
  holder exactly when its command is at a label of `Locked`) is inductive given the types.
  `PendingInv` (deletions are scheduled only while their command waits for them) needs
  `PurgeInv`: a purge knows every backup that has metadata (`KnowsAll`), because the only host
  that could have added one was purging. With these, a step of a command outside the lock can only
  be the upload of a part left by a failed backup (`UnlockedWrites`).
* `ListedIsLoadable`: `PurgesItsOwn /\ Spec => []ListedLoadable`. `LoadInv` strengthens it: who is
  about to put a light object has the full one in the storage, and who will delete a full object
  has the light one, if it is stored, still to delete. It is kept because only one host is inside
  the lock (`OneInside`) and keys are deleted in order (`InOrder`).
* `PurgesApplyPolicy`: `RetainCount \in Nat /\ PurgesItsOwn /\ Spec => PurgeAppliesPolicy`. A purge
  that suffers no fault itself never stops early: by `ListedIsLoadable` it can load the metadata
  of all backups it keeps, whatever others left behind.
* `AccountAgrees`: `PurgesItsOwn /\ UniqueNames /\ Spec => []Agree`. What the storage and all the
  memories say of a backup is gathered in relations (`Claimed`, `Started`, `PartOf`, `LinkedTo`),
  and `Agree` says that they never contradict one another: one checksum to a part (`OneSum`), one
  start time to a backup (`StartsAgree`), no part twice (`PartsOnce`), links to older backups only
  (`LinksOlder`) and to parts whose data are those backups' own (`LinksToOwn`, `OwnNames`): links
  are never chained. It is inductive with what a host knows at each label (`HostInv`) and with
  `UsedCovers` (a name met anywhere has been used).
* `CreatedWithWhatWasFrozen`: `PurgesItsOwn /\ Spec => BackupsWhatWasFrozen`, from `PartsInv`: the
  parts of the metadata, those uploaded, those whose upload is scheduled, and those still to do
  are together the frozen ones.

`BackupContentProofs`, from `LifeInv`: `Stage` says what the storage holds of a command's backup at
each of its labels, `Batch` that the links of listed backups into the batch being deleted are all
among those to spare, and that nothing scheduled for deletion is linked to.

* `LifecycleIsLegal`: `PurgesItsOwn /\ UniqueNames /\ Spec => LegalLifecycle`.
* `LinksLeadToData`, `CreatedCanBeRestored` and `RestorePointsProvided`: with
  `PurgesItsOwn /\ UniqueNames`, `Spec /\ []ReadsListed` implies `[]LinksResolve`,
  `[]CreatedRestorable` and the refinement `ImplementsRestorePoints`. `DataInv` adds to the links
  that what backups hold of their own is stored (`OwnStored`), and so is what a host has in its
  memory: its parts, its uploads, and the deduplication rows that are used without a check
  (`InHand`). The step that needs the hypothesis is the one that reads the rows: `LinksResolve`
  speaks of listed backups only. `RestorableUnlessCutShort` and `RestorableWithoutFaults` state the
  same from `NothingLeftBehind` and from `MaxFaults = 0`.
* `NothingLeaks`: `PurgesItsOwn /\ UniqueNames /\ Spec => []NoLeak`, where `NoLeak` speaks of the
  states before the first fault (`FaultsGrow`: faults are counted and never forgotten). `LeakInv`
  says where each stored part is accounted for: in the metadata of a listed backup, or in the hands
  of a host that is about to record it or to delete it.
* `OnlyOutdatedPurged`: `PurgedByCount /\ Spec => PurgesOnlyOutdated`, with any age limit. Of the
  CREATED backups newer than one that `purge` drops, as many as `RetainCount` are retained
  (`EnoughRetained`: the newest of those it does not retain has that many newer ones). The
  deletion then goes on for many steps: `BatchOutdated` keeps, for each backup left in the batch,
  as many newer CREATED ones outside of it, and `LightAgrees` that a light object says CREATED
  only of a backup that is, or is being marked DELETING: what an interrupted purge left half
  deleted must not count.

`RestorePartsProofs` proves, for any tables, parts, threshold, errors and crashes:

* `TypeCorrect`, and `RowsDoubledOnlyByIncidents`: `Spec => []DoubledOnlyByIncidents`.
  `IncidentInv` strengthens it: a part that the next use of the context will not see as restored
  has been attached at most once for each incident. It rests on `LabelInv` (a part to attach is
  not recorded as restored and belongs to no table still to do) and `ContextInv` (context and file
  agree on the tables still to do, and are equal after the finally block). A record may be taken
  back, or be missing in the file, but only after an incident: an answer that was lost, a dump that
  failed, a crash.
* `StateFileIsTruthful` and `SuccessLeavesAllAttached`: `TablesKept /\ Spec => []FileIsTruthful`,
  `[]SuccessIsComplete`. `TruthInv` says the same of the context in memory and of finished
  downloads; `AccountInv` that each part of a table begun or done is to attach, reported as
  failed, attached, or, with `--keep-going`, left out because it could not be scheduled.
  `TablesKept` (no restored table is dropped) is needed: see `recreated_table`.

`TableRestoreQueueProofs` proves, for any tables, requirements and faults:

* `QueueAgreesWithServer`, `OnlyHopelessGivenUp` and `FailuresReported`: `Spec => []QueueOK`,
  `[]GivesUpOnlyHopeless`, `[]ReportsWhatFailed`. The code stops when as many tables failed as are
  in the queue, and compares numbers only. `ErrorsAtTheEnd` says why that is right: tables that
  failed since the last success went to the end of the deque in that order, so `errors` is a
  suffix of `unprocessed`, and equal lengths mean that all have failed. `FailedForAReason` adds
  that each error has a cause that no success since has removed.

`FreezeTablesProofs` proves, for any names, storages, partitions, ways to back up, threads and
bounds:

* `BacksUpTogether`: `Spec => []BackedUpTogether`, and `ChangesFailNothing`: `Spec =>
  []ChangesAreNoFailures`. Both follow from `Invariance`: `Spec => []IInv`. The argument: a file a
  user writes gets a time later than all before it, and a table that is changed has no file, or a
  newer one, from before the change on (`ServerInv`, `LaterFiles`). So `Unchanged(n)`, once false,
  stays false, and whatever a thread did for `n` may be described under the hypothesis
  `Unchanged(n)`: `FrozenOK` says that then the table is the storage that was listed, the
  statement read is its own, and the shadow directory holds, for the partitions done, parts of its
  present schema. The check of the change time in `AddTable` discharges the hypothesis at the one
  moment it matters, and `BackupInv` and `ReadInv` keep what was added since: nobody but a thread
  under another name writes to that directory, and then the storage is in `mixed`.
* `UntouchedAreBackedUp`: `Spec => []UntouchedBackedUp`. `AccountInv` follows each table that
  nobody touches, step by step: it is listed once listing is over, its task is done only when
  every partition is in its shadow directory, and it is in the backup as soon as its task was
  read. It needs `ListedInjective` (two names never stand for one storage in the list), because
  the thread of another name would otherwise clean the table's directory.
* `UserStep`, `ThreadStep` and one lemma for each action carry the inductions.

`EntitiesProofs` proves, for any kinds, names, servers and faults:

* `RestoreBringsBack`: `FairSpec => []SuccessBringsBack`. `ListedInv` says that names are unique
  within what was listed in one go. `AheadInv` describes what the restore still has to do: each
  entity is on the server as it was listed, or was removed by this restore, and its node is
  written before its name. `BehindInv` says that what is behind it stays restored, unless a user
  changed it or its name was given away (`unlinked`). Fairness is not used.

`RestoreCommandProofs` proves, for any backup, options and server that are `WellFormed`, any
interleaving with the cleaner's threads and DDL workers, and any failures:

* `UnrelatedLeftAlone` and `RestoredTablesKept`: `Spec => []UnrelatedUntouched`,
  `[]KeepsRestoredTables`. Both are about a table that is `Safe`: each restored table is apart from
  it, or has its name and schema while it is writable. `ServerKeeps` says that the server has the
  table under its name with its rows and its replica, in a database of the right engine.
  `CommandKeeps` says that nothing the command has in hand leads to it: it is in the list of
  existing tables once that was made, and not among the readonly ones; no task is to drop its
  replica; no table to create or to clean has its name. The lists are made at one moment and used
  at many later ones, so each step is shown to keep both, whatever the server became meanwhile.
* `WaitsForDatabases`: `Spec => []SyncedAtTheEnd`. `SyncOK` follows each Replicated database:
  before the first synchronisation none has a result, while it runs each has one or is still to
  do, and in the second one those with `FAILED` are. `DONE` means that the log was followed up to
  what it held at the beginning, and logs are followed forward only: a database is created, which
  sets its pointer back, before any was synchronised.
* `RestoresEverything`: `Spec => []SuccessRestoresAll`. `Progress` holds as long as a restore
  without `keep_going` has not failed. `TableOK` says of each table that is `Wanted` what the
  restore has come to: while the lists are made, one after another, it is among those to
  preprocess, and what exists under its name is as listed; then it is on the server as the backup
  has it (`Holds`), or still on the list that leads to the next step, down to the one whose data
  are restored. Its rows are owed (`Due`) as long as no failure to attach them is recorded in
  `restore.failed`; what is recorded is what the property excepts as warned of, and ends the
  restore where that is configured (`End`). What could undo it is a drop by name, or of a node. So
  `Progress` also says that each table of the server has the name and replica of one known from the
  start (`TablesFrom`); a wanted table shares its replica with none of another name (`Own`); the
  nodes a thread may still drop are those of databases, or of tables that are readonly or to be
  created (`TasksOK`), and those of tables only as long as they are awaited; a replica that is made
  is not one that is broken (`BrokenOK`). An error that is left when the tables were tried often
  enough ends the restore (`TablesCreatedProgress`).
* One lemma for each statement of the server (`DropTablesKeeps`, `CreateTableKeeps`, ...), each
  change of the command's locals (`LoopKeeps`, `ScheduleKeeps`, ...) and each action.

`SetupsAssumption` (each setup is `WellFormed`) is what ClickHouse guarantees of the server the
restore finds, and of a backup of one: names of tables are unique, two tables have no replica in
common, the path of a database is none of a table, what is broken in ZooKeeper is there, and
Replicated databases have a log. Tables of one replica, here and on another host, have one name, as
a Replicated database, the only one whose tables other hosts bring here, renames them everywhere.

`ObjectTransferProofs` proves, for any uploads, sizes of blocks, chunks, buffers and queues, any
number of workers, and any faults:

* `WriteAppends` and `ReadTakes`, of a ring buffer of any size, contents and pointers that are
  `WellFormed`: buffers stay well formed, a write appends to `Contents` the bytes that fit, a read
  returns the oldest bytes. This includes the buffer that is full or empty with equal pointers, and
  the wrap. `ChunkingKeepsStream`: a turn of `ChunkingStage` keeps the stream of chunks yielded,
  bytes buffered and bytes left, and its chunks are full.
* `Invariance`: `Spec => []IInv`. While an upload runs there is a sequence `a` of chunks cut so far
  with two properties. `CutInto(a)`: the chunks, what the ring buffer holds, the values in the
  queues and the source, in this order, are the object to be, all chunks are full but the last,
  and the end of chunking leaves nothing behind. `Sends(a)`: chunk `k`, once started, is part `k`
  in the queue, with exactly one worker, or in `stored[k]` and `recorded`, and whether it is part of
  a multipart upload was decided by the first chunk. `a` is a history that no stage keeps: `IInv`
  has it under an existential quantifier, and each action is shown to have a new one.
* `NothingLost`: `Spec => []DeletesOnlyStored`, and `ReplacedAtOnce`: each step leaves the object or
  makes it the whole new one. When all stages before `CompleteMultipartUploadStage` have ended,
  `recorded` has each of `1..Len(a)` once (`PartsListed`), so that the sorted list is `1, 2, ...`
  (`AscendingIs`) and what is assembled is the whole of `a`; a chunk put without a multipart upload
  is the only one (`OnlyChunk`).
* `RateKept`: `Spec => []WithinRate`. `Rate` counts the tokens in the bucket, and the time since it
  was last looked at, as if they had passed: a look turns time into tokens, rounding down, and a
  tick adds as much on both sides.
* `EstimateIsEnough`: `LongNamesFit => EstimatesAreEnough`, no upload is larger than `EstimatedSize`
  says. What is read, archived (`TarballFits`) and encrypted (`EncryptedLength`) is measured from
  the definitions. `LongNamesFit` is needed: GNU tar ends a long name with a NUL byte, which
  `calc_tarball_size` forgets (`src/ch_backup/calculators.py:92`), so that a long name whose length
  is a multiple of 512 takes a block more than estimated.
* `UploadFailsOnlyByFaults`: `LongNamesFit => (Spec => [](upload = "failed" => faults > 0))`, the
  first half of `FailsOnlyByFaults`. Chunks are enlarged until the estimate fits into as many of
  them as S3 takes (`EstimateFits`), all are full but the last (`ChunksFit`), and the list of parts
  ascends.
* `OneVersion`: `Spec => [](IInv /\ DownloadOK)`. What a download holds is the beginning of the
  version of its ETag, which is the old or the new one, and at the end all of it. An ETag is taken
  with the first range only (`PartContinues`).
* `ReceivedIsAtomic`: `Spec => Received!Spec`, the refinement of `AtomicObject` where the answer of
  a download is the bytes it received. `ImplementsAtomicObject`, which TLC checks, speaks of the
  files that the last stages unpack from them.

`SetupsAssumption` gives uploads their types, `TransferAssumption` says that sizes are positive and
that a chunk fits into its buffer, and `DeletedAssumption` that an upload with `delete_after` is not
empty (it is a tarball of at least one file): of an empty one nothing would be put at all.

The assumptions are the named ASSUMEs of the modules: absent values differ from present ones,
`Commands`, `Size` and the configuration have their types, a frozen table has one part of each
block range, the tables begin in different storages, and servers are well formed before a restore.
TLC evaluates them in every run.

**Only model-checked.** The repository where one host purges what another backs up, where names
are reused (`one_host`), and retention when backups are also deleted by name; of `ObjectTransfer`,
that a download fails only by faults or a new version (`FailsOnlyByFaults`), and what the last
stages unpack (`ImplementsAtomicObject`), which need an argument about the tar state machine.
Liveness (`CommandsFinish`, `DeletionCompletes`, `RetriesEnd`, `RestoreCompletes`,
`BackupCompletes`, `RestoreEnds`, `RepeatedRestoreSucceeds`, `TransferEnds`) is out of the prover's
reach and stays with TLC. So is what a recursion over data computes for every input, with one way
out that the proofs take often: when the recursion is over numbers, as in `Keep`, `Total` or the
fold of `FlattenSeq`, `NatLessThanWellFounded` and a least counterexample do instead of induction
(`StepsOfKeep`, `AllKept`, `StepsOfTotal`, `StepsOfFlatten`, `UpTo`).

## 6. Plan

The models of the first plan are written. What is left:

1. Theorems: of `ObjectTransfer`, that the unpacking of what was received gives back the files,
   which completes the refinement and `FailsOnlyByFaults`. A run with four backups whose expected
   violation is *stale deduplication*.
2. Repository extensions: schema-only backups that may skip the lock, workers that outlive a
   killed process, keys whose deletion fails without an error, loss of the ZooKeeper session;
   `LockManager` as a module of its own (flock modes, client reference count) with the lock of
   `BackupRepository` as its abstract specification.
3. Deduplication of several databases with mixed engines, as one algorithm checked against a
   reference definition of "same content and same host or replicated".
4. Parts on cloud storage, in backup (their metadata) and restore (temporary disks).

## 7. Not modelled

* Parts on cloud storage and `disks.py` but for the failure to enter it: their correctness is in
  the layout of the objects of a disk, which belongs to ClickHouse.
* The lock manager beyond its ZooKeeper lock, and schema-only backups: see the plan.
* The bookkeeping of `ExecPool` (names of tasks, callbacks): the modules have the tasks of each
  command instead.
* Compression, encryption, masking, CLI, configuration, logging and SQL formatting are library
  calls or parsing with no state shared between actors.
* The components marked `partly` in `PROJECT.json` name there what is left out of each.
