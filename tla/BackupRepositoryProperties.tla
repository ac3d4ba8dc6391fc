--------------------- MODULE BackupRepositoryProperties ---------------------
(***************************************************************************)
(* What makes the backup repository correct.                               *)
(***************************************************************************)
EXTENDS BackupRepository

\* Every variable holds values of its kind; in particular the objects in the
\* storage are well-formed metadata of the declared states.
TypeOK ==
    /\ full \in [Backups -> Meta \cup {NoMeta}]
    /\ light \in [Backups -> Light \cup {NoMeta}]
    /\ data \subseteq Backups \X PartNames \X Sums
    /\ holder \in Hosts \cup {NoHost}
    /\ clock \in Nat
    /\ used \subseteq Backups
    /\ faults \in Nat
    /\ pc \in [Hosts -> Labels]
    /\ target \in [Hosts -> Backups \cup {NoBackup}]
    /\ meta \in [Hosts -> Meta \cup {NoMeta}]
    /\ seen \in [Hosts -> SUBSET Listed]
    /\ sources \in [Hosts -> SUBSET Backups]
    /\ rows \in [Hosts -> SUBSET DedupRow]
    /\ handled \in [Hosts -> BOOLEAN]
    /\ frozen \in [Hosts -> SUBSET Frozen]
    /\ todo \in [Hosts -> SUBSET Frozen]
    /\ uploading \in [Hosts -> SUBSET Frozen]
    /\ uploaded \in [Hosts -> SUBSET Frozen]
    /\ listed \in [Hosts -> SUBSET Backups]
    /\ work \in [Hosts -> SUBSET Listed]
    /\ refs \in [Hosts -> SUBSET (Backups \X PartNames)]
    /\ pending \in [Hosts -> SUBSET Key]

Visible(b) == light[b] # NoMeta /\ full[b] # NoMeta

\* A backup can be restored when the data of each of its parts is stored.
Restorable(b) == \A e \in full[b].parts : DataOf(b, e) \in data

\* A CREATED backup can be restored, whatever other hosts create or delete,
\* and wherever a command crashes or fails: backup() reuses parts of older
\* backups and _delete() spares what is reused.  It takes four backups to break
\* it: a deletion that crashed while a backup waited for the lock leaves full
\* metadata that are not listed, whose links the backup still uses.
CreatedRestorable ==
    \A b \in Backups :
        full[b] # NoMeta /\ full[b].state = "created" => Restorable(b)

\* The links of every listed backup lead to stored data, in whatever state the
\* backup is: deduplicate_parts() trusts the links of older backups, failed and
\* half-deleted ones included, without checking the storage.
LinksResolve ==
    \A b \in Backups : Visible(b) =>
        \A e \in full[b].parts : e.link # NoBackup => DataOf(b, e) \in data

\* A listed backup can be loaded: backup(), delete() and purge() list the light
\* metadata and then reload the full one, and fail when it is absent.
ListedLoadable == \A b \in Backups : light[b] # NoMeta => full[b] # NoMeta

\* What a restore of backup b yields now.
Recoverable(b) ==
    {[name |-> e.name, sum |-> e.sum] : e \in {d \in full[b].parts : DataOf(b, d) \in data}}

\* The restore points the storage provides: a backup is one from the upload of
\* its CREATED metadata to that of its DELETING metadata.
Points ==
    INSTANCE RestorePoints WITH
        Contents <- TableStates,
        Absent <- NoMeta,
        points <- [b \in Backups |->
            IF full[b] # NoMeta /\ full[b].state = "created" THEN Recoverable(b) ELSE NoMeta]

\* Every step of the commands publishes a complete backup, retires one, or
\* leaves what the backups yield as it was: no upload, deletion, crash or
\* failure shows through a CREATED backup.
ImplementsRestorePoints == Points!Spec

\* Stored metadata go through the states of BackupState in the order of the
\* commands: a backup that was CREATED or FAILED can only be deleted, and a
\* deletion, finished or not, can only be repeated.
Follows(state) ==
    CASE state = "creating"          -> {"creating", "created", "failed", "deleting"}
      [] state = "deleting"          -> {"deleting", "partially_deleted"}
      [] OTHER                       -> {"deleting"}

LegalLifecycle ==
    [][\A b \in Backups : full'[b] # full[b] =>
          CASE full[b] = NoMeta  -> full'[b].state = "creating"
            [] full'[b] = NoMeta -> full[b].state = "deleting"
            [] OTHER             -> full'[b].state \in Follows(full[b].state)]_vars

\* A backup that becomes CREATED holds exactly the parts its host froze, those
\* deduplicated and those whose uploads ended in any order.
BackupsWhatWasFrozen ==
    [][\A p \in Hosts, b \in Backups :
          full'[b] # full[b] /\ target[p] = b /\ pc[p] = "b_finalFull"
              /\ full'[b].state = "created"
          => Content(full'[b]) = frozen[p]]_vars

\* Metadata are put, and objects deleted, only while some host holds the lock:
\* _delete() waits for its asynchronous work before it leaves it, and backup()
\* leaves no callback behind that would upload metadata.  Only the uploads of a
\* backup that failed may end later.
StoredParts == {<<d[1], d[2]>> : d \in data}

WritesUnderLock ==
    [][full' # full \/ light' # light \/ ~(StoredParts \subseteq StoredParts')
          => holder # NoHost]_vars

\* A CREATED backup disappears only when retain_count newer valid backups exist
\* (for hosts that purge but do not delete).
PurgesOnlyOutdated ==
    [][\A b \in Backups :
          /\ full[b] # NoMeta /\ full[b].state = "created"
          /\ full'[b] = NoMeta \/ full'[b].state # "created"
          => RetainCount <= Cardinality(
                {c \in Backups : /\ full[c] # NoMeta /\ full[c].state = "created"
                                 /\ full[c].start > full[b].start})]_vars

\* A purge that suffers no fault itself applies the retention policy, whatever
\* earlier faults left behind: it gets from its listing to the deletions.
PurgeAppliesPolicy ==
    [][\A p \in Hosts : pc[p] = "p_plan" /\ pc'[p] # "p_plan" /\ faults' = faults
          => pc'[p] = "x_next"]_vars

\* Between commands, every stored part is listed as its own by a backup that can
\* be listed and deleted: nothing leaks as long as nothing fails.
NoLeak ==
    faults = 0 /\ (\A p \in Hosts : pc[p] = "idle") =>
        \A d \in data :
            /\ Visible(d[1])
            /\ \E e \in full[d[1]].parts : DataOf(d[1], e) = d

\* Every command ends, in success or in failure, however commands meet at the
\* lock and whatever fails.
CommandsFinish == \A p \in Hosts : []<>(pc[p] = "idle")

\* As long as nothing fails, a backup marked DELETING is soon gone or
\* PARTIALLY_DELETED.
DeletionCompletes ==
    \A b \in Backups :
        []<>(full[b] = NoMeta \/ full[b].state # "deleting" \/ faults > 0)
=============================================================================
