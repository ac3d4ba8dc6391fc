---------------------------- MODULE FreezeTables ----------------------------
(***************************************************************************)
(* The tables of a database are frozen by threads, and checked, read and   *)
(* uploaded by the backup as they are frozen, while users change them.     *)
(* A table changed since the backup began, by the change time of its       *)
(* metadata file, is skipped.                                              *)
(*                                                                         *)
(* Time is the number of changes users have made.  The data of a           *)
(* partition are one part, which every change of them replaces.            *)
(***************************************************************************)
EXTENDS Naturals, Functions

CONSTANTS
    Names,       \* names of tables
    Storages,    \* UUIDs, which are also the places of the data
    Initially,   \* storages of the tables to begin with
    Partitions,
    Modes,       \* what a backup does: subsets of {"table", "partitions", "schema_only"}
    NoFile,
    NoTable,
    MaxTime,     \* bound on the changes
    MaxFaults    \* bound on other errors of ClickHouse

ASSUME FreezeAssumption ==
    /\ Initially \in [Names -> Storages] /\ IsInjective(Initially)
    /\ NoTable \notin Names \cup Storages
    /\ NoFile \notin [storage : Storages, schema : Nat, time : Nat]
    /\ MaxTime \in Nat /\ MaxFaults \in Nat
    /\ Modes \subseteq {"table", "partitions", "schema_only"}

VARIABLES
    time,
    files,     \* files[n]: metadata file [storage, schema, time], or NoFile
    tables,    \* tables[n]: storage of the table, or NoTable
    schema,    \* schema[s]: version of the schema of a storage that is or was used
    versions,  \* versions[s][p]: version of the data
    shadow,    \* shadow[s]: frozen parts [partition, version, schema, storage]
    mode,
    pc,
    expected,  \* expected[n]: change times, of the tables listed first
    listed,    \* listed[n]: storage of the tables listed to be frozen
    tasks,     \* tasks[n]: [state, statement, left, failed], of the thread that freezes n
    backup,    \* backup[n]: [storage, statement, parts]
    reading,   \* [name, left]: the frozen table being read, and its partitions left
    mixed,     \* storages frozen under another name while they were read
    faults

serverVars == <<time, files, tables, schema, versions>>

vars == <<serverVars, shadow, mode, pc, expected, listed, tasks, backup, reading, mixed, faults>>

Existing == {n \in Names : tables[n] # NoTable}

Nothing == [n \in {} |-> 0]

Nobody == [name |-> NoTable, left |-> {}]

Init ==
    /\ time = 0
    /\ tables = Initially
    /\ files = [n \in Names |-> [storage |-> tables[n], schema |-> 0, time |-> 0]]
    /\ schema = [s \in Range(tables) |-> 0]
    /\ versions = [s \in Storages |-> [p \in Partitions |-> 0]]
    /\ shadow = [s \in Storages |-> {}]
    /\ mode \in Modes
    /\ pc = "collect"
    /\ expected = Nothing /\ listed = Nothing /\ tasks = Nothing /\ backup = Nothing
    /\ reading = Nobody
    /\ mixed = {}
    /\ faults = 0

-----------------------------------------------------------------------------
(* Users.                                                                   *)

File(s) == [storage |-> s, schema |-> schema'[s], time |-> time']

Exchange ==
    \E a, b \in Existing :
        /\ a # b
        /\ tables' = [tables EXCEPT ![a] = tables[b], ![b] = tables[a]]
        /\ UNCHANGED <<schema, versions>>
        /\ files' = [files EXCEPT ![a] = File(tables[b]), ![b] = File(tables[a])]

Alter ==
    \E n \in Existing :
        /\ schema' = [schema EXCEPT ![tables[n]] = @ + 1]
        /\ UNCHANGED <<tables, versions>>
        /\ files' = [files EXCEPT ![n] = File(tables[n])]

\* An insertion or a merge.
ChangeData ==
    \E n \in Existing, p \in Partitions :
        /\ versions' = [versions EXCEPT ![tables[n]][p] = @ + 1]
        /\ UNCHANGED <<tables, schema, files>>

Drop ==
    \E n \in Existing :
        /\ tables' = [tables EXCEPT ![n] = NoTable]
        /\ UNCHANGED <<schema, versions, files>>

\* The file of a dropped table is removed after the table.
RemoveFile ==
    \E n \in Names :
        /\ tables[n] = NoTable /\ files[n] # NoFile
        /\ files' = [files EXCEPT ![n] = NoFile]
        /\ UNCHANGED <<time, tables, schema, versions>>

Create ==
    \E n \in Names, s \in Storages :
        /\ tables[n] = NoTable /\ files[n] = NoFile /\ s \notin DOMAIN schema
        /\ tables' = [tables EXCEPT ![n] = s]
        /\ schema' = [u \in DOMAIN schema \cup {s} |-> IF u = s THEN 0 ELSE schema[u]]
        /\ UNCHANGED versions
        /\ files' = [files EXCEPT ![n] = File(s)]

\* What they do after the backup does not matter.
UserChanges ==
    /\ pc \notin {"done", "failed"}
    /\ \/ /\ time < MaxTime /\ time' = time + 1
          /\ Exchange \/ Alter \/ ChangeData \/ Drop \/ Create
       \/ RemoveFile
    /\ UNCHANGED <<shadow, mode, pc, expected, listed, tasks, backup, reading, mixed, faults>>

-----------------------------------------------------------------------------
(* Threads that freeze.                                                     *)

Moves(n, from, to) == tasks[n].state = from /\ tasks' = [tasks EXCEPT ![n].state = to]

HasFile(n) == files[n] # NoFile

Unchanged(n) == HasFile(n) /\ files[n].time = expected[n]

RemoveAll(n) == shadow' = [s \in Storages |-> {}]

\* Only what was frozen from the place the table was listed at.
RemoveFrozen(n) == shadow' = [shadow EXCEPT ![listed[n]] = {}]

StatementIn(file) == [storage |-> file.storage, schema |-> file.schema]

\* A file that is gone means no task.
ReadStatement(n) ==
    /\ tasks[n].state = "submitted"
    /\ tasks' = [tasks EXCEPT ![n] =
                     IF files[n] = NoFile THEN [@ EXCEPT !.state = "skipped"]
                     ELSE [@ EXCEPT !.state = IF mode = "schema_only" THEN "frozen" ELSE mode,
                                    !.statement = StatementIn(files[n])]]
    /\ UNCHANGED <<shadow, mixed, faults>>

\* The active partitions of a table that is not there are none.
ListPartitions(n) ==
    /\ tasks[n].state = "partitions"
    /\ tasks' = [tasks EXCEPT ![n].state = "freezing",
                              ![n].left = IF tables[n] = NoTable THEN {} ELSE Partitions]
    /\ UNCHANGED <<shadow, mixed, faults>>

PartsOf(s, partitions) ==
    {[partition |-> p, version |-> versions[s][p], schema |-> schema[s], storage |-> s] :
        p \in partitions}

\* A part that is in the directory already is an error: other parts may be frozen
\* by then, or not.
Freeze(n, partitions) ==
    IF tables[n] = NoTable
    THEN UNCHANGED <<shadow, mixed>>
    ELSE LET s == tables[n]
             parts == PartsOf(s, partitions)
         IN  /\ IF parts \cap shadow[s] = {}
                THEN shadow' = [shadow EXCEPT ![s] = @ \cup parts]
                ELSE \E some \in SUBSET parts : shadow' = [shadow EXCEPT ![s] = @ \cup some]
             /\ mixed' = IF reading # Nobody /\ reading.name # n /\ listed[reading.name] = s
                         THEN mixed \cup {s} ELSE mixed

Refused(n, partitions) ==
    tables[n] = NoTable \/ PartsOf(tables[n], partitions) \cap shadow[tables[n]] # {}

FreezeTable(n) ==
    /\ Moves(n, "table", IF Refused(n, Partitions) THEN "error" ELSE "frozen")
    /\ Freeze(n, Partitions)
    /\ UNCHANGED faults

\* One that fails cancels those not begun yet.
FreezePartition(n) ==
    \/ /\ tasks[n].state = "freezing"
       /\ \E p \in tasks[n].left :
              /\ tasks' = [tasks EXCEPT ![n].left = @ \ {p},
                                        ![n].failed = @ \/ Refused(n, {p})]
              /\ Freeze(n, {p})
       /\ UNCHANGED faults
    \/ /\ tasks[n].state = "freezing" /\ (tasks[n].left = {} \/ tasks[n].failed)
       /\ Moves(n, "freezing", IF tasks[n].failed THEN "error" ELSE "frozen")
       /\ UNCHANGED <<shadow, mixed, faults>>

\* Any other error.  What ClickHouse answers is checked like a refusal, but a lost
\* connection, or the timeout of the partitions, is not: the thread fails at once.
FreezeErrs(n) ==
    /\ faults < MaxFaults /\ faults' = faults + 1
    /\ \E from \in {"table", "partitions", "freezing"}, to \in {"error", "failed"} :
           Moves(n, from, to)
    /\ \E some \in SUBSET (IF tasks[n].state = "table" THEN Partitions ELSE tasks[n].left) :
           Freeze(n, some)

\* After an error the time is checked, and then, in ClickHouse, the table.
TimeMatches(n) ==
    Moves(n, "error", "existing") /\ Unchanged(n) /\ UNCHANGED <<shadow, mixed, faults>>

Unasked(n) == TRUE

Exists(n) == tables[n] # NoTable

Resubmitted == "submitted"

\* What becomes of a table that was changed.
Outdated == "skipped"

FreezeSkipped(n) ==
    /\ \/ Moves(n, "error", Outdated) /\ ~Unchanged(n)
       \/ Moves(n, "existing", "skipped") /\ ~Exists(n)
    /\ RemoveFrozen(n)
    /\ UNCHANGED <<mixed, faults>>

FreezeFails(n) == Moves(n, "existing", "failed") /\ Exists(n) /\ UNCHANGED <<shadow, mixed, faults>>

Threads ==
    \E n \in DOMAIN tasks :
        /\ \/ ReadStatement(n) \/ ListPartitions(n) \/ FreezeTable(n) \/ FreezePartition(n)
           \/ FreezeErrs(n) \/ TimeMatches(n) \/ FreezeSkipped(n) \/ FreezeFails(n)
        /\ UNCHANGED <<serverVars, mode, pc, expected, listed, backup, reading>>

-----------------------------------------------------------------------------
(* The backup.                                                              *)

\* Tables are listed and the change times of their files are read, one by one.
CollectChangeTimes ==
    /\ pc = "collect"
    /\ expected' = [n \in Existing |-> NoFile]
    /\ pc' = "stat"
    /\ UNCHANGED <<shadow, listed, tasks, backup, reading>>

Stat ==
    /\ pc = "stat"
    /\ \E n \in DOMAIN expected :
           /\ expected[n] = NoFile
           /\ expected' = IF files[n] = NoFile THEN Restrict(expected, DOMAIN expected \ {n})
                          ELSE [expected EXCEPT ![n] = files[n].time]
    /\ UNCHANGED <<shadow, pc, listed, tasks, backup, reading>>

\* Tables are listed again.
SubmitTables ==
    /\ pc = "stat" /\ NoFile \notin Range(expected)
    /\ listed' = Restrict(tables, Existing \cap DOMAIN expected)
    /\ tasks' = [n \in DOMAIN listed' |-> [state |-> "submitted", statement |-> NoFile,
                                            left |-> {}, failed |-> FALSE]]
    /\ pc' = "backup"
    /\ UNCHANGED <<shadow, expected, backup, reading>>

\* The next completed task, when no table is being read.
Completed(n, state) == pc = "backup" /\ reading = Nobody /\ tasks[n].state = state

AddTable ==
    \E n \in DOMAIN tasks :
        /\ Completed(n, "frozen") /\ Unchanged(n)
        /\ tasks' = [tasks EXCEPT ![n].state = "done"]
        /\ backup' = [m \in DOMAIN backup \cup {n} |->
                          IF m = n THEN [storage |-> listed[n], statement |-> tasks[n].statement,
                                         parts |-> {}]
                          ELSE backup[m]]
        /\ reading' = IF mode = "schema_only" THEN Nobody ELSE [name |-> n, left |-> Partitions]
        /\ UNCHANGED <<shadow, pc, expected, listed>>

SkipTable ==
    \E n \in DOMAIN tasks :
        /\ Completed(n, "frozen") /\ ~Unchanged(n)
        /\ tasks' = [tasks EXCEPT ![n].state = "skipped"]
        /\ RemoveFrozen(n)
        /\ UNCHANGED <<pc, expected, listed, backup, reading>>

\* The directory is read while other tables are frozen.
ReadFrozenParts ==
    /\ pc = "backup"
    /\ \E p \in reading.left :
           /\ backup' = [backup EXCEPT ![reading.name].parts =
                             @ \cup {part \in shadow[listed[reading.name]] : part.partition = p}]
           /\ reading' = [reading EXCEPT !.left = @ \ {p}]
    /\ UNCHANGED <<shadow, pc, expected, listed, tasks>>

TableUploaded ==
    /\ pc = "backup" /\ reading # Nobody /\ reading.left = {}
    /\ RemoveFrozen(reading.name)
    /\ reading' = Nobody
    /\ UNCHANGED <<pc, expected, listed, tasks, backup>>

BackupFails ==
    \E n \in DOMAIN tasks :
        /\ Completed(n, "failed")
        /\ pc' = "failed"
        /\ UNCHANGED <<shadow, expected, listed, tasks, backup, reading>>

BackupEnds ==
    /\ pc = "backup" /\ reading = Nobody
    /\ \A n \in DOMAIN tasks : tasks[n].state \in {"done", "skipped"}
    /\ shadow' = [s \in Storages |-> {}]
    /\ pc' = "done"
    /\ UNCHANGED <<expected, listed, tasks, backup, reading>>

Main ==
    /\ \/ CollectChangeTimes \/ Stat \/ SubmitTables \/ AddTable \/ SkipTable
       \/ ReadFrozenParts \/ TableUploaded \/ BackupFails \/ BackupEnds
    /\ UNCHANGED <<serverVars, mode, mixed, faults>>

Ended == pc \in {"done", "failed"} /\ UNCHANGED vars

Next == UserChanges \/ Threads \/ Main \/ Ended

Spec == Init /\ [][Next]_vars

\* Threads run; users do as they like.
FairSpec == Spec /\ WF_vars(Threads) /\ WF_vars(Main)

-----------------------------------------------------------------------------
(* Properties.                                                              *)

\* The data of a table are of one moment, of its own storage and of the schema of
\* its statement.
OneSnapshot(table) ==
    \A part \in table.parts :
        /\ part.storage = table.storage /\ part.schema = table.statement.schema
        /\ \A other \in table.parts : other.partition = part.partition => other = part

\* Statement and data of a table in the backup belong together, whatever tables
\* are exchanged, altered, dropped or created meanwhile (change_times in
\* TableBackup.backup), except where a table that was read already is frozen again
\* under another name.
BackedUpTogether ==
    \A n \in DOMAIN backup :
        /\ backup[n].statement.storage = backup[n].storage
        /\ backup[n].storage \notin mixed => OneSnapshot(backup[n])

\* A table nobody touched is in the backup with data of every partition, whichever
\* tables around it are skipped (_check_metadata_change_time).
UntouchedBackedUp ==
    pc = "done" =>
        \A n \in Existing :
            files[n] # NoFile /\ files[n].time = 0 =>
                /\ n \in DOMAIN backup
                /\ mode # "schema_only" => {part.partition : part \in backup[n].parts} = Partitions

\* Changes of users do not make the backup fail: a table that cannot be frozen
\* because it was changed or went away is skipped (_freeze_table).  The exception is a
\* table created anew, under the same name, between the two checks after the error.
ChangesAreNoFailures ==
    pc = "failed" /\ faults = 0 =>
        \E n \in DOMAIN tasks : tasks[n].state = "failed" /\ ~Unchanged(n)

\* The backup ends, whatever users do: it never starts over.
BackupCompletes == <>(pc \in {"done", "failed"})
=============================================================================
