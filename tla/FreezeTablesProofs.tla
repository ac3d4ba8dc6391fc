------------------------- MODULE FreezeTablesProofs -------------------------
(***************************************************************************)
(* Proofs about the freezing of tables, for any tables, partitions, numbers *)
(* of changes and errors.  The change time of a metadata file only grows,   *)
(* so as long as a file has the time it had when the backup began it is the *)
(* same file: everything known of a frozen table is stated under that       *)
(* condition, and what is in the backup where it was checked.               *)
(***************************************************************************)
EXTENDS FreezeTables, TLAPS

States == {"submitted", "table", "partitions", "freezing", "error", "existing", "frozen",
           "done", "skipped", "failed"}

MetadataFile == [storage : Storages, schema : Nat, time : Nat]

Statement == [storage : Storages, schema : Nat]

Part == [partition : Partitions, version : Nat, schema : Nat, storage : Storages]

Task == [state : States, statement : Statement \cup {NoFile}, left : SUBSET Partitions,
         failed : BOOLEAN]

BackedUp == [storage : Storages, statement : Statement \cup {NoFile}, parts : SUBSET Part]

ServerType ==
    /\ time \in Nat
    /\ files \in [Names -> MetadataFile \cup {NoFile}]
    /\ tables \in [Names -> Storages \cup {NoTable}]
    /\ DOMAIN schema \subseteq Storages /\ schema \in [DOMAIN schema -> Nat]
    /\ versions \in [Storages -> [Partitions -> Nat]]

BackupType ==
    /\ shadow \in [Storages -> SUBSET Part]
    /\ mode \in Modes
    /\ pc \in {"collect", "stat", "backup", "done", "failed"}
    /\ DOMAIN expected \subseteq Names /\ expected \in [DOMAIN expected -> Nat \cup {NoFile}]
    /\ DOMAIN listed \subseteq DOMAIN expected /\ listed \in [DOMAIN listed -> Storages]
    /\ tasks \in [DOMAIN listed -> Task]
    /\ DOMAIN backup \subseteq DOMAIN listed /\ backup \in [DOMAIN backup -> BackedUp]
    /\ reading = Nobody \/ reading \in [name : DOMAIN backup, left : SUBSET Partitions]
    /\ mixed \subseteq Storages
    /\ faults \in Nat

TypeOK == ServerType /\ BackupType

\* A table has its metadata file.
TablesHaveFiles ==
    \A n \in Names : tables[n] # NoTable => files[n] # NoFile /\ files[n].storage = tables[n]

FilesAreTrue ==
    \A n \in Names : files[n] # NoFile =>
        /\ files[n].storage \in DOMAIN schema
        /\ files[n].schema = schema[files[n].storage]
        /\ files[n].time <= time

\* A storage is in one file only.
OneFile ==
    \A m, n \in Names :
        files[m] # NoFile /\ files[n] # NoFile /\ files[m].storage = files[n].storage => m = n

ServerInv == TablesHaveFiles /\ FilesAreTrue /\ OneFile

\* Change times expected are of the past.
ExpectedInv ==
    /\ \A n \in DOMAIN expected : expected[n] # NoFile => expected[n] \in Nat /\ expected[n] <= time
    /\ pc \notin {"collect", "stat"} => \A n \in DOMAIN expected : expected[n] # NoFile

\* Nothing is frozen before the tables are submitted.
EarlyInv ==
    pc \in {"collect", "stat"} =>
        /\ DOMAIN listed = {}
        /\ \A s \in Storages : shadow[s] = {}

OneEach(parts) == \A x, y \in parts : x.partition = y.partition => x = y

\* What was frozen in the place of a table whose file is the expected one is of that
\* table, with the schema of the file.
FrozenOK(n) ==
    Unchanged(n) =>
        /\ files[n].storage = listed[n]
        /\ tasks[n].state \notin {"submitted", "skipped"} =>
               tasks[n].statement = StatementIn(files[n])
        /\ \A x \in shadow[listed[n]] : x.storage = listed[n] /\ x.schema = files[n].schema
        /\ OneEach(shadow[listed[n]])
        /\ tasks[n].state \in {"submitted", "table", "partitions"} => shadow[listed[n]] = {}
        /\ tasks[n].state = "freezing" =>
               \A x \in shadow[listed[n]] : x.partition \notin tasks[n].left

FrozenInv == \A n \in DOMAIN listed : FrozenOK(n)

\* The table being read is of one moment with what is left of it to read.
ReadInv ==
    reading # Nobody /\ listed[reading.name] \notin mixed =>
        OneSnapshot([backup[reading.name] EXCEPT !.parts = @ \cup shadow[listed[reading.name]]])

BackupInv ==
    \A n \in DOMAIN backup :
        /\ tasks[n].state = "done"
        /\ backup[n].storage = listed[n]
        /\ backup[n].statement.storage = listed[n]
        /\ listed[n] \notin mixed => OneSnapshot(backup[n])

\* Without other errors, only a table that is gone or was changed cannot be frozen.
FailureOK(n) ==
    Unchanged(n) =>
        /\ tasks[n].state \in {"error", "existing"} => tables[n] = NoTable
        /\ tasks[n].failed => tables[n] = NoTable
        /\ tasks[n].state # "failed"

FailureInv ==
    /\ faults = 0 => \A n \in DOMAIN listed : FailureOK(n)
    /\ pc = "failed" => \E n \in DOMAIN listed : tasks[n].state = "failed"

IInv ==
    /\ TypeOK /\ ServerInv /\ ExpectedInv /\ EarlyInv
    /\ FrozenInv /\ ReadInv /\ BackupInv /\ FailureInv

-----------------------------------------------------------------------------
(* Users.                                                                   *)

LaterFiles == \A n \in Names : files'[n] \in {files[n], NoFile} \/ files'[n].time = time + 1

TablesStay ==
    \A n \in Names : files[n] # NoFile /\ files'[n] = files[n] => tables'[n] \in {tables[n], NoTable}

\* A metadata file that users change has a time later than any before, and while a
\* file stays as it is, its table stays or is dropped.
LEMMA UserStep ==
    ASSUME ServerType, ServerInv, UserChanges
    PROVE  ServerType' /\ ServerInv' /\ LaterFiles /\ TablesStay
<1> USE DEF ServerType, ServerInv, TablesHaveFiles, FilesAreTrue, OneFile, MetadataFile, LaterFiles, TablesStay
<1>0. CASE RemoveFile
  <2>1. PICK n \in Names : /\ tables[n] = NoTable /\ files' = [files EXCEPT ![n] = NoFile]
                            /\ UNCHANGED <<time, tables, schema, versions>>
    BY <1>0 DEF RemoveFile
  <2>2. ServerType'
    BY <2>1
  <2>3. ServerInv'
    BY <2>1, <2>2
  <2> QED
    BY <2>1, <2>2, <2>3
<1> SUFFICES ASSUME time' = time + 1, Exchange \/ Alter \/ ChangeData \/ Drop \/ Create
             PROVE  ServerType' /\ ServerInv' /\ LaterFiles /\ TablesStay
  BY <1>0 DEF UserChanges
<1>1. time' = time + 1 /\ time' \in Nat
  OBVIOUS
<1>2. CASE Exchange
  <2>1. PICK a \in Existing, b \in Existing :
            /\ a # b
            /\ tables' = [tables EXCEPT ![a] = tables[b], ![b] = tables[a]]
            /\ UNCHANGED <<schema, versions>>
            /\ files' = [files EXCEPT ![a] = File(tables[b]), ![b] = File(tables[a])]
    BY <1>2 DEF Exchange
  <2>2. /\ a \in Names /\ b \in Names
        /\ tables[a] \in DOMAIN schema /\ tables[b] \in DOMAIN schema
        /\ tables[a] # NoTable /\ tables[b] # NoTable /\ tables[a] # tables[b]
        /\ files[a].storage = tables[a] /\ files[b].storage = tables[b]
    BY <2>1 DEF Existing
  <2>3. /\ File(tables[a]) = [storage |-> tables[a], schema |-> schema[tables[a]], time |-> time']
        /\ File(tables[b]) = [storage |-> tables[b], schema |-> schema[tables[b]], time |-> time']
    BY <2>1 DEF File
  <2>4. File(tables[a]) \in MetadataFile /\ File(tables[b]) \in MetadataFile
    BY <1>1, <2>2, <2>3
  <2>5. ServerType'
    <3>1. files' \in [Names -> MetadataFile \cup {NoFile}]
      BY <2>1, <2>4
    <3>2. tables' \in [Names -> Storages \cup {NoTable}]
      BY <2>1, <2>2
    <3> QED
      BY <1>1, <2>1, <3>1, <3>2
  <2>6. /\ files'[a] = File(tables[b]) /\ files'[b] = File(tables[a])
        /\ tables'[a] = tables[b] /\ tables'[b] = tables[a]
        /\ \A n \in Names \ {a, b} : files'[n] = files[n] /\ tables'[n] = tables[n]
    BY <2>1, <2>2
  <2>7. ServerInv'
    <3>1. TablesHaveFiles'
      BY FreezeAssumption, <1>1, <2>1, <2>2, <2>3, <2>5, <2>6
    <3>2. FilesAreTrue'
      BY <1>1, <2>1, <2>2, <2>3, <2>5, <2>6
    <3>3. OneFile'
      BY <1>1, <2>1, <2>2, <2>3, <2>5, <2>6
    <3> QED
      BY <3>1, <3>2, <3>3
  <2>8. LaterFiles
    BY <1>1, <2>3, <2>6
  <2>9. TablesStay
    <3>1. files'[a].storage = tables[b] /\ files'[b].storage = tables[a]
      BY <2>3, <2>6
    <3>2. files'[a] # files[a] /\ files'[b] # files[b]
      BY <2>2, <3>1
    <3>3. \A n \in Names \ {a, b} : tables'[n] = tables[n]
      BY <2>6
    <3> QED
      BY <3>2, <3>3
  <2> QED
    BY <2>5, <2>7, <2>8, <2>9
<1>3. CASE Alter
  <2>1. PICK a \in Existing :
            /\ schema' = [schema EXCEPT ![tables[a]] = @ + 1]
            /\ UNCHANGED <<tables, versions>>
            /\ files' = [files EXCEPT ![a] = File(tables[a])]
    BY <1>3 DEF Alter
  <2>2. /\ a \in Names /\ tables[a] # NoTable /\ tables[a] \in DOMAIN schema
        /\ files[a] # NoFile /\ files[a].storage = tables[a]
    BY <2>1 DEF Existing
  <2>3. /\ DOMAIN schema' = DOMAIN schema
        /\ schema'[tables[a]] \in Nat
        /\ \A s \in DOMAIN schema \ {tables[a]} : schema'[s] = schema[s]
    BY <2>1, <2>2
  <2>4. /\ File(tables[a]) = [storage |-> tables[a], schema |-> schema'[tables[a]], time |-> time']
        /\ File(tables[a]) \in MetadataFile
    BY <1>1, <2>2, <2>3 DEF File
  <2>5. /\ files'[a] = File(tables[a])
        /\ \A n \in Names \ {a} : files'[n] = files[n]
        /\ tables' = tables
    BY <2>1, <2>2
  <2>6. ServerType'
    <3>1. files' \in [Names -> MetadataFile \cup {NoFile}]
      BY <2>1, <2>4
    <3>2. schema' \in [DOMAIN schema -> Nat]
      BY <2>1, <2>2
    <3> QED
      BY <1>1, <2>1, <2>3, <3>1, <3>2
  <2>7. ServerInv'
    <3>1. TablesHaveFiles'
      BY FreezeAssumption, <1>1, <2>2, <2>3, <2>4, <2>5, <2>6
    <3>2. FilesAreTrue'
      BY <1>1, <2>2, <2>3, <2>4, <2>5, <2>6
    <3>3. OneFile'
      BY <1>1, <2>2, <2>3, <2>4, <2>5, <2>6
    <3> QED
      BY <3>1, <3>2, <3>3
  <2> QED
    BY <1>1, <2>4, <2>5, <2>6, <2>7
<1>4. CASE ChangeData
  <2>1. UNCHANGED <<tables, schema, files>>
    BY <1>4 DEF ChangeData
  <2>2. ServerType'
    BY <1>1, <1>4, <2>1 DEF ChangeData, Existing
  <2> QED
    BY <1>1, <2>1, <2>2
<1>5. CASE Drop
  <2>1. UNCHANGED <<schema, versions, files>>
    BY <1>5 DEF Drop
  <2>2. PICK n \in Names : tables' = [tables EXCEPT ![n] = NoTable]
    BY <1>5 DEF Drop, Existing
  <2>3. ServerType'
    BY <1>1, <2>1, <2>2
  <2>4. ServerInv'
    BY <1>1, <2>1, <2>2, <2>3
  <2> QED
    BY <2>1, <2>2, <2>3, <2>4
<1>6. CASE Create
  <2>1. PICK n \in Names, s \in Storages :
            /\ tables[n] = NoTable /\ files[n] = NoFile /\ s \notin DOMAIN schema
            /\ tables' = [tables EXCEPT ![n] = s]
            /\ schema' = [u \in DOMAIN schema \cup {s} |-> IF u = s THEN 0 ELSE schema[u]]
            /\ UNCHANGED versions
            /\ files' = [files EXCEPT ![n] = File(s)]
    BY <1>6 DEF Create
  <2>2. /\ File(s) = [storage |-> s, schema |-> 0, time |-> time']
        /\ File(s) \in MetadataFile
    BY <1>1, <2>1 DEF File
  <2>3. /\ files'[n] = File(s) /\ tables'[n] = s
        /\ \A m \in Names \ {n} : files'[m] = files[m] /\ tables'[m] = tables[m]
        /\ DOMAIN schema' = DOMAIN schema \cup {s}
        /\ schema'[s] = 0 /\ \A u \in DOMAIN schema : schema'[u] = schema[u]
    BY <2>1
  <2>4. ServerType'
    BY <1>1, <2>1, <2>2, <2>3
  <2>5. ServerInv'
    <3>1. TablesHaveFiles'
      BY FreezeAssumption, <1>1, <2>1, <2>2, <2>3, <2>4
    <3>2. FilesAreTrue'
      BY <1>1, <2>1, <2>2, <2>3, <2>4
    <3>3. OneFile'
      BY <1>1, <2>1, <2>2, <2>3, <2>4
    <3> QED
      BY <3>1, <3>2, <3>3
  <2>6. LaterFiles
    BY <1>1, <2>2, <2>3
  <2>7. TablesStay
    BY <2>1, <2>2, <2>3
  <2> QED
    BY <2>4, <2>5, <2>6, <2>7
<1> QED
  BY <1>2, <1>3, <1>4, <1>5, <1>6

-----------------------------------------------------------------------------
(* Threads.                                                                 *)

threadFrame == <<serverVars, mode, pc, expected, listed, backup, reading>>

\* A thread changes its own task, and the tables that are read or backed up keep what
\* they have as long as they are not frozen again.
LEMMA ThreadKeepsBackup ==
    ASSUME TypeOK, BackupInv, ReadInv, UNCHANGED threadFrame,
           NEW n \in DOMAIN listed, tasks[n].state # "done",
           \A m \in DOMAIN listed \ {n} : tasks'[m] = tasks[m],
           mixed \subseteq mixed',
           reading # Nobody /\ reading.name # n /\ listed[reading.name] \notin mixed' =>
               shadow'[listed[reading.name]] \subseteq shadow[listed[reading.name]]
    PROVE  BackupInv' /\ ReadInv'
<1> USE DEF threadFrame
<1>1. BackupInv'
  <2> SUFFICES ASSUME NEW m \in DOMAIN backup
               PROVE  /\ tasks'[m].state = "done"
                      /\ backup[m].storage = listed[m]
                      /\ backup[m].statement.storage = listed[m]
                      /\ listed[m] \notin mixed' => OneSnapshot(backup[m])
    BY DEF BackupInv, OneSnapshot
  <2> QED
    BY DEF BackupInv, TypeOK, BackupType
<1>2. ReadInv'
  <2> SUFFICES ASSUME reading # Nobody, listed[reading.name] \notin mixed'
               PROVE  OneSnapshot([backup[reading.name] EXCEPT
                                       !.parts = @ \cup shadow'[listed[reading.name]]])
    BY DEF ReadInv, OneSnapshot
  <2> DEFINE r == reading.name
  <2>1. r \in DOMAIN backup /\ r # n
    BY DEF TypeOK, BackupType, BackupInv
  <2>2. shadow'[listed[r]] \subseteq shadow[listed[r]]
    BY <2>1
  <2>3. OneSnapshot([backup[r] EXCEPT !.parts = @ \cup shadow[listed[r]]])
    BY DEF ReadInv
  <2>4. backup[r] \in BackedUp
    BY <2>1 DEF TypeOK, BackupType
  <2> QED
    BY <2>2, <2>3, <2>4 DEF OneSnapshot, BackedUp
<1> QED
  BY <1>1, <1>2

\* Nothing new is known of a table whose task is left alone and whose frozen parts
\* are at most those it had.
LEMMA OtherFrozenOK ==
    ASSUME NEW n \in DOMAIN listed, FrozenOK(n),
           UNCHANGED <<files, expected, listed>>, tasks'[n] = tasks[n],
           Unchanged(n) => shadow'[listed[n]] \subseteq shadow[listed[n]]
    PROVE  FrozenOK(n)'
BY DEF FrozenOK, Unchanged, HasFile, OneEach, StatementIn

\* Parts are frozen from the storage the table has.  Of tables whose file is the
\* expected one only the table itself has it, of those that are read only mixed ones.
LEMMA FreezeEffect ==
    ASSUME TypeOK, ServerInv, FrozenInv, UNCHANGED threadFrame,
           NEW n \in DOMAIN listed, NEW some \in SUBSET Partitions, Freeze(n, some)
    PROVE  /\ shadow' \in [Storages -> SUBSET Part]
           /\ mixed \subseteq mixed' /\ mixed' \subseteq Storages
           /\ \A m \in DOMAIN listed \ {n} :
                  Unchanged(m) => shadow'[listed[m]] = shadow[listed[m]]
           /\ reading # Nobody /\ reading.name # n /\ listed[reading.name] \notin mixed' =>
                  shadow'[listed[reading.name]] = shadow[listed[reading.name]]
           /\ Unchanged(n) =>
                  shadow'[listed[n]] \subseteq shadow[listed[n]] \cup PartsOf(listed[n], some)
<1>1. CASE tables[n] = NoTable
  BY <1>1 DEF Freeze, TypeOK, BackupType
<1>2. CASE tables[n] # NoTable
  <2> DEFINE s == tables[n]
             parts == PartsOf(s, some)
  <2>1. n \in Names /\ s \in Storages /\ s \in DOMAIN schema
        /\ files[n] # NoFile /\ files[n].storage = s
    BY <1>2 DEF TypeOK, ServerType, BackupType, ServerInv, TablesHaveFiles, FilesAreTrue
  <2>2. parts \subseteq Part
    BY <2>1 DEF PartsOf, Part, TypeOK, ServerType
  <2>3. PICK new \in SUBSET parts : shadow' = [shadow EXCEPT ![s] = @ \cup new]
    BY <1>2 DEF Freeze
  <2>4. mixed' = IF reading # Nobody /\ reading.name # n /\ listed[reading.name] = s
                 THEN mixed \cup {s} ELSE mixed
    BY <1>2 DEF Freeze
  <2>5. shadow' \in [Storages -> SUBSET Part]
    BY <2>1, <2>2, <2>3 DEF TypeOK, BackupType
  <2>6. mixed \subseteq mixed' /\ mixed' \subseteq Storages
    BY <2>1, <2>4 DEF TypeOK, BackupType
  <2>7. \A u \in Storages \ {s} : shadow'[u] = shadow[u]
    BY <2>3 DEF TypeOK, BackupType
  <2>8. ASSUME NEW m \in DOMAIN listed \ {n}, Unchanged(m)
        PROVE  shadow'[listed[m]] = shadow[listed[m]]
    <3>1. m \in Names /\ files[m] # NoFile /\ files[m].storage = listed[m]
          /\ listed[m] \in Storages
      BY <2>8 DEF FrozenInv, FrozenOK, Unchanged, HasFile, TypeOK, BackupType
    <3>2. listed[m] # s
      BY <2>1, <3>1 DEF ServerInv, OneFile
    <3> QED
      BY <2>7, <3>1, <3>2
  <2>9. ASSUME reading # Nobody, reading.name # n, listed[reading.name] \notin mixed'
        PROVE  shadow'[listed[reading.name]] = shadow[listed[reading.name]]
    <3>1. listed[reading.name] \in Storages
      BY <2>9 DEF TypeOK, BackupType
    <3> QED
      BY <2>4, <2>7, <2>9, <3>1
  <2>10. ASSUME Unchanged(n)
         PROVE  shadow'[listed[n]] \subseteq shadow[listed[n]] \cup PartsOf(listed[n], some)
    <3>1. listed[n] = s
      BY <2>1, <2>10 DEF FrozenInv, FrozenOK
    <3> QED
      BY <2>1, <2>3, <3>1 DEF TypeOK, BackupType
  <2> QED
    BY <2>5, <2>6, <2>8, <2>9, <2>10
<1> QED
  BY <1>1, <1>2

LEMMA PartsOfFrozen ==
    ASSUME TypeOK, ServerInv, NEW n \in Names, files[n] # NoFile,
           NEW some \in SUBSET Partitions
    PROVE  /\ \A x \in PartsOf(files[n].storage, some) :
                  /\ x.storage = files[n].storage /\ x.schema = files[n].schema
                  /\ x.partition \in some
           /\ OneEach(PartsOf(files[n].storage, some))
BY DEF ServerInv, FilesAreTrue, PartsOf, OneEach

\* What a step of a thread has to show: its own table.
LEMMA ThreadStep ==
    ASSUME IInv, UNCHANGED threadFrame, NEW n \in DOMAIN listed,
           tasks[n].state \notin {"done", "failed"},
           NEW task \in Task, tasks' = [tasks EXCEPT ![n] = task],
           shadow' \in [Storages -> SUBSET Part],
           mixed \subseteq mixed', mixed' \subseteq Storages,
           faults' \in Nat, faults' = 0 => faults = 0,
           \A m \in DOMAIN listed \ {n} :
               Unchanged(m) => shadow'[listed[m]] \subseteq shadow[listed[m]],
           reading # Nobody /\ reading.name # n /\ listed[reading.name] \notin mixed' =>
               shadow'[listed[reading.name]] \subseteq shadow[listed[reading.name]],
           FrozenOK(n)', faults' = 0 => FailureOK(n)'
    PROVE  IInv'
<1> USE DEF IInv, threadFrame
<1>1. /\ tasks'[n] = task
      /\ \A m \in DOMAIN listed \ {n} : tasks'[m] = tasks[m]
      /\ tasks' \in [DOMAIN listed -> Task]
  BY DEF TypeOK, BackupType
<1>2. TypeOK'
  <2>1. ServerType'
    BY DEF TypeOK, ServerType, serverVars
  <2>2. BackupType'
    BY <1>1 DEF TypeOK, BackupType
  <2> QED
    BY <2>1, <2>2 DEF TypeOK
<1>3. ServerInv' /\ ExpectedInv' /\ EarlyInv'
  BY DEF ServerInv, TablesHaveFiles, FilesAreTrue, OneFile, ExpectedInv, EarlyInv, serverVars
<1>4. BackupInv' /\ ReadInv'
  BY <1>1, ThreadKeepsBackup
<1>5. FrozenInv'
  <2>1. ASSUME NEW m \in DOMAIN listed \ {n} PROVE FrozenOK(m)'
    BY <1>1, OtherFrozenOK DEF FrozenInv, serverVars
  <2> QED
    BY <2>1 DEF FrozenInv
<1>6. FailureInv'
  <2>1. ASSUME NEW m \in DOMAIN listed \ {n}, faults' = 0 PROVE FailureOK(m)'
    BY <1>1, <2>1 DEF FailureInv, FailureOK, Unchanged, HasFile, serverVars
  <2>2. ASSUME pc' = "failed" PROVE \E m \in DOMAIN listed : tasks'[m].state = "failed"
    BY <1>1, <2>2 DEF FailureInv
  <2> QED
    BY <2>1, <2>2 DEF FailureInv
<1> QED
  BY <1>2, <1>3, <1>4, <1>5, <1>6

LEMMA MovesTask ==
    ASSUME TypeOK, NEW n \in DOMAIN listed, NEW from, NEW to \in States, Moves(n, from, to)
    PROVE  /\ tasks[n].state = from
           /\ [tasks[n] EXCEPT !.state = to] \in Task
           /\ tasks' = [tasks EXCEPT ![n] = [tasks[n] EXCEPT !.state = to]]
           /\ tasks'[n] = [tasks[n] EXCEPT !.state = to]
BY DEF Moves, TypeOK, BackupType, Task

LEMMA ReadStatementKeeps ==
    ASSUME IInv, UNCHANGED threadFrame, NEW n \in DOMAIN listed, ReadStatement(n)
    PROVE  IInv'
<1> USE DEF threadFrame, serverVars
<1> DEFINE file == files[n]
           task == IF file = NoFile THEN [tasks[n] EXCEPT !.state = "skipped"]
                   ELSE [tasks[n] EXCEPT
                            !.state = IF mode = "schema_only" THEN "frozen" ELSE mode,
                            !.statement = StatementIn(file)]
<1>1. n \in Names /\ tasks[n] \in Task /\ tasks[n].state = "submitted"
      /\ file \in MetadataFile \cup {NoFile}
  BY DEF ReadStatement, IInv, TypeOK, ServerType, BackupType
<1>2. mode \in {"table", "partitions", "schema_only"}
  BY FreezeAssumption DEF IInv, TypeOK, BackupType
<1>3. task \in Task
  BY <1>1, <1>2 DEF Task, States, Statement, MetadataFile, StatementIn
<1>4. tasks' = [tasks EXCEPT ![n] = task] /\ UNCHANGED <<shadow, mixed, faults>>
  BY DEF ReadStatement
<1>5. tasks'[n] = task
  BY <1>4 DEF IInv, TypeOK, BackupType
<1>6. ASSUME file # NoFile
      PROVE  task.state \in {"table", "partitions", "frozen"} /\ task.statement = StatementIn(file)
  BY <1>1, <1>2, <1>6 DEF Task
<1>7. FrozenOK(n)'
  <2> SUFFICES ASSUME Unchanged(n) PROVE FrozenOK(n)'
    BY <1>4 DEF FrozenOK, Unchanged, HasFile
  <2>1. file # NoFile /\ FrozenOK(n)
    BY DEF Unchanged, HasFile, IInv, FrozenInv
  <2> QED
    BY <1>1, <1>4, <1>5, <1>6, <2>1 DEF FrozenOK, StatementIn, Unchanged, HasFile, OneEach
<1>8. faults' = 0 => FailureOK(n)'
  <2>1. task.failed = tasks[n].failed /\ task.state \in {"skipped", "table", "partitions", "frozen"}
    BY <1>1, <1>2 DEF Task
  <2> QED
    BY <1>4, <1>5, <2>1 DEF IInv, FailureInv, FailureOK, Unchanged, HasFile
<1> QED
  BY <1>1, <1>3, <1>4, <1>7, <1>8, ThreadStep DEF IInv, TypeOK, BackupType

LEMMA ListPartitionsKeeps ==
    ASSUME IInv, UNCHANGED threadFrame, NEW n \in DOMAIN listed, ListPartitions(n)
    PROVE  IInv'
<1> USE DEF threadFrame, serverVars
<1> DEFINE task == [tasks[n] EXCEPT !.state = "freezing",
                                    !.left = IF tables[n] = NoTable THEN {} ELSE Partitions]
<1>1. tasks[n] \in Task /\ tasks[n].state = "partitions"
  BY DEF ListPartitions, IInv, TypeOK, BackupType
<1>2. task \in Task
  BY <1>1 DEF Task, States
<1>3. tasks' = [tasks EXCEPT ![n] = task] /\ UNCHANGED <<shadow, mixed, faults>>
  BY <1>1 DEF ListPartitions, IInv, TypeOK, BackupType
<1>4. tasks'[n] = task /\ task.state = "freezing" /\ task.statement = tasks[n].statement
      /\ task.failed = tasks[n].failed
  BY <1>1, <1>3 DEF IInv, TypeOK, BackupType, Task
<1>5. FrozenOK(n)'
  BY <1>1, <1>3, <1>4 DEF IInv, FrozenInv, FrozenOK, StatementIn, Unchanged, HasFile, OneEach
<1>6. faults' = 0 => FailureOK(n)'
  BY <1>1, <1>3, <1>4 DEF IInv, FailureInv, FailureOK, Unchanged, HasFile
<1> QED
  BY <1>1, <1>2, <1>3, <1>5, <1>6, ThreadStep DEF IInv, TypeOK, BackupType

\* While the file is the expected one, freezing is refused only if the table is gone.
LEMMA RefusedGone ==
    ASSUME IInv, NEW n \in DOMAIN listed, Unchanged(n), NEW some \in SUBSET Partitions,
           Refused(n, some), \A x \in shadow[listed[n]] : x.partition \notin some
    PROVE  tables[n] = NoTable
<1> SUFFICES ASSUME tables[n] # NoTable PROVE FALSE
  OBVIOUS
<1>1. n \in Names /\ tables[n] = listed[n] /\ listed[n] = files[n].storage /\ files[n] # NoFile
  BY DEF IInv, TypeOK, BackupType, ServerInv, TablesHaveFiles, FrozenInv, FrozenOK, Unchanged,
         HasFile
<1>2. PartsOf(listed[n], some) \cap shadow[listed[n]] # {}
  BY <1>1 DEF Refused
<1> QED
  BY <1>1, <1>2, PartsOfFrozen DEF IInv

LEMMA FreezeTableKeeps ==
    ASSUME IInv, UNCHANGED threadFrame, NEW n \in DOMAIN listed, FreezeTable(n)
    PROVE  IInv'
<1> USE DEF threadFrame, serverVars
<1>1. PICK to \in {"error", "frozen"}, some \in SUBSET Partitions :
          /\ Moves(n, "table", to)
          /\ Freeze(n, some)
          /\ faults' = faults /\ (to = "error" => Refused(n, some))
  BY DEF FreezeTable
<1> DEFINE task == [tasks[n] EXCEPT !.state = to]
<1>2. /\ n \in Names /\ tasks[n] \in Task /\ tasks[n].state = "table" /\ task \in Task
      /\ tasks' = [tasks EXCEPT ![n] = task] /\ tasks'[n] = task
  <2>1. to \in States /\ TypeOK
    BY DEF States, IInv
  <2>2. n \in Names /\ tasks[n] \in Task
    BY <2>1 DEF TypeOK, BackupType
  <2> QED
    BY <1>1, <2>1, <2>2, MovesTask
<1>3. task.state = to /\ task.statement = tasks[n].statement /\ task.failed = tasks[n].failed
  BY <1>2 DEF Task
<1>4. faults' \in Nat /\ (faults' = 0 => faults = 0)
  BY <1>1 DEF IInv, TypeOK, BackupType
<1>5. /\ shadow' \in [Storages -> SUBSET Part]
      /\ mixed \subseteq mixed' /\ mixed' \subseteq Storages
      /\ \A m \in DOMAIN listed \ {n} :
             Unchanged(m) => shadow'[listed[m]] \subseteq shadow[listed[m]]
      /\ reading # Nobody /\ reading.name # n /\ listed[reading.name] \notin mixed' =>
             shadow'[listed[reading.name]] \subseteq shadow[listed[reading.name]]
      /\ Unchanged(n) => shadow'[listed[n]] \subseteq shadow[listed[n]] \cup PartsOf(listed[n], some)
  BY <1>1, FreezeEffect DEF IInv
<1>6. FrozenOK(n)'
  <2> SUFFICES ASSUME Unchanged(n) PROVE FrozenOK(n)'
    BY DEF FrozenOK, Unchanged, HasFile
  <2>1. /\ files[n] # NoFile /\ files[n].storage = listed[n]
        /\ shadow[listed[n]] = {} /\ tasks[n].statement = StatementIn(files[n])
    BY <1>2 DEF IInv, FrozenInv, FrozenOK, Unchanged, HasFile
  <2>2. shadow'[listed[n]] \subseteq PartsOf(files[n].storage, some)
    BY <1>5, <2>1
  <2>3. /\ \A x \in shadow'[listed[n]] : x.storage = listed[n] /\ x.schema = files[n].schema
        /\ OneEach(shadow'[listed[n]])
    BY <1>2, <2>1, <2>2, PartsOfFrozen DEF IInv, OneEach
  <2>4. tasks'[n].state \in {"error", "frozen"}
    BY <1>2, <1>3
  <2>5. tasks'[n].statement = StatementIn(files'[n])
    BY <1>2, <1>3, <2>1 DEF StatementIn
  <2> QED
    BY <2>1, <2>3, <2>4, <2>5 DEF FrozenOK, OneEach
<1>7. faults' = 0 => FailureOK(n)'
  <2> SUFFICES ASSUME faults' = 0, Unchanged(n) PROVE FailureOK(n)'
    BY DEF FailureOK, Unchanged, HasFile
  <2>1. FailureOK(n) /\ faults' = faults
    BY <1>1, <1>4 DEF IInv, FailureInv, TypeOK, BackupType
  <2>2. to = "error" => tables[n] = NoTable
    BY <1>1, <1>2, <2>1, RefusedGone DEF IInv, TypeOK, BackupType, FrozenInv, FrozenOK
  <2> QED
    BY <1>2, <1>3, <2>1, <2>2 DEF FailureOK
<1> QED
  BY <1>2, <1>4, <1>5, <1>6, <1>7, ThreadStep

LEMMA FreezePartitionKeeps ==
    ASSUME IInv, UNCHANGED threadFrame, NEW n \in DOMAIN listed, FreezePartition(n)
    PROVE  IInv'
<1> USE DEF threadFrame, serverVars
<1>1. CASE /\ tasks[n].state = "freezing"
           /\ \E p \in tasks[n].left :
                  /\ tasks' = [tasks EXCEPT ![n].left = @ \ {p},
                                            ![n].failed = @ \/ Refused(n, {p})]
                  /\ Freeze(n, {p})
           /\ UNCHANGED faults
  <2>1. PICK p \in tasks[n].left :
            /\ tasks' = [tasks EXCEPT ![n].left = @ \ {p}, ![n].failed = @ \/ Refused(n, {p})]
            /\ Freeze(n, {p})
    BY <1>1
  <2> DEFINE task == [tasks[n] EXCEPT !.left = @ \ {p}, !.failed = @ \/ Refused(n, {p})]
  <2>2. n \in Names /\ tasks[n] \in Task /\ p \in Partitions
    BY <2>1 DEF IInv, TypeOK, BackupType, Task
  <2>3. task \in Task /\ tasks' = [tasks EXCEPT ![n] = task] /\ tasks'[n] = task
    BY <2>1, <2>2 DEF Task, IInv, TypeOK, BackupType
  <2>4. /\ task.state = "freezing" /\ task.statement = tasks[n].statement
        /\ task.left = tasks[n].left \ {p}
        /\ task.failed <=> tasks[n].failed \/ Refused(n, {p})
    BY <1>1, <2>2 DEF Task
  <2>5. /\ shadow' \in [Storages -> SUBSET Part]
        /\ mixed \subseteq mixed' /\ mixed' \subseteq Storages
        /\ \A m \in DOMAIN listed \ {n} :
               Unchanged(m) => shadow'[listed[m]] \subseteq shadow[listed[m]]
        /\ reading # Nobody /\ reading.name # n /\ listed[reading.name] \notin mixed' =>
               shadow'[listed[reading.name]] \subseteq shadow[listed[reading.name]]
        /\ Unchanged(n) => shadow'[listed[n]] \subseteq shadow[listed[n]] \cup PartsOf(listed[n], {p})
    BY <2>1, <2>2, FreezeEffect DEF IInv
  <2>6. FrozenOK(n)'
    <3> SUFFICES ASSUME Unchanged(n) PROVE FrozenOK(n)'
      BY DEF FrozenOK, Unchanged, HasFile
    <3>1. /\ files[n] # NoFile /\ files[n].storage = listed[n]
          /\ tasks[n].statement = StatementIn(files[n])
          /\ \A x \in shadow[listed[n]] :
                 /\ x.storage = listed[n] /\ x.schema = files[n].schema
                 /\ x.partition \notin tasks[n].left
          /\ OneEach(shadow[listed[n]])
      BY <1>1 DEF IInv, FrozenInv, FrozenOK, Unchanged, HasFile
    <3>2. shadow'[listed[n]] \subseteq shadow[listed[n]] \cup PartsOf(files[n].storage, {p})
      BY <2>5, <3>1
    <3>3. /\ \A x \in PartsOf(files[n].storage, {p}) :
                 /\ x.storage = listed[n] /\ x.schema = files[n].schema /\ x.partition = p
          /\ OneEach(PartsOf(files[n].storage, {p}))
      <4>1. TypeOK /\ ServerInv /\ n \in Names /\ {p} \in SUBSET Partitions
        BY <2>2 DEF IInv
      <4>2. /\ \A x \in PartsOf(files[n].storage, {p}) :
                   /\ x.storage = files[n].storage /\ x.schema = files[n].schema
                   /\ x.partition \in {p}
            /\ OneEach(PartsOf(files[n].storage, {p}))
        BY <3>1, <4>1, PartsOfFrozen
      <4> QED BY <3>1, <4>2
    <3>4. ASSUME NEW x \in shadow'[listed[n]], NEW y \in shadow'[listed[n]],
                 x.partition = y.partition
          PROVE  x = y
      <4>1. CASE x \in shadow[listed[n]] /\ y \in shadow[listed[n]]
        BY <3>1, <3>4, <4>1 DEF OneEach
      <4>2. CASE x \in PartsOf(files[n].storage, {p}) /\ y \in PartsOf(files[n].storage, {p})
        BY <3>3, <3>4, <4>2 DEF OneEach
      <4> QED
        BY <3>1, <3>2, <3>3, <3>4, <4>1, <4>2
    <3>5. \A x \in shadow'[listed[n]] :
              /\ x.storage = listed[n] /\ x.schema = files[n].schema
              /\ x.partition \notin tasks[n].left \ {p}
      BY <3>1, <3>2, <3>3
    <3>6. tasks'[n].statement = StatementIn(files'[n])
      BY <2>3, <2>4, <3>1 DEF StatementIn
    <3>7. tasks'[n].state = "freezing" /\ tasks'[n].left = tasks[n].left \ {p}
      BY <2>3, <2>4
    <3>8. OneEach(shadow[listed[n]])'
      BY <3>4 DEF OneEach
    <3>9. /\ UNCHANGED <<files, listed>>
          /\ \A x \in shadow'[listed[n]] : x.partition \notin tasks'[n].left
      BY <3>5, <3>7
    <3> QED
      BY <3>1, <3>5, <3>6, <3>7, <3>8, <3>9 DEF FrozenOK
  <2>7. faults' = 0 => FailureOK(n)'
    <3> SUFFICES ASSUME faults = 0, Unchanged(n) PROVE FailureOK(n)'
      BY <1>1 DEF FailureOK, Unchanged, HasFile
    <3>1. FailureOK(n)
      BY DEF IInv, FailureInv
    <3>2. Refused(n, {p}) => tables[n] = NoTable
      BY <1>1, <2>1, <2>2, RefusedGone DEF IInv, FrozenInv, FrozenOK
    <3> QED
      BY <2>3, <2>4, <3>1, <3>2 DEF FailureOK
  <2> QED
    BY <1>1, <2>3, <2>5, <2>6, <2>7, ThreadStep DEF IInv, TypeOK, BackupType
<1>2. CASE /\ Moves(n, "freezing", IF tasks[n].failed THEN "error" ELSE "frozen")
           /\ UNCHANGED <<shadow, mixed, faults>>
  <2> DEFINE to == IF tasks[n].failed THEN "error" ELSE "frozen"
             task == [tasks[n] EXCEPT !.state = to]
  <2>1. /\ tasks[n] \in Task /\ tasks[n].state = "freezing" /\ task \in Task
        /\ tasks' = [tasks EXCEPT ![n] = task] /\ tasks'[n] = task
    BY <1>2, MovesTask DEF States, IInv, TypeOK, BackupType
  <2>2. task.state = to /\ task.statement = tasks[n].statement /\ task.failed = tasks[n].failed
    BY <2>1 DEF Task
  <2>3. FrozenOK(n)'
    BY <1>2, <2>1, <2>2 DEF IInv, FrozenInv, FrozenOK, StatementIn, Unchanged, HasFile, OneEach
  <2>4. faults' = 0 => FailureOK(n)'
    BY <1>2, <2>1, <2>2 DEF IInv, FailureInv, FailureOK, Unchanged, HasFile
  <2> QED
    BY <1>2, <2>1, <2>3, <2>4, ThreadStep DEF IInv, TypeOK, BackupType
<1> QED
  BY <1>1, <1>2 DEF FreezePartition

LEMMA FreezeErrsKeeps ==
    ASSUME IInv, UNCHANGED threadFrame, NEW n \in DOMAIN listed, FreezeErrs(n)
    PROVE  IInv'
<1> USE DEF threadFrame, serverVars
<1> DEFINE from == tasks[n].state
<1>1. /\ n \in Names /\ listed[n] \in Storages /\ tasks[n] \in Task
      /\ faults' \in Nat /\ faults' # 0
  BY DEF FreezeErrs, IInv, TypeOK, BackupType
<1>2. PICK to \in {"error", "failed"} :
          from \in {"table", "partitions", "freezing"} /\ Moves(n, from, to)
  BY DEF FreezeErrs, Moves
<1>3. PICK some \in SUBSET Partitions :
          Freeze(n, some) /\ (from = "freezing" => some \subseteq tasks[n].left)
  BY <1>1 DEF FreezeErrs, Task
<1> DEFINE task == [tasks[n] EXCEPT !.state = to]
<1>4. task \in Task /\ tasks' = [tasks EXCEPT ![n] = task] /\ tasks'[n] = task
  <2>1. to \in States /\ TypeOK
    BY DEF States, IInv
  <2> QED
    BY <1>2, <2>1, MovesTask
<1>5. task.state = to /\ task.statement = tasks[n].statement
  BY <1>1 DEF Task
<1>6. /\ shadow' \in [Storages -> SUBSET Part]
      /\ mixed \subseteq mixed' /\ mixed' \subseteq Storages
      /\ \A m \in DOMAIN listed \ {n} :
             Unchanged(m) => shadow'[listed[m]] \subseteq shadow[listed[m]]
      /\ reading # Nobody /\ reading.name # n /\ listed[reading.name] \notin mixed' =>
             shadow'[listed[reading.name]] \subseteq shadow[listed[reading.name]]
      /\ Unchanged(n) => shadow'[listed[n]] \subseteq shadow[listed[n]] \cup PartsOf(listed[n], some)
  BY <1>3, FreezeEffect DEF IInv
<1>7. FrozenOK(n)'
  <2> SUFFICES ASSUME Unchanged(n) PROVE FrozenOK(n)'
    BY DEF FrozenOK, Unchanged, HasFile
  <2>1. /\ files[n] # NoFile /\ files[n].storage = listed[n]
        /\ tasks[n].statement = StatementIn(files[n])
        /\ \A x \in shadow[listed[n]] :
               /\ x.storage = listed[n] /\ x.schema = files[n].schema
               /\ x.partition \notin some
        /\ OneEach(shadow[listed[n]])
    BY <1>2, <1>3 DEF IInv, FrozenInv, FrozenOK, Unchanged, HasFile
  <2>2. shadow'[listed[n]] \subseteq shadow[listed[n]] \cup PartsOf(files[n].storage, some)
    BY <1>6, <2>1
  <2>3. /\ \A x \in PartsOf(files[n].storage, some) :
               /\ x.storage = listed[n] /\ x.schema = files[n].schema
               /\ x.partition \in some
        /\ OneEach(PartsOf(files[n].storage, some))
    BY <1>1, <2>1, PartsOfFrozen DEF IInv
  <2>4. \A x \in shadow'[listed[n]] : x.storage = listed[n] /\ x.schema = files[n].schema
    BY <2>1, <2>2, <2>3
  <2>5. OneEach(shadow[listed[n]])'
    <3>1. ASSUME NEW x \in shadow'[listed[n]], NEW y \in shadow'[listed[n]],
                 x.partition = y.partition
          PROVE  x = y
      <4>1. CASE x \in shadow[listed[n]] /\ y \in shadow[listed[n]]
        BY <2>1, <3>1, <4>1 DEF OneEach
      <4>2. CASE x \in PartsOf(files[n].storage, some) /\ y \in PartsOf(files[n].storage, some)
        BY <2>3, <3>1, <4>2 DEF OneEach
      <4> QED
        BY <2>1, <2>2, <2>3, <3>1, <4>1, <4>2
    <3> QED
      BY <3>1 DEF OneEach
  <2>6. tasks'[n].statement = StatementIn(files'[n]) /\ tasks'[n].state \in {"error", "failed"}
    BY <1>4, <1>5, <2>1 DEF StatementIn
  <2> QED
    BY <2>1, <2>4, <2>5, <2>6 DEF FrozenOK
<1> QED
  BY <1>1, <1>2, <1>4, <1>6, <1>7, ThreadStep

LEMMA AfterErrorKeeps ==
    ASSUME IInv, UNCHANGED threadFrame, NEW n \in DOMAIN listed,
           TimeMatches(n) \/ FreezeSkipped(n) \/ FreezeFails(n)
    PROVE  IInv'
<1> USE DEF threadFrame, serverVars
<1>1. PICK from \in {"error", "existing"}, to \in {"existing", "skipped", "failed"} :
          /\ Moves(n, from, to)
          /\ UNCHANGED <<mixed, faults>>
          /\ UNCHANGED shadow \/ RemoveFrozen(n)
          /\ to = "existing" => from = "error"
          /\ to = "failed" => from = "existing" /\ Exists(n)
  BY DEF TimeMatches, FreezeSkipped, FreezeFails, Outdated
<1> DEFINE task == [tasks[n] EXCEPT !.state = to]
<1>2. /\ tasks[n] \in Task /\ tasks[n].state = from /\ task \in Task
      /\ tasks' = [tasks EXCEPT ![n] = task] /\ tasks'[n] = task
  <2>1. to \in States /\ TypeOK
    BY DEF States, IInv
  <2>2. tasks[n] \in Task
    BY <2>1 DEF TypeOK, BackupType
  <2> QED
    BY <1>1, <2>1, <2>2, MovesTask
<1>3. task.state = to /\ task.statement = tasks[n].statement /\ task.failed = tasks[n].failed
  BY <1>2 DEF Task
<1>4. /\ shadow' \in [Storages -> SUBSET Part]
      /\ \A s \in Storages : shadow'[s] \subseteq shadow[s]
      /\ \A m \in DOMAIN listed : listed[m] \in Storages
  BY <1>1 DEF RemoveFrozen, IInv, TypeOK, BackupType
<1>5. FrozenOK(n)'
  <2> SUFFICES ASSUME Unchanged(n) PROVE FrozenOK(n)'
    BY DEF FrozenOK, Unchanged, HasFile
  <2>1. /\ files[n].storage = listed[n] /\ tasks[n].statement = StatementIn(files[n])
        /\ \A x \in shadow[listed[n]] : x.storage = listed[n] /\ x.schema = files[n].schema
        /\ OneEach(shadow[listed[n]])
    BY <1>2 DEF IInv, FrozenInv, FrozenOK
  <2>2. shadow'[listed[n]] \subseteq shadow[listed[n]]
    BY <1>4
  <2> QED
    BY <1>2, <1>3, <2>1, <2>2 DEF FrozenOK, StatementIn, OneEach
<1>6. faults' = 0 => FailureOK(n)'
  <2> SUFFICES ASSUME faults = 0, Unchanged(n) PROVE FailureOK(n)'
    BY <1>1 DEF FailureOK, Unchanged, HasFile
  <2>1. FailureOK(n)
    BY DEF IInv, FailureInv
  <2> QED
    BY <1>1, <1>2, <1>3, <2>1 DEF FailureOK, Exists
<1>7. reading # Nobody => listed[reading.name] \in Storages
  BY <1>4 DEF IInv, TypeOK, BackupType
<1> QED
  BY <1>1, <1>2, <1>4, <1>5, <1>6, <1>7, ThreadStep DEF IInv, TypeOK, BackupType

LEMMA ThreadsKeep == ASSUME IInv, Threads PROVE IInv'
<1>1. PICK n \in DOMAIN listed :
          /\ UNCHANGED threadFrame
          /\ \/ ReadStatement(n) \/ ListPartitions(n) \/ FreezeTable(n) \/ FreezePartition(n)
             \/ FreezeErrs(n) \/ TimeMatches(n) \/ FreezeSkipped(n) \/ FreezeFails(n)
  BY DEF Threads, threadFrame, IInv, TypeOK, BackupType
<1> QED
  BY <1>1, ReadStatementKeeps, ListPartitionsKeeps, FreezeTableKeeps, FreezePartitionKeeps,
      FreezeErrsKeeps,
     AfterErrorKeeps

-----------------------------------------------------------------------------
(* Users and threads.                                                       *)

LEMMA UsersKeep == ASSUME IInv, UserChanges PROVE IInv'
<1>1. /\ time' \in {time, time + 1}
      /\ UNCHANGED <<shadow, mode, pc, expected, listed, tasks, backup, reading, mixed, faults>>
  BY DEF UserChanges, RemoveFile
<1>2. ServerType' /\ ServerInv' /\ LaterFiles /\ TablesStay
  BY UserStep DEF IInv, TypeOK
<1>3. BackupType' /\ EarlyInv'
  BY <1>1 DEF IInv, TypeOK, BackupType, EarlyInv, Nobody
<1>4. ExpectedInv'
  BY <1>1 DEF IInv, TypeOK, ServerType, ExpectedInv
<1>5. ReadInv' /\ BackupInv'
  BY <1>1 DEF IInv, ReadInv, BackupInv, OneSnapshot, Nobody
<1>6. ASSUME NEW n \in DOMAIN listed, Unchanged(n)'
      PROVE  Unchanged(n) /\ files'[n] = files[n] /\ tables'[n] \in {tables[n], NoTable}
  <2>1. n \in Names /\ n \in DOMAIN expected
    BY DEF IInv, TypeOK, BackupType
  <2>2. expected[n] \in Nat /\ expected[n] <= time
    BY <2>1 DEF IInv, ExpectedInv, EarlyInv
  <2>3. files'[n] # NoFile /\ files'[n].time = expected[n]
    BY <1>1, <1>6 DEF Unchanged, HasFile
  <2>4. files'[n].time # time + 1
    BY <2>2, <2>3 DEF IInv, TypeOK, ServerType
  <2>5. files'[n] = files[n]
    BY <1>2, <2>1, <2>3, <2>4 DEF LaterFiles
  <2> QED
    BY <1>2, <2>1, <2>3, <2>5 DEF TablesStay, Unchanged, HasFile
<1>7. FrozenInv'
  <2> SUFFICES ASSUME NEW n \in DOMAIN listed, Unchanged(n)' PROVE FrozenOK(n)'
    BY <1>1 DEF FrozenInv, FrozenOK
  <2>1. FrozenOK(n) /\ Unchanged(n) /\ files'[n] = files[n]
    BY <1>6 DEF IInv, FrozenInv
  <2> QED
    BY <1>1, <2>1 DEF FrozenOK, StatementIn, OneEach
<1>8. FailureInv'
  <2>1. ASSUME NEW n \in DOMAIN listed, faults = 0, Unchanged(n)' PROVE FailureOK(n)'
    BY <1>1, <1>6, <2>1 DEF IInv, FailureInv, FailureOK
  <2>2. ASSUME NEW n \in DOMAIN listed, faults = 0 PROVE FailureOK(n)'
    BY <2>1, <2>2 DEF FailureOK
  <2> QED
    BY <1>1, <2>2 DEF IInv, FailureInv
<1> QED
  BY <1>2, <1>3, <1>4, <1>5, <1>7, <1>8 DEF IInv, TypeOK

-----------------------------------------------------------------------------
(* The backup.                                                              *)

mainFrame == <<serverVars, mode, mixed, faults>>

\* Before the tables are submitted there is nothing to keep.
LEMMA BeforeSubmission ==
    ASSUME IInv, pc \in {"collect", "stat"}
    PROVE  /\ DOMAIN listed = {} /\ DOMAIN backup = {} /\ reading = Nobody
           /\ \A s \in Storages : shadow[s] = {}
BY DEF IInv, EarlyInv, TypeOK, BackupType

LEMMA ListingKeeps ==
    ASSUME IInv, UNCHANGED mainFrame, CollectChangeTimes \/ Stat
    PROVE  IInv'
<1> USE DEF mainFrame, serverVars
<1>1. /\ pc \in {"collect", "stat"} /\ pc' = "stat"
      /\ UNCHANGED <<shadow, listed, tasks, backup, reading>>
  BY DEF CollectChangeTimes, Stat
<1>2. /\ DOMAIN listed = {} /\ DOMAIN backup = {} /\ reading = Nobody
      /\ \A s \in Storages : shadow[s] = {}
  BY <1>1, BeforeSubmission
<1>3. /\ DOMAIN expected' \subseteq Names /\ expected' \in [DOMAIN expected' -> Nat \cup {NoFile}]
      /\ \A n \in DOMAIN expected' :
             expected'[n] # NoFile => expected'[n] \in Nat /\ expected'[n] <= time
  <2>1. CASE CollectChangeTimes
    BY <2>1 DEF CollectChangeTimes, Existing
  <2>2. CASE Stat
    <3>1. PICK n \in DOMAIN expected :
              expected' = IF files[n] = NoFile THEN Restrict(expected, DOMAIN expected \ {n})
                          ELSE [expected EXCEPT ![n] = files[n].time]
      BY <2>2 DEF Stat
    <3>2. /\ DOMAIN expected \subseteq Names
          /\ expected \in [DOMAIN expected -> Nat \cup {NoFile}]
          /\ \A m \in DOMAIN expected :
                 expected[m] # NoFile => expected[m] \in Nat /\ expected[m] <= time
      BY DEF IInv, TypeOK, BackupType, ExpectedInv
    <3>3. CASE files[n] = NoFile
      BY <3>1, <3>2, <3>3 DEF Restrict
    <3>4. CASE files[n] # NoFile
      <4>1. files[n].time \in Nat /\ files[n].time <= time
        BY <3>2, <3>4 DEF IInv, TypeOK, ServerType, MetadataFile, ServerInv, FilesAreTrue
      <4> QED
        BY <3>1, <3>2, <3>4, <4>1
    <3> QED
      BY <3>3, <3>4
  <2> QED
    BY <2>1, <2>2
<1>4. TypeOK'
  BY <1>1, <1>2, <1>3 DEF IInv, TypeOK, ServerType, BackupType, Nobody
<1>5. ServerInv' /\ ExpectedInv' /\ EarlyInv'
  BY <1>1, <1>2, <1>3
  DEF IInv, ServerInv, TablesHaveFiles, FilesAreTrue, OneFile, ExpectedInv, EarlyInv
<1>6. FrozenInv' /\ ReadInv' /\ BackupInv' /\ FailureInv'
  BY <1>1, <1>2 DEF FrozenInv, ReadInv, BackupInv, FailureInv
<1> QED
  BY <1>4, <1>5, <1>6 DEF IInv

LEMMA SubmitTablesKeeps ==
    ASSUME IInv, UNCHANGED mainFrame, SubmitTables
    PROVE  IInv'
<1> USE DEF mainFrame, serverVars
<1>1. /\ DOMAIN listed = {} /\ DOMAIN backup = {} /\ reading = Nobody
      /\ \A s \in Storages : shadow[s] = {}
  BY BeforeSubmission DEF SubmitTables
<1>2. /\ pc' = "backup" /\ UNCHANGED <<shadow, expected, backup, reading>>
      /\ \A n \in DOMAIN expected : expected[n] # NoFile
  BY DEF SubmitTables, Range
<1>3. listed' = [n \in Existing \cap DOMAIN expected |-> tables[n]]
  BY DEF SubmitTables, Restrict
<1>4. /\ DOMAIN listed' \subseteq DOMAIN expected /\ DOMAIN listed' \subseteq Names
      /\ listed' \in [DOMAIN listed' -> Storages]
      /\ \A n \in DOMAIN listed' : tables[n] # NoTable /\ listed'[n] = tables[n]
  BY <1>3 DEF Existing, IInv, TypeOK, ServerType, BackupType
<1>5. tasks' = [n \in DOMAIN listed' |-> [state |-> "submitted", statement |-> NoFile,
                                         left |-> {}, failed |-> FALSE]]
  BY DEF SubmitTables
<1>6. tasks' \in [DOMAIN listed' -> Task]
  BY <1>5 DEF Task, States
<1>7. TypeOK'
  BY <1>1, <1>2, <1>4, <1>6 DEF IInv, TypeOK, ServerType, BackupType, Nobody
<1>8. ServerInv' /\ ExpectedInv' /\ EarlyInv'
  BY <1>2
  DEF IInv, ServerInv, TablesHaveFiles, FilesAreTrue, OneFile, ExpectedInv, EarlyInv
<1>9. FrozenInv'
  <2> SUFFICES ASSUME NEW n \in DOMAIN listed' PROVE FrozenOK(n)'
    BY DEF FrozenInv
  <2>1. files[n].storage = listed'[n] /\ listed'[n] \in Storages
    BY <1>4 DEF IInv, ServerInv, TablesHaveFiles
  <2>2. shadow'[listed'[n]] = {} /\ tasks'[n].state = "submitted"
    BY <1>1, <1>2, <1>5, <2>1
  <2> QED
    BY <2>1, <2>2 DEF FrozenOK, OneEach
<1>10. FailureInv'
  BY <1>2, <1>5 DEF FailureInv, FailureOK
<1> QED
  BY <1>1, <1>2, <1>7, <1>8, <1>9, <1>10 DEF IInv, ReadInv, BackupInv

LEMMA AddTableKeeps ==
    ASSUME IInv, UNCHANGED mainFrame, AddTable
    PROVE  IInv'
<1> USE DEF mainFrame, serverVars
<1>1. PICK n \in DOMAIN tasks :
          /\ Completed(n, "frozen") /\ Unchanged(n)
          /\ tasks' = [tasks EXCEPT ![n].state = "done"]
          /\ backup' = [m \in DOMAIN backup \cup {n} |->
                            IF m = n THEN [storage |-> listed[n], statement |-> tasks[n].statement,
                                           parts |-> {}]
                            ELSE backup[m]]
          /\ reading' = IF mode = "schema_only" THEN Nobody ELSE [name |-> n, left |-> Partitions]
          /\ UNCHANGED <<shadow, pc, expected, listed>>
  BY DEF AddTable
<1>2. /\ n \in DOMAIN listed /\ n \in Names /\ listed[n] \in Storages /\ tasks[n] \in Task
      /\ tasks[n].state = "frozen" /\ pc = "backup" /\ reading = Nobody
  BY <1>1 DEF Completed, IInv, TypeOK, BackupType
<1>3. /\ tasks'[n] = [tasks[n] EXCEPT !.state = "done"] /\ tasks'[n] \in Task
      /\ \A m \in DOMAIN listed \ {n} : tasks'[m] = tasks[m]
      /\ tasks' \in [DOMAIN listed -> Task]
      /\ tasks'[n].state = "done" /\ tasks'[n].statement = tasks[n].statement
      /\ tasks'[n].failed = tasks[n].failed
  BY <1>1, <1>2 DEF IInv, TypeOK, BackupType, Task, States
<1>4. /\ DOMAIN backup' = DOMAIN backup \cup {n}
      /\ backup'[n] = [storage |-> listed[n], statement |-> tasks[n].statement, parts |-> {}]
      /\ \A m \in DOMAIN backup \ {n} : backup'[m] = backup[m]
  BY <1>1
<1>5. /\ files[n].storage = listed[n] /\ tasks[n].statement = StatementIn(files[n])
      /\ \A x \in shadow[listed[n]] : x.storage = listed[n] /\ x.schema = files[n].schema
      /\ OneEach(shadow[listed[n]])
  BY <1>1, <1>2 DEF IInv, FrozenInv, FrozenOK
<1>6. TypeOK'
  <2>1. backup'[n] \in BackedUp
    BY <1>2, <1>4 DEF BackedUp, Task
  <2>2. backup' \in [DOMAIN backup' -> BackedUp] /\ DOMAIN backup' \subseteq DOMAIN listed
    BY <1>1, <1>2, <1>4, <2>1 DEF IInv, TypeOK, BackupType
  <2>3. reading' = Nobody \/ reading' \in [name : DOMAIN backup', left : SUBSET Partitions]
    BY <1>1, <1>4 DEF Nobody
  <2> QED
    BY <1>1, <1>3, <2>2, <2>3 DEF IInv, TypeOK, ServerType, BackupType, Nobody
<1>7. ServerInv' /\ ExpectedInv' /\ EarlyInv'
  BY <1>1, <1>2
  DEF IInv, ServerInv, TablesHaveFiles, FilesAreTrue, OneFile, ExpectedInv, EarlyInv
<1>8. BackupInv'
  <2> SUFFICES ASSUME NEW m \in DOMAIN backup'
               PROVE  /\ tasks'[m].state = "done"
                      /\ backup'[m].storage = listed[m]
                      /\ backup'[m].statement.storage = listed[m]
                      /\ listed[m] \notin mixed => OneSnapshot(backup'[m])
    BY <1>1 DEF BackupInv, OneSnapshot
  <2>1. CASE m = n
    <3>1. /\ backup'[n].storage = listed[n] /\ backup'[n].parts = {}
          /\ backup'[n].statement.storage = listed[n]
      BY <1>4, <1>5 DEF StatementIn
    <3> QED
      BY <1>3, <2>1, <3>1 DEF OneSnapshot
  <2>2. CASE m # n
    BY <1>3, <1>4, <2>2 DEF IInv, BackupInv, TypeOK, BackupType
  <2> QED
    BY <2>1, <2>2
<1>9. ReadInv'
  <2> SUFFICES ASSUME reading' # Nobody
               PROVE  OneSnapshot([backup'[n] EXCEPT !.parts = @ \cup shadow[listed[n]]])
    BY <1>1 DEF ReadInv, OneSnapshot, Nobody
  <2>1. [backup'[n] EXCEPT !.parts = @ \cup shadow[listed[n]]]
            = [storage |-> listed[n], statement |-> StatementIn(files[n]),
               parts |-> shadow[listed[n]]]
    BY <1>4, <1>5
  <2> QED
    BY <1>5, <2>1 DEF OneSnapshot, StatementIn, OneEach
<1>10. FrozenInv'
  <2>1. ASSUME NEW m \in DOMAIN listed \ {n} PROVE FrozenOK(m)'
    BY <1>1, <1>3, OtherFrozenOK DEF IInv, FrozenInv
  <2>2. FrozenOK(n)'
    BY <1>1, <1>2, <1>3, <1>5 DEF FrozenOK, StatementIn, OneEach
  <2> QED
    BY <1>1, <2>1, <2>2 DEF FrozenInv
<1>11. FailureInv'
  <2>1. ASSUME NEW m \in DOMAIN listed, faults = 0 PROVE FailureOK(m)'
    <3>1. FailureOK(m)
      BY <2>1 DEF IInv, FailureInv
    <3>2. /\ tasks'[m].failed = tasks[m].failed
          /\ tasks'[m].state = tasks[m].state \/ tasks'[m].state = "done"
      BY <1>3
    <3> QED
      BY <1>1, <3>1, <3>2 DEF FailureOK, Unchanged, HasFile
  <2> QED
    BY <1>1, <1>2, <2>1 DEF FailureInv
<1> QED
  BY <1>6, <1>7, <1>8, <1>9, <1>10, <1>11 DEF IInv

LEMMA SkipTableKeeps ==
    ASSUME IInv, UNCHANGED mainFrame, SkipTable
    PROVE  IInv'
<1> USE DEF mainFrame, serverVars
<1>1. PICK n \in DOMAIN tasks :
          /\ Completed(n, "frozen") /\ ~Unchanged(n)
          /\ tasks' = [tasks EXCEPT ![n].state = "skipped"]
          /\ RemoveFrozen(n)
          /\ UNCHANGED <<pc, expected, listed, backup, reading>>
  BY DEF SkipTable
<1>2. n \in DOMAIN listed /\ tasks[n] \in Task /\ tasks[n].state = "frozen" /\ pc = "backup"
      /\ reading = Nobody
  BY <1>1 DEF Completed, IInv, TypeOK, BackupType
<1> DEFINE task == [tasks[n] EXCEPT !.state = "skipped"]
<1>3. task \in Task /\ tasks' = [tasks EXCEPT ![n] = task]
  BY <1>1, <1>2 DEF Task, States
<1>4. /\ shadow' \in [Storages -> SUBSET Part]
      /\ \A s \in Storages : shadow'[s] \subseteq shadow[s]
      /\ \A m \in DOMAIN listed : listed[m] \in Storages
  BY <1>1 DEF RemoveFrozen, IInv, TypeOK, BackupType
<1>5. FrozenOK(n)' /\ FailureOK(n)'
  BY <1>1 DEF FrozenOK, FailureOK, Unchanged, HasFile
<1> QED
  BY <1>1, <1>2, <1>3, <1>4, <1>5, ThreadStep DEF threadFrame, IInv, TypeOK, BackupType

LEMMA ReadingKeeps ==
    ASSUME IInv, UNCHANGED mainFrame, ReadFrozenParts
    PROVE  IInv'
<1> USE DEF mainFrame, serverVars
<1> DEFINE n == reading.name
           s == listed[n]
<1>1. PICK p \in reading.left :
          /\ backup' = [backup EXCEPT ![n].parts =
                            @ \cup {part \in shadow[s] : part.partition = p}]
          /\ reading' = [reading EXCEPT !.left = @ \ {p}]
          /\ UNCHANGED <<shadow, pc, expected, listed, tasks>>
  BY DEF ReadFrozenParts
<1>2. /\ reading # Nobody /\ n \in DOMAIN backup /\ n \in DOMAIN listed /\ s \in Storages
      /\ backup[n] \in BackedUp /\ shadow[s] \subseteq Part
      /\ reading \in [name : DOMAIN backup, left : SUBSET Partitions]
  BY <1>1 DEF Nobody, IInv, TypeOK, BackupType
<1> DEFINE read == {part \in shadow[s] : part.partition = p}
<1>3. /\ backup'[n] = [backup[n] EXCEPT !.parts = @ \cup read] /\ backup'[n] \in BackedUp
      /\ \A m \in DOMAIN backup \ {n} : backup'[m] = backup[m]
      /\ backup' \in [DOMAIN backup -> BackedUp]
  BY <1>1, <1>2 DEF BackedUp, IInv, TypeOK, BackupType
<1>4. /\ reading' \in [name : DOMAIN backup, left : SUBSET Partitions]
      /\ reading'.name = n
  BY <1>1, <1>2
<1>5. TypeOK'
  BY <1>1, <1>3, <1>4 DEF IInv, TypeOK, ServerType, BackupType
<1>6. ServerInv' /\ ExpectedInv' /\ EarlyInv' /\ FrozenInv' /\ FailureInv'
  BY <1>1, <1>2
  DEF IInv, ServerInv, TablesHaveFiles, FilesAreTrue, OneFile, ExpectedInv, EarlyInv, FrozenInv,
      FrozenOK, OneEach, FailureInv, FailureOK, Unchanged, HasFile
<1>7. /\ backup'[n].storage = backup[n].storage /\ backup'[n].statement = backup[n].statement
      /\ backup'[n].parts = backup[n].parts \cup read
  BY <1>2, <1>3 DEF BackedUp
<1>8. ASSUME s \notin mixed
      PROVE  /\ OneSnapshot(backup'[n])
             /\ OneSnapshot([backup'[n] EXCEPT !.parts = @ \cup shadow[s]])
  <2>1. OneSnapshot([backup[n] EXCEPT !.parts = @ \cup shadow[s]])
    BY <1>2, <1>8 DEF IInv, ReadInv
  <2>2. \A x \in backup[n].parts \cup shadow[s] :
            /\ x.storage = backup[n].storage /\ x.schema = backup[n].statement.schema
            /\ \A y \in backup[n].parts \cup shadow[s] : y.partition = x.partition => y = x
    BY <1>2, <2>1 DEF OneSnapshot, BackedUp
  <2>3. [backup'[n] EXCEPT !.parts = @ \cup shadow[s]].parts = backup[n].parts \cup shadow[s]
    BY <1>3, <1>7 DEF BackedUp
  <2> QED
    BY <1>3, <1>7, <2>2, <2>3 DEF OneSnapshot, BackedUp
<1>9. BackupInv'
  <2> SUFFICES ASSUME NEW m \in DOMAIN backup
               PROVE  /\ tasks[m].state = "done"
                      /\ backup'[m].storage = listed[m]
                      /\ backup'[m].statement.storage = listed[m]
                      /\ listed[m] \notin mixed => OneSnapshot(backup'[m])
    BY <1>1, <1>3 DEF BackupInv, OneSnapshot
  <2>1. /\ tasks[m].state = "done" /\ backup[m].storage = listed[m]
        /\ backup[m].statement.storage = listed[m]
        /\ listed[m] \notin mixed => OneSnapshot(backup[m])
    BY DEF IInv, BackupInv
  <2>2. CASE m = n
    BY <1>7, <1>8, <2>1, <2>2
  <2>3. CASE m # n
    BY <1>3, <2>1, <2>3
  <2> QED
    BY <2>2, <2>3
<1>10. ReadInv'
  BY <1>1, <1>4, <1>8 DEF ReadInv, OneSnapshot, Nobody
<1> QED
  BY <1>5, <1>6, <1>9, <1>10 DEF IInv

LEMMA EndingKeeps ==
    ASSUME IInv, UNCHANGED mainFrame, TableUploaded \/ BackupFails \/ BackupEnds
    PROVE  IInv'
<1> USE DEF mainFrame, serverVars
<1>1. /\ pc = "backup"
      /\ reading' = Nobody \/ reading' = reading
      /\ UNCHANGED <<expected, listed, tasks, backup>>
      /\ pc' \in {"backup", "done", "failed"}
      /\ pc' = "failed" => \E n \in DOMAIN listed : tasks[n].state = "failed"
      /\ shadow' \in [Storages -> SUBSET Part]
      /\ \A s \in Storages : shadow'[s] \subseteq shadow[s]
  BY DEF TableUploaded, BackupFails, BackupEnds, Completed, RemoveFrozen, IInv, TypeOK, BackupType
<1>2. /\ reading' = Nobody \/ (reading' = reading /\ shadow' = shadow)
      /\ pc = "backup"
  BY DEF TableUploaded, BackupFails, BackupEnds, Completed
<1>3. TypeOK'
  BY <1>1, <1>2 DEF IInv, TypeOK, ServerType, BackupType, Nobody
<1>4. ServerInv' /\ ExpectedInv' /\ EarlyInv'
  BY <1>1, <1>2
  DEF IInv, ServerInv, TablesHaveFiles, FilesAreTrue, OneFile, ExpectedInv, EarlyInv
<1>5. FrozenInv'
  <2> SUFFICES ASSUME NEW n \in DOMAIN listed PROVE FrozenOK(n)'
    BY <1>1 DEF FrozenInv
  <2>1. shadow'[listed[n]] \subseteq shadow[listed[n]]
    BY <1>1 DEF IInv, TypeOK, BackupType
  <2> QED
    BY <1>1, <2>1, OtherFrozenOK DEF IInv, FrozenInv
<1>6. ReadInv' /\ BackupInv'
  BY <1>1, <1>2 DEF IInv, ReadInv, BackupInv, OneSnapshot, Nobody
<1>7. FailureInv'
  BY <1>1, <1>2 DEF IInv, FailureInv, FailureOK, Unchanged, HasFile
<1> QED
  BY <1>3, <1>4, <1>5, <1>6, <1>7 DEF IInv

LEMMA MainKeeps == ASSUME IInv, Main PROVE IInv'
BY ListingKeeps, SubmitTablesKeeps, AddTableKeeps, SkipTableKeeps, ReadingKeeps, EndingKeeps
DEF Main, mainFrame

-----------------------------------------------------------------------------
(* The theorems.                                                            *)

\* What holds of the files, the frozen parts and the backup at every step.
THEOREM Invariance == Spec => []IInv
<1>1. Init => IInv
  <2> SUFFICES ASSUME Init PROVE IInv
    OBVIOUS
  <2>1. /\ tables = Initially /\ tables \in [Names -> Storages]
        /\ \A m, n \in Names : tables[m] = tables[n] => m = n
    BY FreezeAssumption DEF Init, IsInjective
  <2>2. files = [n \in Names |-> [storage |-> tables[n], schema |-> 0, time |-> 0]]
    BY DEF Init
  <2>3. schema = [s \in {tables[n] : n \in Names} |-> 0]
    BY <2>1 DEF Init, Range
  <2>4. time = 0 /\ versions = [s \in Storages |-> [p \in Partitions |-> 0]]
    BY DEF Init
  <2>5. ServerType
    BY <2>1, <2>2, <2>3, <2>4 DEF ServerType, MetadataFile
  <2>6. ServerInv
    BY <2>1, <2>2, <2>3, <2>4, FreezeAssumption
    DEF ServerInv, TablesHaveFiles, FilesAreTrue, OneFile
  <2>7. BackupType
    BY DEF Init, BackupType, Nothing, Nobody
  <2>8. /\ DOMAIN expected = {} /\ DOMAIN listed = {} /\ DOMAIN backup = {} /\ reading = Nobody
        /\ pc = "collect" /\ \A s \in Storages : shadow[s] = {}
    BY DEF Init, Nothing
  <2>9. ExpectedInv /\ EarlyInv /\ FrozenInv /\ ReadInv /\ BackupInv /\ FailureInv
    BY <2>8 DEF ExpectedInv, EarlyInv, FrozenInv, ReadInv, BackupInv, FailureInv
  <2> QED
    BY <2>5, <2>6, <2>7, <2>9 DEF IInv, TypeOK
<1>2. IInv /\ [Next]_vars => IInv'
  <2> SUFFICES ASSUME IInv, [Next]_vars PROVE IInv'
    OBVIOUS
  <2>1. CASE UNCHANGED vars
    BY <2>1
    DEF vars, serverVars, IInv, TypeOK, ServerType, BackupType, ServerInv, TablesHaveFiles,
        FilesAreTrue, OneFile, ExpectedInv, EarlyInv, FrozenInv, FrozenOK, OneEach, ReadInv,
        BackupInv, OneSnapshot, FailureInv, FailureOK, Unchanged, HasFile
  <2> QED
    BY <2>1, UsersKeep, ThreadsKeep, MainKeeps DEF Next, Ended
<1> QED
  BY <1>1, <1>2, PTL DEF Spec

\* Statement and data of a table in the backup belong together, whatever users do to
\* the tables meanwhile (change_times in TableBackup.backup).
THEOREM BacksUpTogether == Spec => []BackedUpTogether
<1>1. IInv => BackedUpTogether
  BY DEF IInv, BackupInv, BackedUpTogether
<1> QED
  BY <1>1, Invariance, PTL

\* Only errors other than changes of users make a backup fail, and tables created
\* anew (_freeze_table).
THEOREM ChangesFailNothing == Spec => []ChangesAreNoFailures
<1>1. IInv => ChangesAreNoFailures
  BY DEF IInv, FailureInv, FailureOK, ChangesAreNoFailures, TypeOK, BackupType
<1> QED
  BY <1>1, Invariance, PTL

-----------------------------------------------------------------------------
(* Tables nobody touched.                                                   *)

\* Partitions of which there is a part.
PartitionsIn(parts) == {part.partition : part \in parts}

\* A table that is there with the file it had in the beginning.
Untouched(n) == tables[n] # NoTable /\ files[n] # NoFile /\ files[n].time = 0

\* The tables to be frozen have a directory each.
ListedInjective == \A m, n \in DOMAIN listed : listed[m] = listed[n] => m = n

\* The table is listed, with the change time it has.
AccountListed(n) ==
    /\ pc = "stat" => n \in DOMAIN expected /\ expected[n] \in {NoFile, 0}
    /\ pc \notin {"collect", "stat"} => n \in DOMAIN listed /\ expected[n] = 0

\* Parts that were frozen without an error are in its directory, until they are read.
AccountFrozen(n) ==
    n \in DOMAIN listed =>
        /\ tasks[n].state # "skipped"
        /\ tasks[n].state = "freezing" /\ ~tasks[n].failed =>
               Partitions \ tasks[n].left \subseteq PartitionsIn(shadow[listed[n]])
        /\ tasks[n].state = "frozen" /\ mode # "schema_only" =>
               Partitions \subseteq PartitionsIn(shadow[listed[n]])

\* Parts that are not in the backup yet are still in the directory.
AccountRead(n) ==
    n \in DOMAIN listed /\ tasks[n].state = "done" =>
        /\ n \in DOMAIN backup
        /\ mode # "schema_only" =>
              \A p \in Partitions :
                  IF reading # Nobody /\ reading.name = n /\ p \in reading.left
                  THEN p \in PartitionsIn(shadow[listed[n]])
                  ELSE p \in PartitionsIn(backup[n].parts)

EndInv ==
    pc = "done" =>
        /\ reading = Nobody
        /\ \A n \in DOMAIN listed : tasks[n].state \in {"done", "skipped"}

Account(n) == Untouched(n) => AccountListed(n) /\ AccountFrozen(n) /\ AccountRead(n)

AccountInv == ListedInjective /\ EndInv /\ \A n \in Names : Account(n)

LEMMA UntouchedUnchanged ==
    ASSUME IInv, AccountInv, NEW n \in DOMAIN listed, Untouched(n)
    PROVE  Unchanged(n) /\ tables[n] = listed[n] /\ pc \notin {"collect", "stat"}
<1>1. n \in Names /\ pc \notin {"collect", "stat"}
  BY DEF IInv, TypeOK, BackupType, EarlyInv
<1>2. Unchanged(n)
  BY <1>1 DEF AccountInv, Account, AccountListed, Untouched, Unchanged, HasFile
<1>3. files[n].storage = listed[n]
  BY <1>2 DEF IInv, FrozenInv, FrozenOK
<1> QED
  BY <1>1, <1>2, <1>3 DEF IInv, ServerInv, TablesHaveFiles, Untouched

LEMMA UsersKeepAccount == ASSUME IInv, AccountInv, UserChanges PROVE AccountInv'
<1>1. /\ LaterFiles /\ TablesStay
      /\ UNCHANGED <<shadow, mode, pc, expected, listed, tasks, backup, reading>>
      /\ time \in Nat
  BY UserStep DEF IInv, TypeOK, UserChanges, ServerType
<1>2. ASSUME NEW n \in Names, Untouched(n)' PROVE Untouched(n)
  <2>1. files'[n] = files[n] /\ tables'[n] # NoTable
    BY <1>1, <1>2 DEF LaterFiles, Untouched
  <2> QED
    BY <1>1, <1>2, <2>1 DEF TablesStay, Untouched
<1> QED
  BY <1>1, <1>2
  DEF AccountInv, ListedInjective, EndInv, Account, AccountListed, AccountFrozen, AccountRead,
      PartitionsIn

\* What a step of a thread has to show: its own table.
LEMMA ThreadKeepsAccount ==
    ASSUME IInv, AccountInv, UNCHANGED threadFrame, NEW n \in DOMAIN listed,
           tasks[n].state \notin {"done", "skipped"},
           NEW task \in Task, task.state # "done", tasks' = [tasks EXCEPT ![n] = task],
           \A m \in DOMAIN listed \ {n} : shadow[listed[m]] \subseteq shadow'[listed[m]],
           Untouched(n) => AccountFrozen(n)'
    PROVE  AccountInv'
<1> USE DEF threadFrame, serverVars
<1>1. /\ tasks'[n] = task
      /\ \A m \in DOMAIN listed \ {n} : tasks'[m] = tasks[m]
  BY DEF IInv, TypeOK, BackupType
<1>2. ListedInjective' /\ EndInv'
  BY <1>1 DEF AccountInv, ListedInjective, EndInv
<1>3. ASSUME NEW m \in Names, Untouched(m)'
      PROVE  AccountListed(m)' /\ AccountFrozen(m)' /\ AccountRead(m)'
  <2>1. Untouched(m) /\ AccountListed(m) /\ AccountFrozen(m) /\ AccountRead(m)
    BY <1>3 DEF AccountInv, Account, Untouched
  <2>2. AccountListed(m)'
    BY <2>1 DEF AccountListed
  <2>3. CASE m = n
    BY <1>1, <2>1, <2>2, <2>3 DEF AccountRead
  <2>4. CASE m \notin DOMAIN listed
    BY <2>2, <2>4 DEF AccountFrozen, AccountRead
  <2>5. CASE m \in DOMAIN listed \ {n}
    <3>1. tasks'[m] = tasks[m]
      BY <1>1, <2>5
    <3>2. PartitionsIn(shadow[listed[m]]) \subseteq PartitionsIn(shadow'[listed[m]])
      BY <2>5 DEF PartitionsIn
    <3>3. AccountFrozen(m)'
      BY <2>1, <3>1, <3>2 DEF AccountFrozen, PartitionsIn
    <3>4. AccountRead(m)'
      BY <2>1, <3>1, <3>2 DEF AccountRead, PartitionsIn
    <3> QED
      BY <2>2, <3>3, <3>4
  <2> QED
    BY <2>3, <2>4, <2>5
<1> QED
  BY <1>2, <1>3 DEF AccountInv, Account

\* Freezing adds to the directories, and all it was to add if nothing is refused.
LEMMA FreezeAdds ==
    ASSUME IInv, NEW n \in DOMAIN listed, NEW some \in SUBSET Partitions, Freeze(n, some)
    PROVE  /\ \A s \in Storages : shadow[s] \subseteq shadow'[s]
           /\ tables[n] = listed[n] /\ ~Refused(n, some) =>
                  some \cup PartitionsIn(shadow[listed[n]]) \subseteq
                      PartitionsIn(shadow'[listed[n]])
<1>1. CASE tables[n] = NoTable
  BY <1>1 DEF Freeze, Refused
<1>2. CASE tables[n] # NoTable
  <2> DEFINE s == tables[n]
             parts == PartsOf(s, some)
  <2>1. s \in Storages /\ shadow \in [Storages -> SUBSET Part]
    BY <1>2 DEF IInv, TypeOK, ServerType, BackupType
  <2>2. PICK new \in SUBSET parts :
            /\ shadow' = [shadow EXCEPT ![s] = @ \cup new]
            /\ parts \cap shadow[s] = {} => new = parts
    BY <1>2 DEF Freeze
  <2>3. \A u \in Storages : shadow[u] \subseteq shadow'[u]
    BY <2>1, <2>2
  <2>4. ASSUME tables[n] = listed[n], ~Refused(n, some)
        PROVE  some \cup PartitionsIn(shadow[s]) \subseteq PartitionsIn(shadow'[s])
    <3>1. shadow'[s] = shadow[s] \cup parts
      BY <2>1, <2>2, <2>4 DEF Refused
    <3>2. ASSUME NEW p \in some PROVE p \in PartitionsIn(parts)
      <4>1. [partition |-> p, version |-> versions[s][p], schema |-> schema[s],
             storage |-> s] \in parts
        BY DEF PartsOf
      <4> QED
        BY <4>1 DEF PartitionsIn
    <3> QED
      BY <3>1, <3>2 DEF PartitionsIn
  <2> QED
    BY <2>3, <2>4
<1> QED
  BY <1>1, <1>2

LEMMA FreezingKeepsAccount ==
    ASSUME IInv, AccountInv, UNCHANGED threadFrame, NEW n \in DOMAIN listed,
           \/ ReadStatement(n) \/ ListPartitions(n) \/ FreezeTable(n) \/ FreezePartition(n)
           \/ FreezeErrs(n)
    PROVE  AccountInv'
<1> USE DEF threadFrame, serverVars
<1>1. /\ n \in Names /\ tasks[n] \in Task /\ listed[n] \in Storages
      /\ mode \in {"table", "partitions", "schema_only"}
      /\ \A m \in DOMAIN listed : listed[m] \in Storages
      /\ tasks \in [DOMAIN listed -> Task]
  BY FreezeAssumption DEF IInv, TypeOK, BackupType
<1>2. Untouched(n) => tables[n] = listed[n] /\ AccountFrozen(n) /\ files[n] # NoFile
  BY <1>1, UntouchedUnchanged DEF AccountInv, Account, Untouched
<1>3. CASE ReadStatement(n)
  <2> DEFINE task == IF files[n] = NoFile THEN [tasks[n] EXCEPT !.state = "skipped"]
                     ELSE [tasks[n] EXCEPT
                               !.state = IF mode = "schema_only" THEN "frozen" ELSE mode,
                               !.statement = StatementIn(files[n])]
  <2>1. /\ tasks[n].state = "submitted" /\ tasks' = [tasks EXCEPT ![n] = task]
        /\ shadow' = shadow
    BY <1>3 DEF ReadStatement
  <2>2. files[n] # NoFile => StatementIn(files[n]) \in Statement
    BY <1>1 DEF StatementIn, Statement, MetadataFile, IInv, TypeOK, ServerType
  <2>3. /\ task \in Task /\ task.state # "done"
        /\ files[n] # NoFile => task.state \notin {"skipped", "freezing"}
        /\ files[n] # NoFile /\ mode # "schema_only" => task.state # "frozen"
    BY <1>1, <2>2 DEF Task, States
  <2>4. Untouched(n) => AccountFrozen(n)'
    BY <1>1, <1>2, <2>1, <2>3 DEF AccountFrozen
  <2> QED
    BY <2>1, <2>3, <2>4, ThreadKeepsAccount
<1>4. CASE ListPartitions(n)
  <2> DEFINE task == [tasks[n] EXCEPT
                          !.state = "freezing",
                          !.left = IF tables[n] = NoTable THEN {} ELSE Partitions]
  <2>1. /\ tasks[n].state = "partitions" /\ tasks' = [tasks EXCEPT ![n] = task]
        /\ shadow' = shadow
    BY <1>1, <1>4 DEF ListPartitions, Task
  <2>2. /\ task \in Task /\ task.state = "freezing"
        /\ tables[n] # NoTable => task.left = Partitions
    BY <1>1 DEF Task, States
  <2>3. Untouched(n) => AccountFrozen(n)'
    BY <1>1, <2>1, <2>2 DEF AccountFrozen, Untouched
  <2> QED
    BY <2>1, <2>2, <2>3, ThreadKeepsAccount
<1>5. CASE FreezeTable(n)
  <2>1. PICK some \in SUBSET Partitions :
            /\ Freeze(n, some)
            /\ Moves(n, "table", IF Refused(n, Partitions) THEN "error" ELSE "frozen")
            /\ some = Partitions
    BY <1>5 DEF FreezeTable
  <2>2. PICK to \in {"error", "frozen"} :
            /\ Moves(n, "table", to)
            /\ to = "frozen" => ~Refused(n, Partitions) /\ some = Partitions
    BY <2>1
  <2> DEFINE task == [tasks[n] EXCEPT !.state = to]
  <2>3. /\ tasks[n].state = "table" /\ task \in Task /\ task.state = to
        /\ tasks' = [tasks EXCEPT ![n] = task] /\ tasks'[n] = task
    <3>1. to \in States /\ TypeOK
      BY DEF States, IInv
    <3> QED
      BY <1>1, <2>2, <3>1, MovesTask DEF Task
  <2>4. /\ \A s \in Storages : shadow[s] \subseteq shadow'[s]
        /\ tables[n] = listed[n] /\ to = "frozen" =>
               Partitions \subseteq PartitionsIn(shadow'[listed[n]])
    BY <2>1, <2>2, FreezeAdds
  <2>5. Untouched(n) => AccountFrozen(n)'
    BY <1>2, <2>3, <2>4 DEF AccountFrozen, PartitionsIn
  <2> QED
    BY <1>1, <2>3, <2>4, <2>5, ThreadKeepsAccount
<1>6. CASE FreezePartition(n)
  <2>1. CASE /\ tasks[n].state = "freezing"
             /\ \E p \in tasks[n].left :
                    /\ tasks' = [tasks EXCEPT ![n].left = @ \ {p},
                                              ![n].failed = @ \/ Refused(n, {p})]
                    /\ Freeze(n, {p})
    <3>1. PICK p \in tasks[n].left :
              /\ tasks' = [tasks EXCEPT ![n].left = @ \ {p},
                                        ![n].failed = @ \/ Refused(n, {p})]
              /\ Freeze(n, {p})
      BY <2>1
    <3>2. PICK refused \in BOOLEAN : refused = (tasks[n].failed \/ Refused(n, {p}))
      BY DEF Refused
    <3> DEFINE task == [tasks[n] EXCEPT !.left = @ \ {p}, !.failed = refused]
    <3>3. /\ task \in Task /\ task.state = "freezing" /\ task.failed = refused
          /\ task.left = tasks[n].left \ {p}
          /\ p \in Partitions /\ tasks[n].left \subseteq Partitions
      BY <1>1, <2>1 DEF Task
    <3>4. tasks' = [tasks EXCEPT ![n] = task]
      BY <1>1, <3>1, <3>2 DEF Task
    <3>5. /\ \A s \in Storages : shadow[s] \subseteq shadow'[s]
          /\ tables[n] = listed[n] /\ ~refused =>
                 {p} \cup PartitionsIn(shadow[listed[n]]) \subseteq
                     PartitionsIn(shadow'[listed[n]])
      BY <3>1, <3>2, <3>3, FreezeAdds
    <3>6. ASSUME Untouched(n) PROVE AccountFrozen(n)'
      <4>1. tasks'[n] = task
        BY <1>1, <3>4
      <4>2. ASSUME ~refused
            PROVE  Partitions \ task.left \subseteq PartitionsIn(shadow'[listed[n]])
        <5>1. Partitions \ tasks[n].left \subseteq PartitionsIn(shadow[listed[n]])
          BY <1>2, <2>1, <3>2, <3>6, <4>2 DEF AccountFrozen
        <5> QED
          BY <1>2, <3>3, <3>5, <3>6, <4>2, <5>1
      <4> QED
        BY <3>3, <4>1, <4>2 DEF AccountFrozen, PartitionsIn
    <3> QED
      BY <1>1, <2>1, <3>3, <3>4, <3>5, <3>6, ThreadKeepsAccount
  <2>2. CASE /\ tasks[n].state = "freezing" /\ (tasks[n].left = {} \/ tasks[n].failed)
             /\ Moves(n, "freezing", IF tasks[n].failed THEN "error" ELSE "frozen")
             /\ UNCHANGED <<shadow, mixed, faults>>
    <3>1. PICK to \in {"error", "frozen"} :
              /\ Moves(n, "freezing", to)
              /\ to = "frozen" => ~tasks[n].failed /\ tasks[n].left = {}
      BY <2>2
    <3> DEFINE task == [tasks[n] EXCEPT !.state = to]
    <3>2. /\ task \in Task /\ task.state = to
          /\ tasks' = [tasks EXCEPT ![n] = task] /\ tasks'[n] = task
      <4>1. to \in States /\ TypeOK
        BY DEF States, IInv
      <4> QED
        BY <1>1, <3>1, <4>1, MovesTask DEF Task
    <3>3. Untouched(n) => AccountFrozen(n)'
      BY <1>2, <2>2, <3>1, <3>2 DEF AccountFrozen, PartitionsIn
    <3> QED
      BY <1>1, <2>2, <3>2, <3>3, ThreadKeepsAccount
  <2> QED
    BY <1>6, <2>1, <2>2 DEF FreezePartition
<1>7. CASE FreezeErrs(n)
  <2>1. PICK to \in {"error", "failed"}, some \in SUBSET Partitions :
            /\ tasks[n].state \in {"table", "partitions", "freezing"}
            /\ Moves(n, tasks[n].state, to) /\ Freeze(n, some)
    BY <1>1, <1>7 DEF FreezeErrs, Moves, Task
  <2> DEFINE task == [tasks[n] EXCEPT !.state = to]
  <2>2. /\ task \in Task /\ task.state = to
        /\ tasks' = [tasks EXCEPT ![n] = task] /\ tasks'[n] = task
    <3>1. to \in States /\ TypeOK
      BY DEF States, IInv
    <3> QED
      BY <1>1, <2>1, <3>1, MovesTask DEF Task
  <2>3. \A s \in Storages : shadow[s] \subseteq shadow'[s]
    BY <2>1, FreezeAdds
  <2>4. AccountFrozen(n)'
    BY <2>2 DEF AccountFrozen
  <2> QED
    BY <1>1, <2>1, <2>2, <2>3, <2>4, ThreadKeepsAccount
<1> QED
  BY <1>3, <1>4, <1>5, <1>6, <1>7

\* A table nobody touched has the time expected, and exists: it is not skipped.
LEMMA AfterErrorKeepsAccount ==
    ASSUME IInv, AccountInv, UNCHANGED threadFrame, NEW n \in DOMAIN listed,
           TimeMatches(n) \/ FreezeSkipped(n) \/ FreezeFails(n)
    PROVE  AccountInv'
<1> USE DEF threadFrame, serverVars
<1>1. PICK from \in {"error", "existing"}, to \in {"existing", "skipped", "failed"} :
          Moves(n, from, to)
  BY DEF TimeMatches, FreezeSkipped, FreezeFails, Outdated
<1> DEFINE task == [tasks[n] EXCEPT !.state = to]
<1>2. /\ tasks[n].state = from /\ task \in Task /\ task.state = to
      /\ tasks' = [tasks EXCEPT ![n] = task] /\ tasks'[n] = task
  <2>1. to \in States /\ TypeOK /\ tasks[n] \in Task
    BY DEF States, IInv, TypeOK, BackupType
  <2> QED
    BY <1>1, <2>1, MovesTask DEF Task
<1>3. \A m \in DOMAIN listed \ {n} : shadow[listed[m]] \subseteq shadow'[listed[m]]
  <2>1. \A m \in DOMAIN listed : listed[m] \in Storages
    BY DEF IInv, TypeOK, BackupType
  <2>2. shadow' = shadow \/ shadow' = [shadow EXCEPT ![listed[n]] = {}]
    BY DEF TimeMatches, FreezeSkipped, FreezeFails, RemoveFrozen
  <2> QED
    BY <2>1, <2>2 DEF AccountInv, ListedInjective, IInv, TypeOK, BackupType
<1>4. ASSUME Untouched(n) PROVE AccountFrozen(n)'
  <2>1. ~FreezeSkipped(n)
    BY <1>4, UntouchedUnchanged DEF FreezeSkipped, Exists, Untouched
  <2>2. to # "skipped"
    BY <1>1, <1>2, <2>1 DEF TimeMatches, FreezeFails, Moves, IInv, TypeOK, BackupType, Task
  <2> QED
    BY <1>2, <2>2 DEF AccountFrozen
<1> QED
  BY <1>2, <1>3, <1>4, ThreadKeepsAccount

LEMMA ThreadsKeepAccount == ASSUME IInv, AccountInv, Threads PROVE AccountInv'
BY FreezingKeepsAccount, AfterErrorKeepsAccount DEF Threads, threadFrame, IInv, TypeOK, BackupType

LEMMA ListingKeepsAccount ==
    ASSUME IInv, AccountInv, UNCHANGED mainFrame, CollectChangeTimes \/ Stat
    PROVE  AccountInv'
<1> USE DEF mainFrame, serverVars
<1>1. /\ pc \in {"collect", "stat"} /\ pc' = "stat"
      /\ UNCHANGED <<shadow, listed, tasks, backup, reading>>
  BY DEF CollectChangeTimes, Stat
<1>2. DOMAIN listed = {}
  BY <1>1, BeforeSubmission
<1>3. ASSUME NEW n \in Names, Untouched(n)
      PROVE  n \in DOMAIN expected' /\ expected'[n] \in {NoFile, 0}
  <2>1. CASE CollectChangeTimes
    BY <1>3, <2>1 DEF CollectChangeTimes, Existing, Untouched
  <2>2. CASE Stat
    <3>1. PICK m \in DOMAIN expected :
              expected' = IF files[m] = NoFile THEN Restrict(expected, DOMAIN expected \ {m})
                          ELSE [expected EXCEPT ![m] = files[m].time]
      BY <2>2 DEF Stat
    <3>2. n \in DOMAIN expected /\ expected[n] \in {NoFile, 0}
      BY <1>3, <2>2 DEF Stat, AccountInv, Account, AccountListed
    <3> QED
      BY <1>3, <3>1, <3>2 DEF Untouched, Restrict
  <2> QED
    BY <2>1, <2>2
<1>4. ASSUME NEW n \in Names, Untouched(n)'
      PROVE  AccountListed(n)' /\ AccountFrozen(n)' /\ AccountRead(n)'
  <2>1. Untouched(n)
    BY <1>4 DEF Untouched
  <2> QED
    BY <1>1, <1>2, <1>3, <2>1 DEF AccountListed, AccountFrozen, AccountRead
<1> QED
  BY <1>1, <1>2, <1>4 DEF AccountInv, Account, ListedInjective, EndInv

LEMMA SubmitKeepsAccount ==
    ASSUME IInv, AccountInv, UNCHANGED mainFrame, SubmitTables
    PROVE  AccountInv'
<1> USE DEF mainFrame, serverVars
<1>1. /\ pc = "stat" /\ pc' = "backup" /\ UNCHANGED <<shadow, expected, backup, reading>>
      /\ \A n \in DOMAIN expected : expected[n] # NoFile
  BY DEF SubmitTables, Range
<1>2. listed' = [n \in Existing \cap DOMAIN expected |-> tables[n]]
  BY DEF SubmitTables, Restrict
<1>3. \A n \in DOMAIN listed' : tasks'[n] = [state |-> "submitted", statement |-> NoFile,
                                            left |-> {}, failed |-> FALSE]
  BY DEF SubmitTables
<1>4. ListedInjective'
  <2> SUFFICES ASSUME NEW m \in DOMAIN listed', NEW n \in DOMAIN listed', listed'[m] = listed'[n]
               PROVE  m = n
    BY DEF ListedInjective
  <2>1. /\ m \in Names /\ n \in Names /\ tables[m] # NoTable /\ tables[n] # NoTable
        /\ tables[m] = tables[n]
    BY <1>2 DEF Existing
  <2> QED
    BY <2>1 DEF IInv, ServerInv, TablesHaveFiles, OneFile
<1>5. ASSUME NEW n \in Names, Untouched(n)'
      PROVE  AccountListed(n)' /\ AccountFrozen(n)' /\ AccountRead(n)'
  <2>1. Untouched(n)
    BY <1>5 DEF Untouched
  <2>2. n \in DOMAIN expected /\ expected[n] = 0
    BY <1>1, <2>1 DEF AccountInv, Account, AccountListed
  <2>3. n \in DOMAIN listed'
    BY <1>2, <2>1, <2>2 DEF Existing, Untouched
  <2> QED
    BY <1>1, <1>3, <2>2, <2>3 DEF AccountListed, AccountFrozen, AccountRead
<1> QED
  BY <1>1, <1>4, <1>5 DEF AccountInv, Account, EndInv

LEMMA AddTableKeepsAccount ==
    ASSUME IInv, AccountInv, UNCHANGED mainFrame, AddTable
    PROVE  AccountInv'
<1> USE DEF mainFrame, serverVars
<1>1. PICK n \in DOMAIN tasks :
          /\ Completed(n, "frozen")
          /\ tasks' = [tasks EXCEPT ![n].state = "done"]
          /\ backup' = [m \in DOMAIN backup \cup {n} |->
                            IF m = n THEN [storage |-> listed[n], statement |-> tasks[n].statement,
                                           parts |-> {}]
                            ELSE backup[m]]
          /\ reading' = IF mode = "schema_only" THEN Nobody ELSE [name |-> n, left |-> Partitions]
          /\ UNCHANGED <<shadow, pc, expected, listed>>
  BY DEF AddTable
<1>2. /\ n \in DOMAIN listed /\ tasks[n] \in Task /\ tasks \in [DOMAIN listed -> Task]
      /\ tasks[n].state = "frozen" /\ pc = "backup" /\ reading = Nobody
  BY <1>1 DEF Completed, IInv, TypeOK, BackupType
<1>3. /\ tasks'[n].state = "done"
      /\ \A m \in DOMAIN listed \ {n} : tasks'[m] = tasks[m]
  BY <1>1, <1>2 DEF Task
<1>4. ASSUME NEW m \in Names, Untouched(m)'
      PROVE  AccountListed(m)' /\ AccountFrozen(m)' /\ AccountRead(m)'
  <2>1. Untouched(m) /\ AccountListed(m) /\ AccountFrozen(m) /\ AccountRead(m)
    BY <1>4 DEF AccountInv, Account, Untouched
  <2>2. AccountListed(m)'
    BY <1>1, <2>1 DEF AccountListed
  <2>3. CASE m = n
    <3>1. AccountFrozen(m)'
      BY <1>3, <2>3 DEF AccountFrozen
    <3>2. n \in DOMAIN backup'
      BY <1>1
    <3>3. ASSUME mode # "schema_only"
          PROVE  /\ reading' # Nobody /\ reading'.name = n /\ reading'.left = Partitions
                 /\ \A p \in Partitions : p \in PartitionsIn(shadow[listed[n]])
      BY <1>1, <1>2, <2>1, <2>3, <3>3, FreezeAssumption
      DEF AccountFrozen, Nobody, IInv, TypeOK, BackupType
    <3>4. AccountRead(m)'
      BY <1>1, <2>3, <3>2, <3>3 DEF AccountRead, PartitionsIn
    <3> QED
      BY <2>2, <3>1, <3>4
  <2>4. CASE m # n /\ m \in DOMAIN listed
    <3>1. tasks'[m] = tasks[m]
      BY <1>3, <2>4
    <3>2. AccountFrozen(m)'
      BY <1>1, <2>1, <3>1 DEF AccountFrozen, PartitionsIn
    <3>3. m \in DOMAIN backup => m \in DOMAIN backup' /\ backup'[m] = backup[m]
      BY <1>1, <2>4
    <3>4. reading' # Nobody => reading'.name # m
      BY <1>1, <2>4 DEF Nobody
    <3>5. AccountRead(m)'
      BY <1>1, <1>2, <2>1, <3>1, <3>3, <3>4 DEF AccountRead, PartitionsIn
    <3> QED
      BY <2>2, <3>2, <3>5
  <2>5. CASE m \notin DOMAIN listed
    BY <1>1, <2>2, <2>5 DEF AccountFrozen, AccountRead
  <2> QED
    BY <2>3, <2>4, <2>5
<1> QED
  BY <1>1, <1>2, <1>4 DEF AccountInv, Account, ListedInjective, EndInv

\* A table that is skipped was changed.
LEMMA SkipTableKeepsAccount ==
    ASSUME IInv, AccountInv, UNCHANGED mainFrame, SkipTable
    PROVE  AccountInv'
<1> USE DEF mainFrame, serverVars
<1>1. PICK n \in DOMAIN tasks :
          /\ Completed(n, "frozen") /\ ~Unchanged(n)
          /\ tasks' = [tasks EXCEPT ![n].state = "skipped"]
          /\ RemoveFrozen(n)
          /\ UNCHANGED <<pc, expected, listed, backup, reading>>
  BY DEF SkipTable
<1> DEFINE task == [tasks[n] EXCEPT !.state = "skipped"]
<1>2. /\ n \in DOMAIN listed /\ tasks[n].state = "frozen"
      /\ task \in Task /\ task.state = "skipped" /\ tasks' = [tasks EXCEPT ![n] = task]
  BY <1>1 DEF Completed, IInv, TypeOK, BackupType, Task, States
<1>3. \A m \in DOMAIN listed \ {n} : shadow[listed[m]] \subseteq shadow'[listed[m]]
  BY <1>1, <1>2 DEF RemoveFrozen, AccountInv, ListedInjective, IInv, TypeOK, BackupType
<1>4. ~Untouched(n)
  BY <1>1, <1>2, UntouchedUnchanged
<1>5. UNCHANGED threadFrame
  BY <1>1 DEF threadFrame
<1> QED
  BY <1>2, <1>3, <1>4, <1>5, ThreadKeepsAccount

LEMMA ReadingKeepsAccount ==
    ASSUME IInv, AccountInv, UNCHANGED mainFrame, ReadFrozenParts
    PROVE  AccountInv'
<1> USE DEF mainFrame, serverVars
<1> DEFINE n == reading.name
<1>1. PICK p \in reading.left :
          /\ backup' = [backup EXCEPT ![n].parts =
                            @ \cup {part \in shadow[listed[n]] : part.partition = p}]
          /\ reading' = [reading EXCEPT !.left = @ \ {p}]
          /\ UNCHANGED <<shadow, pc, expected, listed, tasks>>
  BY DEF ReadFrozenParts
<1>2. /\ reading # Nobody /\ n \in DOMAIN backup /\ n \in DOMAIN listed
      /\ reading \in [name : DOMAIN backup, left : SUBSET Partitions]
      /\ backup \in [DOMAIN backup -> BackedUp]
  BY <1>1 DEF Nobody, IInv, TypeOK, BackupType
<1>3. /\ reading'.name = n /\ reading'.left = reading.left \ {p}
      /\ DOMAIN backup' = DOMAIN backup
      /\ backup'[n].parts = backup[n].parts \cup {part \in shadow[listed[n]] : part.partition = p}
      /\ \A m \in DOMAIN backup \ {n} : backup'[m] = backup[m]
  BY <1>1, <1>2 DEF BackedUp
<1>4. reading' # Nobody
  BY <1>2, <1>3, FreezeAssumption DEF Nobody, IInv, TypeOK, BackupType
<1>5. ASSUME NEW m \in Names, Untouched(m)'
      PROVE  AccountListed(m)' /\ AccountFrozen(m)' /\ AccountRead(m)'
  <2>1. Untouched(m) /\ AccountListed(m) /\ AccountFrozen(m) /\ AccountRead(m)
    BY <1>5 DEF AccountInv, Account, Untouched
  <2>2. AccountListed(m)' /\ AccountFrozen(m)'
    BY <1>1, <2>1 DEF AccountListed, AccountFrozen, PartitionsIn
  <2>3. AccountRead(m)'
    <3> SUFFICES ASSUME m \in DOMAIN listed, tasks[m].state = "done"
                 PROVE  /\ m \in DOMAIN backup
                        /\ mode # "schema_only" =>
                              \A q \in Partitions :
                                  IF n = m /\ q \in reading'.left
                                  THEN q \in PartitionsIn(shadow[listed[m]])
                                  ELSE q \in PartitionsIn(backup'[m].parts)
      BY <1>1, <1>3, <1>4 DEF AccountRead, PartitionsIn
    <3>1. /\ m \in DOMAIN backup
          /\ mode # "schema_only" =>
                \A q \in Partitions :
                    IF n = m /\ q \in reading.left
                    THEN q \in PartitionsIn(shadow[listed[m]])
                    ELSE q \in PartitionsIn(backup[m].parts)
      BY <1>2, <2>1 DEF AccountRead
    <3>2. CASE m = n
      <4>1. p \in PartitionsIn(shadow[listed[n]]) => p \in PartitionsIn(backup'[n].parts)
        BY <1>3 DEF PartitionsIn
      <4>2. PartitionsIn(backup[n].parts) \subseteq PartitionsIn(backup'[n].parts)
        BY <1>3 DEF PartitionsIn
      <4> QED
        BY <1>1, <1>3, <3>1, <3>2, <4>1, <4>2
    <3>3. CASE m # n
      BY <1>3, <3>1, <3>3
    <3> QED
      BY <3>2, <3>3
  <2> QED
    BY <2>2, <2>3
<1> QED
  BY <1>1, <1>2, <1>5 DEF AccountInv, Account, ListedInjective, EndInv

LEMMA EndingKeepsAccount ==
    ASSUME IInv, AccountInv, UNCHANGED mainFrame, TableUploaded \/ BackupFails \/ BackupEnds
    PROVE  AccountInv'
<1> USE DEF mainFrame, serverVars
<1>1. /\ pc = "backup" /\ pc' \notin {"collect", "stat"}
      /\ UNCHANGED <<expected, listed, tasks, backup>>
  BY DEF TableUploaded, BackupFails, BackupEnds, Completed
<1>2. ListedInjective'
  BY <1>1 DEF AccountInv, ListedInjective
<1>3. ASSUME NEW m \in Names, Untouched(m)
      PROVE  AccountListed(m)' /\ AccountFrozen(m) /\ AccountRead(m)
  BY <1>1, <1>3 DEF AccountInv, Account, AccountListed
<1>4. CASE TableUploaded
  <2> DEFINE n == reading.name
  <2>1. /\ reading # Nobody /\ reading.left = {} /\ reading' = Nobody
        /\ shadow' = [shadow EXCEPT ![listed[n]] = {}] /\ pc' = "backup"
    BY <1>4 DEF TableUploaded, RemoveFrozen
  <2>2. /\ n \in DOMAIN listed /\ tasks[n].state = "done"
        /\ \A m \in DOMAIN listed \ {n} : shadow'[listed[m]] = shadow[listed[m]]
    BY <2>1 DEF AccountInv, ListedInjective, IInv, TypeOK, BackupType, BackupInv
  <2>3. ASSUME NEW m \in Names, Untouched(m)'
        PROVE  AccountListed(m)' /\ AccountFrozen(m)' /\ AccountRead(m)'
    <3>1. AccountListed(m)' /\ AccountFrozen(m) /\ AccountRead(m)
      BY <1>3, <2>3 DEF Untouched
    <3>2. AccountFrozen(m)'
      BY <1>1, <2>2, <3>1 DEF AccountFrozen, PartitionsIn
    <3>3. AccountRead(m)'
      BY <1>1, <2>1, <2>2, <3>1 DEF AccountRead, PartitionsIn
    <3> QED
      BY <3>1, <3>2, <3>3
  <2> QED
    BY <1>2, <2>1, <2>3 DEF AccountInv, Account, EndInv
<1>5. CASE BackupFails
  <2>1. pc' = "failed" /\ UNCHANGED <<shadow, reading>>
    BY <1>5 DEF BackupFails
  <2>2. ASSUME NEW m \in Names, Untouched(m)'
        PROVE  AccountListed(m)' /\ AccountFrozen(m)' /\ AccountRead(m)'
    BY <1>1, <1>3, <2>1, <2>2 DEF Untouched, AccountFrozen, AccountRead, PartitionsIn
  <2> QED
    BY <1>2, <2>1, <2>2 DEF AccountInv, Account, EndInv
<1>6. CASE BackupEnds
  <2>1. /\ reading = Nobody /\ reading' = Nobody
        /\ \A n \in DOMAIN listed : tasks[n].state \in {"done", "skipped"}
    BY <1>6 DEF BackupEnds, IInv, TypeOK, BackupType
  <2>2. ASSUME NEW m \in Names, Untouched(m)'
        PROVE  AccountListed(m)' /\ AccountFrozen(m)' /\ AccountRead(m)'
    <3>1. AccountListed(m)' /\ AccountFrozen(m) /\ AccountRead(m)
      BY <1>3, <2>2 DEF Untouched
    <3> QED
      BY <1>1, <2>1, <3>1 DEF AccountFrozen, AccountRead, PartitionsIn
  <2> QED
    BY <1>1, <1>2, <2>1, <2>2 DEF AccountInv, Account, EndInv
<1> QED
  BY <1>4, <1>5, <1>6

LEMMA MainKeepsAccount == ASSUME IInv, AccountInv, Main PROVE AccountInv'
BY ListingKeepsAccount, SubmitKeepsAccount, AddTableKeepsAccount, SkipTableKeepsAccount,
   ReadingKeepsAccount, EndingKeepsAccount
DEF Main, mainFrame

LEMMA AccountInvariance == Spec => []AccountInv
<1>1. Init => AccountInv
  BY DEF Init, Nothing, AccountInv, ListedInjective, EndInv, Account, AccountListed,
         AccountFrozen, AccountRead
<1>2. IInv /\ AccountInv /\ [Next]_vars => AccountInv'
  <2> SUFFICES ASSUME IInv, AccountInv, [Next]_vars PROVE AccountInv'
    OBVIOUS
  <2>1. CASE UNCHANGED vars
    BY <2>1
    DEF vars, serverVars, AccountInv, ListedInjective, EndInv, Account, AccountListed,
        AccountFrozen, AccountRead, Untouched, PartitionsIn
  <2> QED
    BY <2>1, UsersKeepAccount, ThreadsKeepAccount, MainKeepsAccount DEF Next, Ended
<1> QED
  BY <1>1, <1>2, Invariance, PTL DEF Spec

\* A table that nobody touched is never lost: whatever happens to the tables around
\* it, a backup that ends has it, with data of every partition
\* (_check_metadata_change_time, and the directory of its own that _freeze_table and
\* TableBackup.backup clean).
THEOREM UntouchedAreBackedUp == Spec => []UntouchedBackedUp
<1>1. IInv /\ AccountInv => UntouchedBackedUp
  <2> SUFFICES ASSUME IInv, AccountInv, pc = "done", NEW n \in Names, Untouched(n)
               PROVE  /\ n \in DOMAIN backup
                      /\ mode # "schema_only" => PartitionsIn(backup[n].parts) = Partitions
    BY DEF UntouchedBackedUp, Existing, Untouched, PartitionsIn
  <2>1. n \in DOMAIN listed /\ AccountFrozen(n) /\ AccountRead(n)
    BY DEF AccountInv, Account, AccountListed
  <2>2. tasks[n].state = "done"
    BY <2>1 DEF AccountInv, EndInv, AccountFrozen
  <2>3. n \in DOMAIN backup /\ backup[n] \in BackedUp
    BY <2>1, <2>2 DEF AccountRead, IInv, TypeOK, BackupType
  <2>4. PartitionsIn(backup[n].parts) \subseteq Partitions
    BY <2>3 DEF PartitionsIn, BackedUp, Part
  <2>5. reading = Nobody
    BY DEF AccountInv, EndInv
  <2> QED
    BY <2>1, <2>2, <2>3, <2>4, <2>5 DEF AccountRead
<1> QED
  BY <1>1, Invariance, AccountInvariance, PTL

=============================================================================
