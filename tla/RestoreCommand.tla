--------------------------- MODULE RestoreCommand ---------------------------
(***************************************************************************)
(* The restore command up to the data of tables: databases, then tables,   *)
(* are dropped, attached, cleaned in ZooKeeper and created until the       *)
(* server holds those of the backup.  The command is one thread; it runs   *)
(* beside the threads that clean ZooKeeper and the DDL workers of          *)
(* Replicated databases.                                                   *)
(*                                                                         *)
(* A statement that fails in the command is a fault; one the server        *)
(* refuses is none.  Parts are the subject of RestoreParts, requirements   *)
(* among tables that of TableRestoreQueue.                                 *)
(***************************************************************************)
EXTENDS ClickHouseServer, SequencesExt

CONSTANTS
    Setups,          \* backups, options and servers to begin with
    StallThreshold,  \* sync_database_replica_stall_threshold
    MaxPolls,        \* polls until sync_database_replica_timeout
    MaxLog,          \* bound on the entries of DDL logs
    MaxFaults        \* bound on faults

ASSUME RestoreAssumption == {StallThreshold, MaxPolls, MaxLog, MaxFaults} \subseteq Nat

ServerFields == {"databases", "tables", "detached", "nodes", "broken", "log"}

TableFields == {"db", "name", "uuid", "schema", "path", "data"}

SameReplica(t, u) == IsReplicated(t) /\ t.path = u.path

\* ClickHouse has no two tables of one name or of one replica, and neither has a backup
\* of it. The paths of databases are no paths of tables, and Replicated databases have
\* a log. What is broken in ZooKeeper is there.
WellFormed(s) ==
    LET there == s.server.tables \cup s.server.detached
        backup == ToSet(s.backup)
        known == there \cup s.shared
    IN  /\ DOMAIN s.server = ServerFields
        /\ \A t \in known \cup backup : DOMAIN t = TableFields
        /\ IsFiniteSet(s.server.tables) /\ IsFiniteSet(s.server.nodes) /\ IsFiniteSet(s.shared)
        /\ s.databases \in Seq(ToSet(s.databases)) /\ s.backup \in Seq(backup)
        /\ s.server.tables \cap s.server.detached = {}
        /\ \A u \in s.server.tables, v \in there : u.name = v.name \/ SameReplica(u, v) => u = v
        /\ \A t \in backup, u \in backup : t.name = u.name \/ SameReplica(t, u) => t = u
        /\ \A u \in known, v \in known : SameReplica(u, v) => u.name = v.name
        /\ \A t \in known \cup backup : t.path \notin ToSet(s.databases)
        /\ s.server.broken \subseteq s.server.nodes
        /\ \A db \in DOMAIN s.server.log : s.server.log[db] \in [ptr : Nat, max : Nat]
        /\ \A db \in ToSet(s.databases) :
              s.engines[db] = "Replicated" => db \in DOMAIN s.server.log

ASSUME SetupsAssumption == \A s \in Setups : WellFormed(s)

VARIABLES
    setup,    \* [databases, engines, backup, only, except, options, server, shared]
    restore,  \* locals of the command
    faults

vars == <<server, setup, restore, faults>>

Option(o) == o \in setup.options

KeepGoing == Option("keep_going")

\* The elements of s that are in S. (Provers cannot look into SelectSeq.)
Keep(s, S) ==
    LET kept[i \in 0..Len(s)] ==
            IF i = 0 THEN <<>>
            ELSE IF s[i] \in S THEN Append(kept[i - 1], s[i]) ELSE kept[i - 1]
    IN  kept[Len(s)]

-----------------------------------------------------------------------------
(* What to restore.                                                         *)

Filtered == setup.only \cup setup.except # {}

\* Of two filters the excluding one is used.
Accepts(name) ==
    IF setup.except # {} THEN name \notin setup.except ELSE name \in setup.only

\* No table to restore means all of them.
TablesMeta ==
    LET accepted == {t \in ToSet(setup.backup) : Accepts(t.name)}
        tables == IF Filtered THEN Keep(setup.backup, accepted) ELSE <<>>
    IN  IF tables = <<>> THEN setup.backup ELSE tables

InReplicatedDb(t) == setup.engines[t.db] = "Replicated"

RequiresZooKeeper ==
    \/ \E db \in ToSet(setup.databases) : setup.engines[db] = "Replicated"
    \/ \E t \in ToSet(TablesMeta) : IsReplicated(t)

DuplicateUuid(tables, i) == \E j \in 1..(i - 1) : tables[j].uuid = tables[i].uuid

\* With keep_going, the first table with a UUID and those with a statement.
TablesToPreprocess ==
    LET first == {TablesMeta[i] : i \in {j \in DOMAIN TablesMeta : ~DuplicateUuid(TablesMeta, j)}}
    IN  Keep(TablesMeta, {t \in first : t.schema # "missing"})

Replicated(databases) ==
    Keep(databases, {db \in ToSet(databases) : setup.engines[db] = "Replicated"})

Init ==
    /\ setup \in Setups
    /\ server = setup.server
    /\ faults = 0
    /\ restore = [pc |-> "start", todo |-> <<>>, databases |-> <<>>, tasks |-> <<>>,
                  sync |-> [left |-> 0, again |-> FALSE], results |-> <<>>,
                  detached |-> {}, existing |-> {}, readonly |-> {}, cleaned |-> {},
                  tables |-> <<>>, result |-> <<>>, cleaning |-> <<>>, errors |-> <<>>, failed |-> {}]

At(pc) == restore.pc = pc

\* The next iteration of the loop at pc, over what is left in todo.
Item(pc) == At(pc) /\ restore.todo # <<>>

Over(pc) == At(pc) /\ restore.todo = <<>>

It == Head(restore.todo)

Skip(r) == [r EXCEPT !.todo = Tail(@)]

Loop(r, pc, todo) == [r EXCEPT !.pc = pc, !.todo = todo]

Failed(r) == [r EXCEPT !.pc = "failed"]

\* An error that keep_going passes over, unless the loop does not look at it.
Error(r) == IF KeepGoing THEN Skip(r) ELSE Failed(r)

Fault == faults < MaxFaults /\ faults' = faults + 1

NoFault == UNCHANGED faults

Proceed(r) == restore' = r /\ UNCHANGED setup

\* Statements and requests outside of the loops that keep going: the connection to
\* ZooKeeper, the drops of databases, the listing of tables and the scheduling of
\* their cleaning, the disks.
Connecting == At("start") /\ RequiresZooKeeper

DroppingDatabases == At("mismatched")

ListingTables ==
    \/ restore.pc \in {"list_tables", "list_existing", "list_readonly", "clean_readonly"}
    \/ Over("restore_replicas")
    \/ Over("preprocess") /\ restore.cleaning # <<>>

EnteringDisks == At("temporary_disks")

Raise ==
    /\ Connecting \/ DroppingDatabases \/ ListingTables \/ EnteringDisks
    /\ Fault
    /\ Proceed(Failed(restore))
    /\ UNCHANGED server

Start ==
    /\ At("start")
    /\ Proceed(Loop(restore, "mismatched", setup.databases))
    /\ NoFault /\ UNCHANGED server

-----------------------------------------------------------------------------
(* Cleaning of ZooKeeper by a pool of threads.                              *)

Cleaner == setup.options \cap {"replica-only", "all-replicas"} # {}

ReplicasToDrop(path) ==
    {node \in server.nodes :
        node[1] = path /\ (Option("replica-only") => node = Node(path))}

\* The cleanup of nodes is scheduled, and awaited[i] is awaited as the i-th.
Schedule(r, nodes, awaited, pc) ==
    [Loop(r, pc, awaited) EXCEPT
        !.tasks = [n \in DOMAIN @ \cup nodes |-> IF n \in nodes THEN "running" ELSE @[n]]]

\* SYSTEM DROP REPLICA in a thread. Some errors are no reason to stop: the path is
\* not that of a table, or the node is gone.
DropReplica ==
    \E node \in DOMAIN restore.tasks :
        /\ restore.tasks[node] = "running"
        /\ \/ /\ IsLocal(server, node)
              /\ Proceed([restore EXCEPT !.tasks[node] = "local"])
              /\ NoFault /\ UNCHANGED server
           \/ /\ ~IsLocal(server, node)
              /\ Proceed([restore EXCEPT !.tasks[node] = "dropped"])
              /\ server' = DropReplicas(server, {node})
              /\ NoFault
           \/ /\ Fault
              /\ \E error \in {"ignored", "error"} :
                    Proceed([restore EXCEPT !.tasks[node] = error])
              /\ UNCHANGED server

Awaiting == {"await_databases", "await_readonly", "await_tables"}

\* The nodes of a local table are deleted directly. Any error that is not ignored
\* ends the restore.
AwaitTask ==
    /\ restore.pc \in Awaiting /\ restore.todo # <<>> /\ restore.tasks[It] # "running"
    /\ \/ /\ restore.tasks[It] # "error" /\ NoFault
          /\ server' = IF restore.tasks[It] = "local" THEN DropReplicas(server, {It}) ELSE server
          /\ Proceed(Skip(restore))
       \/ /\ \/ restore.tasks[It] = "error" /\ NoFault
             \/ restore.tasks[It] = "local" /\ Fault
          /\ Proceed(Failed(restore))
          /\ UNCHANGED server

-----------------------------------------------------------------------------
(* Databases.                                                               *)

Present(db) == db \in DOMAIN server.databases

\* Any database of the backup counts as different.
AnyPresent(db) == Present(db)

Mismatched(db) == Present(db) /\ server.databases[db] # setup.engines[db]

DropMismatched ==
    /\ Item("mismatched")
    /\ NoFault
    /\ server' = IF Mismatched(It) THEN DropDatabase(server, It) ELSE server
    /\ Proceed([Skip(restore) EXCEPT
                   !.databases = IF Present(It) /\ ~Mismatched(It) THEN @ ELSE Append(@, It)])

\* Tasks are kept by the name of the database: of those of several replicas one
\* is awaited.
CleanDatabases ==
    /\ Over("mismatched")
    /\ LET nodes == UNION {ReplicasToDrop(db) : db \in ToSet(Replicated(restore.databases))}
           dbs == Keep(restore.databases, {n[1] : n \in nodes})
       IN  IF Cleaner
           THEN \E last \in [DOMAIN dbs -> nodes] :
                    /\ \A i \in DOMAIN dbs : last[i][1] = dbs[i]
                    /\ Proceed(Schedule(restore, nodes, last, "await_databases"))
           ELSE Proceed(Loop(restore, "create_databases", restore.databases))
    /\ NoFault /\ UNCHANGED server

DatabasesCleaned ==
    /\ Over("await_databases")
    /\ Proceed(Loop(restore, "create_databases", restore.databases))
    /\ NoFault /\ UNCHANGED server

RestoreDatabase ==
    /\ Item("create_databases")
    /\ CanCreateDatabase(server, It, setup.engines[It])
    /\ server' = CreateDatabase(server, It, setup.engines[It])
    /\ Proceed(Skip(restore))
    /\ NoFault

DatabaseFails ==
    /\ Item("create_databases")
    /\ IF CanCreateDatabase(server, It, setup.engines[It]) THEN Fault ELSE NoFault
    /\ Proceed(Error(restore))
    /\ UNCHANGED server

-----------------------------------------------------------------------------
(* Synchronisation of Replicated databases, before and after their tables.  *)

StartSync ==
    /\ Over("create_databases")
    /\ Proceed([Loop(restore, "sync", Replicated(restore.databases)) EXCEPT
                   !.sync = [left |-> MaxPolls, again |-> FALSE]])
    /\ NoFault /\ UNCHANGED server

\* The first time failures are expected, whatever keep_going says.
Synced(status) ==
    LET r == [restore EXCEPT !.results = [db \in DOMAIN @ \cup {It} |->
                                              IF db = It THEN status ELSE @[db]],
                             !.pc = "sync"]
    IN  IF status = "FAILED" /\ r.sync.again THEN Error(r) ELSE Skip(r)

\* max_log_ptr is read once.
Resolve ==
    /\ Item("sync")
    /\ UNCHANGED server
    /\ \/ /\ Present(It) /\ NoFault
          /\ LET log == server.log[It]
             IN  Proceed([restore EXCEPT !.pc = "poll",
                             !.sync = [left |-> @.left, again |-> @.again, max |-> log.max,
                                       prev |-> log.ptr, ptr |-> log.ptr, stalls |-> 0]])
       \/ /\ IF Present(It) THEN Fault ELSE NoFault
          /\ Proceed(Synced("FAILED"))

\* Compares with the pointer at the previous poll.
ReachedPrevious == restore.sync.ptr >= restore.sync.prev

Reached == restore.sync.ptr >= restore.sync.max

\* The deadline is one for all databases, and is looked at first. Errors of the
\* DDL queue may be missed; one of ZooKeeper, when the pointer is read again, is
\* a failure.
Poll ==
    /\ At("poll")
    /\ UNCHANGED server
    /\ LET s == restore.sync
           stalls == IF s.ptr = s.prev THEN s.stalls + 1 ELSE 0
           stuck == stalls > 0 /\ IsStuck(server, setup.shared, It)
       IN  \/ /\ s.left = 0 \/ (~Reached /\ (stuck \/ stalls >= StallThreshold))
              /\ Proceed(Synced("FAILED"))
              /\ NoFault
           \/ /\ s.left > 0 /\ Reached
              /\ Proceed(Synced("DONE"))
              /\ NoFault
           \/ /\ s.left > 0 /\ ~Reached /\ stalls < StallThreshold
              /\ \/ /\ Proceed([restore EXCEPT
                                !.sync = [s EXCEPT !.left = @ - 1, !.stalls = stalls,
                                                   !.prev = s.ptr, !.ptr = server.log[It].ptr]])
                    /\ NoFault
                 \/ Proceed(Synced("FAILED")) /\ Fault

FailedDatabases ==
    Keep(restore.databases, {db \in DOMAIN restore.results : restore.results[db] = "FAILED"})

\* Parts that failed end the restore in the end, if that is asked for.
End == IF Option("restore_fail_on_attach_error") /\ restore.failed # {} THEN "failed" ELSE "done"

SyncOver ==
    /\ Over("sync")
    /\ Proceed([restore EXCEPT !.pc = IF restore.sync.again THEN End ELSE "list_tables"])
    /\ NoFault /\ UNCHANGED server

SyncAgain ==
    /\ Over("data")
    /\ Proceed([Loop(restore, "sync", FailedDatabases) EXCEPT
                   !.sync = [left |-> MaxPolls, again |-> TRUE]])
    /\ NoFault /\ UNCHANGED server

-----------------------------------------------------------------------------
(* Tables that are there.                                                   *)

NamesOf(tables) == {t.name : t \in tables}

\* Two tables with one UUID, or one without a statement, need keep_going. The lists
\* are made one after another.
ListTables ==
    /\ At("list_tables")
    /\ NoFault /\ UNCHANGED server
    /\ Proceed(IF ~KeepGoing /\ Len(TablesToPreprocess) < Len(TablesMeta)
               THEN Failed(restore)
               ELSE [restore EXCEPT !.pc = "list_existing", !.tables = TablesToPreprocess,
                                    !.detached = server.detached])

ListExisting ==
    /\ At("list_existing")
    /\ Proceed([restore EXCEPT !.pc = "list_readonly", !.existing = server.tables])
    /\ NoFault /\ UNCHANGED server

ReadonlyNow == NamesOf({t \in server.tables : Readonly(server, t)})

ListReadonly ==
    /\ At("list_readonly")
    /\ Proceed([restore EXCEPT !.pc = "clean_readonly", !.readonly = ReadonlyNow])
    /\ NoFault /\ UNCHANGED server

\* Readonly tables of the backup.
Fixing ==
    IF Cleaner
    THEN Keep(restore.tables,
              {t \in ToSet(restore.tables) : IsReplicated(t) /\ t.name \in restore.readonly})
    ELSE <<>>

NodesToDrop(tables) == UNION {ReplicasToDrop(t.path) : t \in ToSet(tables)}

CleanTables(tables, pc) ==
    \E awaited \in SetToSeqs(NodesToDrop(tables)) :
        Proceed(Schedule(restore, NodesToDrop(tables), awaited, pc))

CleanReadonly ==
    /\ At("clean_readonly")
    /\ CleanTables(Fixing, "await_readonly")
    /\ NoFault /\ UNCHANGED server

ReadonlyCleaned ==
    /\ Over("await_readonly")
    /\ Proceed(Loop(restore, "restore_replicas", Fixing))
    /\ NoFault /\ UNCHANGED server

\* A replica that cannot be restored is left to be recreated.
FixReplica ==
    /\ Item("restore_replicas")
    /\ LET fixed == {t \in Named(server.tables, It.name) : CanRestoreReplica(server, t)}
       IN  \/ /\ NoFault
              /\ server' = [server EXCEPT !.nodes = @ \cup {Node(t.path) : t \in fixed}]
           \/ /\ fixed # {} /\ Fault
              /\ UNCHANGED server
    /\ Proceed(Skip(restore))

ReplicasFixed ==
    /\ Over("restore_replicas")
    /\ LET fixing == NamesOf(ToSet(Fixing))
       IN  Proceed([Loop(restore, "preprocess", restore.tables) EXCEPT
                       !.readonly = @ \ (fixing \ ReadonlyNow), !.cleaned = fixing])
    /\ NoFault /\ UNCHANGED server

DetachedAs(t) ==
    IF WithUuid(restore.detached, t.uuid) # {}
    THEN WithUuid(restore.detached, t.uuid)
    ELSE Named(restore.detached, t.name)

\* One whose metadata file is lost is attached to an empty one, and dropped.
Attached(d) ==
    IF d.schema = "missing" THEN [server EXCEPT !.detached = @ \ {d}] ELSE AttachTable(server, d)

SameStatement(t, u) == t.schema = u.schema /\ t.uuid = u.uuid

\* compare_schema leaves UUIDs out.
SameSchema(t, u) == t.schema = u.schema

\* The name of the table in the way, if any: the lists were made earlier.
InTheWay(t) ==
    IF t.name \in restore.readonly THEN {t.name}
    ELSE IF Named(restore.existing, t.name) # {} THEN {t.name}
    ELSE NamesOf(WithUuid(restore.existing, t.uuid))

IsRestoredAnyhow(t) == \E u \in Named(restore.existing, t.name) : SameSchema(t, u)

IsRestored(t) ==
    t.name \notin restore.readonly /\ \E u \in Named(restore.existing, t.name) : SameSchema(t, u)

LeftToDatabase(t) == InReplicatedDb(t) /\ ~Option("restore_tables_in_replicated_database")

DropNamed(s, names) == DropTables(s, {t \in s.tables : t.name \in names})

\* Its metadata are cleaned unless it was dropped, or cleaned before.
ToClean(t) ==
    /\ Cleaner /\ IsReplicated(t) /\ ~IsRestored(t) /\ t.name \notin restore.cleaned
    /\ LeftToDatabase(t) \/ InTheWay(t) = {}

\* A detached table is attached, then the table is left alone or is to be created,
\* without another one in its place.
PreprocessTable ==
    /\ Item("preprocess")
    /\ LET detached == DetachedAs(It)
           attached == IF detached = {} THEN server ELSE Attached(CHOOSE d \in detached : TRUE)
           possible == detached \subseteq server.detached
           left == IsRestored(It) \/ LeftToDatabase(It)
       IN  \/ /\ possible /\ NoFault
              /\ server' = IF left THEN attached ELSE DropNamed(attached, InTheWay(It))
              /\ Proceed([Skip(restore) EXCEPT
                             !.result = IF left THEN @ ELSE Append(@, It),
                             !.cleaning = IF ToClean(It) THEN Append(@, It) ELSE @])
           \/ /\ IF possible THEN Fault /\ server' \in {server, attached}
                             ELSE NoFault /\ UNCHANGED server
              /\ Proceed(Error(restore))

CleanMetadata ==
    /\ Over("preprocess")
    /\ CleanTables(restore.cleaning, "await_tables")
    /\ NoFault /\ UNCHANGED server

-----------------------------------------------------------------------------
(* Tables that are not.                                                     *)

TablesCleaned ==
    /\ Over("await_tables")
    /\ Proceed(Loop(restore, "create", restore.result))
    /\ NoFault /\ UNCHANGED server

New(t) == [t EXCEPT !.data = {}]

\* In a Replicated database CREATE waits for the DDL worker, and not for ever.
\* Elsewhere ATTACH is followed by RESTORE REPLICA, for which there must be none.
Creatable(t) ==
    IF InReplicatedDb(t)
    THEN CanCreate(server, t) /\ server.log[t.db].ptr = server.log[t.db].max
    ELSE CanAttach(server, t) /\ (IsReplicated(t) => Node(t.path) \notin server.nodes)

RestoreTableObject ==
    /\ Item("create") /\ Creatable(It)
    /\ server' = CreateTable(server, New(It))
    /\ Proceed([Skip(restore) EXCEPT !.errors = <<>>])
    /\ NoFault

\* What a failed attempt makes before it fails, or before its answer is lost.
Attempted(t) ==
    LET attached == IF ~InReplicatedDb(t) /\ CanAttach(server, t)
                    THEN AttachTable(server, New(t)) ELSE server
    IN  {attached} \cup IF Creatable(t) THEN {server, CreateTable(server, New(t))} ELSE {}

LastError(t) == <<t>>

ErrorsWith(t) == Append(restore.errors, t)

\* What is there under the name is dropped, unless that fails as well. The table
\* is tried again after the others, until errors outnumber them.
TableObjectFails ==
    /\ Item("create")
    /\ \E s \in Attempted(It) :
         \/ /\ server' = DropNamed(s, {It.name})
            /\ IF Creatable(It) THEN Fault ELSE NoFault
         \/ server' = s /\ Fault
    /\ LET errors == ErrorsWith(It)
       IN  Proceed([restore EXCEPT
                       !.errors = errors, !.todo = Append(Tail(@), It),
                       !.pc = IF Len(errors) > Len(restore.todo) THEN "created" ELSE @])

\* Data are restored to the tables of the backup that did not fail, here or not.
TablesCreated ==
    /\ At("created") \/ Over("create")
    /\ LET failed == NamesOf(ToSet(restore.errors))
           tables == Keep(TablesMeta, {t \in ToSet(TablesMeta) : t.name \notin failed})
       IN  Proceed(IF failed # {} /\ ~KeepGoing THEN Failed(restore)
                   ELSE IF Option("schema_only") THEN Loop(restore, "data", <<>>)
                   ELSE Loop(restore, "temporary_disks", tables))
    /\ NoFault /\ UNCHANGED server

EnterDisks ==
    /\ At("temporary_disks")
    /\ Proceed([restore EXCEPT !.pc = "data"])
    /\ NoFault /\ UNCHANGED server

\* The server with the rows of t, which a readonly table refuses.
WithData(t) ==
    [server EXCEPT !.tables = {IF u.name = t.name /\ ~Readonly(server, u)
                               THEN [u EXCEPT !.data = @ \cup {"backup"}] ELSE u : u \in @}]

Found(t) == Named(server.tables, t.name)

RestoreData ==
    /\ Item("data")
    /\ \E u \in Found(It) : ~Readonly(server, u)
    /\ server' = WithData(It)
    /\ Proceed(Skip(restore))
    /\ NoFault

\* A part that cannot be attached, or a directory that is not there, is recorded,
\* whatever keep_going says.
AttachFails ==
    /\ Item("data") /\ Found(It) # {}
    /\ \/ /\ \E u \in Found(It) : Readonly(server, u)
          /\ NoFault /\ UNCHANGED server
       \/ Fault /\ server' \in {server, WithData(It)}
    /\ Proceed([Skip(restore) EXCEPT !.failed = @ \cup {It.name}])

\* With keep_going a table that is not there is passed over, and so are parts whose
\* downloads cannot be scheduled; no other error is.
DataFail ==
    /\ Item("data")
    /\ \/ Found(It) = {} /\ NoFault /\ Proceed(Error(restore)) /\ UNCHANGED server
       \/ KeepGoing /\ Fault /\ Proceed(Skip(restore)) /\ UNCHANGED server
       \/ Fault /\ Proceed(Failed(restore)) /\ server' \in {server, WithData(It)}

-----------------------------------------------------------------------------
Main ==
    \/ Start \/ Raise
    \/ DropMismatched \/ CleanDatabases \/ DatabasesCleaned \/ RestoreDatabase \/ DatabaseFails
    \/ StartSync \/ Resolve \/ Poll \/ SyncOver \/ SyncAgain
    \/ ListTables \/ ListExisting \/ ListReadonly \/ CleanReadonly \/ ReadonlyCleaned
    \/ FixReplica \/ ReplicasFixed
    \/ PreprocessTable \/ CleanMetadata \/ TablesCleaned
    \/ RestoreTableObject \/ TableObjectFails \/ TablesCreated \/ EnterDisks
    \/ RestoreData \/ AttachFails \/ DataFail \/ AwaitTask

Databases == DDLWorker(setup.shared, MaxLog) /\ UNCHANGED <<setup, restore, faults>>

Ended == restore.pc \in {"done", "failed"} /\ UNCHANGED vars

Next == Main \/ DropReplica \/ Databases \/ Ended

Spec == Init /\ [][Next]_vars

\* Threads of the command run; DDL workers need not.
FairSpec == Spec /\ WF_vars(Main) /\ WF_vars(DropReplica)

-----------------------------------------------------------------------------
(* Properties.                                                              *)

SameEngine(db) ==
    db \in DOMAIN setup.server.databases /\ setup.server.databases[db] = setup.engines[db]

Apart(t, u) == t.name # u.name /\ t.uuid # u.uuid /\ (IsReplicated(u) => t.path # u.path)

\* Another table of the backup has the UUID or the replica of u.
Renamed(u) == \E t \in ToSet(TablesMeta) : t.name # u.name /\ ~Apart(t, u)

\* The tables there were to begin with, here or on the other replicas.
Known == setup.server.tables \cup setup.server.detached \cup setup.shared

\* The name or the replica of t is now that of another table.
Replaced(t) ==
    \/ \E u \in Named(setup.server.tables \cup setup.shared, t.name) : Renamed(u)
    \/ \E u \in Known : SameReplica(t, u) /\ t.name # u.name

\* The data of t are missing, and the restore has only warned of that.
WarnedOf(t) == ~Option("restore_fail_on_attach_error") /\ t.name \in restore.failed

\* A restore that succeeds without --keep-going has restored every table and its
\* data, whatever was on the server: readonly, detached and mismatching tables,
\* databases of another engine, metadata left in ZooKeeper (_restore). Tables left
\* to a Replicated database are excepted, and those another one has replaced; data
\* may be missing where attaching them failed, unless restore_fail_on_attach_error
\* is set.
SuccessRestoresAll ==
    At("done") /\ ~KeepGoing =>
        \A t \in ToSet(TablesMeta) :
            \/ LeftToDatabase(t) \/ Replaced(t)
            \/ \E u \in Named(server.tables, t.name) :
                   /\ u.schema = t.schema /\ ~Readonly(server, u)
                   /\ Option("schema_only") \/ "backup" \in u.data \/ WarnedOf(t)

\* The database of u is none that the restore creates anew.
DatabaseStays(u) == u.db \notin ToSet(setup.databases) \/ SameEngine(u.db)

\* Tables that share neither name, UUID nor path with the restored ones are not
\* dropped, filled or made readonly, by the cleaning of ZooKeeper in particular.
Unrelated(u) == DatabaseStays(u) /\ \A t \in ToSet(TablesMeta) : Apart(t, u)

UnrelatedUntouched ==
    \A u \in setup.server.tables :
        Unrelated(u) =>
            u \in server.tables /\ (Readonly(server, u) => Readonly(setup.server, u))

\* A table that is restored already is kept with its rows and its replica
\* (_preprocess_tables_to_restore), unless another one of the backup has its UUID
\* or its path.
KeepsRestoredTables ==
    \A t \in ToSet(TablesMeta), u \in setup.server.tables :
        /\ t.name = u.name /\ t.schema = u.schema /\ ~Readonly(setup.server, u)
        /\ DatabaseStays(u)
        /\ \A other \in ToSet(TablesMeta) : other = t \/ Apart(other, u)
        => \E v \in server.tables :
               v.name = u.name /\ v.uuid = u.uuid /\ u.data \subseteq v.data /\ ~Readonly(server, v)

\* When a restore succeeds without --keep-going its Replicated databases have
\* executed the log that was there (wait_sync_replicated_databases).
SyncedAtTheEnd ==
    At("done") /\ ~KeepGoing =>
        \A db \in ToSet(Replicated(restore.databases)) :
            server.log[db].ptr >= setup.server.log[db].max

\* The command ends, whatever the DDL workers do: retries, polls and waits are
\* bounded.
RestoreEnds == <>(restore.pc \in {"done", "failed"})
=============================================================================
