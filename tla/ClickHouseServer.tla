-------------------------- MODULE ClickHouseServer --------------------------
(***************************************************************************)
(* A ClickHouse server and its nodes in ZooKeeper, as the statements of    *)
(* control.py change them.  A statement that fails changes nothing, unless *)
(* said otherwise.                                                         *)
(*                                                                         *)
(* A table is [db, name, uuid, schema, path, data]: names tell tables of   *)
(* all databases apart, and path is NoPath if the engine is not            *)
(* replicated.  data says where the rows come from.                        *)
(***************************************************************************)
EXTENDS Naturals, Sequences, FiniteSets

CONSTANTS Me, NoPath

VARIABLE server  \* [databases, tables, detached, nodes, broken, log]

IsReplicated(t) == t.path # NoPath

\* The replica of a table, or of a database, in ZooKeeper.
Node(path) == <<path, Me>>

\* A replica without metadata in ZooKeeper, or with incomplete ones.
Readonly(s, t) ==
    IsReplicated(t) /\ (Node(t.path) \notin s.nodes \/ Node(t.path) \in s.broken)

Named(tables, name) == {t \in tables : t.name = name}

WithUuid(tables, uuid) == {t \in tables : t.uuid = uuid}

IsReplicatedDb(s, db) == db \in DOMAIN s.databases /\ s.databases[db] = "Replicated"

-----------------------------------------------------------------------------
(* Statements.                                                              *)

\* DROP TABLE removes the replica, unless the table is readonly.
DropTables(s, gone) ==
    [s EXCEPT !.tables = @ \ gone,
              !.nodes = @ \ {Node(t.path) : t \in {u \in gone : ~Readonly(s, u)}}]

DropDatabase(s, db) ==
    LET left == DropTables(s, {t \in s.tables : t.db = db})
    IN  [left EXCEPT !.databases = [d \in DOMAIN @ \ {db} |-> @[d]],
                     !.detached = {t \in @ : t.db # db},
                     !.nodes = @ \ IF IsReplicatedDb(s, db) THEN {Node(db)} ELSE {}]

\* A Replicated database does not start with a replica that exists.
CanCreateDatabase(s, db, engine) ==
    db \notin DOMAIN s.databases /\ (engine = "Replicated" => Node(db) \notin s.nodes)

CreateDatabase(s, db, engine) ==
    [s EXCEPT !.databases = [d \in DOMAIN @ \cup {db} |-> IF d = db THEN engine ELSE @[d]],
              !.nodes = @ \cup IF engine = "Replicated" THEN {Node(db)} ELSE {},
              !.log[db].ptr = 0]

AttachTable(s, t) == [s EXCEPT !.tables = @ \cup {t}, !.detached = @ \ {t}]

\* Names and UUIDs are unique, among detached tables too.
CanAttach(s, t) ==
    /\ t.db \in DOMAIN s.databases
    /\ \A u \in s.tables \cup s.detached : u.name # t.name /\ u.uuid # t.uuid

\* CREATE makes the replica, ATTACH takes the one that is there.
CanCreate(s, t) == CanAttach(s, t) /\ (IsReplicated(t) => Node(t.path) \notin s.nodes)

CreateTable(s, t) ==
    [s EXCEPT !.tables = @ \cup {t}, !.nodes = @ \cup IF IsReplicated(t) THEN {Node(t.path)} ELSE {}]

CanRestoreReplica(s, t) == Readonly(s, t) /\ Node(t.path) \notin s.nodes

RestoreReplica(s, t) == [s EXCEPT !.nodes = @ \cup {Node(t.path)}]

\* SYSTEM DROP REPLICA spares the replica of a local table.
IsLocal(s, node) == \E t \in s.tables : IsReplicated(t) /\ node = Node(t.path)

DropReplicas(s, gone) == [s EXCEPT !.nodes = @ \ gone, !.broken = @ \ gone]

-----------------------------------------------------------------------------
(* The DDL worker of a Replicated database follows the log of the database. *)
(* Its last entry makes the tables the other replicas have.                 *)

Missing(s, shared, db) == {t \in shared : t.db = db /\ Named(s.tables, t.name) = {}}

\* The worker tries the entry again and again.
IsStuck(s, shared, db) ==
    /\ s.log[db].ptr + 1 = s.log[db].max
    /\ \E t \in Missing(s, shared, db) : ~CanCreate(s, t)

Advance(s, shared, db) ==
    LET last == s.log[db].ptr + 1 = s.log[db].max
        new == IF last THEN Missing(s, shared, db) ELSE {}
    IN  [s EXCEPT !.log[db].ptr = @ + 1, !.tables = @ \cup new,
                  !.nodes = @ \cup {Node(t.path) : t \in {u \in new : IsReplicated(u)}}]

\* An entry is executed, or another host adds one.
DDLWorker(shared, longest) ==
    \E db \in DOMAIN server.log :
        /\ IsReplicatedDb(server, db)
        /\ \/ /\ server.log[db].ptr < server.log[db].max
              /\ ~IsStuck(server, shared, db)
              /\ server' = Advance(server, shared, db)
           \/ /\ server.log[db].max < longest
              /\ server' = [server EXCEPT !.log[db].max = @ + 1]
=============================================================================
