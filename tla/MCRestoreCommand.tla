-------------------------- MODULE MCRestoreCommand --------------------------
(***************************************************************************)
(* Restores for TLC: a database "d" and a Replicated one, "r".             *)
(***************************************************************************)
EXTENDS RestoreCommand

T(name, uuid, schema, path, data) ==
    [db |-> IF name \in {"x", "y"} THEN "r" ELSE "d", name |-> name, uuid |-> uuid,
     schema |-> schema, path |-> path, data |-> data]

B(name, uuid, path) == T(name, uuid, "new", path, {})

Server(databases, tables, detached, nodes, broken, max) ==
    [databases |-> databases, tables |-> tables, detached |-> detached, nodes |-> nodes,
     broken |-> broken, log |-> [db \in {"r"} |-> [ptr |-> max, max |-> max]]]

Setup(databases, backup, options, before, shared) ==
    [databases |-> databases, engines |-> [d |-> "Atomic", r |-> "Replicated"],
     backup |-> backup, only |-> {}, except |-> {}, options |-> options, server |-> before,
     shared |-> shared]

Other(path) == <<path, "other">>

\* Readonly tables, one with broken metadata and another schema; a table restored
\* before, and one made since.
ReadonlyTables(options) ==
    Setup(<<"d">>, <<B("a", 1, "pa"), B("b", 2, "pb"), B("c", 3, "pc")>>, options,
        Server([d |-> "Atomic"],
            {T("a", 1, "new", "pa", {"own"}), T("b", 6, "new", "pb", {"own"}),
             T("c", 3, "old", "pc", {"own"}), T("e", 5, "new", "pe", {"own"})},
            {}, {Node("pb"), Node("pc"), Node("pe"), Other("pa"), Other("pe")}, {Node("pc")}, 0),
        {})

\* Tables detached, one without its metadata file and one under the given name; a
\* table renamed since.
DetachedTables(name, options) ==
    Setup(<<"d">>, <<B("a", 1, NoPath), B("b", 2, "pb"), B("c", 3, NoPath)>>, options,
        Server([d |-> "Atomic"], {T("e", 3, "new", NoPath, {"own"})},
            {T("a", 7, "missing", NoPath, {}), T(name, 2, "new", "pb", {"own"})},
            {Node("pb")}, {}, 0),
        {})

\* A new host: the metadata of its predecessor are in ZooKeeper, and the DDL worker
\* cannot create a table before they are cleaned.
NewHost(options) ==
    Setup(<<"d", "r">>, <<B("a", 1, "pa"), B("x", 8, "px")>>, options,
        Server([n \in {} |-> ""], {}, {},
            {Node("pa"), Node("px"), Node("r"), Other("r"), Other("px")}, {}, 1),
        {B("x", 8, "px")})

\* A Replicated database that is there, with a table that may be readonly, and one of
\* another engine; a conflict of UUIDs and a missing statement.
Mixed(options, broken) ==
    Setup(<<"d", "r">>,
        <<B("a", 1, NoPath), T("b", 1, "new", NoPath, {}), T("c", 3, "missing", NoPath, {}),
          B("x", 8, "px"), B("y", 9, NoPath)>>, options,
        Server([d |-> "Lazy", r |-> "Replicated"],
            {T("e", 5, "new", "pe", {"own"}), T("x", 8, "new", "px", {"own"})},
            {}, {Node("pe"), Node("px"), Node("r")}, broken, 1),
        {})

\* A table that has got the name of another one.
RenamedTable(options) ==
    Setup(<<"d">>, <<B("a", 1, NoPath), B("b", 2, NoPath)>>, options,
        Server([d |-> "Atomic"], {T("a", 2, "new", NoPath, {"own"})}, {}, {}, {}, 0),
        {})

\* Patterns that leave out a table, whose statement on the server is another.
SomeTables(only, except) ==
    LET before == Server([d |-> "Atomic"],
                      {T("b", 2, "old", "pb", {"own"})}, {}, {Node("pb")}, {}, 0)
        all == Setup(<<"d">>, <<B("a", 1, NoPath), B("b", 2, "pb")>>, {}, before, {})
    IN  [all EXCEPT !.only = only, !.except = except]

MCSetups ==
    {SomeTables({"a"}, {}), SomeTables({}, {"b"}),
     RenamedTable({"schema_only"}), ReadonlyTables({"replica-only"}),
     ReadonlyTables({"schema_only"}),
     DetachedTables("b", {"all-replicas", "restore_fail_on_attach_error"}), DetachedTables("c", {"keep_going"}),
     NewHost({"replica-only"}), NewHost({"all-replicas", "keep_going"}),
     NewHost({"replica-only", "schema_only"}),
     NewHost({"replica-only", "restore_tables_in_replicated_database"}),
     Mixed({"replica-only", "keep_going"}, {Node("px")}), Mixed({}, {}),
     Mixed({"keep_going", "restore_tables_in_replicated_database"}, {})}

=============================================================================
