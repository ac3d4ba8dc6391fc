------------------------- MODULE RestoreCommandProofs -------------------------
(***************************************************************************)
(* Proofs about the restore command: what it leaves alone, that it waits   *)
(* for Replicated databases, and that it restores every table.             *)
(*                                                                         *)
(* A table is safe if no step of the restore has a reason to touch it: the *)
(* restored tables are apart from it, or it is one of them and restored    *)
(* already.  The server keeps it under its name, and nothing the command   *)
(* has in hand (lists, tables to create, nodes to drop) leads to it.       *)
(*                                                                         *)
(* A table that is wanted is, at every label, either on the server as the  *)
(* backup has it or still on a list that leads to its creation; no replica *)
(* of a table that is there is among those that are dropped.               *)
(***************************************************************************)
EXTENDS RestoreCommand, FiniteSetTheorems, SequenceTheorems, WellFoundedInduction, TLAPS

-----------------------------------------------------------------------------
(* Types.                                                                   *)

RestoreFields ==
    {"pc", "todo", "databases", "tasks", "sync", "results", "detached", "existing", "readonly",
     "cleaned", "tables", "result", "cleaning", "errors", "failed"}

IsSeq(s) == s \in Seq(ToSet(s))

ServerShape(s) ==
    /\ DOMAIN s = ServerFields
    /\ \A t \in s.tables : DOMAIN t = TableFields
    /\ IsFiniteSet(s.tables) /\ IsFiniteSet(s.nodes)
    /\ s.detached \subseteq setup.server.detached

Lists == {"todo", "databases", "tables", "result", "cleaning", "errors"}

CommandShape(r) ==
    /\ DOMAIN r = RestoreFields
    /\ \A l \in Lists : IsSeq(r[l])
    /\ r.detached \subseteq setup.server.detached
    /\ ToSet(r.databases) \subseteq ToSet(setup.databases)
    /\ \A l \in {"tables", "result", "cleaning"} : ToSet(r[l]) \subseteq ToSet(TablesMeta)

DatabaseLabels == {"mismatched", "create_databases"}

TableLabels == {"restore_replicas", "preprocess", "create", "temporary_disks", "data"}

SyncLabels == {"sync", "poll"}

\* What the loops go through, and what ends the restore after them.
TodoOK(r) ==
    /\ r.pc \in DatabaseLabels => ToSet(r.todo) \subseteq ToSet(setup.databases)
    /\ r.pc \in SyncLabels => ToSet(r.todo) \subseteq ToSet(Replicated(r.databases))
    /\ r.pc \in TableLabels => ToSet(r.todo) \subseteq ToSet(TablesMeta)
    /\ r.pc \in Awaiting => ToSet(r.todo) \subseteq DOMAIN r.tasks
    /\ r.pc = "done" /\ Option("restore_fail_on_attach_error") => r.failed = {}

-----------------------------------------------------------------------------
(* What is safe is kept.                                                    *)

AsRestored(t, u) == t.name = u.name /\ t.schema = u.schema /\ ~Readonly(setup.server, u)

Safe(u) ==
    /\ u \in setup.server.tables /\ DatabaseStays(u)
    /\ \A t \in ToSet(TablesMeta) : Apart(t, u) \/ AsRestored(t, u)

\* Rows may have been added to a table of the backup.
Like(w, u) ==
    /\ w.db = u.db /\ w.uuid = u.uuid /\ w.schema = u.schema /\ w.path = u.path
    /\ u.data \subseteq w.data
    /\ w = u \/ \E t \in ToSet(TablesMeta) : t.name = u.name

HasReplica(u) == IsReplicated(u) /\ ~Readonly(setup.server, u)

ServerKeeps(s, u) ==
    /\ u.db \in ToSet(setup.databases) =>
          u.db \in DOMAIN s.databases /\ s.databases[u.db] = setup.engines[u.db]
    /\ Named(s.tables, u.name) # {}
    /\ \A w \in Named(s.tables, u.name) : Like(w, u)
    /\ HasReplica(u) =>
          /\ ~Readonly(s, u)
          /\ \A w \in s.tables : w.path = u.path => w.name = u.name

\* The tables that are there have been listed.
Preprocessing ==
    {"list_readonly", "clean_readonly", "await_readonly", "restore_replicas", "preprocess"}

CommandKeeps(r, u) ==
    /\ r.pc \in Preprocessing => Named(r.existing, u.name) # {}
    /\ \A w \in Named(r.existing, u.name) : Like(w, u)
    /\ ~Readonly(setup.server, u) => u.name \notin r.readonly
    /\ HasReplica(u) => \A n \in DOMAIN r.tasks : n[1] # u.path
    /\ \A t \in ToSet(r.result) \cup ToSet(r.cleaning) : t.name # u.name
    /\ r.pc = "create" => \A t \in ToSet(r.todo) : t.name # u.name

Keeps(s, r) ==
    \A u \in setup.server.tables : Safe(u) => ServerKeeps(s, u) /\ CommandKeeps(r, u)

-----------------------------------------------------------------------------
(* What was synchronised has caught up.                                     *)

LogOK(s) ==
    /\ DOMAIN s.log = DOMAIN setup.server.log
    /\ \A db \in DOMAIN s.log :
          s.log[db] \in [ptr : Nat, max : Nat] /\ s.log[db].max >= setup.server.log[db].max

CaughtUp(s, db) == s.log[db].ptr >= setup.server.log[db].max

\* No database was synchronised yet.
Before == {"start", "mismatched", "await_databases", "create_databases"}

SyncOK(s, r) ==
    /\ LogOK(s)
    /\ r.pc \in Before => DOMAIN r.results = {}
    /\ DOMAIN r.results \subseteq ToSet(Replicated(r.databases))
    /\ \A db \in DOMAIN r.results :
          \/ r.results[db] = "FAILED"
          \/ r.results[db] = "DONE" /\ CaughtUp(s, db)
    /\ \A db \in ToSet(Replicated(r.databases)) :
          \/ r.pc \in Before \cup {"failed"}
          \/ db \in DOMAIN r.results
          \/ r.pc \in SyncLabels /\ ~r.sync.again /\ db \in ToSet(r.todo)
    /\ ~KeepGoing /\ (r.pc = "done" \/ (r.pc \in SyncLabels /\ r.sync.again)) =>
          \A db \in DOMAIN r.results :
             \/ r.results[db] = "DONE"
             \/ r.pc # "done" /\ db \in ToSet(r.todo)
    /\ r.pc = "poll" =>
          /\ r.todo # <<>> /\ {"again", "ptr", "max"} \subseteq DOMAIN r.sync
          /\ r.sync.ptr \in Nat /\ r.sync.ptr <= s.log[Head(r.todo)].ptr
          /\ r.sync.max \in Nat /\ r.sync.max >= setup.server.log[Head(r.todo)].max

Safety(s, r) == ServerShape(s) /\ CommandShape(r) /\ TodoOK(r) /\ Keeps(s, r) /\ SyncOK(s, r)

IInv == setup \in Setups /\ Safety(server, restore)

-----------------------------------------------------------------------------
(* Sequences.                                                               *)

LEMMA NoElements == IsSeq(<<>>) /\ ToSet(<<>>) = {}
<1>1. ToSet(<<>>) = {}
  BY DEF ToSet
<1> QED BY <1>1 DEF IsSeq

LEMMA SeqOfElements == ASSUME NEW S, NEW s \in Seq(S) PROVE IsSeq(s) /\ ToSet(s) \subseteq S
<1>1. s \in [1..Len(s) -> S] /\ Len(s) \in Nat
  BY LenProperties
<1>2. s \in [1..Len(s) -> ToSet(s)]
  BY <1>1 DEF ToSet
<1> QED BY <1>1, <1>2, SeqDef DEF IsSeq, ToSet

\* The head of a sequence and the elements of its tail are its elements.
LEMMA HeadAndTail ==
    ASSUME NEW s, IsSeq(s), s # <<>>
    PROVE  /\ IsSeq(Tail(s))
           /\ Head(s) \in ToSet(s)
           /\ ToSet(s) = {Head(s)} \cup ToSet(Tail(s))
<1>1. Len(s) \in Nat \ {0} /\ DOMAIN s = 1..Len(s) /\ Head(s) = s[1]
  BY DEF IsSeq
<1>2. /\ Tail(s) \in Seq(ToSet(s)) /\ DOMAIN Tail(s) = 1..(Len(s) - 1)
      /\ \A i \in 1..(Len(s) - 1) : Tail(s)[i] = s[i + 1]
  BY <1>1 DEF IsSeq
<1>3. ToSet(Tail(s)) = {s[i] : i \in 2..Len(s)}
  <2>1. ASSUME NEW i \in 2..Len(s) PROVE s[i] \in ToSet(Tail(s))
    <3>1. i - 1 \in DOMAIN Tail(s) /\ Tail(s)[i - 1] = s[i]
      BY <1>1, <1>2
    <3> QED BY <3>1 DEF ToSet
  <2>2. ASSUME NEW x \in ToSet(Tail(s)) PROVE x \in {s[i] : i \in 2..Len(s)}
    <3>1. PICK i \in 1..(Len(s) - 1) : x = s[i + 1]
      BY <1>2, <2>2 DEF ToSet
    <3>2. i + 1 \in 2..Len(s)
      BY <1>1
    <3> QED BY <3>1, <3>2
  <2> QED BY <2>1, <2>2
<1>4. ToSet(s) = {s[1]} \cup {s[i] : i \in 2..Len(s)}
  <2>1. 1..Len(s) = {1} \cup 2..Len(s)
    BY <1>1
  <2> QED BY <1>1, <2>1 DEF ToSet
<1>5. IsSeq(Tail(s))
  BY <1>2, SeqOfElements
<1> QED BY <1>1, <1>3, <1>4, <1>5

LEMMA Appended ==
    ASSUME NEW s, IsSeq(s), NEW x
    PROVE  IsSeq(Append(s, x)) /\ ToSet(Append(s, x)) = ToSet(s) \cup {x}
<1> DEFINE longer == Append(s, x)
<1>1. /\ Len(s) \in Nat /\ DOMAIN s = 1..Len(s)
      /\ DOMAIN longer = 1..(Len(s) + 1) /\ Len(longer) = Len(s) + 1
      /\ \A i \in 1..Len(s) : longer[i] = s[i]
      /\ longer[Len(s) + 1] = x
      /\ longer \in Seq(ToSet(s) \cup {x})
  BY DEF IsSeq
<1> HIDE DEF longer
<1>2. ToSet(longer) = ToSet(s) \cup {x}
  <2>1. 1..(Len(s) + 1) = 1..Len(s) \cup {Len(s) + 1}
    BY <1>1
  <2> QED BY <1>1, <2>1 DEF ToSet
<1> QED BY <1>1, <1>2 DEF IsSeq, longer

\* The i-th step of Keep.
Step(s, S, kept, i) ==
    IF i = 0 THEN <<>>
    ELSE IF s[i] \in S THEN Append(kept[i - 1], s[i]) ELSE kept[i - 1]

\* The recursive function of Keep exists.
LEMMA StepsOfKeep ==
    ASSUME NEW s, IsSeq(s), NEW S
    PROVE  \E kept : /\ Keep(s, S) = kept[Len(s)]
                     /\ \A i \in 0..Len(s) : kept[i] = Step(s, S, kept, i)
<1> DEFINE Good(f, n) == f = [i \in 0..n |-> Step(s, S, f, i)]
           bad == {n \in Nat : ~\E f : Good(f, n)}
<1>1. bad = {}
  <2> SUFFICES ASSUME bad # {} PROVE FALSE
    OBVIOUS
  <2>1. PICK n \in bad : \A m \in bad : ~(<<m, n>> \in OpToRel(<, Nat))
    <3>1. bad \subseteq Nat
      OBVIOUS
    <3> HIDE DEF bad
    <3> QED BY <3>1, NatLessThanWellFounded, WFMin
  <2>2. n # 0
    <3>1. Good([i \in 0..0 |-> <<>>], 0)
      BY DEF Step
    <3> QED BY <3>1
  <2>3. PICK f : Good(f, n - 1)
    <3>1. n - 1 \in Nat /\ n - 1 < n
      BY <2>2
    <3>2. n - 1 \notin bad
      BY <2>1, <3>1 DEF OpToRel
    <3> QED BY <3>1, <3>2
  <2> DEFINE g == [i \in 0..n |-> Step(s, S, f, i)]
  <2>4. \A i \in 0..(n - 1) : g[i] = f[i]
    BY <2>2, <2>3
  <2>5. \A i \in 0..n : Step(s, S, g, i) = Step(s, S, f, i)
    <3>1. ASSUME NEW i \in 0..n, i # 0 PROVE g[i - 1] = f[i - 1]
      <4>1. i - 1 \in 0..(n - 1)
        BY <2>2, <3>1
      <4> QED BY <2>4, <4>1
    <3> HIDE DEF g
    <3> QED BY <3>1 DEF Step
  <2>6. Good(g, n)
    BY <2>5
  <2> QED BY <2>6
<1>2. Len(s) \in Nat
  BY DEF IsSeq
<1>3. \E f : Good(f, Len(s))
  BY <1>1, <1>2
<1> DEFINE kept == CHOOSE f : Good(f, Len(s))
<1>4. Good(kept, Len(s))
  BY <1>3
<1>5. Keep(s, S) = kept[Len(s)]
  BY DEF Keep, Step
<1> HIDE DEF kept
<1>6. \A i \in 0..Len(s) : kept[i] = Step(s, S, kept, i)
  BY <1>4
<1> QED BY <1>5, <1>6

\* Keep(s, S) has the elements of s that are in S.
LEMMA Kept ==
    ASSUME NEW s, IsSeq(s), NEW S
    PROVE  IsSeq(Keep(s, S)) /\ ToSet(Keep(s, S)) = ToSet(s) \cap S
<1>1. PICK kept : /\ Keep(s, S) = kept[Len(s)]
                  /\ \A i \in 0..Len(s) : kept[i] = Step(s, S, kept, i)
  BY StepsOfKeep
<1>2. Len(s) \in Nat /\ DOMAIN s = 1..Len(s)
  BY DEF IsSeq
<1> DEFINE Good(n) == IsSeq(kept[n]) /\ ToSet(kept[n]) = {s[i] : i \in 1..n} \cap S
           bad == {n \in 0..Len(s) : ~Good(n)}
<1>3. bad = {}
  <2> SUFFICES ASSUME bad # {} PROVE FALSE
    OBVIOUS
  <2>1. PICK n \in bad : \A m \in bad : ~(<<m, n>> \in OpToRel(<, Nat))
    <3>1. bad \subseteq Nat
      BY <1>2
    <3> HIDE DEF bad
    <3> QED BY <3>1, NatLessThanWellFounded, WFMin
  <2>2. CASE n = 0
    <3>1. kept[0] = <<>>
      BY <1>1, <1>2 DEF Step
    <3>2. {s[i] : i \in 1..0} = {}
      OBVIOUS
    <3>3. Good(0)
      BY <3>1, <3>2, NoElements
    <3> QED BY <2>1, <2>2, <3>3
  <2>3. CASE n # 0
    <3>1. n \in 1..Len(s) /\ n \in 0..Len(s) /\ n - 1 \in 0..Len(s) /\ n - 1 < n /\ n - 1 \in Nat
      BY <1>2, <2>3
    <3>2. <<n - 1, n>> \in OpToRel(<, Nat)
      BY <3>1 DEF OpToRel
    <3>3. n - 1 \notin bad
      <4> HIDE DEF bad
      <4> QED BY <2>1, <3>2
    <3>4. Good(n - 1)
      BY <3>1, <3>3
    <3>5. kept[n] = IF s[n] \in S THEN Append(kept[n - 1], s[n]) ELSE kept[n - 1]
      BY <1>1, <2>3, <3>1 DEF Step
    <3>6. {s[i] : i \in 1..n} = {s[i] : i \in 1..(n - 1)} \cup {s[n]}
      <4>1. 1..n = 1..(n - 1) \cup {n}
        BY <3>1
      <4> QED BY <4>1
    <3>7. Good(n)
      BY <3>4, <3>5, <3>6, Appended
    <3> QED BY <2>1, <3>7
  <2> QED BY <2>2, <2>3
<1>4. Good(Len(s))
  <2>1. Len(s) \in 0..Len(s)
    BY <1>2
  <2> QED BY <1>3, <2>1
<1>5. ToSet(s) = {s[i] : i \in 1..Len(s)}
  BY <1>2 DEF ToSet
<1> QED BY <1>1, <1>4, <1>5

-----------------------------------------------------------------------------
(* The setup.                                                               *)

LEMMA TheTables ==
    ASSUME setup \in Setups
    PROVE  /\ IsSeq(TablesMeta) /\ ToSet(TablesMeta) \subseteq ToSet(setup.backup)
           /\ \A t \in ToSet(TablesMeta) : DOMAIN t = TableFields
<1>1. WellFormed(setup)
  BY SetupsAssumption
<1>2. IsSeq(setup.backup)
  BY <1>1 DEF WellFormed, IsSeq
<1>3. IsSeq(TablesMeta) /\ ToSet(TablesMeta) \subseteq ToSet(setup.backup)
  BY <1>2, Kept DEF TablesMeta
<1> QED BY <1>1, <1>3 DEF WellFormed

LEMMA SetupStays ==
    ASSUME UNCHANGED setup
    PROVE  /\ TablesMeta' = TablesMeta /\ KeepGoing' = KeepGoing
           /\ \A u : /\ Safe(u)' <=> Safe(u)
                     /\ HasReplica(u)' <=> HasReplica(u)
                     /\ \A w : Like(w, u)' <=> Like(w, u)
<1>1. TablesMeta' = TablesMeta
  BY DEF TablesMeta, Filtered, Accepts
<1> QED BY <1>1 DEF KeepGoing, Option, Safe, DatabaseStays, SameEngine, Apart, AsRestored,
           HasReplica,
                    Like

LEMMA FiniteUnion == \A S, T : IsFiniteSet(S) /\ IsFiniteSet(T) => IsFiniteSet(S \cup T)
BY FS_Union

-----------------------------------------------------------------------------
(* What the statements of the server keep.                                  *)

LEMMA DropTablesKeeps ==
    ASSUME NEW s, ServerShape(s), NEW gone
    PROVE  /\ ServerShape(DropTables(s, gone)) /\ DropTables(s, gone).log = s.log
           /\ \A u : ServerKeeps(s, u) /\ (\A w \in gone : w \in s.tables => w.name # u.name)
                     /\ gone \subseteq s.tables
                  => ServerKeeps(DropTables(s, gone), u)
<1> DEFINE d == DropTables(s, gone)
           lost == {Node(t.path) : t \in {u \in gone : ~Readonly(s, u)}}
<1>1. /\ DOMAIN d = ServerFields /\ d.tables = s.tables \ gone /\ d.nodes = s.nodes \ lost
      /\ d.databases = s.databases /\ d.detached = s.detached /\ d.broken = s.broken
      /\ d.log = s.log
  BY DEF ServerShape, ServerFields, DropTables
<1> HIDE DEF d, lost
<1>2. IsFiniteSet(d.tables) /\ IsFiniteSet(d.nodes)
  BY <1>1, FS_Subset DEF ServerShape
<1>3. ServerShape(d)
  BY <1>1, <1>2 DEF ServerShape
<1>4. ASSUME NEW u, ServerKeeps(s, u), gone \subseteq s.tables, \A w \in gone : w.name # u.name
      PROVE  ServerKeeps(d, u)
  <2>1. Named(d.tables, u.name) = Named(s.tables, u.name)
    BY <1>1, <1>4 DEF Named
  <2>2. ASSUME HasReplica(u) PROVE ~Readonly(d, u)
    <3>1. Node(u.path) \notin lost
      BY <1>4, <2>2 DEF lost, Node, ServerKeeps
    <3> QED BY <1>1, <1>4, <2>2, <3>1 DEF Readonly, ServerKeeps, HasReplica
  <2> QED BY <1>1, <1>4, <2>1, <2>2 DEF ServerKeeps
<1> QED BY <1>1, <1>3, <1>4 DEF d

LEMMA DropDatabaseKeeps ==
    ASSUME NEW s, ServerShape(s), NEW db
    PROVE  /\ ServerShape(DropDatabase(s, db)) /\ DropDatabase(s, db).log = s.log
           /\ setup \in Setups /\ db \in ToSet(setup.databases) =>
              \A u \in setup.server.tables :
                 ServerKeeps(s, u) /\ u.db # db => ServerKeeps(DropDatabase(s, db), u)
<1> DEFINE gone == {t \in s.tables : t.db = db}
           left == DropTables(s, gone)
           d == DropDatabase(s, db)
           nodes == IF IsReplicatedDb(s, db) THEN {Node(db)} ELSE {}
<1>1. ServerShape(left) /\ left.log = s.log
  BY DropTablesKeeps
<1>2. /\ DOMAIN d = ServerFields /\ d.tables = left.tables /\ d.nodes = left.nodes \ nodes
      /\ d.databases = [e \in DOMAIN left.databases \ {db} |-> left.databases[e]]
      /\ d.detached = {t \in left.detached : t.db # db} /\ d.broken = left.broken
      /\ d.log = left.log
  <2> HIDE DEF left
  <2>1. d = [left EXCEPT !.databases = [e \in DOMAIN @ \ {db} |-> @[e]],
                         !.detached = {t \in @ : t.db # db},
                         !.nodes = @ \ nodes]
    BY DEF d, DropDatabase, left
  <2> HIDE DEF d, nodes
  <2> QED BY <1>1, <2>1 DEF ServerShape, ServerFields
<1> HIDE DEF d
<1>3. IsFiniteSet(d.nodes)
  BY <1>1, <1>2, FS_Subset DEF ServerShape
<1>4. ServerShape(d) /\ d.log = s.log
  BY <1>1, <1>2, <1>3 DEF ServerShape
<1>5. ASSUME setup \in Setups, db \in ToSet(setup.databases),
             NEW u \in setup.server.tables, ServerKeeps(s, u), u.db # db
      PROVE  ServerKeeps(d, u)
  <2>1. \A w \in gone : w.name # u.name
    BY <1>5 DEF ServerKeeps, Named, Like
  <2>2. ServerKeeps(left, u)
    BY <1>5, <2>1, DropTablesKeeps
  <2>3. u.path # db
    BY <1>5, SetupsAssumption DEF WellFormed
  <2>4. Node(u.path) \notin nodes
    BY <2>3 DEF Node
  <2> HIDE DEF left, nodes
  <2>5. HasReplica(u) => ~Readonly(d, u)
    BY <1>2, <2>2, <2>4 DEF ServerKeeps, Readonly
  <2> QED BY <1>2, <1>5, <2>2, <2>5 DEF ServerKeeps
<1> QED BY <1>4, <1>5 DEF d

LEMMA CreateDatabaseKeeps ==
    ASSUME NEW s, ServerShape(s), NEW db, NEW engine, CanCreateDatabase(s, db, engine)
    PROVE  /\ ServerShape(CreateDatabase(s, db, engine))
           /\ CreateDatabase(s, db, engine).log = [s.log EXCEPT ![db].ptr = 0]
           /\ \A u : ServerKeeps(s, u) => ServerKeeps(CreateDatabase(s, db, engine), u)
<1> DEFINE d == CreateDatabase(s, db, engine)
           nodes == IF engine = "Replicated" THEN {Node(db)} ELSE {}
<1>1. /\ DOMAIN d = ServerFields /\ d.tables = s.tables /\ d.nodes = s.nodes \cup nodes
      /\ d.databases = [e \in DOMAIN s.databases \cup {db} |->
                           IF e = db THEN engine ELSE s.databases[e]]
      /\ d.detached = s.detached /\ d.broken = s.broken /\ d.log = [s.log EXCEPT ![db].ptr = 0]
  <2>1. d = [s EXCEPT !.databases = [e \in DOMAIN @ \cup {db} |-> IF e = db THEN engine ELSE @[e]],
                      !.nodes = @ \cup nodes,
                      !.log[db].ptr = 0]
    BY DEF d, CreateDatabase
  <2> HIDE DEF d, nodes
  <2> QED BY <2>1 DEF ServerShape, ServerFields
<1> HIDE DEF d
<1>2. IsFiniteSet(d.nodes)
  <2>1. IsFiniteSet(nodes)
    BY FS_EmptySet, FS_Singleton
  <2> QED BY <1>1, <2>1, FiniteUnion DEF ServerShape
<1>3. ServerShape(d)
  BY <1>1, <1>2 DEF ServerShape
<1>4. ASSUME NEW u, ServerKeeps(s, u) PROVE ServerKeeps(d, u)
  <2>1. u.db \in ToSet(setup.databases) => u.db # db
    BY <1>4 DEF ServerKeeps, CanCreateDatabase
  <2>2. HasReplica(u) => ~Readonly(d, u)
    BY <1>1, <1>4 DEF ServerKeeps, Readonly
  <2> QED BY <1>1, <1>4, <2>1, <2>2 DEF ServerKeeps
<1> QED BY <1>1, <1>3, <1>4 DEF d

LEMMA FiniteImage ==
    ASSUME NEW S, IsFiniteSet(S), NEW f
    PROVE  IsFiniteSet({f[x] : x \in S})
<1> DEFINE g == [x \in S |-> f[x]]
           T == {f[x] : x \in S}
<1>1. g \in Surjection(S, T)
  BY DEF Surjection
<1> QED BY <1>1, FS_Surjection

LEMMA AttachTableKeeps ==
    ASSUME NEW s, ServerShape(s), NEW t, DOMAIN t = TableFields
    PROVE  /\ ServerShape(AttachTable(s, t)) /\ AttachTable(s, t).log = s.log
           /\ AttachTable(s, t).tables = s.tables \cup {t}
           /\ \A u : /\ ServerKeeps(s, u) /\ t.name # u.name
                     /\ HasReplica(u) => t.path # u.path
                     => ServerKeeps(AttachTable(s, t), u)
<1> DEFINE d == AttachTable(s, t)
<1>1. /\ DOMAIN d = ServerFields /\ d.tables = s.tables \cup {t} /\ d.nodes = s.nodes
      /\ d.databases = s.databases /\ d.detached = s.detached \ {t} /\ d.broken = s.broken
      /\ d.log = s.log
  BY DEF ServerShape, ServerFields, AttachTable
<1> HIDE DEF d
<1>2. ServerShape(d)
  BY <1>1, FS_AddElement DEF ServerShape
<1>3. ASSUME NEW u, ServerKeeps(s, u), t.name # u.name, HasReplica(u) => t.path # u.path
      PROVE  ServerKeeps(d, u)
  <2>1. Named(d.tables, u.name) = Named(s.tables, u.name)
    BY <1>1, <1>3 DEF Named
  <2>2. HasReplica(u) => ~Readonly(d, u)
    BY <1>1, <1>3 DEF ServerKeeps, Readonly
  <2> QED BY <1>1, <1>3, <2>1, <2>2 DEF ServerKeeps
<1> QED BY <1>1, <1>2, <1>3 DEF d

LEMMA CreateTableKeeps ==
    ASSUME NEW s, ServerShape(s), NEW t, DOMAIN t = TableFields
    PROVE  /\ ServerShape(CreateTable(s, t)) /\ CreateTable(s, t).log = s.log
           /\ \A u : /\ ServerKeeps(s, u) /\ t.name # u.name
                     /\ HasReplica(u) => t.path # u.path
                     => ServerKeeps(CreateTable(s, t), u)
<1> DEFINE d == CreateTable(s, t)
           nodes == IF IsReplicated(t) THEN {Node(t.path)} ELSE {}
<1>1. /\ DOMAIN d = ServerFields /\ d.tables = s.tables \cup {t} /\ d.nodes = s.nodes \cup nodes
      /\ d.databases = s.databases /\ d.detached = s.detached /\ d.broken = s.broken
      /\ d.log = s.log
  <2>1. d = [s EXCEPT !.tables = @ \cup {t}, !.nodes = @ \cup nodes]
    BY DEF d, CreateTable
  <2> HIDE DEF d, nodes
  <2> QED BY <2>1 DEF ServerShape, ServerFields
<1>2. IsFiniteSet(nodes)
  BY FS_EmptySet, FS_Singleton
<1> HIDE DEF d, nodes
<1>3. ServerShape(d)
  <2>1. IsFiniteSet(d.tables)
    <3>1. IsFiniteSet(s.tables)
      BY DEF ServerShape
    <3>2. IsFiniteSet(s.tables \cup {t})
      BY <3>1, FS_AddElement
    <3> QED BY <1>1, <3>2
  <2>2. IsFiniteSet(d.nodes)
    BY <1>1, <1>2, FiniteUnion DEF ServerShape
  <2> QED BY <1>1, <2>1, <2>2 DEF ServerShape
<1>4. ASSUME NEW u, ServerKeeps(s, u), t.name # u.name, HasReplica(u) => t.path # u.path
      PROVE  ServerKeeps(d, u)
  <2>1. Named(d.tables, u.name) = Named(s.tables, u.name)
    BY <1>1, <1>4 DEF Named
  <2>2. HasReplica(u) => ~Readonly(d, u)
    BY <1>1, <1>4 DEF ServerKeeps, Readonly
  <2> QED BY <1>1, <1>4, <2>1, <2>2 DEF ServerKeeps
<1> QED BY <1>1, <1>3, <1>4 DEF d

LEMMA DropReplicasKeeps ==
    ASSUME NEW s, ServerShape(s), NEW gone
    PROVE  /\ ServerShape(DropReplicas(s, gone)) /\ DropReplicas(s, gone).log = s.log
           /\ \A u : ServerKeeps(s, u) /\ (HasReplica(u) => Node(u.path) \notin gone)
                  => ServerKeeps(DropReplicas(s, gone), u)
<1> DEFINE d == DropReplicas(s, gone)
<1>1. /\ DOMAIN d = ServerFields /\ d.tables = s.tables /\ d.nodes = s.nodes \ gone
      /\ d.databases = s.databases /\ d.detached = s.detached /\ d.broken = s.broken \ gone
      /\ d.log = s.log
  BY DEF ServerShape, ServerFields, DropReplicas
<1> HIDE DEF d
<1>2. ServerShape(d)
  BY <1>1, FS_Subset DEF ServerShape
<1>3. ASSUME NEW u, ServerKeeps(s, u), HasReplica(u) => Node(u.path) \notin gone
      PROVE  ServerKeeps(d, u)
  <2>1. HasReplica(u) => ~Readonly(d, u)
    BY <1>1, <1>3 DEF ServerKeeps, Readonly
  <2> QED BY <1>1, <1>3, <2>1 DEF ServerKeeps
<1> QED BY <1>1, <1>2, <1>3 DEF d

\* SYSTEM RESTORE REPLICA of some tables.
LEMMA RestoreReplicasKeeps ==
    ASSUME NEW s, ServerShape(s), NEW fixed \in SUBSET s.tables
    PROVE  LET d == [s EXCEPT !.nodes = @ \cup {Node(t.path) : t \in fixed}]
           IN  ServerShape(d) /\ d.log = s.log /\ \A u : ServerKeeps(s, u) => ServerKeeps(d, u)
<1> DEFINE nodes == {Node(t.path) : t \in fixed}
           d == [s EXCEPT !.nodes = @ \cup nodes]
<1>1. IsFiniteSet(nodes)
  <2> DEFINE f == [t \in fixed |-> Node(t.path)]
  <2>1. nodes = {f[t] : t \in fixed}
    OBVIOUS
  <2>2. IsFiniteSet(fixed)
    BY FS_Subset DEF ServerShape
  <2> HIDE DEF f, nodes
  <2> QED BY <2>1, <2>2, FiniteImage
<1> HIDE DEF nodes
<1>2. /\ DOMAIN d = ServerFields /\ d.tables = s.tables /\ d.nodes = s.nodes \cup nodes
      /\ d.databases = s.databases /\ d.detached = s.detached /\ d.broken = s.broken
      /\ d.log = s.log
  BY DEF ServerShape, ServerFields
<1> HIDE DEF d
<1>3. ServerShape(d)
  BY <1>1, <1>2, FiniteUnion DEF ServerShape
<1>4. ASSUME NEW u, ServerKeeps(s, u) PROVE ServerKeeps(d, u)
  <2>1. HasReplica(u) => ~Readonly(d, u)
    BY <1>2, <1>4 DEF ServerKeeps, Readonly
  <2> QED BY <1>2, <1>4, <2>1 DEF ServerKeeps
<1> QED BY <1>2, <1>3, <1>4 DEF d, nodes

\* Parts are attached to a table.
WithRows(s, filled) ==
    [s EXCEPT !.tables =
        {IF t \in filled THEN [t EXCEPT !.data = @ \cup {"backup"}] ELSE t : t \in @}]

LEMMA RowsAddedKeeps ==
    ASSUME NEW s, ServerShape(s), NEW filled \in SUBSET s.tables
    PROVE  /\ ServerShape(WithRows(s, filled)) /\ WithRows(s, filled).log = s.log
           /\ \A u : /\ ServerKeeps(s, u)
                     /\ \A w \in filled :
                           w.name = u.name => \E t \in ToSet(TablesMeta) : t.name = u.name
                     => ServerKeeps(WithRows(s, filled), u)
<1> DEFINE more(t) == IF t \in filled THEN [t EXCEPT !.data = @ \cup {"backup"}] ELSE t
           d == WithRows(s, filled)
<1>1. /\ DOMAIN d = ServerFields /\ d.tables = {more(t) : t \in s.tables} /\ d.nodes = s.nodes
      /\ d.databases = s.databases /\ d.detached = s.detached /\ d.broken = s.broken
      /\ d.log = s.log
  <2>1. d = [s EXCEPT !.tables = {more(t) : t \in @}]
    BY DEF WithRows
  <2> HIDE DEF more, d
  <2> QED BY <2>1 DEF ServerShape, ServerFields
<1>2. \A t \in s.tables :
         /\ DOMAIN more(t) = TableFields /\ more(t).name = t.name /\ more(t).db = t.db
         /\ more(t).uuid = t.uuid /\ more(t).schema = t.schema /\ more(t).path = t.path
         /\ t.data \subseteq more(t).data
         /\ t \notin filled => more(t) = t
  BY DEF ServerShape, TableFields
<1>3. IsFiniteSet(d.tables)
  <2> DEFINE f == [t \in s.tables |-> more(t)]
  <2>1. d.tables = {f[t] : t \in s.tables}
    BY <1>1
  <2> HIDE DEF f
  <2> QED BY <2>1, FiniteImage DEF ServerShape
<1> HIDE DEF d, more
<1>4. ServerShape(d)
  BY <1>1, <1>2, <1>3 DEF ServerShape
<1>5. ASSUME NEW u, ServerKeeps(s, u),
             \A w \in filled : w.name = u.name => \E t \in ToSet(TablesMeta) : t.name = u.name
      PROVE  ServerKeeps(d, u)
  <2>1. ASSUME NEW w \in Named(d.tables, u.name) PROVE Like(w, u)
    <3>1. PICK t \in s.tables : w = more(t)
      BY <1>1, <2>1 DEF Named
    <3>2. t.name = u.name /\ Like(t, u)
      BY <1>2, <1>5, <2>1, <3>1 DEF Named, ServerKeeps
    <3> QED BY <1>2, <1>5, <3>1, <3>2 DEF Like
  <2>2. Named(d.tables, u.name) # {}
    <3>1. PICK t \in s.tables : t.name = u.name
      BY <1>5 DEF ServerKeeps, Named
    <3> QED BY <1>1, <1>2, <3>1 DEF Named
  <2>3. HasReplica(u) => ~Readonly(d, u)
    BY <1>1, <1>5 DEF ServerKeeps, Readonly
  <2>4. HasReplica(u) => \A w \in d.tables : w.path = u.path => w.name = u.name
    BY <1>1, <1>2, <1>5 DEF ServerKeeps
  <2> QED BY <1>1, <1>5, <2>1, <2>2, <2>3, <2>4 DEF ServerKeeps
<1> QED BY <1>1, <1>4, <1>5 DEF d, more

\* Logs are only followed, and grow.
Forward(s, d) ==
    /\ LogOK(d) /\ DOMAIN d.log = DOMAIN s.log
    /\ \A db \in DOMAIN s.log : d.log[db].ptr >= s.log[db].ptr

LEMMA AdvanceKeeps ==
    ASSUME setup \in Setups, NEW s, ServerShape(s), LogOK(s), NEW db \in DOMAIN s.log,
           ~IsStuck(s, setup.shared, db)
    PROVE  /\ ServerShape(Advance(s, setup.shared, db)) /\ Forward(s, Advance(s, setup.shared, db))
           /\ \A u : ServerKeeps(s, u) => ServerKeeps(Advance(s, setup.shared, db), u)
<1> DEFINE last == s.log[db].ptr + 1 = s.log[db].max
           new == IF last THEN Missing(s, setup.shared, db) ELSE {}
           nodes == {Node(t.path) : t \in {u \in new : IsReplicated(u)}}
           d == Advance(s, setup.shared, db)
<1>1. d = [s EXCEPT !.log[db].ptr = @ + 1, !.tables = @ \cup new, !.nodes = @ \cup nodes]
  BY DEF Advance
<1>2. new \subseteq setup.shared /\ \A t \in new : CanCreate(s, t) /\ DOMAIN t = TableFields
  <2>1. \A t \in setup.shared : DOMAIN t = TableFields
    BY SetupsAssumption DEF WellFormed
  <2> QED BY <2>1 DEF Missing, IsStuck
<1>3. IsFiniteSet(new)
  <2>1. IsFiniteSet(setup.shared)
    BY SetupsAssumption DEF WellFormed
  <2> HIDE DEF new
  <2> QED BY <1>2, <2>1, FS_Subset
<1> HIDE DEF last, new, d
<1>4. IsFiniteSet(nodes)
  <2> DEFINE f == [t \in {u \in new : IsReplicated(u)} |-> Node(t.path)]
  <2>1. nodes = {f[t] : t \in {u \in new : IsReplicated(u)}}
    OBVIOUS
  <2>2. IsFiniteSet({u \in new : IsReplicated(u)})
    BY <1>3, FS_Subset
  <2> HIDE DEF f, nodes
  <2> QED BY <2>1, <2>2, FiniteImage
<1> HIDE DEF nodes
<1>5. /\ DOMAIN d = ServerFields /\ d.tables = s.tables \cup new /\ d.nodes = s.nodes \cup nodes
      /\ d.databases = s.databases /\ d.detached = s.detached /\ d.broken = s.broken
      /\ d.log = [s.log EXCEPT ![db].ptr = @ + 1]
  BY <1>1 DEF ServerShape, ServerFields
<1>6. ServerShape(d)
  <2>1. IsFiniteSet(d.tables)
    BY <1>3, <1>5, FiniteUnion DEF ServerShape
  <2>2. IsFiniteSet(d.nodes)
    BY <1>4, <1>5, FiniteUnion DEF ServerShape
  <2> QED BY <1>2, <1>5, <2>1, <2>2 DEF ServerShape
<1>7. Forward(s, d)
  <2>1. /\ s.log[db] \in [ptr : Nat, max : Nat]
        /\ DOMAIN d.log = DOMAIN s.log
        /\ d.log[db] = [s.log[db] EXCEPT !.ptr = @ + 1]
        /\ \A e \in DOMAIN s.log \ {db} : d.log[e] = s.log[e]
    BY <1>5 DEF LogOK
  <2>2. /\ d.log[db] \in [ptr : Nat, max : Nat]
        /\ d.log[db].ptr = s.log[db].ptr + 1 /\ d.log[db].max = s.log[db].max
    BY <2>1
  <2>3. \A e \in DOMAIN s.log : s.log[e].ptr \in Nat /\ s.log[e].max \in Nat
    BY DEF LogOK
  <2> QED BY <2>1, <2>2, <2>3 DEF LogOK, Forward
<1>8. ASSUME NEW u, ServerKeeps(s, u) PROVE ServerKeeps(d, u)
  <2>1. \A t \in new : t.name # u.name
    BY <1>2, <1>8 DEF CanCreate, CanAttach, ServerKeeps, Named
  <2>2. HasReplica(u) => \A t \in new : t.path # u.path
    BY <1>2, <1>8 DEF CanCreate, ServerKeeps, HasReplica, Readonly, IsReplicated
  <2>3. Named(d.tables, u.name) = Named(s.tables, u.name)
    BY <1>5, <2>1 DEF Named
  <2>4. HasReplica(u) => ~Readonly(d, u)
    BY <1>5, <1>8 DEF ServerKeeps, Readonly
  <2> QED BY <1>5, <1>8, <2>2, <2>3, <2>4 DEF ServerKeeps
<1> QED BY <1>6, <1>7, <1>8 DEF d

-----------------------------------------------------------------------------
(* What steps keep, of the server and of the command.                       *)

LEMMA Primed ==
    ASSUME setup \in Setups, UNCHANGED setup, Safety(server', restore')
    PROVE  IInv'
<1>1. /\ TablesMeta' = TablesMeta /\ KeepGoing' = KeepGoing
      /\ \A u : /\ Safe(u)' <=> Safe(u)
                /\ HasReplica(u)' <=> HasReplica(u)
                /\ \A w : Like(w, u)' <=> Like(w, u)
  BY SetupStays
<1>2. ServerShape(server)' /\ CommandShape(restore)' /\ LogOK(server)'
  BY <1>1 DEF Safety, ServerShape, CommandShape, SyncOK, LogOK
<1>3. TodoOK(restore)'
  BY <1>1 DEF Safety, TodoOK, Replicated, Option
<1>4. Keeps(server, restore)'
  BY <1>1 DEF Safety, Keeps, ServerKeeps, CommandKeeps
<1>5. SyncOK(server, restore)'
  BY <1>1, <1>2 DEF Safety, SyncOK, Replicated, CaughtUp
<1> QED BY <1>2, <1>3, <1>4, <1>5 DEF IInv, Safety

LEMMA ReplicatedDatabases ==
    ASSUME setup \in Setups, NEW databases, IsSeq(databases),
           ToSet(databases) \subseteq ToSet(setup.databases)
    PROVE  /\ IsSeq(Replicated(databases))
           /\ ToSet(Replicated(databases)) =
                 {db \in ToSet(databases) : setup.engines[db] = "Replicated"}
           /\ \A s : LogOK(s) => ToSet(Replicated(databases)) \subseteq DOMAIN s.log
<1>1. /\ IsSeq(Replicated(databases))
      /\ ToSet(Replicated(databases)) = {db \in ToSet(databases) : setup.engines[db] = "Replicated"}
  BY Kept DEF Replicated
<1>2. \A db \in ToSet(setup.databases) :
         setup.engines[db] = "Replicated" => db \in DOMAIN setup.server.log
  BY SetupsAssumption DEF WellFormed
<1> QED BY <1>1, <1>2 DEF LogOK

\* The server may go on while the command does nothing.
LEMMA ServerSteps ==
    ASSUME setup \in Setups, NEW s, NEW r, Safety(s, r), NEW d, ServerShape(d), Forward(s, d),
           \A u \in setup.server.tables : Safe(u) /\ ServerKeeps(s, u) => ServerKeeps(d, u)
    PROVE  Safety(d, r)
<1>1. Keeps(d, r)
  BY DEF Safety, Keeps
<1>2. SyncOK(d, r)
  <2>1. \A db \in DOMAIN s.log : s.log[db].ptr \in Nat /\ d.log[db].ptr \in Nat
    BY DEF Safety, SyncOK, LogOK, Forward
  <2>2. ToSet(Replicated(r.databases)) \subseteq DOMAIN s.log
    <3>1. "databases" \in Lists
      BY DEF Lists
    <3> QED BY <3>1, ReplicatedDatabases DEF Safety, SyncOK, CommandShape
  <2>3. \A db \in ToSet(Replicated(r.databases)) : CaughtUp(s, db) => CaughtUp(d, db)
    <3>1. \A db \in DOMAIN s.log : setup.server.log[db].max \in Nat
      BY SetupsAssumption DEF Safety, SyncOK, LogOK, WellFormed
    <3> QED BY <2>1, <2>2, <3>1 DEF CaughtUp, Forward
  <2>4. r.pc = "poll" =>
           /\ r.todo # <<>> /\ {"again", "ptr", "max"} \subseteq DOMAIN r.sync
           /\ r.sync.ptr \in Nat /\ r.sync.ptr <= d.log[Head(r.todo)].ptr
           /\ r.sync.max \in Nat /\ r.sync.max >= setup.server.log[Head(r.todo)].max
    <3> SUFFICES ASSUME r.pc = "poll"
                 PROVE  r.todo # <<>> /\ r.sync.ptr <= d.log[Head(r.todo)].ptr
      BY DEF Safety, SyncOK
    <3>1. IsSeq(r.todo) /\ r.todo # <<>>
      BY DEF Safety, SyncOK, CommandShape, Lists
    <3>2. Head(r.todo) \in DOMAIN s.log
      BY <2>2, <3>1, HeadAndTail DEF Safety, TodoOK, SyncLabels
    <3>3. r.sync.ptr \in Nat /\ r.sync.ptr <= s.log[Head(r.todo)].ptr
      BY DEF Safety, SyncOK
    <3> QED BY <2>1, <3>1, <3>2, <3>3 DEF Forward
  <2> QED BY <2>3, <2>4 DEF Safety, SyncOK, Forward
<1> QED BY <1>1, <1>2 DEF Safety

\* The labels between the two synchronisations.
Middle == {"list_tables", "list_existing", "list_readonly", "clean_readonly", "await_readonly",
           "restore_replicas", "preprocess", "await_tables", "create", "created",
           "temporary_disks", "data"}

LEMMA FailedKeeps == ASSUME NEW s, NEW r, Safety(s, r) PROVE Safety(s, Failed(r))
<1> DEFINE f == Failed(r)
<1>1. /\ DOMAIN f = RestoreFields /\ f.pc = "failed"
      /\ \A x \in RestoreFields \ {"pc"} : f[x] = r[x]
  BY DEF Safety, CommandShape, RestoreFields, Failed
<1>2. /\ f.todo = r.todo /\ f.databases = r.databases /\ f.tables = r.tables
      /\ f.result = r.result /\ f.cleaning = r.cleaning /\ f.detached = r.detached
      /\ f.existing = r.existing /\ f.readonly = r.readonly /\ f.tasks = r.tasks
      /\ f.results = r.results /\ f.errors = r.errors
  BY <1>1 DEF RestoreFields
<1> HIDE DEF f
<1>3. CommandShape(f)
  BY <1>1, <1>2 DEF Safety, CommandShape, Lists
<1>4. TodoOK(f)
  BY <1>1 DEF TodoOK, DatabaseLabels, SyncLabels, TableLabels, Awaiting
<1>5. Keeps(s, f)
  BY <1>1, <1>2 DEF Safety, Keeps, CommandKeeps, Preprocessing
<1>6. SyncOK(s, f)
  BY <1>1, <1>2 DEF Safety, SyncOK, Before, SyncLabels
<1> QED BY <1>3, <1>4, <1>5, <1>6 DEF Safety, f

\* A loop of the command goes on. (Databases that are synchronised leave a result.)
LEMMA SkipKeeps ==
    ASSUME NEW s, NEW r, Safety(s, r), r.todo # <<>>, r.pc \notin SyncLabels
    PROVE  Safety(s, Skip(r))
<1> DEFINE f == Skip(r)
<1>1. /\ DOMAIN f = RestoreFields /\ f.todo = Tail(r.todo)
      /\ \A x \in RestoreFields \ {"todo"} : f[x] = r[x]
  BY DEF Safety, CommandShape, RestoreFields, Skip
<1>2. /\ f.pc = r.pc /\ f.databases = r.databases /\ f.tables = r.tables
      /\ f.result = r.result /\ f.cleaning = r.cleaning /\ f.detached = r.detached
      /\ f.existing = r.existing /\ f.readonly = r.readonly /\ f.tasks = r.tasks
      /\ f.results = r.results /\ f.errors = r.errors /\ f.failed = r.failed
  BY <1>1 DEF RestoreFields
<1> HIDE DEF f
<1>3. IsSeq(f.todo) /\ ToSet(f.todo) \subseteq ToSet(r.todo)
  BY <1>1, HeadAndTail DEF Safety, CommandShape, Lists
<1>4. CommandShape(f)
  BY <1>1, <1>2, <1>3 DEF Safety, CommandShape, Lists
<1>5. TodoOK(f)
  BY <1>2, <1>3 DEF Safety, TodoOK
<1>6. Keeps(s, f)
  BY <1>2, <1>3 DEF Safety, Keeps, CommandKeeps
<1>7. SyncOK(s, f)
  BY <1>2 DEF Safety, SyncOK, SyncLabels
<1> QED BY <1>4, <1>5, <1>6, <1>7 DEF Safety, f

LEMMA ErrorKeeps ==
    ASSUME NEW s, NEW r, Safety(s, r), r.todo # <<>>, r.pc \notin SyncLabels
    PROVE  Safety(s, Error(r))
BY FailedKeeps, SkipKeeps DEF Error

\* Another loop begins.
LEMMA LoopKeeps ==
    ASSUME NEW s, NEW r, Safety(s, r), NEW pc, NEW todo, IsSeq(todo),
           \/ r.pc \in Before /\ pc \in Before
           \/ r.pc \in Middle /\ pc \in Middle,
           pc \in DatabaseLabels => ToSet(todo) \subseteq ToSet(setup.databases),
           pc \in TableLabels => ToSet(todo) \subseteq ToSet(TablesMeta),
           pc \in Awaiting => ToSet(todo) \subseteq DOMAIN r.tasks,
           pc \in Preprocessing => r.pc \in Preprocessing,
           pc = "create" => ToSet(todo) \subseteq ToSet(r.result)
    PROVE  Safety(s, Loop(r, pc, todo))
<1> DEFINE f == Loop(r, pc, todo)
<1>1. /\ DOMAIN f = RestoreFields /\ f.todo = todo /\ f.pc = pc
      /\ \A x \in RestoreFields \ {"todo", "pc"} : f[x] = r[x]
  BY DEF Safety, CommandShape, RestoreFields, Loop
<1>2. /\ f.databases = r.databases /\ f.tables = r.tables
      /\ f.result = r.result /\ f.cleaning = r.cleaning /\ f.detached = r.detached
      /\ f.existing = r.existing /\ f.readonly = r.readonly /\ f.tasks = r.tasks
      /\ f.results = r.results /\ f.errors = r.errors
  BY <1>1 DEF RestoreFields
<1> HIDE DEF f
<1>3. CommandShape(f)
  BY <1>1, <1>2 DEF Safety, CommandShape, Lists
<1>4. TodoOK(f)
  BY <1>1, <1>2 DEF TodoOK, SyncLabels, Before, Middle
<1>5. Keeps(s, f)
  BY <1>1, <1>2 DEF Safety, Keeps, CommandKeeps
<1>6. SyncOK(s, f)
  BY <1>1, <1>2 DEF Safety, SyncOK, SyncLabels, Before, Middle
<1> QED BY <1>3, <1>4, <1>5, <1>6 DEF Safety, f

\* Nodes are to be dropped, of tables that are not safe.
LEMMA ScheduleKeeps ==
    ASSUME NEW s, NEW r, Safety(s, r), NEW pc \in Awaiting, NEW nodes, NEW awaited, IsSeq(awaited),
           ToSet(awaited) \subseteq nodes,
           \/ r.pc \in Before /\ pc \in Before
           \/ r.pc \in Middle /\ pc \in Middle,
           pc \in Preprocessing => r.pc \in Preprocessing,
           \A u \in setup.server.tables : Safe(u) /\ HasReplica(u) => \A n \in nodes : n[1] # u.path
    PROVE  Safety(s, Schedule(r, nodes, awaited, pc))
<1> DEFINE f == Schedule(r, nodes, awaited, pc)
           l == Loop(r, pc, awaited)
<1>1. /\ DOMAIN f = RestoreFields /\ f.todo = awaited /\ f.pc = pc
      /\ DOMAIN f.tasks = DOMAIN r.tasks \cup nodes
      /\ \A x \in RestoreFields \ {"todo", "pc", "tasks"} : f[x] = r[x]
  <2>1. /\ DOMAIN l = RestoreFields /\ l.todo = awaited /\ l.pc = pc
        /\ \A x \in RestoreFields \ {"todo", "pc"} : l[x] = r[x]
    BY DEF Safety, CommandShape, RestoreFields, Loop
  <2>2. f = [l EXCEPT !.tasks =
                [n \in DOMAIN @ \cup nodes |-> IF n \in nodes THEN "running" ELSE @[n]]]
    BY DEF Schedule
  <2> HIDE DEF f, l
  <2>3. l.tasks = r.tasks
    BY <2>1 DEF RestoreFields
  <2> QED BY <2>1, <2>2, <2>3 DEF RestoreFields
<1> HIDE DEF f, l
<1>2. /\ f.databases = r.databases /\ f.tables = r.tables
      /\ f.result = r.result /\ f.cleaning = r.cleaning /\ f.detached = r.detached
      /\ f.existing = r.existing /\ f.readonly = r.readonly
      /\ f.results = r.results /\ f.errors = r.errors
  BY <1>1 DEF RestoreFields
<1>3. CommandShape(f)
  BY <1>1, <1>2 DEF Safety, CommandShape, Lists
<1>4. TodoOK(f)
  BY <1>1, <1>2 DEF TodoOK, SyncLabels, DatabaseLabels, TableLabels, Awaiting
<1>5. Keeps(s, f)
  BY <1>1, <1>2 DEF Safety, Keeps, CommandKeeps, Awaiting
<1>6. SyncOK(s, f)
  BY <1>1, <1>2 DEF Safety, SyncOK, SyncLabels, Before, Middle
<1> QED BY <1>3, <1>4, <1>5, <1>6 DEF Safety, f

LEMMA InitKeeps == ASSUME Init PROVE IInv
<1>1. WellFormed(setup) /\ setup \in Setups /\ server = setup.server
  BY SetupsAssumption DEF Init
<1>2. ServerShape(server)
  BY <1>1 DEF WellFormed, ServerShape
<1>3. CommandShape(restore) /\ TodoOK(restore)
  <2>1. \A l \in Lists : restore[l] = <<>>
    BY DEF Init, Lists
  <2>2. CommandShape(restore)
    BY <2>1, NoElements DEF Init, CommandShape, RestoreFields
  <2> QED BY <2>2 DEF Init, TodoOK, DatabaseLabels, SyncLabels, TableLabels, Awaiting
<1>4. ASSUME NEW u \in setup.server.tables, Safe(u)
      PROVE  ServerKeeps(server, u) /\ CommandKeeps(restore, u)
  <2>1. \A w \in server.tables : w.name = u.name => w = u
    BY <1>1, <1>4 DEF WellFormed
  <2>2. HasReplica(u) => \A w \in server.tables : w.path = u.path => w = u
    BY <1>1, <1>4 DEF WellFormed, SameReplica, HasReplica
  <2>3. ServerKeeps(server, u)
    BY <1>1, <1>4, <2>1, <2>2
       DEF ServerKeeps, Named, Like, HasReplica, Safe, DatabaseStays, SameEngine
  <2>4. CommandKeeps(restore, u)
    BY NoElements DEF Init, CommandKeeps, Named, Preprocessing
  <2> QED BY <2>3, <2>4
<1>5. SyncOK(server, restore)
  <2>1. \A db \in DOMAIN server.log : server.log[db] \in [ptr : Nat, max : Nat]
    BY <1>1 DEF WellFormed
  <2>2. LogOK(server)
    BY <1>1, <2>1 DEF LogOK
  <2>3. DOMAIN restore.results = {}
    BY DEF Init
  <2> QED BY <2>2, <2>3 DEF Init, SyncOK, Before, SyncLabels
<1> QED BY <1>1, <1>2, <1>3, <1>4, <1>5 DEF IInv, Safety, Keeps

-----------------------------------------------------------------------------
(* Steps of other threads, and failures.                                    *)

LEMMA DatabasesKeeps == ASSUME IInv, Databases PROVE IInv'
<1>1. UNCHANGED <<setup, restore>> /\ setup \in Setups /\ Safety(server, restore)
  BY DEF Databases, IInv
<1>2. PICK db \in DOMAIN server.log :
          \/ ~IsStuck(server, setup.shared, db) /\ server' = Advance(server, setup.shared, db)
          \/ server' = [server EXCEPT !.log[db].max = @ + 1]
  BY DEF Databases, DDLWorker
<1>3. CASE ~IsStuck(server, setup.shared, db) /\ server' = Advance(server, setup.shared, db)
  <2>1. /\ ServerShape(server') /\ Forward(server, server')
        /\ \A u : ServerKeeps(server, u) => ServerKeeps(server', u)
    BY <1>1, <1>3, AdvanceKeeps DEF Safety, SyncOK
  <2>2. Safety(server', restore)
    BY <1>1, <2>1, ServerSteps
  <2> QED BY <1>1, <2>2, Primed
<1>4. CASE server' = [server EXCEPT !.log[db].max = @ + 1]
  <2>1. /\ DOMAIN server' = ServerFields /\ server'.tables = server.tables
        /\ server'.nodes = server.nodes /\ server'.databases = server.databases
        /\ server'.detached = server.detached /\ server'.broken = server.broken
        /\ server'.log = [server.log EXCEPT ![db].max = @ + 1]
    BY <1>1, <1>4 DEF Safety, ServerShape, ServerFields
  <2>2. ServerShape(server')
    BY <1>1, <2>1 DEF Safety, ServerShape
  <2>3. \A u : ServerKeeps(server, u) => ServerKeeps(server', u)
    BY <2>1 DEF ServerKeeps, Readonly
  <2>4. Forward(server, server')
    <3>1. LogOK(server)
      BY <1>1 DEF Safety, SyncOK
    <3>2. /\ DOMAIN server'.log = DOMAIN server.log
          /\ server'.log[db] = [server.log[db] EXCEPT !.max = @ + 1]
          /\ \A e \in DOMAIN server.log \ {db} : server'.log[e] = server.log[e]
      BY <2>1
    <3>3. /\ server'.log[db] \in [ptr : Nat, max : Nat]
          /\ server'.log[db].max = server.log[db].max + 1
          /\ server'.log[db].ptr = server.log[db].ptr
      BY <3>1, <3>2 DEF LogOK
    <3>4. \A e \in DOMAIN server.log :
             /\ server.log[e].ptr \in Nat /\ server.log[e].max \in Nat
             /\ setup.server.log[e].max \in Nat
      BY <1>1, <3>1, SetupsAssumption DEF LogOK, WellFormed
    <3> QED BY <3>1, <3>2, <3>3, <3>4 DEF LogOK, Forward
  <2>5. Safety(server', restore)
    BY <1>1, <2>2, <2>3, <2>4, ServerSteps
  <2> QED BY <1>1, <2>5, Primed
<1> QED BY <1>2, <1>3, <1>4

\* What only adds to the results of tasks.
LEMMA TaskStatusKeeps ==
    ASSUME NEW s, NEW r, Safety(s, r), NEW node, NEW status
    PROVE  Safety(s, [r EXCEPT !.tasks[node] = status])
<1> DEFINE f == [r EXCEPT !.tasks[node] = status]
<1>1. /\ DOMAIN f = RestoreFields /\ DOMAIN f.tasks = DOMAIN r.tasks
      /\ \A x \in RestoreFields \ {"tasks"} : f[x] = r[x]
  BY DEF Safety, CommandShape, RestoreFields
<1>2. /\ f.todo = r.todo /\ f.pc = r.pc /\ f.databases = r.databases /\ f.tables = r.tables
      /\ f.result = r.result /\ f.cleaning = r.cleaning /\ f.detached = r.detached
      /\ f.existing = r.existing /\ f.readonly = r.readonly /\ f.sync = r.sync
      /\ f.results = r.results /\ f.errors = r.errors /\ f.failed = r.failed
  BY <1>1 DEF RestoreFields
<1> HIDE DEF f
<1>3. CommandShape(f)
  BY <1>1, <1>2 DEF Safety, CommandShape, Lists
<1>4. TodoOK(f)
  BY <1>1, <1>2 DEF Safety, TodoOK
<1>5. Keeps(s, f)
  BY <1>1, <1>2 DEF Safety, Keeps, CommandKeeps
<1>6. SyncOK(s, f)
  BY <1>1, <1>2 DEF Safety, SyncOK
<1> QED BY <1>3, <1>4, <1>5, <1>6 DEF Safety, f

LEMMA SameLog ==
    ASSUME NEW s, NEW r, Safety(s, r), NEW d, d.log = s.log
    PROVE  Forward(s, d)
<1>1. \A db \in DOMAIN s.log : s.log[db].ptr \in Nat
  BY DEF Safety, SyncOK, LogOK
<1> QED BY <1>1 DEF Safety, SyncOK, LogOK, Forward

\* The node of a task is dropped.
LEMMA NodeDropped ==
    ASSUME setup \in Setups, NEW s, NEW r, Safety(s, r), NEW node \in DOMAIN r.tasks
    PROVE  Safety(DropReplicas(s, {node}), r)
<1> DEFINE d == DropReplicas(s, {node})
<1>1. ServerShape(d) /\ Forward(s, d)
  BY DropReplicasKeeps, SameLog DEF Safety
<1>2. ASSUME NEW u \in setup.server.tables, Safe(u), ServerKeeps(s, u) PROVE ServerKeeps(d, u)
  <2>1. HasReplica(u) => Node(u.path) \notin {node}
    BY <1>2 DEF Safety, Keeps, CommandKeeps, Node
  <2> QED BY <1>2, <2>1, DropReplicasKeeps DEF Safety
<1> HIDE DEF d
<1>3. Safety(d, r)
  BY <1>1, <1>2, ServerSteps
<1> QED BY <1>3 DEF d

LEMMA DropReplicaKeeps == ASSUME IInv, DropReplica PROVE IInv'
<1>1. PICK node \in DOMAIN restore.tasks :
          \/ UNCHANGED server /\ Proceed([restore EXCEPT !.tasks[node] = "local"])
          \/ /\ server' = DropReplicas(server, {node})
             /\ Proceed([restore EXCEPT !.tasks[node] = "dropped"])
          \/ /\ UNCHANGED server
             /\ \E error : Proceed([restore EXCEPT !.tasks[node] = error])
  BY DEF DropReplica
<1>2. Safety(server, restore) /\ Safety(DropReplicas(server, {node}), restore)
  BY NodeDropped DEF IInv
<1>3. Safety(server', restore')
  BY <1>1, <1>2, TaskStatusKeeps DEF Proceed
<1> QED BY <1>1, <1>3, Primed DEF IInv, Proceed

LEMMA AwaitTaskKeeps == ASSUME IInv, AwaitTask PROVE IInv'
<1>1. /\ restore.pc \in Awaiting /\ restore.todo # <<>>
      /\ \/ Proceed(Skip(restore)) /\ UNCHANGED server
         \/ Proceed(Skip(restore)) /\ server' = DropReplicas(server, {It})
         \/ Proceed(Failed(restore)) /\ UNCHANGED server
  BY DEF AwaitTask
<1>2. It \in DOMAIN restore.tasks
  BY <1>1, HeadAndTail DEF IInv, Safety, CommandShape, Lists, TodoOK, It
<1>3. Safety(server, restore) /\ Safety(DropReplicas(server, {It}), restore)
  BY <1>2, NodeDropped DEF IInv
<1>4. restore.pc \notin SyncLabels
  BY <1>1 DEF Awaiting, SyncLabels
<1>5. Safety(server', restore')
  BY <1>1, <1>3, <1>4, SkipKeeps, FailedKeeps DEF Proceed
<1> QED BY <1>1, <1>5, Primed DEF IInv, Proceed

LEMMA RaiseKeeps == ASSUME IInv, Raise PROVE IInv'
<1>1. Safety(server', restore')
  BY FailedKeeps DEF IInv, Raise, Proceed
<1> QED BY <1>1, Primed DEF IInv, Raise, Proceed

\* Items that are skipped, whatever becomes of the server.
LEMMA LoopSteps ==
    ASSUME IInv, restore.todo # <<>>, restore.pc \notin SyncLabels, Safety(server', restore),
           Proceed(Skip(restore)) \/ Proceed(Error(restore))
    PROVE  IInv'
<1>1. Safety(server', restore')
  BY SkipKeeps, ErrorKeeps DEF Proceed
<1> QED BY <1>1, Primed DEF IInv, Proceed

-----------------------------------------------------------------------------
(* Databases.                                                               *)

LEMMA StartKeeps == ASSUME IInv, Start PROVE IInv'
<1>1. IsSeq(setup.databases)
  BY SetupsAssumption DEF IInv, WellFormed, IsSeq
<1>2. Safety(server, Loop(restore, "mismatched", setup.databases))
  BY <1>1, LoopKeeps
     DEF IInv, Start, At, Before, DatabaseLabels, TableLabels, Awaiting, Preprocessing
<1> QED BY <1>2, Primed DEF IInv, Start, Proceed

LEMMA DatabaseAdded ==
    ASSUME NEW s, NEW r, Safety(s, r), r.pc \in Before, NEW db \in ToSet(setup.databases)
    PROVE  Safety(s, [r EXCEPT !.databases = Append(@, db)])
<1> DEFINE f == [r EXCEPT !.databases = Append(@, db)]
<1>1. /\ DOMAIN f = RestoreFields /\ f.databases = Append(r.databases, db)
      /\ \A x \in RestoreFields \ {"databases"} : f[x] = r[x]
  BY DEF Safety, CommandShape, RestoreFields
<1>2. /\ f.todo = r.todo /\ f.pc = r.pc /\ f.tasks = r.tasks /\ f.tables = r.tables
      /\ f.result = r.result /\ f.cleaning = r.cleaning /\ f.detached = r.detached
      /\ f.existing = r.existing /\ f.readonly = r.readonly /\ f.sync = r.sync
      /\ f.results = r.results /\ f.errors = r.errors
  BY <1>1 DEF RestoreFields
<1> HIDE DEF f
<1>3. IsSeq(f.databases) /\ ToSet(f.databases) \subseteq ToSet(setup.databases)
  BY <1>1, Appended DEF Safety, CommandShape, Lists
<1>4. CommandShape(f)
  BY <1>1, <1>2, <1>3 DEF Safety, CommandShape, Lists
<1>5. TodoOK(f)
  BY <1>2 DEF Safety, TodoOK, Before, SyncLabels
<1>6. Keeps(s, f)
  BY <1>2 DEF Safety, Keeps, CommandKeeps
<1>7. SyncOK(s, f)
  BY <1>2 DEF Safety, SyncOK, Before
<1> QED BY <1>4, <1>5, <1>6, <1>7 DEF Safety, f

LEMMA DropMismatchedKeeps == ASSUME IInv, DropMismatched PROVE IInv'
<1>1. /\ At("mismatched") /\ restore.todo # <<>> /\ UNCHANGED setup
      /\ server' = IF Mismatched(It) THEN DropDatabase(server, It) ELSE server
      /\ \/ restore' = [Skip(restore) EXCEPT !.databases = @]
         \/ restore' = [Skip(restore) EXCEPT !.databases = Append(@, It)]
  BY DEF DropMismatched, Item, Proceed
<1>2. It \in ToSet(setup.databases)
  BY <1>1, HeadAndTail DEF IInv, Safety, CommandShape, Lists, TodoOK, DatabaseLabels, At, It
<1>3. Safety(server', restore)
  <2>1. CASE Mismatched(It)
    <3>1. ServerShape(server') /\ Forward(server, server')
      BY <1>1, <2>1, DropDatabaseKeeps, SameLog DEF IInv, Safety
    <3>2. ASSUME NEW u \in setup.server.tables, Safe(u), ServerKeeps(server, u)
          PROVE  ServerKeeps(server', u)
      <4>1. u.db # It
        BY <1>2, <2>1, <3>2 DEF ServerKeeps, Mismatched
      <4> QED BY <1>1, <1>2, <2>1, <3>2, <4>1, DropDatabaseKeeps DEF IInv, Safety
    <3> QED BY <3>1, <3>2, ServerSteps DEF IInv
  <2>2. CASE ~Mismatched(It)
    BY <1>1, <2>2 DEF IInv
  <2> QED BY <2>1, <2>2
<1>4. Safety(server', Skip(restore)) /\ Skip(restore).pc = restore.pc
  BY <1>1, <1>3, SkipKeeps DEF At, SyncLabels, Safety, CommandShape, RestoreFields, Skip
<1>5. Safety(server', restore')
  <2>1. CASE restore' = [Skip(restore) EXCEPT !.databases = @]
    <3>1. [Skip(restore) EXCEPT !.databases = @] = Skip(restore)
      BY DEF Skip
    <3> QED BY <1>4, <2>1, <3>1
  <2>2. CASE restore' = [Skip(restore) EXCEPT !.databases = Append(@, It)]
    BY <1>1, <1>2, <1>4, <2>2, DatabaseAdded DEF At, Before
  <2> QED BY <1>1, <2>1, <2>2
<1> QED BY <1>1, <1>5, Primed DEF IInv

LEMMA CleanDatabasesKeeps == ASSUME IInv, CleanDatabases PROVE IInv'
<1> DEFINE nodes == UNION {ReplicasToDrop(db) : db \in ToSet(Replicated(restore.databases))}
           dbs == Keep(restore.databases, {n[1] : n \in nodes})
<1>1. /\ At("mismatched") /\ UNCHANGED <<setup, server>>
      /\ \/ \E last \in [DOMAIN dbs -> nodes] :
               restore' = Schedule(restore, nodes, last, "await_databases")
         \/ restore' = Loop(restore, "create_databases", restore.databases)
  BY DEF CleanDatabases, Over, Proceed
<1>2. IsSeq(restore.databases) /\ ToSet(restore.databases) \subseteq ToSet(setup.databases)
  BY DEF IInv, Safety, CommandShape, Lists
<1>3. Safety(server, Loop(restore, "create_databases", restore.databases))
  BY <1>1, <1>2, LoopKeeps DEF IInv, At, Before, TableLabels, Awaiting, Preprocessing
<1>4. ASSUME NEW last \in [DOMAIN dbs -> nodes]
      PROVE  Safety(server, Schedule(restore, nodes, last, "await_databases"))
  <2>1. IsSeq(dbs)
    BY <1>2, Kept
  <2>2. DOMAIN dbs = 1..Len(dbs) /\ Len(dbs) \in Nat
    BY <2>1 DEF IsSeq
  <2>3. last \in Seq(nodes)
    <3> HIDE DEF nodes, dbs
    <3> QED BY <1>4, <2>2, SeqDef
  <2>4. IsSeq(last) /\ ToSet(last) \subseteq nodes
    BY <2>3, SeqOfElements
  <2>5. ASSUME NEW u \in setup.server.tables, NEW n \in nodes PROVE n[1] # u.path
    <3>1. PICK db \in ToSet(Replicated(restore.databases)) : n \in ReplicasToDrop(db)
      OBVIOUS
    <3>2. db \in ToSet(setup.databases) /\ n[1] = db
      BY <1>2, <3>1, ReplicatedDatabases DEF IInv, ReplicasToDrop
    <3> QED BY <3>2, SetupsAssumption DEF IInv, WellFormed
  <2> HIDE DEF nodes, dbs
  <2> QED BY <1>1, <2>4, <2>5, ScheduleKeeps DEF IInv, At, Before, Awaiting, Preprocessing
<1>5. Safety(server', restore')
  <2> HIDE DEF nodes, dbs
  <2> QED BY <1>1, <1>3, <1>4
<1> QED BY <1>1, <1>5, Primed DEF IInv

LEMMA DatabasesCleanedKeeps == ASSUME IInv, DatabasesCleaned PROVE IInv'
<1>1. IsSeq(restore.databases) /\ ToSet(restore.databases) \subseteq ToSet(setup.databases)
  BY DEF IInv, Safety, CommandShape, Lists
<1>2. Safety(server, Loop(restore, "create_databases", restore.databases))
  BY <1>1, LoopKeeps
     DEF IInv, DatabasesCleaned, Over, At, Before, TableLabels, Awaiting, Preprocessing
<1> QED BY <1>2, Primed DEF IInv, DatabasesCleaned, Proceed

\* The log of a database is followed from its start, before any was synchronised.
LEMMA RestoreDatabaseKeeps == ASSUME IInv, RestoreDatabase PROVE IInv'
<1>1. /\ At("create_databases") /\ restore.todo # <<>>
      /\ CanCreateDatabase(server, It, setup.engines[It])
      /\ server' = CreateDatabase(server, It, setup.engines[It])
      /\ Proceed(Skip(restore))
  BY DEF RestoreDatabase, Item
<1>2. /\ ServerShape(server') /\ server'.log = [server.log EXCEPT ![It].ptr = 0]
      /\ \A u : ServerKeeps(server, u) => ServerKeeps(server', u)
  BY <1>1, CreateDatabaseKeeps DEF IInv, Safety
<1>3. LogOK(server')
  <2>1. LogOK(server)
    BY DEF IInv, Safety, SyncOK
  <2>2. /\ DOMAIN server'.log = DOMAIN server.log
        /\ \A db \in DOMAIN server.log :
              server'.log[db] =
                 IF db = It THEN [server.log[db] EXCEPT !.ptr = 0] ELSE server.log[db]
    BY <1>2
  <2>3. ASSUME NEW db \in DOMAIN server.log
        PROVE  /\ server'.log[db] \in [ptr : Nat, max : Nat]
               /\ server'.log[db].max = server.log[db].max
    <3>1. server.log[db] \in [ptr : Nat, max : Nat]
      BY <2>1 DEF LogOK
    <3>2. CASE db = It
      <4> DEFINE log == server.log[db]
      <4>1. server'.log[db] = [log EXCEPT !.ptr = 0]
        BY <2>2, <3>2
      <4>2. log \in [ptr : Nat, max : Nat]
        BY <3>1
      <4> HIDE DEF log
      <4>3. /\ [log EXCEPT !.ptr = 0] \in [ptr : Nat, max : Nat]
            /\ [log EXCEPT !.ptr = 0].max = log.max
        BY <4>2
      <4> QED BY <4>1, <4>3 DEF log
    <3>3. CASE db # It
      BY <2>2, <3>1, <3>3
    <3> QED BY <3>2, <3>3
  <2> QED BY <2>1, <2>2, <2>3 DEF LogOK
<1>4. Safety(server', restore)
  <2>1. Keeps(server', restore)
    BY <1>2 DEF IInv, Safety, Keeps
  <2>2. SyncOK(server', restore)
    BY <1>1, <1>3 DEF IInv, Safety, SyncOK, At, Before, SyncLabels
  <2> QED BY <1>2, <2>1, <2>2 DEF IInv, Safety
<1> QED BY <1>1, <1>4, LoopSteps DEF At, SyncLabels

LEMMA DatabaseFailsKeeps == ASSUME IInv, DatabaseFails PROVE IInv'
BY LoopSteps DEF IInv, DatabaseFails, Item, At, SyncLabels

-----------------------------------------------------------------------------
(* Synchronisation.                                                         *)

\* The synchronisation of the first database that is left has ended.
LEMMA SyncedKeeps ==
    ASSUME IInv, restore.pc \in SyncLabels, restore.todo # <<>>, UNCHANGED <<setup, server>>,
           NEW status \in {"FAILED", "DONE"}, status = "DONE" => CaughtUp(server, It),
           restore' = Synced(status)
    PROVE  IInv'
<1> DEFINE results == [db \in DOMAIN restore.results \cup {It} |->
                          IF db = It THEN status ELSE restore.results[db]]
           r == [restore EXCEPT !.results = results, !.pc = "sync"]
<1>1. /\ DOMAIN r = RestoreFields /\ r.pc = "sync" /\ r.results = results
      /\ \A x \in RestoreFields \ {"results", "pc"} : r[x] = restore[x]
  <2> HIDE DEF results
  <2> QED BY DEF IInv, Safety, CommandShape, RestoreFields
<1>2. restore' = IF status = "FAILED" /\ r.sync.again THEN Error(r) ELSE Skip(r)
  BY DEF Synced
<1> HIDE DEF r
<1>3. /\ r.todo = restore.todo /\ r.databases = restore.databases /\ r.tasks = restore.tasks
      /\ r.tables = restore.tables /\ r.result = restore.result /\ r.cleaning = restore.cleaning
      /\ r.detached = restore.detached /\ r.existing = restore.existing
      /\ r.readonly = restore.readonly /\ r.sync = restore.sync /\ r.errors = restore.errors
  BY <1>1 DEF RestoreFields
<1>4. /\ IsSeq(r.todo) /\ r.todo # <<>> /\ IsSeq(Tail(r.todo))
      /\ ToSet(r.todo) = {It} \cup ToSet(Tail(r.todo))
      /\ ToSet(r.todo) \subseteq ToSet(Replicated(r.databases))
  BY <1>3, HeadAndTail DEF IInv, Safety, CommandShape, Lists, TodoOK, It
<1>5. CommandShape(r) /\ TodoOK(r)
  BY <1>1, <1>3, <1>4
     DEF IInv, Safety, CommandShape, Lists, TodoOK, SyncLabels, DatabaseLabels, TableLabels,
         Awaiting
<1>6. Keeps(server, r)
  BY <1>1, <1>3 DEF IInv, Safety, Keeps, CommandKeeps, Preprocessing
<1>7. /\ DOMAIN r.results = DOMAIN restore.results \cup {It} /\ r.results[It] = status
      /\ \A db \in DOMAIN restore.results \ {It} : r.results[db] = restore.results[db]
  BY <1>1
<1> HIDE DEF results
<1>8. SyncOK(server, r)
  BY <1>1, <1>3, <1>4, <1>7 DEF IInv, Safety, SyncOK, SyncLabels, Before
<1>9. Safety(server, r)
  BY <1>5, <1>6, <1>8 DEF IInv, Safety
<1>10. ASSUME status = "DONE" \/ ~r.sync.again \/ KeepGoing PROVE Safety(server, Skip(r))
  <2> DEFINE f == Skip(r)
  <2>1. /\ DOMAIN f = RestoreFields /\ f.todo = Tail(r.todo)
        /\ \A x \in RestoreFields \ {"todo"} : f[x] = r[x]
    BY <1>1 DEF RestoreFields, Skip
  <2>2. /\ f.pc = "sync" /\ f.databases = r.databases /\ f.tasks = r.tasks
        /\ f.tables = r.tables /\ f.result = r.result /\ f.cleaning = r.cleaning
        /\ f.detached = r.detached /\ f.existing = r.existing
        /\ f.readonly = r.readonly /\ f.sync = r.sync /\ f.errors = r.errors
        /\ f.results = r.results
    BY <1>1, <2>1 DEF RestoreFields
  <2> HIDE DEF f
  <2>3. CommandShape(f) /\ TodoOK(f)
    BY <1>4, <1>5, <2>1, <2>2
       DEF CommandShape, Lists, TodoOK, SyncLabels, DatabaseLabels, TableLabels, Awaiting
  <2>4. Keeps(server, f)
    BY <1>6, <2>1, <2>2 DEF Keeps, CommandKeeps, Preprocessing
  <2>5. SyncOK(server, f)
    BY <1>1, <1>4, <1>7, <1>8, <1>10, <2>1, <2>2 DEF SyncOK, SyncLabels, Before
  <2> QED BY <1>9, <2>3, <2>4, <2>5 DEF Safety, f
<1>11. Safety(server', restore')
  BY <1>2, <1>9, <1>10, FailedKeeps DEF Error
<1> QED BY <1>11, Primed DEF IInv

\* What is known of the synchronisation, or the label, changes.
WithSync(r, pc, sync) == [r EXCEPT !.pc = pc, !.sync = sync]

LEMMA SyncFields ==
    ASSUME NEW s, NEW r, Safety(s, r), NEW pc, NEW sync,
           NEW f, f = WithSync(r, pc, sync)
    PROVE  /\ CommandShape(f) /\ f.pc = pc /\ f.sync = sync /\ f.todo = r.todo
           /\ f.databases = r.databases /\ f.results = r.results
           /\ pc \in SyncLabels \cup {"done", "failed", "list_tables"} => Keeps(s, f)
<1>1. /\ DOMAIN f = RestoreFields /\ f.pc = pc /\ f.sync = sync
      /\ \A x \in RestoreFields \ {"pc", "sync"} : f[x] = r[x]
  BY DEF Safety, CommandShape, RestoreFields, WithSync
<1>2. /\ f.todo = r.todo /\ f.databases = r.databases /\ f.tasks = r.tasks
      /\ f.tables = r.tables /\ f.result = r.result /\ f.cleaning = r.cleaning
      /\ f.detached = r.detached /\ f.existing = r.existing
      /\ f.readonly = r.readonly /\ f.errors = r.errors /\ f.results = r.results
  BY <1>1 DEF RestoreFields
<1>3. CommandShape(f)
  BY <1>1, <1>2 DEF Safety, CommandShape, Lists
<1>4. pc \in SyncLabels \cup {"done", "failed", "list_tables"} => Keeps(s, f)
  BY <1>1, <1>2 DEF Safety, Keeps, CommandKeeps, Preprocessing, SyncLabels
<1> QED BY <1>1, <1>2, <1>3, <1>4

\* The two synchronisations begin.
LEMMA SyncBegins ==
    ASSUME NEW s, NEW r, Safety(s, r), r.pc \in {"create_databases", "data"},
           NEW todo, IsSeq(todo), ToSet(todo) \subseteq ToSet(Replicated(r.databases)), NEW sync,
           r.pc = "create_databases" =>
              ~sync.again /\ ToSet(Replicated(r.databases)) \subseteq ToSet(todo),
           r.pc = "data" =>
              \A db \in DOMAIN r.results : r.results[db] = "FAILED" => db \in ToSet(todo)
    PROVE  Safety(s, [Loop(r, "sync", todo) EXCEPT !.sync = sync])
<1> DEFINE l == Loop(r, "sync", todo)
           f == [l EXCEPT !.sync = sync]
<1>1. /\ DOMAIN l = RestoreFields /\ l.todo = todo /\ l.pc = "sync"
      /\ \A x \in RestoreFields \ {"todo", "pc"} : l[x] = r[x]
  BY DEF Safety, CommandShape, RestoreFields, Loop
<1> HIDE DEF l
<1>2. /\ DOMAIN f = RestoreFields /\ f.todo = todo /\ f.pc = "sync" /\ f.sync = sync
      /\ \A x \in RestoreFields \ {"todo", "pc", "sync"} : f[x] = r[x]
  BY <1>1 DEF RestoreFields
<1> HIDE DEF f
<1>3. /\ f.databases = r.databases /\ f.tasks = r.tasks
      /\ f.tables = r.tables /\ f.result = r.result /\ f.cleaning = r.cleaning
      /\ f.detached = r.detached /\ f.existing = r.existing
      /\ f.readonly = r.readonly /\ f.errors = r.errors /\ f.results = r.results
  BY <1>2 DEF RestoreFields
<1>4. CommandShape(f) /\ TodoOK(f)
  BY <1>2, <1>3
     DEF Safety, CommandShape, Lists, TodoOK, SyncLabels, DatabaseLabels, TableLabels, Awaiting
<1>5. Keeps(s, f)
  BY <1>2, <1>3 DEF Safety, Keeps, CommandKeeps, Preprocessing
<1>6. SyncOK(s, f)
  BY <1>2, <1>3 DEF Safety, SyncOK, SyncLabels, Before
<1> QED BY <1>4, <1>5, <1>6 DEF Safety, f, l

LEMMA StartSyncKeeps == ASSUME IInv, StartSync PROVE IInv'
<1>1. IsSeq(Replicated(restore.databases))
  BY ReplicatedDatabases DEF IInv, Safety, CommandShape, Lists
<1>2. Safety(server', restore')
  BY <1>1, SyncBegins DEF IInv, StartSync, Over, At, Proceed
<1> QED BY <1>2, Primed DEF IInv, StartSync, Proceed

LEMMA SyncAgainKeeps == ASSUME IInv, SyncAgain PROVE IInv'
<1>1. IsSeq(restore.databases)
  BY DEF IInv, Safety, CommandShape, Lists
<1>2. /\ IsSeq(FailedDatabases)
      /\ ToSet(FailedDatabases) =
            ToSet(restore.databases)
               \cap {db \in DOMAIN restore.results : restore.results[db] = "FAILED"}
  BY <1>1, Kept DEF FailedDatabases
<1>3. /\ DOMAIN restore.results \subseteq ToSet(Replicated(restore.databases))
      /\ ToSet(Replicated(restore.databases)) \subseteq ToSet(restore.databases)
  BY <1>1, ReplicatedDatabases DEF IInv, Safety, SyncOK, CommandShape
<1>4. Safety(server', restore')
  BY <1>2, <1>3, SyncBegins DEF IInv, SyncAgain, Over, At, Proceed
<1> QED BY <1>4, Primed DEF IInv, SyncAgain, Proceed

LEMMA SyncOverKeeps == ASSUME IInv, SyncOver PROVE IInv'
<1> DEFINE pc == IF restore.sync.again THEN End ELSE "list_tables"
           f == [restore EXCEPT !.pc = pc, !.sync = restore.sync]
<1>1. At("sync") /\ restore.todo = <<>> /\ restore' = f /\ UNCHANGED <<setup, server>>
  <2>1. f = [restore EXCEPT !.pc = pc]
    BY DEF IInv, Safety, CommandShape, RestoreFields
  <2> QED BY <2>1 DEF SyncOver, Over, Proceed
<1>2. /\ CommandShape(f) /\ f.pc = pc /\ f.sync = restore.sync /\ f.todo = restore.todo
      /\ f.databases = restore.databases /\ f.results = restore.results /\ Keeps(server, f)
  <2>1. pc \in SyncLabels \cup {"done", "failed", "list_tables"}
    BY DEF End
  <2>2. f = WithSync(restore, pc, restore.sync)
    BY DEF WithSync
  <2> HIDE DEF pc, f
  <2> QED BY <2>1, <2>2, SyncFields DEF IInv
<1>3. TodoOK(f)
  <2>1. f.failed = restore.failed
    BY DEF IInv, Safety, CommandShape, RestoreFields
  <2> HIDE DEF f
  <2> QED BY <1>2, <2>1 DEF TodoOK, DatabaseLabels, SyncLabels, TableLabels, Awaiting, End
<1> HIDE DEF f
<1>4. SyncOK(server, f)
  BY <1>1, <1>2, NoElements DEF IInv, Safety, SyncOK, At, SyncLabels, Before, End
<1>5. Safety(server', restore')
  BY <1>1, <1>2, <1>3, <1>4 DEF IInv, Safety
<1> QED BY <1>1, <1>5, Primed DEF IInv

LEMMA ItsLog ==
    ASSUME IInv, restore.pc \in SyncLabels, restore.todo # <<>>
    PROVE  /\ It \in DOMAIN server.log
           /\ server.log[It].ptr \in Nat /\ server.log[It].max \in Nat
           /\ setup.server.log[It].max \in Nat
           /\ server.log[It].max >= setup.server.log[It].max
<1>1. It \in ToSet(Replicated(restore.databases))
  BY HeadAndTail DEF IInv, Safety, CommandShape, Lists, TodoOK, It
<1>2. LogOK(server)
  BY DEF IInv, Safety, SyncOK
<1>3. It \in DOMAIN server.log
  BY <1>1, <1>2, ReplicatedDatabases DEF IInv, Safety, CommandShape, Lists
<1> QED BY <1>2, <1>3, SetupsAssumption DEF IInv, LogOK, WellFormed

LEMMA PollingKeeps ==
    ASSUME IInv, restore.pc \in SyncLabels, restore.todo # <<>>, UNCHANGED <<setup, server>>,
           NEW sync, {"again", "ptr", "max"} \subseteq DOMAIN sync, sync.again = restore.sync.again,
           sync.ptr \in Nat /\ sync.ptr <= server.log[It].ptr,
           sync.max \in Nat /\ sync.max >= setup.server.log[It].max,
           restore' = [restore EXCEPT !.pc = "poll", !.sync = sync]
    PROVE  IInv'
<1> DEFINE f == [restore EXCEPT !.pc = "poll", !.sync = sync]
<1>1. /\ CommandShape(f) /\ f.pc = "poll" /\ f.sync = sync /\ f.todo = restore.todo
      /\ f.databases = restore.databases /\ f.results = restore.results /\ Keeps(server, f)
  <2>1. "poll" \in SyncLabels \cup {"done", "failed", "list_tables"}
    BY DEF SyncLabels
  <2>2. f = WithSync(restore, "poll", sync)
    BY DEF WithSync
  <2> HIDE DEF f
  <2> QED BY <2>1, <2>2, SyncFields DEF IInv
<1> HIDE DEF f
<1>2. TodoOK(f)
  BY <1>1 DEF IInv, Safety, TodoOK, DatabaseLabels, SyncLabels, TableLabels, Awaiting
<1>3. SyncOK(server, f)
  BY <1>1 DEF IInv, Safety, SyncOK, SyncLabels, Before, It
<1>4. Safety(server', restore')
  BY <1>1, <1>2, <1>3 DEF IInv, Safety, f
<1> QED BY <1>4, Primed DEF IInv

LEMMA ResolveKeeps == ASSUME IInv, Resolve PROVE IInv'
<1>1. /\ At("sync") /\ restore.todo # <<>> /\ UNCHANGED <<setup, server>>
      /\ \/ restore' = [restore EXCEPT !.pc = "poll",
                           !.sync = [left |-> @.left, again |-> @.again, max |-> server.log[It].max,
                                     prev |-> server.log[It].ptr, ptr |-> server.log[It].ptr,
                                     stalls |-> 0]]
         \/ restore' = Synced("FAILED")
  BY DEF Resolve, Item, Proceed
<1>2. restore.pc \in SyncLabels
  BY <1>1 DEF At, SyncLabels
<1>3. CASE restore' = Synced("FAILED")
  BY <1>1, <1>2, <1>3, SyncedKeeps
<1>4. CASE restore' # Synced("FAILED")
  <2> DEFINE sync == [left |-> restore.sync.left, again |-> restore.sync.again,
                      max |-> server.log[It].max, prev |-> server.log[It].ptr,
                      ptr |-> server.log[It].ptr, stalls |-> 0]
  <2>1. restore' = [restore EXCEPT !.pc = "poll", !.sync = sync]
    BY <1>1, <1>4
  <2>2. /\ {"again", "ptr", "max"} \subseteq DOMAIN sync /\ sync.again = restore.sync.again
        /\ sync.ptr = server.log[It].ptr /\ sync.max = server.log[It].max
    OBVIOUS
  <2>3. /\ server.log[It].ptr \in Nat /\ server.log[It].max \in Nat
        /\ server.log[It].max >= setup.server.log[It].max
    BY <1>1, <1>2, ItsLog
  <2> HIDE DEF sync
  <2>4. sync.ptr <= server.log[It].ptr
    BY <2>2, <2>3
  <2> QED BY <1>1, <1>2, <2>1, <2>2, <2>3, <2>4, PollingKeeps
<1> QED BY <1>3, <1>4

LEMMA PollKeeps == ASSUME IInv, Poll PROVE IInv'
<1> DEFINE s == restore.sync
<1>1. /\ At("poll") /\ UNCHANGED <<setup, server>>
      /\ \/ restore' = Synced("FAILED")
         \/ Reached /\ restore' = Synced("DONE")
         \/ \E stalls : restore' = [restore EXCEPT
               !.sync = [s EXCEPT !.left = @ - 1, !.stalls = stalls, !.prev = s.ptr,
                                  !.ptr = server.log[It].ptr]]
  BY DEF Poll, Proceed
<1>2. /\ restore.pc \in SyncLabels /\ restore.todo # <<>>
      /\ {"again", "ptr", "max"} \subseteq DOMAIN s
      /\ s.ptr \in Nat /\ s.ptr <= server.log[It].ptr
      /\ s.max \in Nat /\ s.max >= setup.server.log[It].max
  BY <1>1 DEF IInv, Safety, SyncOK, At, SyncLabels, It
<1>3. /\ server.log[It].ptr \in Nat /\ setup.server.log[It].max \in Nat
  BY <1>2, ItsLog
<1>4. CASE restore' = Synced("FAILED")
  BY <1>1, <1>2, <1>4, SyncedKeeps
<1>5. CASE Reached /\ restore' = Synced("DONE")
  <2>1. CaughtUp(server, It)
    BY <1>2, <1>3, <1>5 DEF Reached, CaughtUp
  <2> QED BY <1>1, <1>2, <1>5, <2>1, SyncedKeeps
<1>6. ASSUME NEW stalls,
             restore' = [restore EXCEPT
               !.sync = [s EXCEPT !.left = @ - 1, !.stalls = stalls, !.prev = s.ptr,
                                  !.ptr = server.log[It].ptr]]
      PROVE  IInv'
  <2> DEFINE sync == [s EXCEPT !.left = @ - 1, !.stalls = stalls, !.prev = s.ptr,
                               !.ptr = server.log[It].ptr]
  <2>1. restore' = [restore EXCEPT !.pc = "poll", !.sync = sync]
    BY <1>1, <1>6 DEF IInv, Safety, CommandShape, RestoreFields, At
  <2>2. /\ {"again", "ptr", "max"} \subseteq DOMAIN sync /\ sync.again = s.again
        /\ sync.ptr = server.log[It].ptr /\ sync.max = s.max
    BY <1>2
  <2> HIDE DEF sync
  <2>3. sync.ptr <= server.log[It].ptr
    BY <1>3, <2>2
  <2> QED BY <1>1, <1>2, <1>3, <2>1, <2>2, <2>3, PollingKeeps
<1> QED BY <1>1, <1>4, <1>5, <1>6

-----------------------------------------------------------------------------
(* Tables that are there.                                                   *)

\* What it means for a table of the backup that another one is safe.
LEMMA OfTheBackup ==
    ASSUME NEW u, Safe(u), NEW t \in ToSet(TablesMeta)
    PROVE  /\ t.name = u.name => t.schema = u.schema /\ ~Readonly(setup.server, u)
           /\ t.uuid = u.uuid => t.name = u.name
           /\ HasReplica(u) /\ t.path = u.path => t.name = u.name
BY DEF Safe, Apart, AsRestored, HasReplica

LEMMA NotReadonly ==
    ASSUME NEW s, NEW u, ServerKeeps(s, u), ~Readonly(setup.server, u),
           NEW w \in Named(s.tables, u.name)
    PROVE  ~Readonly(s, w)
BY DEF ServerKeeps, HasReplica, Readonly, IsReplicated, Like

\* One of the lists is made.
WithLists(pc, tables, detached, existing, readonly) ==
    [restore EXCEPT !.pc = pc, !.tables = tables, !.detached = detached, !.existing = existing,
                    !.readonly = readonly]

LEMMA ListFields ==
    ASSUME CommandShape(restore), NEW pc, NEW tables, NEW detached, NEW existing, NEW readonly
    PROVE  LET f == WithLists(pc, tables, detached, existing, readonly)
           IN  /\ DOMAIN f = RestoreFields /\ f.pc = pc /\ f.tables = tables
               /\ f.detached = detached /\ f.existing = existing /\ f.readonly = readonly
               /\ \A x \in RestoreFields \ {"pc", "tables", "detached", "existing", "readonly"} :
                     f[x] = restore[x]
BY DEF CommandShape, RestoreFields, WithLists

LEMMA ListsKeep ==
    ASSUME IInv, restore.pc \in {"list_tables", "list_existing", "list_readonly"},
           NEW pc \in {"list_existing", "list_readonly", "clean_readonly"},
           NEW tables \in {restore.tables, TablesToPreprocess},
           NEW detached \in {restore.detached, server.detached},
           NEW existing \in {restore.existing, server.tables},
           NEW readonly \in {restore.readonly, ReadonlyNow},
           pc \in Preprocessing => restore.pc \in Preprocessing \/ existing = server.tables,
           restore' = WithLists(pc, tables, detached, existing, readonly),
           UNCHANGED <<setup, server>>
    PROVE  IInv'
<1> DEFINE f == WithLists(pc, tables, detached, existing, readonly)
<1>1. /\ DOMAIN f = RestoreFields /\ f.pc = pc /\ f.tables = tables
      /\ f.detached = detached /\ f.existing = existing /\ f.readonly = readonly
      /\ \A x \in RestoreFields \ {"pc", "tables", "detached", "existing", "readonly"} :
            f[x] = restore[x]
  BY ListFields DEF IInv, Safety
<1> HIDE DEF f
<1>2. /\ f.todo = restore.todo /\ f.databases = restore.databases /\ f.tasks = restore.tasks
      /\ f.result = restore.result /\ f.cleaning = restore.cleaning
      /\ f.sync = restore.sync /\ f.results = restore.results /\ f.errors = restore.errors
  BY <1>1 DEF RestoreFields
<1>3. IsSeq(tables) /\ ToSet(tables) \subseteq ToSet(TablesMeta)
  <2>1. IsSeq(restore.tables) /\ ToSet(restore.tables) \subseteq ToSet(TablesMeta)
    BY DEF IInv, Safety, CommandShape, Lists
  <2>2. IsSeq(TablesToPreprocess) /\ ToSet(TablesToPreprocess) \subseteq ToSet(TablesMeta)
    BY TheTables, Kept DEF IInv, TablesToPreprocess
  <2> QED BY <2>1, <2>2
<1>4. CommandShape(f)
  BY <1>1, <1>2, <1>3 DEF IInv, Safety, ServerShape, CommandShape, Lists
<1>5. TodoOK(f)
  BY <1>1 DEF TodoOK, DatabaseLabels, SyncLabels, TableLabels, Awaiting
<1>6. ASSUME NEW u \in setup.server.tables, Safe(u), ServerKeeps(server, u),
             CommandKeeps(restore, u)
      PROVE  CommandKeeps(f, u)
  <2>1. ~Readonly(setup.server, u) => u.name \notin readonly
    BY <1>6, NotReadonly DEF CommandKeeps, ReadonlyNow, NamesOf, Named
  <2>2. \A w \in Named(existing, u.name) : Like(w, u)
    BY <1>6 DEF CommandKeeps, ServerKeeps
  <2>3. pc \in Preprocessing => Named(existing, u.name) # {}
    BY <1>6 DEF CommandKeeps, ServerKeeps
  <2> QED BY <1>1, <1>2, <1>6, <2>1, <2>2, <2>3 DEF CommandKeeps
<1>7. SyncOK(server, f)
  BY <1>1, <1>2 DEF IInv, Safety, SyncOK, SyncLabels, Before
<1>8. Safety(server, f)
  BY <1>4, <1>5, <1>6, <1>7 DEF IInv, Safety, Keeps
<1> QED BY <1>8, Primed DEF IInv, f

LEMMA ListTablesKeeps == ASSUME IInv, ListTables PROVE IInv'
<1> DEFINE f == WithLists("list_existing", TablesToPreprocess, server.detached,
                          restore.existing, restore.readonly)
<1>1. /\ restore.pc = "list_tables" /\ UNCHANGED <<setup, server>>
      /\ \/ restore' = Failed(restore)
         \/ restore' = f
  BY DEF ListTables, Proceed, At, WithLists, IInv, Safety, CommandShape, RestoreFields
<1>2. CASE restore' = Failed(restore)
  <2>1. Safety(server', restore')
    BY <1>1, <1>2, FailedKeeps DEF IInv
  <2> QED BY <1>1, <2>1, Primed DEF IInv
<1>3. CASE restore' = f
  BY <1>1, <1>3, ListsKeep DEF Preprocessing
<1> QED BY <1>1, <1>2, <1>3

LEMMA ListExistingKeeps == ASSUME IInv, ListExisting PROVE IInv'
<1>1. /\ restore.pc = "list_existing" /\ UNCHANGED <<setup, server>>
      /\ restore' = WithLists("list_readonly", restore.tables, restore.detached,
                              server.tables, restore.readonly)
  BY DEF ListExisting, Proceed, At, WithLists, IInv, Safety, CommandShape, RestoreFields
<1> QED BY <1>1, ListsKeep

LEMMA ListReadonlyKeeps == ASSUME IInv, ListReadonly PROVE IInv'
<1>1. /\ restore.pc = "list_readonly" /\ UNCHANGED <<setup, server>>
      /\ restore' = WithLists("clean_readonly", restore.tables, restore.detached,
                              restore.existing, ReadonlyNow)
  BY DEF ListReadonly, Proceed, At, WithLists, IInv, Safety, CommandShape, RestoreFields
<1> QED BY <1>1, ListsKeep DEF Preprocessing

\* The nodes of tables that are not safe are scheduled.
LEMMA CleanTablesKeeps ==
    ASSUME IInv, restore.pc \in Middle, NEW pc \in {"await_readonly", "await_tables"},
           pc \in Preprocessing => restore.pc \in Preprocessing,
           NEW tables, ToSet(tables) \subseteq ToSet(TablesMeta),
           \A u \in setup.server.tables : Safe(u) /\ HasReplica(u) =>
              \A t \in ToSet(tables) : t.name # u.name,
           CleanTables(tables, pc), UNCHANGED server
    PROVE  IInv'
<1> DEFINE nodes == NodesToDrop(tables)
<1>1. PICK awaited \in SetToSeqs(nodes) : Proceed(Schedule(restore, nodes, awaited, pc))
  BY DEF CleanTables
<1>2. IsSeq(awaited) /\ ToSet(awaited) \subseteq nodes
  <2>1. nodes \subseteq server.nodes
    BY DEF NodesToDrop, ReplicasToDrop
  <2> HIDE DEF nodes
  <2>2. Cardinality(nodes) \in Nat
    BY <2>1, FS_Subset, FS_CardinalityType DEF IInv, Safety, ServerShape
  <2>3. awaited \in [1..Cardinality(nodes) -> nodes]
    BY DEF SetToSeqs
  <2>4. awaited \in Seq(nodes)
    BY <2>2, <2>3, SeqDef
  <2> QED BY <2>4, SeqOfElements
<1>3. ASSUME NEW u \in setup.server.tables, Safe(u), HasReplica(u), NEW n \in nodes
      PROVE  n[1] # u.path
  <2>1. PICK t \in ToSet(tables) : n \in ReplicasToDrop(t.path)
    BY DEF NodesToDrop
  <2>2. n[1] = t.path /\ t \in ToSet(TablesMeta) /\ t.name # u.name
    BY <1>3, <2>1 DEF ReplicasToDrop
  <2> QED BY <1>3, <2>2, OfTheBackup
<1> HIDE DEF nodes
<1>4. pc \in Awaiting /\ pc \in Middle
  BY DEF Awaiting, Middle
<1>5. Safety(server, Schedule(restore, nodes, awaited, pc))
  BY <1>2, <1>3, <1>4, ScheduleKeeps DEF IInv
<1> QED BY <1>1, <1>5, Primed DEF IInv, Proceed

\* Readonly tables are not safe.
LEMMA FixedTables ==
    ASSUME IInv
    PROVE  /\ IsSeq(Fixing) /\ ToSet(Fixing) \subseteq ToSet(TablesMeta)
           /\ \A t \in ToSet(Fixing) : t.name \in restore.readonly
<1>1. IsSeq(restore.tables) /\ ToSet(restore.tables) \subseteq ToSet(TablesMeta)
  BY DEF IInv, Safety, CommandShape, Lists
<1> QED BY <1>1, NoElements, Kept DEF Fixing

LEMMA CleanReadonlyKeeps == ASSUME IInv, CleanReadonly PROVE IInv'
<1>1. restore.pc \in Middle /\ restore.pc \in Preprocessing
  BY DEF CleanReadonly, At, Middle, Preprocessing
<1>2. ASSUME NEW u \in setup.server.tables, Safe(u), HasReplica(u), NEW t \in ToSet(Fixing)
      PROVE  t.name # u.name
  BY <1>2, FixedTables DEF IInv, Safety, Keeps, CommandKeeps, HasReplica
<1> QED BY <1>1, <1>2, FixedTables, CleanTablesKeeps DEF CleanReadonly

LEMMA ReadonlyCleanedKeeps == ASSUME IInv, ReadonlyCleaned PROVE IInv'
<1>1. Safety(server, Loop(restore, "restore_replicas", Fixing))
  BY FixedTables, LoopKeeps
     DEF IInv, ReadonlyCleaned, Over, At, Middle, DatabaseLabels, Awaiting, Preprocessing
<1> QED BY <1>1, Primed DEF IInv, ReadonlyCleaned, Proceed

LEMMA FixReplicaKeeps == ASSUME IInv, FixReplica PROVE IInv'
<1> DEFINE fixed == {t \in Named(server.tables, It.name) : CanRestoreReplica(server, t)}
           d == [server EXCEPT !.nodes = @ \cup {Node(t.path) : t \in fixed}]
<1>1. /\ At("restore_replicas") /\ restore.todo # <<>> /\ server' \in {server, d}
      /\ Proceed(Skip(restore))
  BY DEF FixReplica, Item
<1>2. fixed \in SUBSET server.tables
  BY DEF Named
<1>3. ServerShape(d) /\ d.log = server.log /\ \A u : ServerKeeps(server, u) => ServerKeeps(d, u)
  <2> HIDE DEF fixed
  <2> QED BY <1>2, RestoreReplicasKeeps DEF IInv, Safety
<1> HIDE DEF d
<1>4. Safety(d, restore)
  BY <1>3, SameLog, ServerSteps DEF IInv
<1> QED BY <1>1, <1>4, LoopSteps DEF IInv, At, SyncLabels

LEMMA ReplicasFixedKeeps == ASSUME IInv, ReplicasFixed PROVE IInv'
<1> DEFINE fixing == NamesOf(ToSet(Fixing))
           r == Loop(restore, "preprocess", restore.tables)
           readonly == r.readonly \ (fixing \ ReadonlyNow)
           f == [r EXCEPT !.readonly = readonly, !.cleaned = fixing]
<1>1. At("restore_replicas") /\ UNCHANGED <<setup, server>> /\ restore' = f
  BY DEF ReplicasFixed, Over, Proceed
<1>2. Safety(server, r)
  BY <1>1, LoopKeeps
     DEF IInv, Safety, CommandShape, Lists, At, Middle, DatabaseLabels, Awaiting, Preprocessing
<1> HIDE DEF r
<1>3. /\ DOMAIN f = RestoreFields /\ f.readonly = readonly
      /\ \A x \in RestoreFields \ {"readonly", "cleaned"} : f[x] = r[x]
  <2> HIDE DEF readonly, fixing
  <2> QED BY <1>2 DEF Safety, CommandShape, RestoreFields
<1>4. readonly \subseteq r.readonly
  OBVIOUS
<1> HIDE DEF f, readonly
<1>5. /\ f.todo = r.todo /\ f.pc = r.pc /\ f.databases = r.databases /\ f.tasks = r.tasks
      /\ f.tables = r.tables /\ f.result = r.result /\ f.cleaning = r.cleaning
      /\ f.detached = r.detached /\ f.existing = r.existing /\ f.sync = r.sync
      /\ f.results = r.results /\ f.errors = r.errors /\ f.failed = r.failed
  BY <1>3 DEF RestoreFields
<1>6. CommandShape(f)
  BY <1>2, <1>3, <1>5 DEF Safety, CommandShape, Lists
<1>7. TodoOK(f)
  BY <1>2, <1>5 DEF Safety, TodoOK
<1>8. Keeps(server, f)
  BY <1>2, <1>3, <1>4, <1>5 DEF Safety, Keeps, CommandKeeps
<1>9. SyncOK(server, f)
  BY <1>2, <1>5 DEF Safety, SyncOK
<1>10. Safety(server', restore')
  BY <1>1, <1>2, <1>6, <1>7, <1>8, <1>9 DEF Safety
<1> QED BY <1>1, <1>10, Primed DEF IInv

LEMMA NotInTheWay ==
    ASSUME IInv, At("preprocess"), NEW t \in ToSet(TablesMeta), ~IsRestored(t),
           NEW u \in setup.server.tables, Safe(u)
    PROVE  t.name # u.name /\ u.name \notin InTheWay(t)
<1>1. CommandKeeps(restore, u) /\ Named(restore.existing, u.name) # {}
  BY DEF IInv, Safety, Keeps, CommandKeeps, At, Preprocessing
<1>2. t.name # u.name
  <2> SUFFICES ASSUME t.name = u.name PROVE FALSE
    OBVIOUS
  <2>1. t.schema = u.schema /\ ~Readonly(setup.server, u)
    BY OfTheBackup
  <2>2. t.name \notin restore.readonly
    BY <1>1, <2>1 DEF CommandKeeps
  <2>3. PICK w \in Named(restore.existing, t.name) : w.schema = u.schema
    BY <1>1 DEF CommandKeeps, Like
  <2> QED BY <2>1, <2>2, <2>3 DEF IsRestored, SameSchema
<1>3. u.name \notin NamesOf(WithUuid(restore.existing, t.uuid))
  <2> SUFFICES ASSUME NEW w \in restore.existing, w.uuid = t.uuid, w.name = u.name PROVE FALSE
    BY DEF NamesOf, WithUuid
  <2>1. w.uuid = u.uuid
    BY <1>1 DEF CommandKeeps, Named, Like
  <2> QED BY <1>2, <2>1, OfTheBackup
<1> QED BY <1>2, <1>3 DEF InTheWay

LEMMA AttachedKeeps ==
    ASSUME IInv, NEW d \in setup.server.detached
    PROVE  Safety(Attached(d), restore)
<1> DEFINE s == Attached(d)
<1>1. /\ DOMAIN d = TableFields
      /\ \A u \in setup.server.tables : d.name # u.name /\ (HasReplica(u) => d.path # u.path)
  BY SetupsAssumption DEF IInv, WellFormed, SameReplica, HasReplica
<1>2. /\ ServerShape(s) /\ s.log = server.log
      /\ \A u \in setup.server.tables : ServerKeeps(server, u) => ServerKeeps(s, u)
  <2>1. CASE d.schema = "missing"
    <3>1. /\ DOMAIN s = ServerFields /\ s.tables = server.tables /\ s.nodes = server.nodes
          /\ s.databases = server.databases /\ s.broken = server.broken /\ s.log = server.log
          /\ s.detached = server.detached \ {d}
      BY <2>1 DEF IInv, Safety, ServerShape, ServerFields, Attached
    <3> HIDE DEF s
    <3>2. ServerShape(s)
      BY <3>1 DEF IInv, Safety, ServerShape
    <3> QED BY <3>1, <3>2 DEF ServerKeeps, Readonly
  <2>2. CASE d.schema # "missing"
    BY <1>1, <2>2, AttachTableKeeps DEF IInv, Safety, Attached
  <2> QED BY <2>1, <2>2
<1> HIDE DEF s
<1>3. Safety(s, restore)
  BY <1>2, SameLog, ServerSteps DEF IInv
<1> QED BY <1>3 DEF s

\* Tables are dropped by their names, which are none of safe tables.
LEMMA DropNamedKeeps ==
    ASSUME setup \in Setups, NEW s, NEW r, Safety(s, r), NEW names,
           \A u \in setup.server.tables : Safe(u) => u.name \notin names
    PROVE  Safety(DropNamed(s, names), r)
<1> DEFINE gone == {t \in s.tables : t.name \in names}
           d == DropTables(s, gone)
<1>1. /\ ServerShape(d) /\ d.log = s.log
      /\ \A u \in setup.server.tables : Safe(u) /\ ServerKeeps(s, u) => ServerKeeps(d, u)
  <2>1. gone \subseteq s.tables
    OBVIOUS
  <2>2. \A u \in setup.server.tables : Safe(u) => \A w \in gone : w.name # u.name
    OBVIOUS
  <2> HIDE DEF gone
  <2> QED BY <2>1, <2>2, DropTablesKeeps DEF Safety
<1> HIDE DEF d
<1>2. Safety(d, r)
  BY <1>1, SameLog, ServerSteps
<1> QED BY <1>2 DEF d, DropNamed

\* Tables that are not safe are to be created, or cleaned.
LEMMA TableChosen ==
    ASSUME NEW s, NEW r, Safety(s, r), r.pc # "create", NEW result, NEW cleaning,
           IsSeq(result), IsSeq(cleaning),
           NEW t \in ToSet(TablesMeta),
           \/ ToSet(result) = ToSet(r.result) /\ ToSet(cleaning) = ToSet(r.cleaning)
           \/ /\ ToSet(result) \subseteq ToSet(r.result) \cup {t}
              /\ ToSet(cleaning) \subseteq ToSet(r.cleaning) \cup {t}
              /\ \A u \in setup.server.tables : Safe(u) => t.name # u.name
    PROVE  Safety(s, [r EXCEPT !.result = result, !.cleaning = cleaning])
<1> DEFINE f == [r EXCEPT !.result = result, !.cleaning = cleaning]
<1>1. /\ DOMAIN f = RestoreFields /\ f.result = result /\ f.cleaning = cleaning
      /\ \A x \in RestoreFields \ {"result", "cleaning"} : f[x] = r[x]
  BY DEF Safety, CommandShape, RestoreFields
<1> HIDE DEF f
<1>2. /\ f.todo = r.todo /\ f.pc = r.pc /\ f.databases = r.databases /\ f.tasks = r.tasks
      /\ f.tables = r.tables /\ f.readonly = r.readonly
      /\ f.detached = r.detached /\ f.existing = r.existing /\ f.sync = r.sync
      /\ f.results = r.results /\ f.errors = r.errors /\ f.failed = r.failed
  BY <1>1 DEF RestoreFields
<1>3. CommandShape(f)
  BY <1>1, <1>2 DEF Safety, CommandShape, Lists
<1>4. TodoOK(f)
  BY <1>2 DEF Safety, TodoOK
<1>5. Keeps(s, f)
  BY <1>1, <1>2 DEF Safety, Keeps, CommandKeeps
<1>6. SyncOK(s, f)
  BY <1>2 DEF Safety, SyncOK
<1> QED BY <1>3, <1>4, <1>5, <1>6 DEF Safety, f

LEMMA PreprocessTableKeeps == ASSUME IInv, PreprocessTable PROVE IInv'
<1> DEFINE detached == DetachedAs(It)
           attached == IF detached = {} THEN server ELSE Attached(CHOOSE d \in detached : TRUE)
           left == IsRestored(It) \/ LeftToDatabase(It)
           result == IF left THEN restore.result ELSE Append(restore.result, It)
           cleaning == IF ToClean(It) THEN Append(restore.cleaning, It) ELSE restore.cleaning
<1>1. /\ At("preprocess") /\ restore.todo # <<>> /\ UNCHANGED setup
      /\ \/ /\ server' = IF left THEN attached ELSE DropNamed(attached, InTheWay(It))
            /\ restore' = [Skip(restore) EXCEPT
                                  !.result = IF left THEN @ ELSE Append(@, It),
                                  !.cleaning = IF ToClean(It) THEN Append(@, It) ELSE @]
         \/ server' \in {server, attached} /\ Proceed(Error(restore))
  BY DEF PreprocessTable, Item, Proceed
<1>2. It \in ToSet(TablesMeta)
  BY <1>1, HeadAndTail DEF IInv, Safety, CommandShape, Lists, TodoOK, TableLabels, At, It
<1>3. Safety(attached, restore)
  <2>1. detached \subseteq setup.server.detached
    BY DEF DetachedAs, Named, WithUuid, IInv, Safety, CommandShape
  <2>2. CASE detached = {}
    BY <2>2 DEF IInv
  <2>3. CASE detached # {}
    <3>1. (CHOOSE d \in detached : TRUE) \in detached
      BY <2>3
    <3> HIDE DEF detached
    <3> QED BY <2>1, <2>3, <3>1, AttachedKeeps
  <2> QED BY <2>2, <2>3
<1> HIDE DEF detached, attached
<1>4. \A u \in setup.server.tables :
         Safe(u) /\ ~IsRestored(It) => It.name # u.name /\ u.name \notin InTheWay(It)
  BY <1>1, <1>2, NotInTheWay
<1>5. CASE server' \in {server, attached} /\ Proceed(Error(restore))
  BY <1>1, <1>3, <1>5, LoopSteps DEF IInv, At, SyncLabels
<1>6. CASE /\ server' = IF left THEN attached ELSE DropNamed(attached, InTheWay(It))
           /\ restore' = [Skip(restore) EXCEPT
                              !.result = IF left THEN @ ELSE Append(@, It),
                              !.cleaning = IF ToClean(It) THEN Append(@, It) ELSE @]
  <2>1. Safety(server', restore)
    BY <1>3, <1>4, <1>6, DropNamedKeeps DEF IInv
  <2>2. Safety(server', Skip(restore))
    BY <1>1, <2>1, SkipKeeps DEF At, SyncLabels
  <2>3. /\ Skip(restore).result = restore.result /\ Skip(restore).cleaning = restore.cleaning
        /\ Skip(restore).pc = restore.pc
    BY DEF IInv, Safety, CommandShape, RestoreFields, Skip
  <2>4. restore' = [Skip(restore) EXCEPT !.result = result, !.cleaning = cleaning]
    BY <1>6, <2>3
  <2>5. IsSeq(restore.result) /\ IsSeq(restore.cleaning)
    BY DEF IInv, Safety, CommandShape, Lists
  <2>6. /\ IsSeq(result) /\ IsSeq(cleaning)
        /\ ToSet(result) \subseteq ToSet(restore.result) \cup {It}
        /\ ToSet(cleaning) \subseteq ToSet(restore.cleaning) \cup {It}
    BY <2>5, Appended
  <2>7. IsRestored(It) => result = restore.result /\ cleaning = restore.cleaning
    BY DEF ToClean
  <2> HIDE DEF result, cleaning
  <2>8. Safety(server', [Skip(restore) EXCEPT !.result = result, !.cleaning = cleaning])
    BY <1>1, <1>2, <1>4, <2>2, <2>3, <2>6, <2>7, TableChosen DEF At
  <2> QED BY <1>1, <2>4, <2>8, Primed DEF IInv
<1> QED BY <1>1, <1>5, <1>6

LEMMA CleanMetadataKeeps == ASSUME IInv, CleanMetadata PROVE IInv'
<1>1. restore.pc \in Middle /\ "await_tables" \notin Preprocessing
  BY DEF CleanMetadata, Over, At, Middle, Preprocessing
<1>2. ToSet(restore.cleaning) \subseteq ToSet(TablesMeta)
  BY DEF IInv, Safety, CommandShape
<1>3. ASSUME NEW u \in setup.server.tables, Safe(u), NEW t \in ToSet(restore.cleaning)
      PROVE  t.name # u.name
  BY <1>3 DEF IInv, Safety, Keeps, CommandKeeps
<1> QED BY <1>1, <1>2, <1>3, CleanTablesKeeps DEF CleanMetadata

-----------------------------------------------------------------------------
(* Tables that are not there.                                               *)

LEMMA TablesCleanedKeeps == ASSUME IInv, TablesCleaned PROVE IInv'
<1>1. IsSeq(restore.result) /\ ToSet(restore.result) \subseteq ToSet(TablesMeta)
  BY DEF IInv, Safety, CommandShape, Lists
<1>2. Safety(server, Loop(restore, "create", restore.result))
  BY <1>1, LoopKeeps
     DEF IInv, TablesCleaned, Over, At, Middle, DatabaseLabels, Awaiting, Preprocessing
<1> QED BY <1>2, Primed DEF IInv, TablesCleaned, Proceed

LEMMA ErrorsKeep ==
    ASSUME NEW s, NEW r, Safety(s, r), NEW errors, IsSeq(errors)
    PROVE  Safety(s, [r EXCEPT !.errors = errors])
<1> DEFINE f == [r EXCEPT !.errors = errors]
<1>1. /\ DOMAIN f = RestoreFields /\ f.errors = errors
      /\ \A x \in RestoreFields \ {"errors"} : f[x] = r[x]
  BY DEF Safety, CommandShape, RestoreFields
<1> HIDE DEF f
<1>2. /\ f.todo = r.todo /\ f.pc = r.pc /\ f.databases = r.databases /\ f.tasks = r.tasks
      /\ f.tables = r.tables /\ f.readonly = r.readonly /\ f.result = r.result
      /\ f.cleaning = r.cleaning /\ f.detached = r.detached /\ f.existing = r.existing
      /\ f.sync = r.sync /\ f.results = r.results /\ f.failed = r.failed
  BY <1>1 DEF RestoreFields
<1>3. CommandShape(f)
  BY <1>1, <1>2 DEF Safety, CommandShape, Lists
<1>4. TodoOK(f)
  BY <1>2 DEF Safety, TodoOK
<1>5. Keeps(s, f)
  BY <1>2 DEF Safety, Keeps, CommandKeeps
<1>6. SyncOK(s, f)
  BY <1>2 DEF Safety, SyncOK
<1> QED BY <1>3, <1>4, <1>5, <1>6 DEF Safety, f

\* A table that is to be created is not safe.
LEMMA ToCreate ==
    ASSUME IInv, At("create"), restore.todo # <<>>
    PROVE  /\ It \in ToSet(TablesMeta)
           /\ DOMAIN New(It) = TableFields /\ New(It).name = It.name /\ New(It).path = It.path
           /\ \A u \in setup.server.tables : Safe(u) =>
                 It.name # u.name /\ (HasReplica(u) => It.path # u.path)
<1>1. It \in ToSet(restore.todo) /\ It \in ToSet(TablesMeta)
  BY HeadAndTail DEF IInv, Safety, CommandShape, Lists, TodoOK, TableLabels, At, It
<1>2. DOMAIN It = TableFields
  BY <1>1, TheTables DEF IInv
<1>3. \A u \in setup.server.tables : Safe(u) => It.name # u.name
  BY <1>1 DEF IInv, Safety, Keeps, CommandKeeps, At
<1>4. DOMAIN New(It) = TableFields /\ New(It).name = It.name /\ New(It).path = It.path
  BY <1>2 DEF New, TableFields
<1> QED BY <1>1, <1>3, <1>4, OfTheBackup

LEMMA RestoreTableObjectKeeps == ASSUME IInv, RestoreTableObject PROVE IInv'
<1>1. /\ At("create") /\ restore.todo # <<>> /\ UNCHANGED setup
      /\ server' = CreateTable(server, New(It))
      /\ restore' = [Skip(restore) EXCEPT !.errors = <<>>]
  BY DEF RestoreTableObject, Item, Proceed
<1>2. /\ ServerShape(server') /\ server'.log = server.log
      /\ \A u \in setup.server.tables : Safe(u) /\ ServerKeeps(server, u) => ServerKeeps(server', u)
  BY <1>1, ToCreate, CreateTableKeeps DEF IInv, Safety
<1>3. Safety(server', Skip(restore))
  BY <1>1, <1>2, SameLog, ServerSteps, SkipKeeps DEF IInv, At, SyncLabels
<1>4. Safety(server', restore')
  BY <1>1, <1>3, NoElements, ErrorsKeep
<1> QED BY <1>1, <1>4, Primed DEF IInv

\* The first table that is left is tried after the others, if at all.
LEMMA TriedLater ==
    ASSUME NEW s, NEW r, Safety(s, r), r.pc = "create", r.todo # <<>>,
           NEW pc \in {"create", "created"}
    PROVE  Safety(s, [r EXCEPT !.todo = Append(Tail(@), Head(r.todo)), !.pc = pc])
<1> DEFINE todo == Append(Tail(r.todo), Head(r.todo))
           f == [r EXCEPT !.todo = todo, !.pc = pc]
<1>1. IsSeq(todo) /\ ToSet(todo) = ToSet(r.todo)
  <2>1. IsSeq(r.todo)
    BY DEF Safety, CommandShape, Lists
  <2>2. IsSeq(Tail(r.todo)) /\ ToSet(r.todo) = {Head(r.todo)} \cup ToSet(Tail(r.todo))
    BY <2>1, HeadAndTail
  <2>3. IsSeq(todo) /\ ToSet(todo) = ToSet(Tail(r.todo)) \cup {Head(r.todo)}
    BY <2>2, Appended
  <2> QED BY <2>2, <2>3
<1> HIDE DEF todo
<1>2. /\ DOMAIN f = RestoreFields /\ f.todo = todo /\ f.pc = pc
      /\ \A x \in RestoreFields \ {"todo", "pc"} : f[x] = r[x]
  BY DEF Safety, CommandShape, RestoreFields
<1> HIDE DEF f
<1>3. /\ f.databases = r.databases /\ f.tasks = r.tasks /\ f.errors = r.errors
      /\ f.tables = r.tables /\ f.readonly = r.readonly /\ f.result = r.result
      /\ f.cleaning = r.cleaning /\ f.detached = r.detached /\ f.existing = r.existing
      /\ f.sync = r.sync /\ f.results = r.results
  BY <1>2 DEF RestoreFields
<1>4. CommandShape(f)
  BY <1>1, <1>2, <1>3 DEF Safety, CommandShape, Lists
<1>5. TodoOK(f)
  BY <1>1, <1>2 DEF Safety, TodoOK, DatabaseLabels, SyncLabels, TableLabels, Awaiting
<1>6. Keeps(s, f)
  BY <1>1, <1>2, <1>3 DEF Safety, Keeps, CommandKeeps, Preprocessing
<1>7. SyncOK(s, f)
  BY <1>2, <1>3 DEF Safety, SyncOK, Before, SyncLabels
<1> QED BY <1>4, <1>5, <1>6, <1>7 DEF Safety, f, todo

LEMMA TableObjectFailsKeeps == ASSUME IInv, TableObjectFails PROVE IInv'
<1> DEFINE pc == IF Len(ErrorsWith(It)) > Len(restore.todo) THEN "created" ELSE restore.pc
           later == [restore EXCEPT !.todo = Append(Tail(@), Head(restore.todo)), !.pc = pc]
<1>1. /\ At("create") /\ restore.todo # <<>> /\ UNCHANGED setup
      /\ \E s \in Attempted(It) : server' \in {s, DropNamed(s, {It.name})}
      /\ restore' = [restore EXCEPT !.errors = ErrorsWith(It), !.todo = Append(Tail(@), It),
                                    !.pc = pc]
  BY DEF TableObjectFails, Item, Proceed
<1>2. PICK s \in {server, AttachTable(server, New(It)), CreateTable(server, New(It))} :
         server' \in {s, DropNamed(s, {It.name})}
  BY <1>1 DEF Attempted
<1>3. Safety(s, restore)
  <2>1. /\ ServerShape(s) /\ s.log = server.log
        /\ \A u \in setup.server.tables :
              Safe(u) /\ ServerKeeps(server, u) => ServerKeeps(s, u)
    BY <1>1, ToCreate, AttachTableKeeps, CreateTableKeeps DEF IInv, Safety
  <2> QED BY <2>1, SameLog, ServerSteps DEF IInv
<1>4. Safety(server', restore)
  <2>1. \A u \in setup.server.tables : Safe(u) => u.name \notin {It.name}
    BY <1>1, ToCreate
  <2> QED BY <1>1, <1>2, <1>3, <2>1, DropNamedKeeps DEF IInv
<1>5. Safety(server', later)
  <2>1. pc \in {"create", "created"}
    BY <1>1 DEF At
  <2> HIDE DEF pc
  <2> QED BY <1>1, <1>4, <2>1, TriedLater DEF At
<1>6. IsSeq(ErrorsWith(It))
  BY Appended DEF IInv, Safety, CommandShape, Lists, ErrorsWith
<1>7. restore' = [later EXCEPT !.errors = ErrorsWith(It)]
  <2> HIDE DEF pc
  <2> QED BY <1>1 DEF It, IInv, Safety, CommandShape, RestoreFields
<1> HIDE DEF later
<1>8. Safety(server', restore')
  BY <1>5, <1>6, <1>7, ErrorsKeep
<1> QED BY <1>1, <1>8, Primed DEF IInv

LEMMA TablesCreatedKeeps == ASSUME IInv, TablesCreated PROVE IInv'
<1> DEFINE failed == NamesOf(ToSet(restore.errors))
           tables == Keep(TablesMeta, {t \in ToSet(TablesMeta) : t.name \notin failed})
<1>1. /\ restore.pc \in {"create", "created"} /\ UNCHANGED <<setup, server>>
      /\ restore' \in {Failed(restore), Loop(restore, "data", <<>>),
                       Loop(restore, "temporary_disks", tables)}
  BY DEF TablesCreated, Over, At, Proceed
<1>2. IsSeq(tables) /\ ToSet(tables) \subseteq ToSet(TablesMeta)
  BY TheTables, Kept DEF IInv
<1> HIDE DEF tables
<1>3. Safety(server', restore')
  BY <1>1, <1>2, FailedKeeps, LoopKeeps, NoElements
     DEF IInv, Middle, DatabaseLabels, TableLabels, Awaiting, Preprocessing
<1> QED BY <1>1, <1>3, Primed DEF IInv

LEMMA EnterDisksKeeps == ASSUME IInv, EnterDisks PROVE IInv'
<1>1. IsSeq(restore.todo) /\ ToSet(restore.todo) \subseteq ToSet(TablesMeta)
  BY DEF IInv, Safety, CommandShape, Lists, TodoOK, TableLabels, EnterDisks, At
<1>2. restore' = Loop(restore, "data", restore.todo)
  BY DEF EnterDisks, Proceed, Loop, IInv, Safety, CommandShape, RestoreFields
<1>3. Safety(server, Loop(restore, "data", restore.todo))
  BY <1>1, LoopKeeps DEF IInv, EnterDisks, At, Middle, DatabaseLabels, Awaiting, Preprocessing
<1> QED BY <1>2, <1>3, Primed DEF IInv, EnterDisks, Proceed

\* Rows are added to a table of the backup, whatever becomes of the command.
LEMMA DataKept == ASSUME IInv, Item("data") PROVE Safety(WithData(It), restore)
<1> DEFINE filled == {t \in server.tables : t.name = It.name /\ ~Readonly(server, t)}
           d == WithRows(server, filled)
<1>1. WithData(It) = d
  BY DEF WithData, WithRows
<1>2. It \in ToSet(TablesMeta)
  BY HeadAndTail DEF IInv, Safety, CommandShape, Lists, TodoOK, TableLabels, Item, At, It
<1>3. /\ filled \in SUBSET server.tables
      /\ \A w \in filled : \A u : w.name = u.name => \E t \in ToSet(TablesMeta) : t.name = u.name
  BY <1>2
<1>4. ServerShape(d) /\ d.log = server.log /\ \A u : ServerKeeps(server, u) => ServerKeeps(d, u)
  <2> HIDE DEF filled
  <2> QED BY <1>3, RowsAddedKeeps DEF IInv, Safety
<1> HIDE DEF d
<1> QED BY <1>1, <1>4, SameLog, ServerSteps DEF IInv

LEMMA RestoreDataKeeps == ASSUME IInv, RestoreData PROVE IInv'
BY DataKept, LoopSteps DEF RestoreData, Item, At, SyncLabels

\* What has failed is recorded.
LEMMA FailedRecorded ==
    ASSUME NEW s, NEW r, Safety(s, r), r.pc # "done", NEW failed
    PROVE  Safety(s, [r EXCEPT !.failed = failed])
<1> DEFINE f == [r EXCEPT !.failed = failed]
<1>1. DOMAIN f = RestoreFields /\ \A x \in RestoreFields \ {"failed"} : f[x] = r[x]
  BY DEF Safety, CommandShape, RestoreFields
<1> HIDE DEF f
<1>2. /\ f.todo = r.todo /\ f.pc = r.pc /\ f.databases = r.databases /\ f.tasks = r.tasks
      /\ f.tables = r.tables /\ f.readonly = r.readonly /\ f.result = r.result
      /\ f.cleaning = r.cleaning /\ f.detached = r.detached /\ f.existing = r.existing
      /\ f.sync = r.sync /\ f.results = r.results /\ f.errors = r.errors
  BY <1>1 DEF RestoreFields
<1>3. CommandShape(f)
  BY <1>1, <1>2 DEF Safety, CommandShape, Lists
<1>4. TodoOK(f)
  BY <1>2 DEF Safety, TodoOK
<1>5. Keeps(s, f)
  BY <1>2 DEF Safety, Keeps, CommandKeeps
<1>6. SyncOK(s, f)
  BY <1>2 DEF Safety, SyncOK
<1> QED BY <1>3, <1>4, <1>5, <1>6 DEF Safety, f

LEMMA AttachFailsKeeps == ASSUME IInv, AttachFails PROVE IInv'
<1>1. /\ Item("data") /\ UNCHANGED setup /\ server' \in {server, WithData(It)}
      /\ \E failed : restore' = [Skip(restore) EXCEPT !.failed = failed]
  BY DEF AttachFails, Proceed
<1>2. Safety(server', restore)
  BY <1>1, DataKept DEF IInv
<1>3. Safety(server', Skip(restore)) /\ Skip(restore).pc = "data"
  BY <1>1, <1>2, SkipKeeps
     DEF Item, At, SyncLabels, Skip, IInv, Safety, CommandShape, RestoreFields
<1>4. Safety(server', restore')
  BY <1>1, <1>3, FailedRecorded
<1> QED BY <1>1, <1>4, Primed DEF IInv

LEMMA DataFailKeeps == ASSUME IInv, DataFail PROVE IInv'
<1>1. /\ Item("data") /\ UNCHANGED setup /\ server' \in {server, WithData(It)}
      /\ restore' \in {Skip(restore), Error(restore), Failed(restore)}
  BY DEF DataFail, Proceed
<1>2. Safety(server', restore)
  BY <1>1, DataKept DEF IInv
<1>3. Safety(server', restore')
  BY <1>1, <1>2, SkipKeeps, ErrorKeeps, FailedKeeps DEF Item, At, SyncLabels
<1> QED BY <1>1, <1>3, Primed DEF IInv

-----------------------------------------------------------------------------
(* Theorems.                                                                *)

LEMMA NextKeeps == ASSUME IInv, [Next]_vars PROVE IInv'
<1>1. CASE UNCHANGED vars
  <2>1. Safety(server', restore')
    BY <1>1 DEF IInv, vars
  <2> QED BY <1>1, <2>1, Primed DEF IInv, vars
<1>2. CASE Next
  <2>1. CASE Start \/ Raise \/ AwaitTask
    BY <2>1, StartKeeps, RaiseKeeps, AwaitTaskKeeps
  <2>2. CASE \/ DropMismatched \/ CleanDatabases \/ DatabasesCleaned
             \/ RestoreDatabase \/ DatabaseFails
    BY <2>2, DropMismatchedKeeps, CleanDatabasesKeeps, DatabasesCleanedKeeps, RestoreDatabaseKeeps,
       DatabaseFailsKeeps
  <2>3. CASE StartSync \/ Resolve \/ Poll \/ SyncOver \/ SyncAgain
    BY <2>3, StartSyncKeeps, ResolveKeeps, PollKeeps, SyncOverKeeps, SyncAgainKeeps
  <2>4. CASE \/ ListTables \/ ListExisting \/ ListReadonly
             \/ CleanReadonly \/ ReadonlyCleaned \/ FixReplica \/ ReplicasFixed
    BY <2>4, ListTablesKeeps, ListExistingKeeps, ListReadonlyKeeps, CleanReadonlyKeeps,
       ReadonlyCleanedKeeps, FixReplicaKeeps, ReplicasFixedKeeps
  <2>5. CASE PreprocessTable \/ CleanMetadata \/ TablesCleaned
    BY <2>5, PreprocessTableKeeps, CleanMetadataKeeps, TablesCleanedKeeps
  <2>6. CASE \/ RestoreTableObject \/ TableObjectFails \/ TablesCreated \/ EnterDisks
             \/ RestoreData \/ AttachFails \/ DataFail
    BY <2>6, RestoreTableObjectKeeps, TableObjectFailsKeeps, TablesCreatedKeeps, EnterDisksKeeps,
       RestoreDataKeeps, AttachFailsKeeps, DataFailKeeps
  <2>7. CASE DropReplica \/ Databases
    BY <2>7, DropReplicaKeeps, DatabasesKeeps
  <2>8. CASE Ended
    BY <1>1, <2>8 DEF Ended
  <2> QED BY <1>2, <2>1, <2>2, <2>3, <2>4, <2>5, <2>6, <2>7, <2>8 DEF Next, Main
<1> QED BY <1>1, <1>2

LEMMA Invariance == Spec => []IInv
<1>1. Init => IInv
  BY InitKeeps
<1>2. IInv /\ [Next]_vars => IInv'
  BY NextKeeps
<1> QED BY <1>1, <1>2, PTL DEF Spec

\* Whatever fails, and whatever other threads do meanwhile, a restore neither drops,
\* fills nor makes readonly a table that shares nothing with the restored ones
\* (_preprocess_tables_to_restore, _drop_table_if_exists, metadata_cleaner.py).
THEOREM UnrelatedLeftAlone == Spec => []UnrelatedUntouched
<1>1. IInv => UnrelatedUntouched
  <2> SUFFICES ASSUME IInv, NEW u \in setup.server.tables, Unrelated(u)
               PROVE  u \in server.tables /\ (Readonly(server, u) => Readonly(setup.server, u))
    BY DEF UnrelatedUntouched
  <2>1. Safe(u) /\ ~\E t \in ToSet(TablesMeta) : t.name = u.name
    BY DEF Unrelated, Safe, Apart
  <2>2. ServerKeeps(server, u)
    BY <2>1 DEF IInv, Safety, Keeps
  <2>3. u \in Named(server.tables, u.name)
    BY <2>1, <2>2 DEF ServerKeeps, Like
  <2> QED BY <2>2, <2>3, NotReadonly DEF Named
<1> QED BY <1>1, Invariance, PTL

\* A table that is restored already is not dropped to be made anew, keeps its rows
\* and stays writable (_is_table_restored and what is made of the tables it rejects).
THEOREM RestoredTablesKept == Spec => []KeepsRestoredTables
<1>1. IInv => KeepsRestoredTables
  <2> SUFFICES ASSUME IInv, NEW t \in ToSet(TablesMeta), NEW u \in setup.server.tables,
                      t.name = u.name, t.schema = u.schema, ~Readonly(setup.server, u),
                      DatabaseStays(u),
                      \A other \in ToSet(TablesMeta) : other = t \/ Apart(other, u)
               PROVE  \E v \in server.tables :
                         v.name = u.name /\ v.uuid = u.uuid /\ u.data \subseteq v.data
                         /\ ~Readonly(server, v)
    BY DEF KeepsRestoredTables
  <2>1. Safe(u)
    BY DEF Safe, AsRestored
  <2>2. ServerKeeps(server, u)
    BY <2>1 DEF IInv, Safety, Keeps
  <2>3. PICK v \in Named(server.tables, u.name) : Like(v, u)
    BY <2>2 DEF ServerKeeps
  <2> QED BY <2>2, <2>3, NotReadonly DEF Named, Like
<1> QED BY <1>1, Invariance, PTL

\* A restore that succeeds without --keep-going has waited until its Replicated
\* databases executed what their logs held when it began, though the second wait is
\* only for those that the first one gave up (wait_sync_replicated_databases).
THEOREM WaitsForDatabases == Spec => []SyncedAtTheEnd
<1>1. IInv => SyncedAtTheEnd
  <2> SUFFICES ASSUME IInv, At("done"), ~KeepGoing, NEW db \in ToSet(Replicated(restore.databases))
               PROVE  CaughtUp(server, db)
    BY DEF SyncedAtTheEnd, CaughtUp
  <2>1. db \in DOMAIN restore.results
    BY DEF IInv, Safety, SyncOK, At, Before, SyncLabels
  <2>2. restore.results[db] = "DONE"
    BY <2>1 DEF IInv, Safety, SyncOK, At
  <2> QED BY <2>1, <2>2 DEF IInv, Safety, SyncOK
<1> QED BY <1>1, Invariance, PTL

-----------------------------------------------------------------------------
(* A restore that succeeds has restored every table.                        *)

Origins == Known \cup ToSet(TablesMeta)

From(c, u) == c.name = u.name /\ c.path = u.path

\* No table of another name has the replica of u.
Own(u) == \A c \in Origins : SameReplica(u, c) => c.name = u.name

\* The tables the property speaks of.
Wanted(t) == t \in ToSet(TablesMeta) /\ ~LeftToDatabase(t) /\ ~Replaced(t)

RowsToo == ~Option("schema_only")

\* The data of t are to be restored, and no failure was recorded.
Due(r, t) == RowsToo /\ t.name \notin r.failed

\* The table is on the server, with its rows if they are asked for.
Holds(s, t, rows) ==
    \E u \in Named(s.tables, t.name) :
        Own(u) /\ u.schema = t.schema /\ ~Readonly(s, u) /\ (rows => "backup" \in u.data)

LastSync(r) == r.pc = "done" \/ (r.pc \in SyncLabels /\ r.sync.again)

\* The tables were not listed yet.
Early(r) == r.pc \in Before \cup {"list_tables"} \/ (r.pc \in SyncLabels /\ ~r.sync.again)

\* The next list is to be made.
Listing == {"list_existing", "list_readonly"}

\* No table was created.
AsFound(r) == Early(r) \/ r.pc \in Listing

Listed == {"clean_readonly", "await_readonly", "restore_replicas"}

Chosen == {"preprocess", "await_tables"}

\* As IsRestored, of any lists.
Restored(r, t) ==
    t.name \notin r.readonly /\ \E u \in Named(r.existing, t.name) : SameSchema(t, u)

ToBegin == setup.server.tables \cup setup.shared

TablesFrom(s) == \A u \in s.tables : \E c \in Origins : From(c, u)

BrokenOK(s) ==
    \A n \in s.broken : n \in s.nodes \/ n[1] \in ToSet(setup.databases) \cup {NoPath}

TablesOK(s, r) ==
    /\ TablesFrom(s) /\ BrokenOK(s)
    /\ AsFound(r) => s.tables \subseteq ToBegin
    /\ r.existing \subseteq ToBegin

OfDatabase(n) == n[1] \in ToSet(setup.databases)

\* The metadata of n are cleaned: its table is readonly, or to be created.
OfTable(r, n) ==
    \E c \in ToSet(TablesMeta) :
        /\ n[1] = c.path
        /\ \/ r.pc = "await_readonly" /\ c.name \in r.readonly
           \/ r.pc = "await_tables" /\ ~Restored(r, c)

Awaited(r) == \A n \in ToSet(r.todo) : OfDatabase(n) \/ OfTable(r, n)

Idle(r) == \A n \in DOMAIN r.tasks : r.tasks[n] = "running" => OfDatabase(n)

\* A thread that still runs when nothing is awaited cleans after a database.
TasksOK(r) ==
    IF r.pc \in Awaiting
    THEN /\ Awaited(r)
         /\ \A n \in DOMAIN r.tasks : r.tasks[n] = "running" => OfDatabase(n) \/ n \in ToSet(r.todo)
    ELSE Idle(r)

CleaningOK(r) ==
    /\ AsFound(r) \/ r.pc \in Listed => ToSet(r.cleaning) = {}
    /\ \A c \in ToSet(r.cleaning) : ~Restored(r, c)

\* What the restore of one table has come to.
TableOK(s, r, t) ==
    /\ r.pc \in Listing \cup Listed => t \in ToSet(r.tables)
    /\ r.pc \in {"list_readonly"} \cup Listed => Named(r.existing, t.name) \subseteq s.tables
    /\ r.pc \in Listed /\ t.name \notin r.readonly =>
          \A u \in Named(r.existing, t.name) : ~Readonly(s, u)
    /\ r.pc \in Chosen =>
          IF Restored(r, t) THEN Holds(s, t, FALSE)
          ELSE t \in ToSet(r.result) \/ (r.pc = "preprocess" /\ t \in ToSet(r.todo))
    /\ r.pc = "create" => t \in ToSet(r.todo) \/ Holds(s, t, FALSE)
    /\ r.pc \in {"temporary_disks", "data"} => Holds(s, t, Due(r, t) /\ t \notin ToSet(r.todo))
    /\ LastSync(r) => Holds(s, t, Due(r, t))

Progress(s, r) ==
    /\ TablesOK(s, r) /\ TasksOK(r) /\ CleaningOK(r)
    /\ r.pc = "created" => ToSet(r.errors) # {}
    /\ \A t \in ToSet(TablesMeta) : Wanted(t) => TableOK(s, r, t)

\* Errors end a restore that does not keep going.
Succeeding == ~KeepGoing /\ ~At("failed")

PInv == IInv /\ (Succeeding => Progress(server, restore))

LEMMA OwnReplicas ==
    ASSUME setup \in Setups, NEW t, Wanted(t)
    PROVE  Own(t) /\ \A u \in Named(ToBegin, t.name) : Own(u)
<1>1. /\ WellFormed(setup) /\ t \in ToSet(TablesMeta)
      /\ ToSet(TablesMeta) \subseteq ToSet(setup.backup)
  BY SetupsAssumption, TheTables DEF Wanted
<1>2. ASSUME NEW c \in Origins, SameReplica(t, c) PROVE c.name = t.name
  <2>1. CASE c \in Known
    BY <1>2, <2>1 DEF Wanted, Replaced
  <2>2. CASE c \in ToSet(TablesMeta)
    BY <1>1, <1>2, <2>2 DEF WellFormed
  <2> QED BY <2>1, <2>2 DEF Origins
<1>3. ASSUME NEW u \in Named(ToBegin, t.name), NEW c \in Origins, SameReplica(u, c)
      PROVE  c.name = u.name
  <2>1. CASE c \in Known
    BY <1>1, <1>3, <2>1 DEF WellFormed, Known, ToBegin, Named
  <2>2. CASE c \in ToSet(TablesMeta)
    <3>1. ~Renamed(u)
      BY DEF Wanted, Replaced, ToBegin
    <3>2. IsReplicated(u) /\ c.path = u.path
      BY <1>3 DEF SameReplica
    <3> QED BY <2>2, <3>1, <3>2 DEF Renamed, Apart
  <2> QED BY <2>1, <2>2 DEF Origins
<1> QED BY <1>2, <1>3 DEF Own

LEMMA OneOfAName ==
    ASSUME setup \in Setups, NEW t \in ToSet(TablesMeta), NEW c \in ToSet(TablesMeta),
           t.name = c.name
    PROVE  t = c
<1>1. ToSet(TablesMeta) \subseteq ToSet(setup.backup)
  BY TheTables
<1> QED BY <1>1, SetupsAssumption DEF WellFormed

\* The replicas of tables are none of databases.
LEMMA PathsOfTables ==
    ASSUME setup \in Setups, NEW c \in Origins
    PROVE  c.path \notin ToSet(setup.databases)
<1>1. ToSet(TablesMeta) \subseteq ToSet(setup.backup)
  BY TheTables
<1> QED BY <1>1, SetupsAssumption DEF WellFormed, Origins, Known

LEMMA SameAims ==
    ASSUME UNCHANGED setup, Progress(server', restore')
    PROVE  Progress(server, restore)'
<1>1. /\ TablesMeta' = TablesMeta /\ Known' = Known /\ ToBegin' = ToBegin /\ RowsToo' = RowsToo
      /\ \A t : LeftToDatabase(t)' <=> LeftToDatabase(t)
  BY SetupStays DEF Known, ToBegin, RowsToo, LeftToDatabase, InReplicatedDb, Option
<1>2. /\ Origins' = Origins
      /\ \A t : Replaced(t)' <=> Replaced(t)
  BY <1>1 DEF Origins, Replaced, Renamed
<1>3. /\ \A t : Wanted(t)' <=> Wanted(t)
      /\ \A u : Own(u)' <=> Own(u)
  BY <1>1, <1>2 DEF Wanted, Own
<1>4. TablesOK(server, restore)'
  BY <1>1, <1>2 DEF Progress, TablesOK, TablesFrom, BrokenOK, AsFound, Early
<1>5. TasksOK(restore)' /\ CleaningOK(restore)'
  BY <1>1
     DEF Progress, TasksOK, CleaningOK, Idle, Awaited, OfDatabase, OfTable, AsFound, Early,
         Restored
<1>6. ASSUME NEW t \in ToSet(TablesMeta), Wanted(t) PROVE TableOK(server, restore, t)'
  <2>1. TableOK(server', restore', t)
    BY <1>6 DEF Progress
  <2> QED BY <1>1, <1>3, <2>1 DEF TableOK, Holds, Due, Restored, LastSync
<1> QED BY <1>1, <1>3, <1>4, <1>5, <1>6 DEF Progress

\* What d has of the table that the restore wants.
Stays(s, d, t) ==
    \A u \in Named(s.tables, t.name) :
        Own(u) => u \in d.tables /\ (~Readonly(s, u) => ~Readonly(d, u))

\* The table is still to be created.
ToCome(r, t) ==
    (r.pc \in Chosen /\ ~Restored(r, t)) \/ (r.pc = "create" /\ t \in ToSet(r.todo))

LEMMA EarlyTables == ASSUME NEW s, NEW r, Early(r), NEW t PROVE TableOK(s, r, t)
BY DEF Early, TableOK, Before, SyncLabels, Listing, Listed, Chosen, LastSync

LEMMA TableStays ==
    ASSUME setup \in Setups, NEW s, NEW d, NEW r, NEW t, Wanted(t), TableOK(s, r, t),
           r.existing \subseteq ToBegin,
           \/ Stays(s, d, t) \/ ToCome(r, t)
           \/ r.pc \in Listed /\ t.name \in r.readonly /\ s.tables \subseteq d.tables
    PROVE  TableOK(d, r, t)
<1>1. CASE Stays(s, d, t)
  <2>1. \A rows : Holds(s, t, rows) => Holds(d, t, rows)
    BY <1>1 DEF Stays, Holds, Named
  <2>2. ASSUME r.pc \in {"list_readonly"} \cup Listed, NEW u \in Named(r.existing, t.name)
        PROVE  u \in d.tables /\ (r.pc \in Listed /\ t.name \notin r.readonly => ~Readonly(d, u))
    <3>1. Own(u)
      BY <2>2, OwnReplicas DEF Named
    <3>2. u \in Named(s.tables, t.name)
      BY <2>2 DEF TableOK, Named
    <3> QED BY <1>1, <2>2, <3>1, <3>2 DEF Stays, TableOK
  <2> QED BY <2>1, <2>2 DEF TableOK
<1>2. CASE ToCome(r, t)
  BY <1>2 DEF ToCome, TableOK, Listing, Listed, Chosen, LastSync, SyncLabels
<1>3. CASE r.pc \in Listed /\ t.name \in r.readonly /\ s.tables \subseteq d.tables
  BY <1>3 DEF TableOK, Listing, Listed, Chosen, LastSync, SyncLabels
<1> QED BY <1>1, <1>2, <1>3

LEMMA ServerGoesOn ==
    ASSUME setup \in Setups, NEW s, NEW r, Progress(s, r), NEW d, TablesOK(d, r),
           \A t : Wanted(t) =>
              \/ Early(r) \/ Stays(s, d, t) \/ ToCome(r, t)
              \/ r.pc \in Listed /\ t.name \in r.readonly /\ s.tables \subseteq d.tables
    PROVE  Progress(d, r)
<1>1. ASSUME NEW t \in ToSet(TablesMeta), Wanted(t) PROVE TableOK(d, r, t)
  <2>1. TableOK(s, r, t) /\ r.existing \subseteq ToBegin
    BY <1>1 DEF Progress, TablesOK
  <2> QED BY <1>1, <2>1, TableStays, EarlyTables
<1> QED BY <1>1 DEF Progress

\* Tables and nodes are added.
LEMMA ServerGrows ==
    ASSUME setup \in Setups, NEW s, NEW r, Progress(s, r), NEW d, NEW new,
           d.tables = s.tables \cup new, s.nodes \subseteq d.nodes, d.broken = s.broken,
           \A u \in new : \E c \in Origins : From(c, u),
           AsFound(r) => new \subseteq ToBegin
    PROVE  Progress(d, r)
<1>1. \A t : Stays(s, d, t)
  BY DEF Stays, Named, Readonly
<1>2. TablesOK(d, r)
  BY DEF Progress, TablesOK, TablesFrom, BrokenOK
<1> QED BY <1>1, <1>2, ServerGoesOn

\* Tables are dropped by their names. The replicas of others stay.
LEMMA NamesDropped ==
    ASSUME setup \in Setups, NEW s, ServerShape(s), NEW r, Progress(s, r), NEW names,
           \A t : Wanted(t) => t.name \notin names \/ ToCome(r, t)
    PROVE  Progress(DropNamed(s, names), r)
<1> DEFINE gone == {t \in s.tables : t.name \in names}
           lost == {Node(t.path) : t \in {u \in gone : ~Readonly(s, u)}}
           d == DropTables(s, gone)
<1>1. d.tables = s.tables \ gone /\ d.nodes = s.nodes \ lost /\ d.broken = s.broken
  <2>1. d = [s EXCEPT !.tables = @ \ gone, !.nodes = @ \ lost]
    BY DEF DropTables
  <2> HIDE DEF gone, lost, d
  <2> QED BY <2>1 DEF ServerShape, ServerFields
<1> HIDE DEF d
<1>2. BrokenOK(d)
  <2> SUFFICES ASSUME NEW n \in s.broken, n \in lost, n[1] # NoPath PROVE FALSE
    BY <1>1 DEF BrokenOK, Progress, TablesOK
  <2>1. PICK t \in gone : ~Readonly(s, t) /\ n = Node(t.path)
    OBVIOUS
  <2>2. IsReplicated(t)
    BY <2>1 DEF IsReplicated, Node
  <2> QED BY <2>1, <2>2 DEF Readonly
<1>3. TablesOK(d, r)
  BY <1>1, <1>2 DEF Progress, TablesOK, TablesFrom
<1>4. ASSUME NEW t, t.name \notin names PROVE Stays(s, d, t)
  <2> SUFFICES ASSUME NEW u \in Named(s.tables, t.name), Own(u)
               PROVE  u \in d.tables /\ (~Readonly(s, u) => ~Readonly(d, u))
    BY DEF Stays
  <2>1. u \in d.tables
    BY <1>1, <1>4 DEF Named
  <2>2. ASSUME IsReplicated(u) PROVE Node(u.path) \notin lost
    <3> SUFFICES ASSUME NEW w \in gone, w.path = u.path PROVE FALSE
      BY DEF Node
    <3>1. PICK c \in Origins : From(c, w)
      BY DEF Progress, TablesOK, TablesFrom
    <3>2. SameReplica(u, c)
      BY <2>2, <3>1 DEF SameReplica, From
    <3>3. c.name = u.name
      BY <3>2 DEF Own
    <3> QED BY <1>4, <3>1, <3>3 DEF From, Named
  <2> QED BY <1>1, <2>1, <2>2 DEF Readonly
<1>5. Progress(d, r)
  BY <1>3, <1>4, ServerGoesOn
<1> QED BY <1>5 DEF d, DropNamed

\* The node of a task is dropped.
LEMMA NodeGone ==
    ASSUME setup \in Setups, NEW s, ServerShape(s), NEW r, Progress(s, r), NEW n,
           OfDatabase(n) \/ OfTable(r, n)
    PROVE  Progress(DropReplicas(s, {n}), r)
<1> DEFINE d == DropReplicas(s, {n})
<1>1. d.tables = s.tables /\ d.nodes = s.nodes \ {n} /\ d.broken = s.broken \ {n}
  BY DEF DropReplicas, ServerShape, ServerFields
<1> HIDE DEF d
<1>2. TablesOK(d, r)
  BY <1>1 DEF Progress, TablesOK, TablesFrom, BrokenOK
<1>3. ASSUME NEW t,
             \A u \in Named(s.tables, t.name) : Own(u) /\ IsReplicated(u) => n # Node(u.path)
      PROVE  Stays(s, d, t)
  BY <1>1, <1>3 DEF Stays, Named, Readonly
<1>4. ASSUME OfDatabase(n) PROVE Progress(d, r)
  <2>1. ASSUME NEW u \in s.tables PROVE n # Node(u.path)
    <3>1. PICK c \in Origins : c.path = u.path
      BY DEF Progress, TablesOK, TablesFrom, From
    <3> QED BY <1>4, <3>1, PathsOfTables DEF OfDatabase, Node
  <2>2. \A t : Stays(s, d, t)
    BY <1>3, <2>1 DEF Named
  <2> QED BY <1>2, <2>2, ServerGoesOn
<1>5. ASSUME OfTable(r, n) PROVE Progress(d, r)
  <2>1. PICK c \in ToSet(TablesMeta) :
            /\ n[1] = c.path
            /\ \/ r.pc = "await_readonly" /\ c.name \in r.readonly
               \/ r.pc = "await_tables" /\ ~Restored(r, c)
    BY <1>5 DEF OfTable
  <2>2. ASSUME NEW t, t.name # c.name PROVE Stays(s, d, t)
    <3>1. ASSUME NEW u \in Named(s.tables, t.name), Own(u), IsReplicated(u), n = Node(u.path)
          PROVE  FALSE
      <4>1. SameReplica(u, c) /\ c \in Origins
        BY <2>1, <3>1 DEF SameReplica, Node, Origins
      <4> QED BY <2>2, <3>1, <4>1 DEF Own, Named
    <3> QED BY <1>3, <3>1
  <2>3. ASSUME NEW t, Wanted(t), t.name = c.name
        PROVE  \/ ToCome(r, t)
               \/ r.pc \in Listed /\ t.name \in r.readonly /\ s.tables \subseteq d.tables
    <3>1. t = c
      BY <2>1, <2>3, OneOfAName DEF Wanted
    <3> QED BY <1>1, <2>1, <3>1 DEF ToCome, Listed, Chosen
  <2> QED BY <1>2, <2>2, <2>3, ServerGoesOn
<1> QED BY <1>4, <1>5 DEF d

\* What a step of a loop leaves alone.
SameLists(f, r) ==
    /\ f.tasks = r.tasks /\ f.existing = r.existing /\ f.readonly = r.readonly
    /\ f.tables = r.tables /\ f.result = r.result /\ f.cleaning = r.cleaning
    /\ f.failed = r.failed

LEMMA LoopFields ==
    ASSUME NEW r, CommandShape(r), NEW pc, NEW todo
    PROVE  LET f == Loop(r, pc, todo)
           IN  f.pc = pc /\ f.todo = todo /\ SameLists(f, r) /\ f.errors = r.errors
               /\ f.sync = r.sync /\ DOMAIN f = RestoreFields
BY DEF CommandShape, RestoreFields, Loop, SameLists

LEMMA SkipFields ==
    ASSUME NEW r, CommandShape(r)
    PROVE  LET f == Skip(r)
           IN  f.pc = r.pc /\ f.todo = Tail(r.todo) /\ SameLists(f, r) /\ f.errors = r.errors
               /\ f.sync = r.sync /\ DOMAIN f = RestoreFields
BY DEF CommandShape, RestoreFields, Skip, SameLists

\* An error is the end of it.
LEMMA ErrorFails ==
    ASSUME NEW r, CommandShape(r), ~KeepGoing
    PROVE  Failed(r).pc = "failed" /\ Error(r) = Failed(r)
BY DEF CommandShape, RestoreFields, Failed, Error

LEMMA NobodyRuns ==
    ASSUME NEW r, TasksOK(r), Early(r) \/ r.pc \notin Awaiting \/ r.todo = <<>>
    PROVE  Idle(r)
<1>1. CASE r.pc \notin Awaiting
  BY <1>1 DEF TasksOK
<1>2. CASE r.todo = <<>>
  BY <1>2, NoElements DEF TasksOK, Idle
<1>3. CASE r.pc \in Awaiting /\ Early(r)
  <2>1. \A n : ~OfTable(r, n)
    BY <1>3 DEF OfTable, Early, Before, SyncLabels
  <2> QED BY <1>3, <2>1 DEF TasksOK, Awaited, Idle
<1> QED BY <1>1, <1>2, <1>3

\* The command goes on before the tables are listed, or after all of them are restored.
LEMMA GoesOn ==
    ASSUME NEW s, NEW r, Progress(s, r), NEW f, f.pc \notin Awaiting, SameLists(f, r),
           (Early(r) /\ Early(f)) \/ (LastSync(r) /\ LastSync(f))
    PROVE  Progress(s, f)
<1>1. TablesOK(s, f)
  BY DEF Progress, TablesOK, SameLists, AsFound, Listing, Early, LastSync, Before, SyncLabels
<1>2. Idle(r)
  BY NobodyRuns DEF Progress, LastSync, Awaiting, SyncLabels
<1>3. TasksOK(f)
  BY <1>2 DEF TasksOK, Idle, SameLists
<1>4. CleaningOK(f)
  <2>1. LastSync(f) => ~AsFound(f) /\ f.pc \notin Listed
    BY DEF LastSync, AsFound, Listing, Early, Before, SyncLabels, Listed
  <2>2. Early(f) => f.pc \notin Listed
    BY DEF AsFound, Listing, Early, Before, SyncLabels, Listed
  <2> QED BY <2>1, <2>2 DEF Progress, CleaningOK, SameLists, Restored, AsFound
<1>5. ASSUME NEW t \in ToSet(TablesMeta), Wanted(t) PROVE TableOK(s, f, t)
  <2>1. CASE Early(f)
    BY <2>1, EarlyTables
  <2>2. CASE LastSync(r) /\ LastSync(f)
    BY <1>5, <2>2
       DEF Progress, TableOK, LastSync, SyncLabels, Listing, Listed, Chosen, Due, SameLists
  <2> QED BY <2>1, <2>2
<1>6. f.pc # "created"
  BY DEF Early, LastSync, Before, SyncLabels
<1> QED BY <1>1, <1>3, <1>4, <1>5, <1>6 DEF Progress

LEMMA InitProgress == ASSUME Init PROVE Progress(server, restore)
<1>1. setup \in Setups /\ WellFormed(setup) /\ server = setup.server
  BY SetupsAssumption DEF Init
<1>2. /\ restore.pc = "start" /\ restore.existing = {} /\ restore.cleaning = <<>>
      /\ restore.tasks = <<>>
  BY DEF Init
<1>3. TablesOK(server, restore)
  BY <1>1, <1>2 DEF WellFormed, TablesOK, TablesFrom, BrokenOK, From, Origins, Known, ToBegin
<1>4. TasksOK(restore) /\ CleaningOK(restore) /\ Early(restore)
  BY <1>2, NoElements DEF TasksOK, Idle, CleaningOK, Awaiting, Early, Before
<1> QED BY <1>2, <1>3, <1>4, EarlyTables DEF Progress

-----------------------------------------------------------------------------
(* Steps of other threads.                                                  *)

LEMMA DatabasesProgress ==
    ASSUME IInv, Progress(server, restore), Databases
    PROVE  Progress(server', restore')
<1>1. UNCHANGED restore /\ setup \in Setups /\ ServerShape(server)
  BY DEF Databases, IInv, Safety
<1>2. PICK db \in DOMAIN server.log :
          \/ server' = Advance(server, setup.shared, db)
          \/ server' = [server EXCEPT !.log[db].max = @ + 1]
  BY DEF Databases, DDLWorker
<1>3. CASE server' = Advance(server, setup.shared, db)
  <2> DEFINE last == server.log[db].ptr + 1 = server.log[db].max
             new == IF last THEN Missing(server, setup.shared, db) ELSE {}
             nodes == {Node(t.path) : t \in {u \in new : IsReplicated(u)}}
  <2>1. server' = [server EXCEPT !.log[db].ptr = @ + 1, !.tables = @ \cup new,
          !.nodes = @ \cup nodes]
    BY <1>3 DEF Advance
  <2>2. new \subseteq setup.shared
    BY DEF Missing
  <2> HIDE DEF last, new, nodes
  <2>3. /\ server'.tables = server.tables \cup new /\ server'.nodes = server.nodes \cup nodes
        /\ server'.broken = server.broken
    BY <1>1, <2>1 DEF ServerShape, ServerFields
  <2>4. \A u \in new : \E c \in Origins : From(c, u)
    BY <2>2 DEF Origins, Known, From
  <2>5. new \subseteq ToBegin
    BY <2>2 DEF ToBegin
  <2> QED BY <1>1, <2>3, <2>4, <2>5, ServerGrows
<1>4. CASE server' = [server EXCEPT !.log[db].max = @ + 1]
  <2> DEFINE new == {}
  <2>1. /\ server'.tables = server.tables \cup new /\ server.nodes \subseteq server'.nodes
        /\ server'.broken = server.broken /\ new \subseteq ToBegin
        /\ \A u \in new : \E c \in Origins : From(c, u)
    BY <1>1, <1>4 DEF ServerShape, ServerFields
  <2> HIDE DEF new
  <2> QED BY <1>1, <2>1, ServerGrows
<1> QED BY <1>2, <1>3, <1>4

LEMMA TaskEnds ==
    ASSUME NEW s, NEW r, Progress(s, r), CommandShape(r), NEW n \in DOMAIN r.tasks,
           NEW status, status # "running"
    PROVE  Progress(s, [r EXCEPT !.tasks[n] = status])
<1> DEFINE f == [r EXCEPT !.tasks[n] = status]
<1>1. /\ f.pc = r.pc /\ f.todo = r.todo /\ f.existing = r.existing /\ f.readonly = r.readonly
      /\ f.tables = r.tables /\ f.result = r.result /\ f.cleaning = r.cleaning
      /\ f.errors = r.errors /\ f.sync = r.sync /\ f.failed = r.failed
      /\ DOMAIN f.tasks = DOMAIN r.tasks
      /\ \A m \in DOMAIN r.tasks : f.tasks[m] = "running" => r.tasks[m] = "running"
  BY DEF CommandShape, RestoreFields
<1> HIDE DEF f
<1>2. TablesOK(s, f) /\ CleaningOK(f)
  BY <1>1 DEF Progress, TablesOK, CleaningOK, AsFound, Early, Restored
<1>3. TasksOK(f)
  BY <1>1 DEF Progress, TasksOK, Awaited, Idle, OfTable, Restored
<1>4. \A t : TableOK(s, r, t) => TableOK(s, f, t)
  <2>1. ASSUME NEW t PROVE (Restored(f, t) <=> Restored(r, t)) /\ (Due(f, t) <=> Due(r, t))
    BY <1>1 DEF Restored, Due
  <2>2. LastSync(f) <=> LastSync(r)
    BY <1>1 DEF LastSync
  <2>3. ASSUME NEW t, TableOK(s, r, t) PROVE TableOK(s, f, t)
    <3>1. /\ f.pc \in {"temporary_disks", "data"} =>
                 Holds(s, t, Due(f, t) /\ t \notin ToSet(f.todo))
          /\ LastSync(f) => Holds(s, t, Due(f, t))
      BY <1>1, <2>1, <2>2, <2>3 DEF TableOK, Holds
    <3>2. /\ f.pc \in Chosen =>
                 IF Restored(f, t) THEN Holds(s, t, FALSE)
                 ELSE t \in ToSet(f.result) \/ (f.pc = "preprocess" /\ t \in ToSet(f.todo))
          /\ f.pc = "create" => t \in ToSet(f.todo) \/ Holds(s, t, FALSE)
      BY <1>1, <2>1, <2>3 DEF TableOK
    <3> QED BY <1>1, <2>3, <3>1, <3>2 DEF TableOK
  <2> QED BY <2>3
<1> QED BY <1>1, <1>2, <1>3, <1>4 DEF Progress, f

LEMMA DropReplicaProgress ==
    ASSUME IInv, Progress(server, restore), DropReplica
    PROVE  Progress(server', restore')
<1>1. setup \in Setups /\ ServerShape(server) /\ CommandShape(restore)
  BY DEF IInv, Safety
<1>2. PICK n \in DOMAIN restore.tasks :
          /\ restore.tasks[n] = "running"
          /\ \/ UNCHANGED server /\ Proceed([restore EXCEPT !.tasks[n] = "local"])
             \/ /\ server' = DropReplicas(server, {n})
                /\ Proceed([restore EXCEPT !.tasks[n] = "dropped"])
             \/ /\ UNCHANGED server
                /\ \E error \in {"ignored", "error"} :
                      Proceed([restore EXCEPT !.tasks[n] = error])
  BY DEF DropReplica
<1>3. OfDatabase(n) \/ OfTable(restore, n)
  BY <1>2 DEF Progress, TasksOK, Awaited, Idle
<1>4. Progress(DropReplicas(server, {n}), restore)
  BY <1>1, <1>3, NodeGone
<1> QED BY <1>1, <1>2, <1>4, TaskEnds DEF Proceed

LEMMA AwaitTaskProgress ==
    ASSUME IInv, Progress(server, restore), AwaitTask, restore'.pc # "failed"
    PROVE  Progress(server', restore')
<1>1. setup \in Setups /\ ServerShape(server) /\ CommandShape(restore) /\ IsSeq(restore.todo)
  BY DEF IInv, Safety, CommandShape, Lists
<1>2. /\ restore.pc \in Awaiting /\ restore.todo # <<>> /\ restore.tasks[It] # "running"
      /\ server' = server \/ server' = DropReplicas(server, {It})
      /\ restore' = Skip(restore)
  <2>1. Failed(restore).pc = "failed"
    BY <1>1 DEF CommandShape, RestoreFields, Failed
  <2> QED BY <2>1 DEF AwaitTask, Proceed
<1>3. /\ It \in ToSet(restore.todo) /\ ToSet(restore.todo) = {It} \cup ToSet(Tail(restore.todo))
  BY <1>1, <1>2, HeadAndTail DEF It
<1>4. OfDatabase(It) \/ OfTable(restore, It)
  BY <1>2, <1>3 DEF Progress, TasksOK, Awaited
<1>5. Progress(server', restore)
  BY <1>1, <1>2, <1>4, NodeGone
<1> DEFINE f == Skip(restore)
<1>6. f.pc = restore.pc /\ f.todo = Tail(restore.todo) /\ SameLists(f, restore)
  BY <1>1, SkipFields
<1> HIDE DEF f
<1>7. TasksOK(f)
  BY <1>2, <1>3, <1>5, <1>6
     DEF Progress, TasksOK, Awaited, OfTable, Restored, SameLists
<1>8. TablesOK(server', f) /\ CleaningOK(f)
  <2>1. AsFound(f) => AsFound(restore)
    BY <1>2, <1>6 DEF AsFound, Early, Awaiting, SyncLabels
  <2> QED BY <1>5, <1>6, <2>1 DEF Progress, TablesOK, CleaningOK, Restored, SameLists
<1>9. \A t : TableOK(server', restore, t) => TableOK(server', f, t)
  BY <1>2, <1>6 DEF TableOK, Restored, SameLists, LastSync, Awaiting, SyncLabels
<1>10. f.pc # "created"
  BY <1>2, <1>6 DEF Awaiting
<1> QED BY <1>2, <1>5, <1>7, <1>8, <1>9, <1>10 DEF Progress, f

-----------------------------------------------------------------------------
(* Databases, and their synchronisation.                                    *)

LEMMA LoopsOn ==
    ASSUME NEW s, NEW r, Progress(s, r), CommandShape(r), Early(r),
           NEW pc \in {"mismatched", "create_databases"}, NEW todo
    PROVE  Progress(s, Loop(r, pc, todo))
<1> DEFINE f == Loop(r, pc, todo)
<1>1. f.pc = pc /\ SameLists(f, r)
  BY LoopFields
<1> HIDE DEF f
<1>2. f.pc \notin Awaiting /\ Early(f)
  BY <1>1 DEF Early, Awaiting, Before
<1>3. Progress(s, f)
  BY <1>1, <1>2, GoesOn
<1> QED BY <1>3 DEF f

LEMMA SkipsOn ==
    ASSUME NEW s, NEW r, Progress(s, r), CommandShape(r),
           r.pc \in {"mismatched", "create_databases"}
    PROVE  Progress(s, Skip(r)) /\ Skip(r).pc = r.pc
<1> DEFINE f == Skip(r)
<1>1. f.pc = r.pc /\ SameLists(f, r)
  BY SkipFields
<1> HIDE DEF f
<1>2. f.pc \notin Awaiting /\ Early(f) /\ Early(r)
  BY <1>1 DEF Early, Awaiting, Before
<1>3. Progress(s, f)
  BY <1>1, <1>2, GoesOn
<1> QED BY <1>1, <1>3 DEF f

LEMMA StartProgress ==
    ASSUME IInv, Progress(server, restore), Start
    PROVE  Progress(server', restore')
BY LoopsOn DEF IInv, Safety, Start, At, Proceed, Early, Before

\* The tables of a database are dropped with it.
LEMMA DatabaseDropped ==
    ASSUME setup \in Setups, NEW s, ServerShape(s), NEW r, Progress(s, r), Early(r),
           NEW db \in ToSet(setup.databases)
    PROVE  Progress(DropDatabase(s, db), r)
<1> DEFINE gone == {t \in s.tables : t.db = db}
           lost == {Node(t.path) : t \in {u \in gone : ~Readonly(s, u)}}
           left == DropTables(s, gone)
           nodes == IF IsReplicatedDb(s, db) THEN {Node(db)} ELSE {}
           d == DropDatabase(s, db)
<1>1. /\ left.tables = s.tables \ gone /\ left.nodes = s.nodes \ lost /\ left.broken = s.broken
      /\ DOMAIN left = ServerFields
  <2>1. left = [s EXCEPT !.tables = @ \ gone, !.nodes = @ \ lost]
    BY DEF DropTables
  <2> HIDE DEF gone, lost, left
  <2> QED BY <2>1 DEF ServerShape, ServerFields
<1>2. d.tables = s.tables \ gone /\ d.nodes = (s.nodes \ lost) \ nodes /\ d.broken = s.broken
  <2> HIDE DEF left
  <2>1. d = [left EXCEPT !.databases = [e \in DOMAIN @ \ {db} |-> @[e]],
                         !.detached = {t \in @ : t.db # db},
                         !.nodes = @ \ nodes]
    BY DEF DropDatabase, left
  <2> HIDE DEF d, nodes, gone, lost
  <2> QED BY <1>1, <2>1 DEF ServerFields
<1> HIDE DEF d, left
<1>3. BrokenOK(d)
  <2> SUFFICES ASSUME NEW n \in s.broken, n \in lost, n[1] # NoPath PROVE FALSE
    BY <1>2 DEF BrokenOK, Progress, TablesOK, Node
  <2>1. PICK t \in gone : ~Readonly(s, t) /\ n = Node(t.path)
    OBVIOUS
  <2>2. IsReplicated(t)
    BY <2>1 DEF IsReplicated, Node
  <2> QED BY <2>1, <2>2 DEF Readonly
<1>4. TablesOK(d, r)
  BY <1>2, <1>3 DEF Progress, TablesOK, TablesFrom
<1>5. Progress(d, r)
  BY <1>4, ServerGoesOn
<1> QED BY <1>5 DEF d

LEMMA DropMismatchedProgress ==
    ASSUME IInv, Progress(server, restore), DropMismatched
    PROVE  Progress(server', restore')
<1> DEFINE databases == IF Present(It) /\ ~Mismatched(It) THEN Skip(restore).databases
                        ELSE Append(Skip(restore).databases, It)
           f == [Skip(restore) EXCEPT !.databases = databases]
<1>1. /\ restore.pc = "mismatched" /\ restore.todo # <<>> /\ restore' = f
      /\ server' = IF Mismatched(It) THEN DropDatabase(server, It) ELSE server
  BY DEF DropMismatched, Item, At, Proceed
<1>2. setup \in Setups /\ ServerShape(server) /\ CommandShape(restore) /\ Early(restore)
  BY <1>1 DEF IInv, Safety, Early, Before
<1>3. It \in ToSet(setup.databases)
  BY <1>1, HeadAndTail DEF IInv, Safety, CommandShape, Lists, TodoOK, DatabaseLabels, It
<1>4. Progress(server', restore)
  BY <1>1, <1>2, <1>3, DatabaseDropped
<1>5. f.pc = "mismatched" /\ SameLists(f, restore)
  <2>1. /\ DOMAIN Skip(restore) = RestoreFields /\ Skip(restore).pc = "mismatched"
        /\ SameLists(Skip(restore), restore)
    BY <1>1, <1>2, SkipFields
  <2> HIDE DEF databases
  <2> QED BY <2>1 DEF SameLists, RestoreFields
<1> HIDE DEF f
<1>6. Early(f) /\ f.pc \notin Awaiting
  BY <1>5 DEF Early, Before, Awaiting
<1> QED BY <1>1, <1>2, <1>4, <1>5, <1>6, GoesOn

\* Tasks that are scheduled are awaited, but for those of databases.
LEMMA Scheduled ==
    ASSUME NEW r, CommandShape(r), Idle(r), NEW nodes, NEW awaited, NEW pc \in Awaiting,
           ToSet(awaited) \subseteq nodes,
           \A n \in nodes : OfDatabase(n) \/ n \in ToSet(awaited),
           NEW f, f = Schedule(r, nodes, awaited, pc),
           \A n \in nodes : OfDatabase(n) \/ OfTable(f, n)
    PROVE  TasksOK(f)
<1> DEFINE l == Loop(r, pc, awaited)
           tasks == [n \in DOMAIN r.tasks \cup nodes
             |-> IF n \in nodes THEN "running" ELSE r.tasks[n]]
<1>1. f.pc = pc /\ f.todo = awaited /\ f.tasks = tasks
  <2>1. l.pc = pc /\ l.todo = awaited /\ l.tasks = r.tasks /\ DOMAIN l = RestoreFields
    BY LoopFields DEF SameLists
  <2>2. f = [l EXCEPT !.tasks = tasks]
    BY <2>1 DEF Schedule
  <2> HIDE DEF l, tasks
  <2> QED BY <2>1, <2>2 DEF RestoreFields
<1>2. \A n \in DOMAIN f.tasks : f.tasks[n] = "running" => OfDatabase(n) \/ n \in ToSet(awaited)
  BY <1>1 DEF Idle
<1> HIDE DEF tasks
<1> QED BY <1>1, <1>2 DEF TasksOK, Awaited

LEMMA ScheduleFields ==
    ASSUME NEW r, CommandShape(r), NEW nodes, NEW awaited, NEW pc
    PROVE  LET f == Schedule(r, nodes, awaited, pc)
           IN  /\ f.pc = pc /\ f.todo = awaited /\ f.existing = r.existing
             /\ f.readonly = r.readonly
               /\ f.tables = r.tables /\ f.result = r.result /\ f.cleaning = r.cleaning
<1> DEFINE l == Loop(r, pc, awaited)
           tasks == [n \in DOMAIN l.tasks \cup nodes
             |-> IF n \in nodes THEN "running" ELSE l.tasks[n]]
           f == [l EXCEPT !.tasks = tasks]
<1>1. l.pc = pc /\ l.todo = awaited /\ SameLists(l, r) /\ DOMAIN l = RestoreFields
  BY LoopFields
<1>2. Schedule(r, nodes, awaited, pc) = f
  BY DEF Schedule
<1> HIDE DEF l, tasks
<1>3. /\ f.pc = pc /\ f.todo = awaited /\ f.existing = r.existing /\ f.readonly = r.readonly
      /\ f.tables = r.tables /\ f.result = r.result /\ f.cleaning = r.cleaning
  BY <1>1 DEF RestoreFields, SameLists
<1> QED BY <1>2, <1>3

LEMMA CleanDatabasesProgress ==
    ASSUME IInv, Progress(server, restore), CleanDatabases
    PROVE  Progress(server', restore')
<1> DEFINE nodes == UNION {ReplicasToDrop(db) : db \in ToSet(Replicated(restore.databases))}
           dbs == Keep(restore.databases, {n[1] : n \in nodes})
<1>1. /\ restore.pc = "mismatched" /\ UNCHANGED server
      /\ \/ \E last \in [DOMAIN dbs -> nodes] :
               restore' = Schedule(restore, nodes, last, "await_databases")
         \/ restore' = Loop(restore, "create_databases", restore.databases)
  BY DEF CleanDatabases, Over, At, Proceed
<1>2. CommandShape(restore) /\ Early(restore)
  BY <1>1 DEF IInv, Safety, Early, Before
<1>3. ASSUME NEW n \in nodes PROVE OfDatabase(n)
  <2>1. PICK db \in ToSet(Replicated(restore.databases)) : n \in ReplicasToDrop(db)
    OBVIOUS
  <2>2. IsSeq(restore.databases) /\ ToSet(restore.databases) \subseteq ToSet(setup.databases)
    BY <1>2 DEF CommandShape, Lists
  <2>3. db \in ToSet(setup.databases) /\ n[1] = db
    BY <2>1, <2>2, ReplicatedDatabases DEF IInv, ReplicasToDrop
  <2> QED BY <2>3 DEF OfDatabase
<1> HIDE DEF nodes
<1>4. ASSUME NEW last \in [DOMAIN dbs -> nodes]
      PROVE  Progress(server, Schedule(restore, nodes, last, "await_databases"))
  <2> DEFINE f == Schedule(restore, nodes, last, "await_databases")
  <2>1. ToSet(last) \subseteq nodes
    BY DEF ToSet
  <2> HIDE DEF dbs
  <2>2. TasksOK(f)
    <3>1. Idle(restore)
      BY <1>2, NobodyRuns DEF Progress
    <3>2. "await_databases" \in Awaiting
      BY DEF Awaiting
    <3> HIDE DEF f
    <3> QED BY <1>2, <1>3, <2>1, <3>1, <3>2, Scheduled DEF f
  <2>3. /\ f.pc = "await_databases" /\ f.existing = restore.existing
        /\ f.readonly = restore.readonly /\ f.cleaning = restore.cleaning
    BY <1>2, ScheduleFields
  <2> HIDE DEF f
  <2>4. Early(f)
    BY <2>3 DEF Early, Before
  <2>5. TablesOK(server, f) /\ CleaningOK(f)
    BY <1>2, <2>3, <2>4 DEF Progress, TablesOK, CleaningOK, Restored, AsFound
  <2>6. Progress(server, f)
    BY <2>2, <2>3, <2>4, <2>5, EarlyTables DEF Progress
  <2> QED BY <2>6 DEF f
<1>5. Progress(server, Loop(restore, "create_databases", restore.databases))
  BY <1>2, LoopsOn
<1> HIDE DEF dbs
<1> QED BY <1>1, <1>4, <1>5

LEMMA DatabasesCleanedProgress ==
    ASSUME IInv, Progress(server, restore), DatabasesCleaned
    PROVE  Progress(server', restore')
BY LoopsOn DEF IInv, Safety, DatabasesCleaned, Over, At, Proceed, Early, Before

LEMMA RestoreDatabaseProgress ==
    ASSUME IInv, Progress(server, restore), RestoreDatabase
    PROVE  Progress(server', restore')
<1> DEFINE engine == setup.engines[It]
           nodes == IF engine = "Replicated" THEN {Node(It)} ELSE {}
           new == {}
<1>1. /\ restore.pc = "create_databases" /\ restore' = Skip(restore)
      /\ server' = [server EXCEPT
                       !.databases = [e \in DOMAIN @ \cup {It} |-> IF e = It THEN engine ELSE @[e]],
                       !.nodes = @ \cup nodes,
                       !.log[It].ptr = 0]
  BY DEF RestoreDatabase, CreateDatabase, Item, At, Proceed
<1>2. setup \in Setups /\ ServerShape(server) /\ CommandShape(restore)
  BY DEF IInv, Safety
<1> HIDE DEF nodes, engine
<1>3. /\ server'.tables = server.tables \cup new /\ server.nodes \subseteq server'.nodes
      /\ server'.broken = server.broken /\ new \subseteq ToBegin
      /\ \A u \in new : \E c \in Origins : From(c, u)
  BY <1>1, <1>2 DEF ServerShape, ServerFields
<1> HIDE DEF new
<1>4. Progress(server', restore)
  BY <1>2, <1>3, ServerGrows
<1> QED BY <1>1, <1>2, <1>4, SkipsOn

LEMMA StartSyncProgress ==
    ASSUME IInv, Progress(server, restore), StartSync
    PROVE  Progress(server', restore')
<1> DEFINE l == Loop(restore, "sync", Replicated(restore.databases))
           f == [l EXCEPT !.sync = [left |-> MaxPolls, again |-> FALSE]]
<1>1. restore.pc = "create_databases" /\ restore' = f /\ UNCHANGED server
  BY DEF StartSync, Over, At, Proceed
<1>2. l.pc = "sync" /\ SameLists(l, restore) /\ DOMAIN l = RestoreFields
  BY LoopFields DEF IInv, Safety
<1> HIDE DEF l
<1>3. f.pc = "sync" /\ ~f.sync.again /\ SameLists(f, restore)
  BY <1>2 DEF SameLists, RestoreFields
<1> HIDE DEF f
<1>4. Early(restore) /\ Early(f) /\ f.pc \notin Awaiting
  BY <1>1, <1>3 DEF Early, Before, SyncLabels, Awaiting
<1> QED BY <1>1, <1>3, <1>4, GoesOn

LEMMA SyncingOn ==
    ASSUME NEW s, NEW r, Progress(s, r), r.pc \in SyncLabels, NEW f, SameLists(f, r),
           \/ f.pc \in SyncLabels /\ f.sync.again = r.sync.again
           \/ f.pc = IF r.sync.again THEN "done" ELSE "list_tables"
    PROVE  Progress(s, f)
<1>1. f.pc \notin Awaiting
  BY DEF SyncLabels, Awaiting
<1>2. (Early(r) /\ Early(f)) \/ (LastSync(r) /\ LastSync(f))
  BY DEF Early, LastSync
<1> QED BY <1>1, <1>2, GoesOn

LEMMA SyncedProgress ==
    ASSUME IInv, ~KeepGoing, Progress(server, restore), restore.pc \in SyncLabels,
           UNCHANGED server, NEW status, restore' = Synced(status), restore'.pc # "failed"
    PROVE  Progress(server', restore')
<1> DEFINE results == [db \in DOMAIN restore.results \cup {It} |->
                          IF db = It THEN status ELSE restore.results[db]]
           r == [restore EXCEPT !.results = results, !.pc = "sync"]
<1>1. /\ DOMAIN r = RestoreFields /\ r.pc = "sync" /\ SameLists(r, restore)
      /\ r.sync = restore.sync
  <2> HIDE DEF results
  <2> QED BY DEF IInv, Safety, CommandShape, RestoreFields, SameLists
<1>2. restore' = IF status = "FAILED" /\ r.sync.again THEN Error(r) ELSE Skip(r)
  BY DEF Synced
<1> HIDE DEF r
<1>3. restore' = Skip(r)
  <2>1. Error(r).pc = "failed"
    BY <1>1 DEF Error, Failed, RestoreFields
  <2> QED BY <1>2, <2>1
<1>4. restore'.pc = "sync" /\ SameLists(restore', restore) /\ restore'.sync = restore.sync
  BY <1>1, <1>3 DEF Skip, RestoreFields, SameLists
<1> QED BY <1>4, SyncingOn DEF SyncLabels

LEMMA ResolveProgress ==
    ASSUME IInv, ~KeepGoing, Progress(server, restore), Resolve, restore'.pc # "failed"
    PROVE  Progress(server', restore')
<1>1. /\ restore.pc \in SyncLabels /\ UNCHANGED server
      /\ \/ restore' = Synced("FAILED")
         \/ \E sync : /\ sync.again = restore.sync.again
                      /\ restore' = [restore EXCEPT !.pc = "poll", !.sync = sync]
  <2> DEFINE sync == [left |-> restore.sync.left, again |-> restore.sync.again,
                      max |-> server.log[It].max, prev |-> server.log[It].ptr,
                      ptr |-> server.log[It].ptr, stalls |-> 0]
  <2>1. restore.pc \in SyncLabels /\ UNCHANGED server
    BY DEF Resolve, Item, At, SyncLabels
  <2>2. restore' = Synced("FAILED") \/ restore' = [restore EXCEPT !.pc = "poll", !.sync = sync]
    BY DEF Resolve, Proceed
  <2>3. sync.again = restore.sync.again
    OBVIOUS
  <2> HIDE DEF sync
  <2> QED BY <2>1, <2>2, <2>3
<1>2. CASE restore' = Synced("FAILED")
  BY <1>1, <1>2, SyncedProgress
<1>3. ASSUME NEW sync, sync.again = restore.sync.again,
             restore' = [restore EXCEPT !.pc = "poll", !.sync = sync]
      PROVE  Progress(server', restore')
  <2>1. restore'.pc = "poll" /\ SameLists(restore', restore) /\ restore'.sync = sync
    BY <1>3 DEF IInv, Safety, CommandShape, RestoreFields, SameLists
  <2> QED BY <1>1, <1>3, <2>1, SyncingOn DEF SyncLabels
<1> QED BY <1>1, <1>2, <1>3

LEMMA PollProgress ==
    ASSUME IInv, ~KeepGoing, Progress(server, restore), Poll, restore'.pc # "failed"
    PROVE  Progress(server', restore')
<1> DEFINE s == restore.sync
<1>1. /\ restore.pc = "poll" /\ restore.pc \in SyncLabels /\ UNCHANGED server
      /\ \/ restore' = Synced("FAILED") \/ restore' = Synced("DONE")
         \/ \E stalls : restore' = [restore EXCEPT
               !.sync = [s EXCEPT !.left = @ - 1, !.stalls = stalls, !.prev = s.ptr,
                                  !.ptr = server.log[It].ptr]]
  BY DEF Poll, At, Proceed, SyncLabels
<1>2. CASE restore' = Synced("FAILED") \/ restore' = Synced("DONE")
  BY <1>1, <1>2, SyncedProgress
<1>3. ASSUME NEW stalls,
             restore' = [restore EXCEPT
               !.sync = [s EXCEPT !.left = @ - 1, !.stalls = stalls, !.prev = s.ptr,
                                  !.ptr = server.log[It].ptr]]
      PROVE  Progress(server', restore')
  <2> DEFINE sync == [s EXCEPT !.left = @ - 1, !.stalls = stalls, !.prev = s.ptr,
                               !.ptr = server.log[It].ptr]
  <2>1. sync.again = s.again
    <3>1. "again" \in DOMAIN s
      BY <1>1 DEF IInv, Safety, SyncOK
    <3> QED BY <3>1
  <2>2. restore' = [restore EXCEPT !.sync = sync]
    BY <1>3
  <2> HIDE DEF sync
  <2>3. restore'.pc = "poll" /\ SameLists(restore', restore) /\ restore'.sync = sync
    BY <1>1, <2>2 DEF IInv, Safety, CommandShape, RestoreFields, SameLists
  <2> QED BY <1>1, <2>1, <2>3, SyncingOn DEF SyncLabels
<1> QED BY <1>1, <1>2, <1>3

LEMMA SyncOverProgress ==
    ASSUME IInv, Progress(server, restore), SyncOver, restore'.pc # "failed"
    PROVE  Progress(server', restore')
<1> DEFINE pc == IF restore.sync.again THEN End ELSE "list_tables"
<1>1. restore.pc \in SyncLabels /\ restore' = [restore EXCEPT !.pc = pc] /\ UNCHANGED server
  BY DEF SyncOver, Over, At, Proceed, SyncLabels
<1>2. restore'.pc = pc /\ SameLists(restore', restore)
  <2> HIDE DEF pc
  <2> QED BY <1>1 DEF IInv, Safety, CommandShape, RestoreFields, SameLists
<1>3. pc = IF restore.sync.again THEN "done" ELSE "list_tables"
  BY <1>2 DEF End
<1> QED BY <1>1, <1>2, <1>3, SyncingOn

-----------------------------------------------------------------------------
(* Tables that are there.                                                   *)

\* Nothing is left out of a sequence that is kept as long as it was.
LEMMA AllKept ==
    ASSUME NEW s, IsSeq(s), NEW S, ~(Len(Keep(s, S)) < Len(s))
    PROVE  ToSet(s) \subseteq S
<1>1. PICK kept : /\ Keep(s, S) = kept[Len(s)]
                  /\ \A i \in 0..Len(s) : kept[i] = Step(s, S, kept, i)
  BY StepsOfKeep
<1>2. Len(s) \in Nat /\ DOMAIN s = 1..Len(s)
  BY DEF IsSeq
<1> DEFINE Good(n) == /\ IsSeq(kept[n]) /\ Len(kept[n]) \in 0..n
                      /\ Len(kept[n]) = n => \A i \in 1..n : s[i] \in S
           bad == {n \in 0..Len(s) : ~Good(n)}
<1>3. bad = {}
  <2> SUFFICES ASSUME bad # {} PROVE FALSE
    OBVIOUS
  <2>1. PICK n \in bad : \A m \in bad : ~(<<m, n>> \in OpToRel(<, Nat))
    <3>1. bad \subseteq Nat
      BY <1>2
    <3> HIDE DEF bad
    <3> QED BY <3>1, NatLessThanWellFounded, WFMin
  <2>2. CASE n = 0
    <3>1. kept[0] = <<>>
      BY <1>1, <1>2 DEF Step
    <3>2. Good(0)
      BY <3>1, NoElements
    <3> QED BY <2>1, <2>2, <3>2
  <2>3. CASE n # 0
    <3>1. n \in 1..Len(s) /\ n \in 0..Len(s) /\ n - 1 \in 0..Len(s) /\ n - 1 < n /\ n - 1 \in Nat
      BY <1>2, <2>3
    <3>2. <<n - 1, n>> \in OpToRel(<, Nat)
      BY <3>1 DEF OpToRel
    <3>3. n - 1 \notin bad
      <4> HIDE DEF bad
      <4> QED BY <2>1, <3>2
    <3>4. Good(n - 1)
      BY <3>1, <3>3
    <3>5. kept[n] = IF s[n] \in S THEN Append(kept[n - 1], s[n]) ELSE kept[n - 1]
      BY <1>1, <2>3, <3>1 DEF Step
    <3>6. Len(Append(kept[n - 1], s[n])) = Len(kept[n - 1]) + 1
      BY <3>4 DEF IsSeq
    <3>7. IsSeq(kept[n]) /\ Len(kept[n]) \in 0..n
      <4>1. IsSeq(kept[n])
        BY <3>4, <3>5, Appended
      <4>2. Len(kept[n]) \in {Len(kept[n - 1]), Len(kept[n - 1]) + 1}
        BY <3>5, <3>6
      <4> QED BY <3>1, <3>4, <4>1, <4>2
    <3>8. ASSUME Len(kept[n]) = n, NEW i \in 1..n PROVE s[i] \in S
      <4>1. s[n] \in S /\ Len(kept[n - 1]) = n - 1
        BY <3>1, <3>4, <3>5, <3>6, <3>8
      <4>2. \A j \in 1..(n - 1) : s[j] \in S
        BY <3>4, <4>1
      <4>3. i = n \/ i \in 1..(n - 1)
        BY <3>1
      <4> QED BY <4>1, <4>2, <4>3
    <3>9. Good(n)
      BY <3>7, <3>8
    <3> QED BY <2>1, <3>9
  <2> QED BY <2>2, <2>3
<1>4. Good(Len(s))
  <2>1. Len(s) \in 0..Len(s)
    BY <1>2
  <2> QED BY <1>3, <2>1
<1>5. Len(kept[Len(s)]) = Len(s)
  BY <1>1, <1>2, <1>4
<1> QED BY <1>2, <1>4, <1>5 DEF ToSet

\* All elements of a set are awaited.
LEMMA AllAwaited ==
    ASSUME NEW S, IsFiniteSet(S), NEW awaited \in SetToSeqs(S)
    PROVE  ToSet(awaited) = S
<1> DEFINE D == 1..Cardinality(S)
<1>1. Cardinality(S) \in Nat
  BY FS_CardinalityType
<1>2. awaited \in [D -> S] /\ \A i, j \in D : i # j => awaited[i] # awaited[j]
  BY DEF SetToSeqs
<1>3. Cardinality(D) = Cardinality(S)
  BY <1>1, FS_Interval
<1> HIDE DEF D
<1>4. awaited \in Injection(D, S)
  BY <1>2 DEF Injection, IsInjective
<1>5. awaited \in Surjection(D, S)
  BY <1>3, <1>4, FS_Injection
<1> QED BY <1>2, <1>5 DEF Surjection, ToSet

\* The next list is made: the tables are still those that were there.
LEMMA ListGoesOn ==
    ASSUME IInv, Progress(server, restore), AsFound(restore), restore.pc \notin Awaiting,
           NEW pc \in {"list_existing", "list_readonly", "clean_readonly"}, NEW tables,
           NEW detached, NEW existing \in {restore.existing, server.tables}, NEW readonly,
           restore' = WithLists(pc, tables, detached, existing, readonly), UNCHANGED server,
           \A t \in ToSet(TablesMeta) : Wanted(t) =>
              /\ t \in ToSet(tables)
              /\ pc # "list_existing" => Named(existing, t.name) \subseteq server.tables,
           pc = "clean_readonly" => readonly = ReadonlyNow
    PROVE  Progress(server', restore')
<1> DEFINE f == WithLists(pc, tables, detached, existing, readonly)
<1>1. /\ f.pc = pc /\ f.tables = tables /\ f.existing = existing /\ f.readonly = readonly
      /\ f.tasks = restore.tasks /\ f.cleaning = restore.cleaning
  BY ListFields DEF IInv, Safety, RestoreFields
<1> HIDE DEF f
<1>2. /\ f.pc \in Listing \cup Listed /\ ~LastSync(f)
      /\ f.pc \notin Awaiting \cup Chosen \cup {"create", "created", "temporary_disks", "data"}
  BY <1>1 DEF Listing, Listed, Awaiting, Chosen, LastSync, SyncLabels
<1>3. TablesOK(server, f)
  BY <1>1 DEF Progress, TablesOK
<1>4. TasksOK(f)
  BY <1>1, <1>2 DEF Progress, TasksOK, Idle
<1>5. CleaningOK(f)
  BY <1>1 DEF Progress, CleaningOK
<1>6. ASSUME NEW t \in ToSet(TablesMeta), Wanted(t) PROVE TableOK(server, f, t)
  <2>1. f.pc \in {"list_readonly"} \cup Listed => Named(f.existing, t.name) \subseteq server.tables
    BY <1>1, <1>6 DEF Listed
  <2>2. f.pc \in Listed /\ t.name \notin f.readonly =>
           \A u \in Named(f.existing, t.name) : ~Readonly(server, u)
    BY <1>1, <1>6 DEF Named, Listed, ReadonlyNow, NamesOf
  <2> QED BY <1>1, <1>2, <1>6, <2>1, <2>2 DEF TableOK
<1> QED BY <1>2, <1>3, <1>4, <1>5, <1>6 DEF Progress, f

LEMMA ListTablesProgress ==
    ASSUME IInv, ~KeepGoing, Progress(server, restore), ListTables, restore'.pc # "failed"
    PROVE  Progress(server', restore')
<1>1. /\ restore.pc = "list_tables" /\ UNCHANGED server
      /\ restore' = WithLists("list_existing", TablesToPreprocess, server.detached,
                              restore.existing, restore.readonly)
      /\ ~(Len(TablesToPreprocess) < Len(TablesMeta))
  <2>1. Failed(restore).pc = "failed"
    BY ErrorFails DEF IInv, Safety
  <2> QED BY <2>1
      DEF ListTables, At, Proceed, WithLists, IInv, Safety, CommandShape, RestoreFields
<1>2. AsFound(restore) /\ restore.pc \notin Awaiting
  BY <1>1 DEF AsFound, Early, Awaiting
<1>3. ToSet(TablesMeta) \subseteq ToSet(TablesToPreprocess)
  BY <1>1, TheTables, Kept, AllKept DEF IInv, TablesToPreprocess
<1> QED BY <1>1, <1>2, <1>3, ListGoesOn

LEMMA ListExistingProgress ==
    ASSUME IInv, Progress(server, restore), ListExisting
    PROVE  Progress(server', restore')
<1>1. /\ restore.pc = "list_existing" /\ UNCHANGED server
      /\ restore' = WithLists("list_readonly", restore.tables, restore.detached,
                              server.tables, restore.readonly)
  BY DEF ListExisting, At, Proceed, WithLists, IInv, Safety, CommandShape, RestoreFields
<1>2. AsFound(restore) /\ restore.pc \notin Awaiting
  BY <1>1 DEF AsFound, Listing, Awaiting
<1>3. \A t \in ToSet(TablesMeta) :
         Wanted(t) => t \in ToSet(restore.tables)
           /\ Named(server.tables, t.name) \subseteq server.tables
  BY <1>1 DEF Progress, TableOK, Listing, Named
<1> QED BY <1>1, <1>2, <1>3, ListGoesOn

LEMMA ListReadonlyProgress ==
    ASSUME IInv, Progress(server, restore), ListReadonly
    PROVE  Progress(server', restore')
<1>1. /\ restore.pc = "list_readonly" /\ UNCHANGED server
      /\ restore' = WithLists("clean_readonly", restore.tables, restore.detached,
                              restore.existing, ReadonlyNow)
  BY DEF ListReadonly, At, Proceed, WithLists, IInv, Safety, CommandShape, RestoreFields
<1>2. AsFound(restore) /\ restore.pc \notin Awaiting
  BY <1>1 DEF AsFound, Listing, Awaiting
<1> QED BY <1>1, <1>2, ListGoesOn DEF Progress, TableOK, Listing

\* The nodes of tables are scheduled, and all of them awaited.
LEMMA TablesScheduled ==
    ASSUME IInv, Progress(server, restore), UNCHANGED server,
           NEW pc, \/ pc = "await_readonly" /\ restore.pc = "clean_readonly"
                   \/ pc = "await_tables" /\ restore.pc = "preprocess" /\ restore.todo = <<>>,
           NEW tables, ToSet(tables) \subseteq ToSet(TablesMeta),
           \A c \in ToSet(tables) :
              IF pc = "await_readonly" THEN c.name \in restore.readonly ELSE ~Restored(restore, c),
           CleanTables(tables, pc)
    PROVE  Progress(server', restore')
<1> DEFINE nodes == NodesToDrop(tables)
<1>1. PICK awaited \in SetToSeqs(nodes) : restore' = Schedule(restore, nodes, awaited, pc)
  BY DEF CleanTables, Proceed
<1>2. ToSet(awaited) = nodes
  <2>1. nodes \subseteq server.nodes
    BY DEF NodesToDrop, ReplicasToDrop
  <2> HIDE DEF nodes
  <2>2. IsFiniteSet(nodes)
    BY <2>1, FS_Subset DEF IInv, Safety, ServerShape
  <2> QED BY <2>2, AllAwaited
<1>3. \A n \in nodes : \E c \in ToSet(tables) : n[1] = c.path
  BY DEF NodesToDrop, ReplicasToDrop
<1> DEFINE f == Schedule(restore, nodes, awaited, pc)
<1> HIDE DEF nodes
<1>4. CommandShape(restore) /\ pc \in Awaiting /\ restore.pc \notin Awaiting
  BY DEF IInv, Safety, Awaiting
<1>5. /\ f.pc = pc /\ f.existing = restore.existing /\ f.readonly = restore.readonly
      /\ f.tables = restore.tables /\ f.result = restore.result /\ f.cleaning = restore.cleaning
  BY <1>4, ScheduleFields
<1>6. TasksOK(f)
  <2>1. \A n \in nodes : OfTable(f, n)
    BY <1>3, <1>5 DEF OfTable, Restored
  <2>2. Idle(restore)
    BY <1>4, NobodyRuns DEF Progress
  <2> HIDE DEF f
  <2> QED BY <1>2, <1>4, <2>1, <2>2, Scheduled DEF f
<1> HIDE DEF f
<1>7. ~AsFound(f)
  BY <1>5 DEF AsFound, Listing, Early, Before, SyncLabels
<1>8. TablesOK(server, f)
  BY <1>5, <1>7 DEF Progress, TablesOK
<1>9. CleaningOK(f)
  BY <1>5, <1>7 DEF Progress, CleaningOK, Restored, Listed
<1>10. ASSUME NEW t, TableOK(server, restore, t) PROVE TableOK(server, f, t)
  <2>1. CASE pc = "await_readonly"
    BY <1>5, <1>10, <2>1 DEF TableOK, Listed, Chosen, LastSync, SyncLabels
  <2>2. CASE pc = "await_tables"
    BY <1>5, <1>10, <2>2, NoElements
       DEF TableOK, Listing, Listed, Chosen, LastSync, SyncLabels, Restored
  <2> QED BY <2>1, <2>2
<1>11. Progress(server, f)
  BY <1>5, <1>6, <1>8, <1>9, <1>10 DEF Progress
<1> QED BY <1>1, <1>11 DEF f

LEMMA CleanReadonlyProgress ==
    ASSUME IInv, Progress(server, restore), CleanReadonly
    PROVE  Progress(server', restore')
BY FixedTables, TablesScheduled DEF CleanReadonly, At

LEMMA CleanMetadataProgress ==
    ASSUME IInv, Progress(server, restore), CleanMetadata
    PROVE  Progress(server', restore')
<1>1. \A c \in ToSet(restore.cleaning) : ~Restored(restore, c)
  BY DEF Progress, CleaningOK
<1>2. ToSet(restore.cleaning) \subseteq ToSet(TablesMeta)
  BY DEF IInv, Safety, CommandShape
<1> QED BY <1>1, <1>2, TablesScheduled DEF CleanMetadata, Over, At

\* From one loop over readonly tables to the next, or to the next of them.
LEMMA ListedGoesOn ==
    ASSUME NEW s, NEW r, Progress(s, r), NEW f, SameLists(f, r), r.pc \in Listed,
           r.pc \notin Awaiting \/ r.todo = <<>>, f.pc = "restore_replicas"
    PROVE  Progress(s, f)
<1>1. Idle(r)
  BY NobodyRuns DEF Progress
<1>2. /\ f.pc \in Listed /\ f.pc \notin Awaiting \cup Chosen /\ ~AsFound(f) /\ ~LastSync(f)
  BY DEF Listed, Awaiting, Chosen, AsFound, Listing, Early, Before, LastSync, SyncLabels
<1>3. TablesOK(s, f)
  BY <1>2 DEF Progress, TablesOK, SameLists
<1>4. TasksOK(f) /\ CleaningOK(f)
  BY <1>1, <1>2 DEF Progress, TasksOK, CleaningOK, Idle, Restored, SameLists
<1>5. ASSUME NEW t, TableOK(s, r, t) PROVE TableOK(s, f, t)
  BY <1>2, <1>5 DEF TableOK, SameLists
<1> QED BY <1>3, <1>4, <1>5 DEF Progress

LEMMA ReadonlyCleanedProgress ==
    ASSUME IInv, Progress(server, restore), ReadonlyCleaned
    PROVE  Progress(server', restore')
<1> DEFINE f == Loop(restore, "restore_replicas", Fixing)
<1>1. /\ restore.pc = "await_readonly" /\ restore.todo = <<>> /\ restore' = f /\ UNCHANGED server
  BY DEF ReadonlyCleaned, Over, At, Proceed
<1>2. f.pc = "restore_replicas" /\ SameLists(f, restore)
  BY LoopFields DEF IInv, Safety
<1> HIDE DEF f
<1> QED BY <1>1, <1>2, ListedGoesOn DEF Listed

LEMMA FixReplicaProgress ==
    ASSUME IInv, Progress(server, restore), FixReplica
    PROVE  Progress(server', restore')
<1> DEFINE fixed == {t \in Named(server.tables, It.name) : CanRestoreReplica(server, t)}
           nodes == {Node(t.path) : t \in fixed}
           new == {}
           f == Skip(restore)
<1>1. /\ restore.pc = "restore_replicas" /\ restore' = f
      /\ UNCHANGED server \/ server' = [server EXCEPT !.nodes = @ \cup nodes]
  BY DEF FixReplica, Item, At, Proceed
<1>2. setup \in Setups /\ ServerShape(server) /\ CommandShape(restore)
  BY DEF IInv, Safety
<1> HIDE DEF nodes
<1>3. /\ server'.tables = server.tables \cup new /\ server.nodes \subseteq server'.nodes
      /\ server'.broken = server.broken /\ new \subseteq ToBegin
      /\ \A u \in new : \E c \in Origins : From(c, u)
  BY <1>1, <1>2 DEF ServerShape, ServerFields
<1> HIDE DEF new
<1>4. Progress(server', restore)
  BY <1>2, <1>3, ServerGrows
<1>5. f.pc = "restore_replicas" /\ SameLists(f, restore)
  BY <1>1, <1>2, SkipFields
<1> HIDE DEF f
<1> QED BY <1>1, <1>4, <1>5, ListedGoesOn DEF Listed, Awaiting

\* A table that is not readonly any more, or was none, is as it should be.
LEMMA ReplicasFixedProgress ==
    ASSUME IInv, Progress(server, restore), ReplicasFixed
    PROVE  Progress(server', restore')
<1> DEFINE fixing == NamesOf(ToSet(Fixing))
           r == Loop(restore, "preprocess", restore.tables)
           readonly == restore.readonly \ (fixing \ ReadonlyNow)
           f == [r EXCEPT !.readonly = readonly, !.cleaned = fixing]
<1>1. /\ r.pc = "preprocess" /\ r.todo = restore.tables /\ SameLists(r, restore)
      /\ DOMAIN r = RestoreFields
  BY LoopFields DEF IInv, Safety
<1>2. restore.pc = "restore_replicas" /\ UNCHANGED server /\ restore' = f
  <2>1. r.readonly = restore.readonly
    BY <1>1 DEF SameLists
  <2> HIDE DEF r
  <2> QED BY <2>1 DEF ReplicasFixed, Over, At, Proceed, r
<1> HIDE DEF r, fixing
<1>3. /\ f.pc = "preprocess" /\ f.todo = restore.tables /\ f.tasks = restore.tasks
      /\ f.existing = restore.existing /\ f.readonly = readonly
      /\ f.tables = restore.tables /\ f.cleaning = restore.cleaning
  <2> HIDE DEF readonly
  <2> QED BY <1>1 DEF SameLists, RestoreFields
<1> HIDE DEF f
<1>4. /\ restore.pc \in Listed /\ restore.pc \notin Awaiting
      /\ f.pc \notin Awaiting \cup Listed \cup {"create", "created", "temporary_disks", "data"}
      /\ ~AsFound(f) /\ ~LastSync(f)
  BY <1>2, <1>3 DEF Awaiting, Listed, AsFound, Listing, Early, Before, LastSync, SyncLabels
<1>5. TablesOK(server, f)
  BY <1>3, <1>4 DEF Progress, TablesOK
<1>6. TasksOK(f) /\ CleaningOK(f)
  BY <1>3, <1>4 DEF Progress, TasksOK, CleaningOK, Idle
<1>7. ASSUME NEW t \in ToSet(TablesMeta), Wanted(t) PROVE TableOK(server, f, t)
  <2>1. /\ TableOK(server, restore, t) /\ restore.existing \subseteq ToBegin
    BY <1>7 DEF Progress, TablesOK
  <2>2. t \in ToSet(f.todo)
    BY <1>3, <1>4, <2>1 DEF TableOK
  <2>3. ASSUME Restored(f, t) PROVE Holds(server, t, FALSE)
    <3>1. PICK u \in Named(restore.existing, t.name) : u.schema = t.schema
      BY <1>3, <2>3 DEF Restored, SameSchema
    <3>2. /\ u \in Named(server.tables, t.name)
          /\ t.name \notin restore.readonly => ~Readonly(server, u)
      BY <1>4, <2>1, <3>1 DEF TableOK, Named
    <3>3. Own(u)
      BY <1>7, <2>1, <3>1, OwnReplicas DEF Named, IInv
    <3>4. ~Readonly(server, u)
      <4>1. t.name \notin readonly
        BY <1>3, <2>3 DEF Restored
      <4>2. t.name \notin restore.readonly \/ t.name \notin ReadonlyNow
        BY <4>1
      <4> QED BY <3>2, <4>2 DEF ReadonlyNow, NamesOf, Named
    <3> QED BY <3>1, <3>2, <3>3, <3>4 DEF Holds
  <2> QED BY <1>3, <1>4, <2>2, <2>3 DEF TableOK
<1> QED BY <1>2, <1>4, <1>5, <1>6, <1>7 DEF Progress

\* A detached table is attached, if need be.
LEMMA AttachedProgress ==
    ASSUME IInv, Progress(server, restore), restore.pc = "preprocess",
           NEW d \in setup.server.detached
    PROVE  ServerShape(Attached(d)) /\ Progress(Attached(d), restore)
<1> DEFINE s == Attached(d)
           new == IF d.schema = "missing" THEN {} ELSE {d}
<1>1. setup \in Setups /\ ServerShape(server) /\ ~AsFound(restore)
  BY DEF IInv, Safety, AsFound, Listing, Early, Before, SyncLabels
<1>2. ServerShape(s)
  BY AttachedKeeps DEF Safety
<1>3. s.tables = server.tables \cup new /\ s.nodes = server.nodes /\ s.broken = server.broken
  <2>1. CASE d.schema = "missing"
    BY <1>1, <2>1 DEF Attached, ServerShape, ServerFields
  <2>2. CASE d.schema # "missing"
    BY <1>1, <2>2 DEF Attached, AttachTable, ServerShape, ServerFields
  <2> QED BY <2>1, <2>2
<1>4. \A u \in new : \E c \in Origins : From(c, u)
  BY DEF Origins, Known, From
<1> HIDE DEF s, new
<1>5. Progress(s, restore)
  BY <1>1, <1>3, <1>4, ServerGrows
<1> QED BY <1>2, <1>5 DEF s

\* What is in the way of one table is not what another one has restored already.
LEMMA OutOfTheWay ==
    ASSUME IInv, Progress(server, restore), NEW c \in ToSet(TablesMeta), ~IsRestored(c),
           NEW t, Wanted(t), Restored(restore, t)
    PROVE  t.name \notin InTheWay(c)
<1>1. t.name # c.name
  <2> SUFFICES ASSUME t.name = c.name PROVE FALSE
    OBVIOUS
  <2>1. t = c
    BY OneOfAName DEF IInv, Wanted
  <2> QED BY <2>1 DEF Restored, IsRestored
<1>2. ASSUME NEW w \in WithUuid(restore.existing, c.uuid), w.name = t.name PROVE FALSE
  <2>1. w \in Named(ToBegin, t.name) /\ w.uuid = c.uuid
    BY <1>2 DEF Progress, TablesOK, Named, WithUuid
  <2>2. Renamed(w)
    BY <1>1, <1>2, <2>1 DEF Renamed, Apart
  <2> QED BY <2>1, <2>2 DEF Wanted, Replaced, ToBegin
<1> QED BY <1>1, <1>2 DEF InTheWay, NamesOf

\* It is chosen what to do with the first table that is left.
LEMMA TableDecided ==
    ASSUME IInv, NEW s, Progress(s, restore), restore.pc = "preprocess", restore.todo # <<>>,
           NEW result, NEW cleaning, NEW left,
           left <=> IsRestored(It) \/ LeftToDatabase(It),
           result = IF left THEN restore.result ELSE Append(restore.result, It),
           cleaning = IF ToClean(It) THEN Append(restore.cleaning, It) ELSE restore.cleaning
    PROVE  Progress(s, [Skip(restore) EXCEPT !.result = result, !.cleaning = cleaning])
<1> DEFINE r == Skip(restore)
           f == [r EXCEPT !.result = result, !.cleaning = cleaning]
<1>1. CommandShape(restore) /\ IsSeq(restore.todo) /\ IsSeq(restore.result)
        /\ IsSeq(restore.cleaning)
  BY DEF IInv, Safety, CommandShape, Lists
<1>2. /\ r.pc = "preprocess" /\ r.todo = Tail(restore.todo) /\ SameLists(r, restore)
      /\ DOMAIN r = RestoreFields
  BY <1>1, SkipFields
<1> HIDE DEF r
<1>3. /\ f.pc = "preprocess" /\ f.todo = Tail(restore.todo) /\ f.tasks = restore.tasks
      /\ f.existing = restore.existing /\ f.readonly = restore.readonly
      /\ f.result = result /\ f.cleaning = cleaning
  BY <1>2 DEF SameLists, RestoreFields
<1> HIDE DEF f
<1>4. ToSet(restore.todo) = {It} \cup ToSet(Tail(restore.todo))
  BY <1>1, HeadAndTail DEF It
<1>5. /\ f.pc \in Chosen /\ f.pc \notin Awaiting \cup Listed \cup {"create", "created", "data"}
      /\ f.pc # "temporary_disks" /\ ~AsFound(f) /\ ~LastSync(f)
  BY <1>3 DEF Chosen, Awaiting, Listed, AsFound, Listing, Early, Before, LastSync, SyncLabels
<1>6. TablesOK(s, f)
  BY <1>3, <1>5 DEF Progress, TablesOK
<1>7. TasksOK(f)
  BY <1>3, <1>5 DEF Progress, TasksOK, Idle, Awaiting
<1>8. CleaningOK(f)
  <2>1. ToSet(cleaning) \subseteq ToSet(restore.cleaning) \cup {c \in {It} : ToClean(c)}
    BY <1>1, Appended
  <2>2. \A c \in ToSet(restore.cleaning) : ~Restored(restore, c)
    BY DEF Progress, CleaningOK
  <2>3. ToClean(It) => ~Restored(restore, It)
    BY DEF ToClean, IsRestored, Restored
  <2> QED BY <1>3, <1>5, <2>1, <2>2, <2>3 DEF CleaningOK, Restored
<1>9. ASSUME NEW t, Wanted(t), TableOK(s, restore, t) PROVE TableOK(s, f, t)
  <2>1. Restored(f, t) <=> Restored(restore, t)
    BY <1>3 DEF Restored
  <2>2. IF Restored(restore, t) THEN Holds(s, t, FALSE)
        ELSE t \in ToSet(restore.result) \/ t \in ToSet(restore.todo)
    BY <1>3, <1>5, <1>9 DEF TableOK
  <2>3. ToSet(restore.result) \subseteq ToSet(result)
    BY <1>1, Appended
  <2>4. t = It /\ ~Restored(restore, t) => t \in ToSet(result)
    <3>1. t = It /\ ~Restored(restore, t) => ~left
      BY <1>9 DEF Restored, IsRestored, Wanted
    <3> QED BY <1>1, <3>1, Appended
  <2> QED BY <1>3, <1>4, <1>5, <2>1, <2>2, <2>3, <2>4 DEF TableOK, Listing
<1>10. Progress(s, f)
  BY <1>5, <1>6, <1>7, <1>8, <1>9 DEF Progress
<1> QED BY <1>10 DEF f, r

LEMMA PreprocessTableProgress ==
    ASSUME IInv, ~KeepGoing, Progress(server, restore), PreprocessTable, restore'.pc # "failed"
    PROVE  Progress(server', restore')
<1> DEFINE detached == DetachedAs(It)
           attached == IF detached = {} THEN server ELSE Attached(CHOOSE d \in detached : TRUE)
           left == IsRestored(It) \/ LeftToDatabase(It)
           result == IF left THEN restore.result ELSE Append(restore.result, It)
           cleaning == IF ToClean(It) THEN Append(restore.cleaning, It) ELSE restore.cleaning
<1>1. setup \in Setups /\ ServerShape(server) /\ CommandShape(restore)
  BY DEF IInv, Safety
<1>2. /\ restore.pc = "preprocess" /\ restore.todo # <<>>
      /\ server' = IF left THEN attached ELSE DropNamed(attached, InTheWay(It))
      /\ restore' = [Skip(restore) EXCEPT
                        !.result = IF left THEN @ ELSE Append(@, It),
                        !.cleaning = IF ToClean(It) THEN Append(@, It) ELSE @]
  <2>1. Error(restore).pc = "failed"
    BY <1>1, ErrorFails
  <2> QED BY <2>1 DEF PreprocessTable, Item, At, Proceed
<1>3. It \in ToSet(TablesMeta)
  BY <1>2, HeadAndTail DEF IInv, Safety, CommandShape, Lists, TodoOK, TableLabels, It
<1>4. ServerShape(attached) /\ Progress(attached, restore)
  <2>1. detached \subseteq setup.server.detached
    BY <1>1 DEF DetachedAs, Named, WithUuid, CommandShape
  <2>2. CASE detached = {}
    BY <1>1, <2>2
  <2>3. CASE detached # {}
    <3>1. (CHOOSE d \in detached : TRUE) \in detached
      BY <2>3
    <3> HIDE DEF detached
    <3> QED BY <1>2, <2>1, <2>3, <3>1, AttachedProgress
  <2> QED BY <2>2, <2>3
<1> HIDE DEF attached
<1>5. Progress(server', restore)
  <2>1. CASE left
    BY <1>2, <1>4, <2>1
  <2>2. CASE ~left
    <3>1. \A t : Wanted(t) => t.name \notin InTheWay(It) \/ ToCome(restore, t)
      BY <1>2, <1>3, <2>2, OutOfTheWay DEF ToCome, Chosen
    <3> QED BY <1>1, <1>2, <1>4, <2>2, <3>1, NamesDropped
  <2> QED BY <2>1, <2>2
<1>6. restore' = [Skip(restore) EXCEPT !.result = result, !.cleaning = cleaning]
  <2>1. Skip(restore).result = restore.result /\ Skip(restore).cleaning = restore.cleaning
    BY <1>1, SkipFields DEF SameLists
  <2> QED BY <1>2, <2>1
<1> HIDE DEF result, cleaning
<1>7. Progress(server', [Skip(restore) EXCEPT !.result = result, !.cleaning = cleaning])
  BY <1>2, <1>5, TableDecided DEF result, cleaning
<1> QED BY <1>6, <1>7

-----------------------------------------------------------------------------
(* Tables that are not.                                                     *)

\* The labels of the restore of tables that are not there.
Late == {"create", "created", "temporary_disks", "data"}

LEMMA GoesFurther ==
    ASSUME NEW s, NEW r, TablesOK(s, r), TasksOK(r), CleaningOK(r),
           r.pc \notin Awaiting \/ r.todo = <<>>,
           NEW f, f.pc \in Late \/ LastSync(f), SameLists(f, r),
           f.pc = "created" => ToSet(f.errors) # {},
           \A t \in ToSet(TablesMeta) : Wanted(t) => TableOK(s, f, t)
    PROVE  Progress(s, f)
<1>1. f.pc \notin Awaiting \cup Listed /\ ~AsFound(f)
  BY DEF Late, LastSync, SyncLabels, Awaiting, Listed, AsFound, Listing, Early, Before
<1>2. Idle(r)
  BY NobodyRuns
<1>3. TablesOK(s, f)
  BY <1>1 DEF TablesOK, SameLists
<1>4. TasksOK(f) /\ CleaningOK(f)
  BY <1>1, <1>2 DEF TasksOK, CleaningOK, Idle, Restored, SameLists
<1> QED BY <1>3, <1>4 DEF Progress

\* All that is to be known of a table at a label.
LEMMA LateTable ==
    ASSUME NEW s, NEW f, NEW t, f.pc \in Late \/ LastSync(f),
           f.pc = "create" => t \in ToSet(f.todo) \/ Holds(s, t, FALSE),
           f.pc \in {"temporary_disks", "data"} => Holds(s, t, Due(f, t) /\ t \notin ToSet(f.todo)),
           LastSync(f) => Holds(s, t, Due(f, t))
    PROVE  TableOK(s, f, t)
<1>1. f.pc \notin Listing \cup Listed \cup Chosen
  BY DEF Late, LastSync, SyncLabels, Listing, Listed, Chosen
<1> QED BY <1>1 DEF TableOK, Listing

LEMMA TablesCleanedProgress ==
    ASSUME IInv, Progress(server, restore), TablesCleaned
    PROVE  Progress(server', restore')
<1> DEFINE f == Loop(restore, "create", restore.result)
<1>1. restore.pc = "await_tables" /\ restore.todo = <<>> /\ restore' = f /\ UNCHANGED server
  BY DEF TablesCleaned, Over, At, Proceed
<1>2. f.pc = "create" /\ f.todo = restore.result /\ SameLists(f, restore)
  BY LoopFields DEF IInv, Safety
<1> HIDE DEF f
<1>3. f.pc \in Late /\ ~LastSync(f) /\ f.pc \notin {"created", "temporary_disks", "data"}
  BY <1>2 DEF Late, LastSync, SyncLabels
<1>4. ASSUME NEW t \in ToSet(TablesMeta), Wanted(t) PROVE TableOK(server, f, t)
  <2>1. t \in ToSet(restore.result) \/ Holds(server, t, FALSE)
    BY <1>1, <1>4 DEF Progress, TableOK, Chosen
  <2> QED BY <1>2, <1>3, <2>1, LateTable
<1> QED BY <1>1, <1>2, <1>3, <1>4, GoesFurther DEF Progress

\* The first table that is left is created.
LEMMA TableMade ==
    ASSUME IInv, Progress(server, restore), RestoreTableObject
    PROVE  /\ Progress(server', restore)
           /\ Wanted(It) => Holds(server', It, FALSE)
<1> DEFINE u == New(It)
           nodes == IF IsReplicated(u) THEN {Node(u.path)} ELSE {}
           new == {u}
<1>1. /\ restore.pc = "create" /\ At("create") /\ restore.todo # <<>> /\ Creatable(It)
      /\ server' = CreateTable(server, u)
  BY DEF RestoreTableObject, Item, At
<1>2. setup \in Setups /\ ServerShape(server) /\ DOMAIN It = TableFields
  <2>1. It \in ToSet(TablesMeta)
    BY <1>1, ToCreate
  <2> QED BY <2>1, TheTables DEF IInv, Safety
<1>3. It \in ToSet(TablesMeta) /\ u.name = It.name /\ u.path = It.path /\ u.schema = It.schema
  BY <1>1, <1>2, ToCreate DEF New, TableFields
<1> HIDE DEF u
<1>4. server' = [server EXCEPT !.tables = @ \cup new, !.nodes = @ \cup nodes]
  BY <1>1 DEF CreateTable
<1> HIDE DEF new, nodes
<1>5. /\ server'.tables = server.tables \cup new /\ server'.nodes = server.nodes \cup nodes
      /\ server'.broken = server.broken
  BY <1>2, <1>4 DEF ServerShape, ServerFields
<1>6. Progress(server', restore)
  <2>1. ~AsFound(restore)
    BY <1>1 DEF AsFound, Listing, Early, Before, SyncLabels
  <2>2. \A w \in new : \E c \in Origins : From(c, w)
    BY <1>3 DEF new, Origins, From
  <2> QED BY <1>2, <1>5, <2>1, <2>2, ServerGrows
<1>7. ASSUME Wanted(It) PROVE Holds(server', It, FALSE)
  <2>1. u \in Named(server'.tables, It.name)
    BY <1>3, <1>5 DEF new, Named
  <2>2. Own(u)
    <3>1. Own(It)
      BY <1>2, <1>7, OwnReplicas
    <3> QED BY <1>3, <3>1 DEF Own, SameReplica, IsReplicated
  <2>3. ASSUME IsReplicated(u) PROVE Node(u.path) \in server'.nodes
                 /\ Node(u.path) \notin server'.broken
    <3>1. Node(u.path) \notin server.nodes
      BY <1>1, <1>3, <2>3 DEF Creatable, CanCreate, IsReplicated
    <3>2. Node(u.path)[1] \notin ToSet(setup.databases) \cup {NoPath}
      BY <1>2, <1>3, <2>3, PathsOfTables DEF Node, IsReplicated, Origins
    <3>3. Node(u.path) \notin server.broken
      BY <3>1, <3>2 DEF Progress, TablesOK, BrokenOK
    <3> QED BY <1>5, <2>3, <3>3 DEF nodes
  <2>4. ~Readonly(server', u)
    BY <2>3 DEF Readonly
  <2> QED BY <1>3, <2>1, <2>2, <2>4 DEF Holds
<1> QED BY <1>6, <1>7

LEMMA RestoreTableObjectProgress ==
    ASSUME IInv, Progress(server, restore), RestoreTableObject
    PROVE  Progress(server', restore')
<1> DEFINE r == Skip(restore)
           f == [r EXCEPT !.errors = <<>>]
<1>1. restore.pc = "create" /\ restore.todo # <<>> /\ restore' = f
  BY DEF RestoreTableObject, Item, At, Proceed
<1>2. CommandShape(restore) /\ IsSeq(restore.todo)
  BY DEF IInv, Safety, CommandShape, Lists
<1>3. /\ r.pc = "create" /\ r.todo = Tail(restore.todo) /\ SameLists(r, restore)
      /\ DOMAIN r = RestoreFields
  BY <1>1, <1>2, SkipFields
<1> HIDE DEF r
<1>4. f.pc = "create" /\ f.todo = Tail(restore.todo) /\ SameLists(f, restore)
  BY <1>3 DEF SameLists, RestoreFields
<1> HIDE DEF f
<1>5. f.pc \in Late /\ ~LastSync(f) /\ f.pc \notin {"created", "temporary_disks", "data"}
  BY <1>4 DEF Late, LastSync, SyncLabels
<1>6. ToSet(restore.todo) = {It} \cup ToSet(Tail(restore.todo))
  BY <1>1, <1>2, HeadAndTail DEF It
<1>7. Progress(server', restore) /\ (Wanted(It) => Holds(server', It, FALSE))
  BY TableMade
<1>8. ASSUME NEW t \in ToSet(TablesMeta), Wanted(t) PROVE TableOK(server', f, t)
  <2>1. t \in ToSet(restore.todo) \/ Holds(server', t, FALSE)
    BY <1>1, <1>7, <1>8 DEF Progress, TableOK
  <2>2. t \in ToSet(f.todo) \/ Holds(server', t, FALSE)
    BY <1>4, <1>6, <1>7, <1>8, <2>1
  <2> QED BY <1>5, <2>2, LateTable
<1>9. restore.pc \notin Awaiting
  BY <1>1 DEF Awaiting
<1> QED BY <1>1, <1>4, <1>5, <1>7, <1>8, <1>9, GoesFurther DEF Progress

\* What an attempt made may be dropped with what was there under the name.
LEMMA DroppedProgress ==
    ASSUME IInv, Progress(server, restore), TableObjectFails
    PROVE  Progress(server', restore)
<1> DEFINE u == New(It)
           new == {u}
<1>1. /\ restore.pc = "create" /\ At("create") /\ restore.todo # <<>>
      /\ \E s \in Attempted(It) : server' \in {s, DropNamed(s, {It.name})}
  BY DEF TableObjectFails, Item, At
<1>2. setup \in Setups /\ ServerShape(server) /\ IsSeq(restore.todo)
  BY DEF IInv, Safety, CommandShape, Lists
<1>3. It \in ToSet(TablesMeta) /\ u.name = It.name /\ u.path = It.path /\ DOMAIN u = TableFields
  BY <1>1, ToCreate
<1>4. PICK s \in {server, AttachTable(server, u), CreateTable(server, u)} :
         server' \in {s, DropNamed(s, {It.name})}
  BY <1>1 DEF Attempted
<1> HIDE DEF u
<1>5. ServerShape(s) /\ Progress(s, restore)
  <2>1. ServerShape(s)
    BY <1>2, <1>3, AttachTableKeeps, CreateTableKeeps
  <2>2. CASE s = server
    BY <1>2, <2>2
  <2>3. CASE s # server
    <3>1. s.tables = server.tables \cup new /\ server.nodes \subseteq s.nodes
          /\ s.broken = server.broken
      <4> DEFINE nodes == IF IsReplicated(u) THEN {Node(u.path)} ELSE {}
      <4>1. CASE s = AttachTable(server, u)
        BY <1>2, <4>1 DEF AttachTable, ServerShape, ServerFields
      <4>2. CASE s = CreateTable(server, u)
        <5>1. s = [server EXCEPT !.tables = @ \cup new, !.nodes = @ \cup nodes]
          BY <4>2 DEF CreateTable
        <5> HIDE DEF new, nodes
        <5> QED BY <1>2, <5>1 DEF ServerShape, ServerFields
      <4> QED BY <1>4, <2>3, <4>1, <4>2
    <3> HIDE DEF new
    <3>2. \A w \in new : \E c \in Origins : From(c, w)
      BY <1>3 DEF Origins, From, new
    <3>3. ~AsFound(restore)
      BY <1>1 DEF AsFound, Listing, Early, Before, SyncLabels
    <3> QED BY <1>2, <2>1, <3>1, <3>2, <3>3, ServerGrows
  <2> QED BY <2>1, <2>2, <2>3
<1>6. \A t : Wanted(t) => t.name \notin {It.name} \/ ToCome(restore, t)
  <2> SUFFICES ASSUME NEW t, Wanted(t), t.name = It.name PROVE ToCome(restore, t)
    OBVIOUS
  <2>1. t = It
    BY <1>2, <1>3, OneOfAName DEF Wanted
  <2>2. It \in ToSet(restore.todo)
    BY <1>1, <1>2, HeadAndTail DEF It
  <2> QED BY <1>1, <2>1, <2>2 DEF ToCome
<1>7. Progress(DropNamed(s, {It.name}), restore)
  BY <1>2, <1>5, <1>6, NamesDropped
<1> QED BY <1>4, <1>5, <1>7

LEMMA TableObjectFailsProgress ==
    ASSUME IInv, Progress(server, restore), TableObjectFails
    PROVE  Progress(server', restore')
<1> DEFINE errors == ErrorsWith(It)
           todo == Append(Tail(restore.todo), It)
           pc == IF Len(errors) > Len(restore.todo) THEN "created" ELSE restore.pc
           f == [restore EXCEPT !.errors = errors, !.todo = todo, !.pc = pc]
<1>1. restore.pc = "create" /\ restore.todo # <<>> /\ restore' = f
  BY DEF TableObjectFails, Item, At, Proceed
<1>2. IsSeq(restore.todo) /\ IsSeq(restore.errors)
  BY DEF IInv, Safety, CommandShape, Lists
<1>3. ToSet(errors) # {}
  BY <1>2, Appended DEF ErrorsWith
<1>4. ToSet(todo) = ToSet(restore.todo)
  <2>1. IsSeq(Tail(restore.todo)) /\ ToSet(restore.todo) = {It} \cup ToSet(Tail(restore.todo))
    BY <1>1, <1>2, HeadAndTail DEF It
  <2>2. ToSet(todo) = ToSet(Tail(restore.todo)) \cup {It}
    BY <2>1, Appended
  <2> QED BY <2>1, <2>2
<1>5. pc \in {"create", "created"}
  BY <1>1
<1> HIDE DEF errors, todo, pc
<1>6. f.pc = pc /\ f.todo = todo /\ f.errors = errors /\ SameLists(f, restore)
  BY DEF IInv, Safety, CommandShape, RestoreFields, SameLists
<1> HIDE DEF f
<1>7. f.pc \in Late /\ ~LastSync(f) /\ f.pc \notin {"temporary_disks", "data"}
  BY <1>5, <1>6 DEF Late, LastSync, SyncLabels
<1>8. Progress(server', restore)
  BY DroppedProgress
<1>9. ASSUME NEW t \in ToSet(TablesMeta), Wanted(t) PROVE TableOK(server', f, t)
  <2>1. t \in ToSet(restore.todo) \/ Holds(server', t, FALSE)
    BY <1>1, <1>8, <1>9 DEF Progress, TableOK
  <2> QED BY <1>4, <1>6, <1>7, <2>1, LateTable
<1>10. restore.pc \notin Awaiting
  BY <1>1 DEF Awaiting
<1> QED BY <1>1, <1>3, <1>6, <1>7, <1>8, <1>9, <1>10, GoesFurther DEF Progress

\* All are created, or an error is left and ends the restore.
LEMMA TablesCreatedProgress ==
    ASSUME IInv, ~KeepGoing, Progress(server, restore), TablesCreated, restore'.pc # "failed"
    PROVE  Progress(server', restore')
<1> DEFINE failed == NamesOf(ToSet(restore.errors))
           tables == Keep(TablesMeta, {t \in ToSet(TablesMeta) : t.name \notin failed})
<1>1. /\ restore.pc = "created" \/ (restore.pc = "create" /\ restore.todo = <<>>)
      /\ UNCHANGED server /\ failed = {}
      /\ restore' = IF Option("schema_only") THEN Loop(restore, "data", <<>>)
                    ELSE Loop(restore, "temporary_disks", tables)
  <2>1. Failed(restore).pc = "failed"
    BY ErrorFails DEF IInv, Safety
  <2> HIDE DEF failed, tables
  <2> QED BY <2>1 DEF TablesCreated, Over, At, Proceed, failed, tables
<1>2. restore.pc = "create" /\ restore.todo = <<>>
  <2>1. restore.pc # "created"
    BY <1>1 DEF Progress, NamesOf
  <2> QED BY <1>1, <2>1
<1>3. ToSet(tables) = ToSet(TablesMeta)
  <2> DEFINE kept == {t \in ToSet(TablesMeta) : t.name \notin failed}
  <2>1. kept = ToSet(TablesMeta)
    BY <1>1
  <2> HIDE DEF kept, failed
  <2>2. ToSet(Keep(TablesMeta, kept)) = ToSet(TablesMeta) \cap kept
    BY TheTables, Kept DEF IInv
  <2> QED BY <2>1, <2>2 DEF kept
<1> DEFINE pc == IF RowsToo THEN "temporary_disks" ELSE "data"
           todo == IF RowsToo THEN tables ELSE <<>>
<1> HIDE DEF failed, tables
<1>4. /\ pc = IF RowsToo THEN "temporary_disks" ELSE "data"
      /\ RowsToo => todo = tables
      /\ restore' = Loop(restore, pc, todo)
  BY <1>1 DEF RowsToo
<1> HIDE DEF pc, todo
<1> DEFINE f == Loop(restore, pc, todo)
<1>5. f.pc = pc /\ f.todo = todo /\ SameLists(f, restore)
  BY LoopFields DEF IInv, Safety
<1> HIDE DEF f
<1>6. f.pc \in Late /\ ~LastSync(f) /\ f.pc \notin {"create", "created"}
  BY <1>4, <1>5 DEF Late, LastSync, SyncLabels
<1>7. ASSUME NEW t \in ToSet(TablesMeta), Wanted(t) PROVE TableOK(server, f, t)
  <2>1. Holds(server, t, FALSE)
    BY <1>2, <1>7, NoElements DEF Progress, TableOK
  <2>2. ~(Due(f, t) /\ t \notin ToSet(f.todo))
    BY <1>3, <1>4, <1>5 DEF Due
  <2>3. Holds(server, t, Due(f, t) /\ t \notin ToSet(f.todo))
    BY <2>1, <2>2 DEF Holds
  <2> QED BY <1>6, <2>3, LateTable
<1>8. restore.pc \notin Awaiting
  BY <1>2 DEF Awaiting
<1> QED BY <1>1, <1>4, <1>5, <1>6, <1>7, <1>8, GoesFurther DEF Progress, f

LEMMA EnterDisksProgress ==
    ASSUME IInv, Progress(server, restore), EnterDisks
    PROVE  Progress(server', restore')
<1> DEFINE f == [restore EXCEPT !.pc = "data"]
<1>1. restore.pc = "temporary_disks" /\ restore' = f /\ UNCHANGED server
  BY DEF EnterDisks, At, Proceed
<1>2. f.pc = "data" /\ f.todo = restore.todo /\ SameLists(f, restore)
  BY DEF IInv, Safety, CommandShape, RestoreFields, SameLists
<1> HIDE DEF f
<1>3. f.pc \in Late /\ ~LastSync(f) /\ f.pc \notin {"create", "created"}
  BY <1>2 DEF Late, LastSync, SyncLabels
<1>4. ASSUME NEW t \in ToSet(TablesMeta), Wanted(t) PROVE TableOK(server, f, t)
  <2>1. Holds(server, t, Due(restore, t) /\ t \notin ToSet(restore.todo))
    BY <1>1, <1>4 DEF Progress, TableOK
  <2> QED BY <1>2, <1>3, <2>1, LateTable DEF Due, SameLists
<1>5. restore.pc \notin Awaiting
  BY <1>1 DEF Awaiting
<1> QED BY <1>1, <1>2, <1>3, <1>4, <1>5, GoesFurther DEF Progress

\* Rows are added to a table that is not readonly.
LEMMA DataAdded ==
    ASSUME IInv, Progress(server, restore), Item("data")
    PROVE  /\ Progress(WithData(It), restore)
           /\ Wanted(It) => Holds(WithData(It), It, TRUE)
<1> DEFINE more(t) == IF t.name = It.name /\ ~Readonly(server, t)
                      THEN [t EXCEPT !.data = @ \cup {"backup"}] ELSE t
           d == WithData(It)
<1>1. restore.pc = "data" /\ restore.todo # <<>>
        /\ d = [server EXCEPT !.tables = {more(t) : t \in @}]
  BY DEF WithData, Item, At
<1>2. ServerShape(server) /\ IsSeq(restore.todo)
  BY DEF IInv, Safety, CommandShape, Lists
<1>3. \A t \in server.tables :
         /\ more(t).name = t.name /\ more(t).path = t.path /\ more(t).schema = t.schema
         /\ t.data \subseteq more(t).data
         /\ t.name = It.name /\ ~Readonly(server, t) => "backup" \in more(t).data
  BY <1>2 DEF ServerShape, TableFields
<1> HIDE DEF more, d
<1>4. d.tables = {more(t) : t \in server.tables} /\ d.nodes = server.nodes
        /\ d.broken = server.broken
  BY <1>1, <1>2 DEF ServerShape, ServerFields
<1>5. TablesOK(d, restore)
  <2>1. ~AsFound(restore)
    BY <1>1 DEF AsFound, Listing, Early, Before, SyncLabels
  <2>2. TablesFrom(d)
    BY <1>3, <1>4 DEF Progress, TablesOK, TablesFrom, From
  <2>3. BrokenOK(d)
    BY <1>4 DEF Progress, TablesOK, BrokenOK
  <2> QED BY <2>1, <2>2, <2>3 DEF Progress, TablesOK
<1>6. ASSUME NEW t, NEW rows, Holds(server, t, rows) PROVE Holds(d, t, rows \/ t = It)
  <2>1. PICK u \in Named(server.tables, t.name) :
            Own(u) /\ u.schema = t.schema /\ ~Readonly(server, u) /\ (rows => "backup" \in u.data)
    BY <1>6 DEF Holds
  <2>2. u \in server.tables /\ u.name = t.name
    BY DEF Named
  <2>3. more(u) \in Named(d.tables, t.name)
    BY <1>3, <1>4, <2>2 DEF Named
  <2>4. Own(more(u)) /\ ~Readonly(d, more(u)) /\ more(u).schema = t.schema
    BY <1>3, <1>4, <2>1, <2>2 DEF Own, SameReplica, IsReplicated, Readonly
  <2>5. rows \/ t = It => "backup" \in more(u).data
    BY <1>3, <2>1, <2>2
  <2> QED BY <2>3, <2>4, <2>5 DEF Holds
<1>7. ASSUME NEW t \in ToSet(TablesMeta), Wanted(t)
      PROVE  Holds(server, t, Due(restore, t) /\ t \notin ToSet(restore.todo))
  BY <1>1, <1>7 DEF Progress, TableOK
<1>8. ASSUME NEW t \in ToSet(TablesMeta), Wanted(t) PROVE TableOK(d, restore, t)
  <2>1. Holds(d, t, Due(restore, t) /\ t \notin ToSet(restore.todo))
    BY <1>6, <1>7, <1>8 DEF Holds
  <2>2. restore.pc \in Late /\ ~LastSync(restore) /\ restore.pc # "create"
    BY <1>1 DEF Late, LastSync, SyncLabels
  <2> QED BY <2>1, <2>2, LateTable
<1>9. Wanted(It) => Holds(d, It, TRUE)
  <2>1. It \in ToSet(TablesMeta)
    BY <1>1, <1>2, HeadAndTail DEF IInv, Safety, TodoOK, TableLabels, It
  <2> QED BY <1>6, <1>7, <2>1 DEF Holds
<1> QED BY <1>5, <1>8, <1>9 DEF Progress, d

\* The command leaves a table that has its data, or does not miss them.
LEMMA DataSkipped ==
    ASSUME NEW s, NEW r, Progress(s, r), CommandShape(r), r.pc = "data", r.todo # <<>>,
           Wanted(Head(r.todo)) => Holds(s, Head(r.todo), Due(r, Head(r.todo)))
    PROVE  Progress(s, Skip(r))
<1> DEFINE f == Skip(r)
<1>1. f.pc = "data" /\ f.todo = Tail(r.todo) /\ SameLists(f, r)
  BY SkipFields
<1> HIDE DEF f
<1>2. ToSet(r.todo) = {Head(r.todo)} \cup ToSet(Tail(r.todo))
  BY HeadAndTail DEF CommandShape, Lists
<1>3. f.pc \in Late /\ ~LastSync(f) /\ f.pc \notin {"create", "created"} /\ r.pc \notin Awaiting
  BY <1>1 DEF Late, LastSync, SyncLabels, Awaiting
<1>4. ASSUME NEW t \in ToSet(TablesMeta), Wanted(t) PROVE TableOK(s, f, t)
  <2>1. Holds(s, t, Due(r, t) /\ t \notin ToSet(r.todo))
    BY <1>4 DEF Progress, TableOK
  <2>2. Holds(s, t, Due(r, t) /\ t \notin ToSet(f.todo))
    BY <1>1, <1>2, <1>4, <2>1 DEF Holds
  <2>3. Due(f, t) <=> Due(r, t)
    BY <1>1 DEF Due, SameLists
  <2>4. Holds(s, t, Due(f, t) /\ t \notin ToSet(f.todo))
    BY <2>2, <2>3 DEF Holds
  <2> QED BY <1>3, <2>4, LateTable
<1>5. Progress(s, f)
  BY <1>1, <1>3, <1>4, GoesFurther DEF Progress
<1> QED BY <1>5 DEF f

LEMMA RestoreDataProgress ==
    ASSUME IInv, Progress(server, restore), RestoreData
    PROVE  Progress(server', restore')
<1>1. /\ Item("data") /\ restore.pc = "data" /\ restore.todo # <<>>
      /\ server' = WithData(It) /\ restore' = Skip(restore)
  BY DEF RestoreData, Item, At, Proceed
<1>2. Progress(server', restore) /\ (Wanted(It) => Holds(server', It, TRUE))
  BY <1>1, DataAdded
<1>3. Wanted(It) => Holds(server', It, Due(restore, It))
  BY <1>2 DEF Holds
<1> QED BY <1>1, <1>2, <1>3, DataSkipped DEF IInv, Safety, It

\* What is recorded as failed is not missed.
LEMMA AttachFailsProgress ==
    ASSUME IInv, Progress(server, restore), AttachFails
    PROVE  Progress(server', restore')
<1> DEFINE failed == restore.failed \cup {It.name}
           r == [restore EXCEPT !.failed = failed]
<1>1. /\ Item("data") /\ restore.pc = "data" /\ restore.todo # <<>>
      /\ server' \in {server, WithData(It)}
      /\ restore' = [Skip(restore) EXCEPT !.failed = @ \cup {It.name}]
  BY DEF AttachFails, Item, At, Proceed
<1>2. CommandShape(restore)
  BY DEF IInv, Safety
<1>3. Progress(server', restore)
  BY <1>1, DataAdded
<1>4. restore' = Skip(r)
  <2> HIDE DEF failed
  <2>1. Skip(r) = [restore EXCEPT !.todo = Tail(@), !.failed = failed]
    BY <1>2 DEF Skip, CommandShape, RestoreFields
  <2>2. Skip(restore).failed = restore.failed
    BY <1>2 DEF Skip, CommandShape, RestoreFields
  <2> QED BY <1>1, <2>1, <2>2 DEF Skip, failed
<1>5. /\ r.pc = "data" /\ r.todo = restore.todo /\ r.failed = failed
      /\ r.tasks = restore.tasks /\ r.existing = restore.existing /\ r.readonly = restore.readonly
      /\ r.tables = restore.tables /\ r.result = restore.result /\ r.cleaning = restore.cleaning
  <2> HIDE DEF failed
  <2> QED BY <1>1, <1>2 DEF CommandShape, RestoreFields
<1>6. CommandShape(r)
  <2>1. DOMAIN r = RestoreFields /\ \A x \in RestoreFields \ {"failed"} : r[x] = restore[x]
    BY <1>2 DEF CommandShape, RestoreFields
  <2> HIDE DEF r
  <2> QED BY <1>2, <2>1 DEF CommandShape, RestoreFields, Lists
<1> HIDE DEF r
<1>7. ASSUME NEW t \in ToSet(TablesMeta), Wanted(t)
      PROVE  Holds(server', t, FALSE) /\ Holds(server', t, Due(r, t) /\ t \notin ToSet(r.todo))
  <2>1. Holds(server', t, Due(restore, t) /\ t \notin ToSet(restore.todo))
    BY <1>1, <1>3, <1>7 DEF Progress, TableOK
  <2>2. Due(r, t) => Due(restore, t)
    BY <1>5 DEF Due
  <2> QED BY <1>5, <2>1, <2>2 DEF Holds
<1>8. Progress(server', r)
  <2>1. r.pc \in Late /\ ~LastSync(r) /\ ~LastSync(restore) /\ r.pc \notin {"create", "created"}
    BY <1>1, <1>5 DEF Late, LastSync, SyncLabels
  <2>2. TablesOK(server', r)
    BY <1>1, <1>3, <1>5 DEF Progress, TablesOK, AsFound, Early, Before, SyncLabels
  <2>3. TasksOK(r) /\ CleaningOK(r)
    BY <1>1, <1>3, <1>5
       DEF Progress, TasksOK, CleaningOK, Idle, Restored, AsFound, Early, Before, SyncLabels,
         Awaiting
  <2>4. \A t \in ToSet(TablesMeta) : Wanted(t) => TableOK(server', r, t)
    BY <1>7, <2>1, LateTable
  <2> QED BY <2>1, <2>2, <2>3, <2>4 DEF Progress
<1>9. Wanted(It) => Holds(server', It, Due(r, It))
  <2>1. It \in ToSet(TablesMeta)
    BY <1>1, <1>2, HeadAndTail DEF IInv, Safety, CommandShape, Lists, TodoOK, TableLabels, It
  <2>2. ~Due(r, It)
    BY <1>5 DEF Due
  <2> QED BY <1>7, <2>1, <2>2 DEF Holds
<1>10. Progress(server', Skip(r))
  <2>1. Head(r.todo) = It /\ r.todo # <<>> /\ r.pc = "data"
    BY <1>1, <1>5 DEF It
  <2> HIDE DEF failed
  <2> QED BY <1>6, <1>8, <1>9, <2>1, DataSkipped
<1> QED BY <1>4, <1>10

LEMMA SyncAgainProgress ==
    ASSUME IInv, Progress(server, restore), SyncAgain
    PROVE  Progress(server', restore')
<1> DEFINE l == Loop(restore, "sync", FailedDatabases)
           f == [l EXCEPT !.sync = [left |-> MaxPolls, again |-> TRUE]]
<1>1. restore.pc = "data" /\ restore.todo = <<>> /\ restore' = f /\ UNCHANGED server
  BY DEF SyncAgain, Over, At, Proceed
<1>2. l.pc = "sync" /\ SameLists(l, restore) /\ DOMAIN l = RestoreFields
  BY LoopFields DEF IInv, Safety
<1> HIDE DEF l
<1>3. f.pc = "sync" /\ f.sync.again /\ SameLists(f, restore)
  BY <1>2 DEF SameLists, RestoreFields
<1> HIDE DEF f
<1>4. LastSync(f) /\ f.pc \notin {"create", "created", "temporary_disks", "data"}
  BY <1>3 DEF LastSync, SyncLabels
<1>5. ASSUME NEW t \in ToSet(TablesMeta), Wanted(t) PROVE TableOK(server, f, t)
  <2>1. Holds(server, t, Due(restore, t) /\ t \notin ToSet(restore.todo))
    BY <1>1, <1>5 DEF Progress, TableOK
  <2>2. Holds(server, t, Due(f, t))
    BY <1>1, <1>3, <2>1, NoElements DEF Holds, Due, SameLists
  <2> QED BY <1>4, <2>2, LateTable
<1>6. restore.pc \notin Awaiting
  BY <1>1 DEF Awaiting
<1> QED BY <1>1, <1>3, <1>4, <1>5, <1>6, GoesFurther DEF Progress

-----------------------------------------------------------------------------
(* The theorem.                                                             *)

LEMMA NobodyRaises ==
    ASSUME IInv, ~KeepGoing, Raise \/ DatabaseFails \/ DataFail
    PROVE  restore'.pc = "failed"
BY ErrorFails DEF IInv, Safety, Raise, DatabaseFails, DataFail, Proceed

LEMMA EndedProgress ==
    ASSUME Progress(server, restore), UNCHANGED vars
    PROVE  Progress(server', restore')
BY DEF vars

LEMMA StepProgress ==
    ASSUME IInv, ~KeepGoing, Progress(server, restore), [Next]_vars, restore'.pc # "failed"
    PROVE  Progress(server', restore')
<1>1. CASE UNCHANGED vars
  BY <1>1, EndedProgress
<1>2. CASE Next
  <2>1. CASE Start \/ Raise \/ AwaitTask
    BY <2>1, StartProgress, NobodyRaises, AwaitTaskProgress
  <2>2. CASE \/ DropMismatched \/ CleanDatabases \/ DatabasesCleaned
             \/ RestoreDatabase \/ DatabaseFails
    BY <2>2, DropMismatchedProgress, CleanDatabasesProgress, DatabasesCleanedProgress,
       RestoreDatabaseProgress, NobodyRaises
  <2>3. CASE StartSync \/ Resolve \/ Poll \/ SyncOver \/ SyncAgain
    BY <2>3, StartSyncProgress, ResolveProgress, PollProgress, SyncOverProgress, SyncAgainProgress
  <2>4. CASE \/ ListTables \/ ListExisting \/ ListReadonly
             \/ CleanReadonly \/ ReadonlyCleaned \/ FixReplica \/ ReplicasFixed
    BY <2>4, ListTablesProgress, ListExistingProgress, ListReadonlyProgress, CleanReadonlyProgress,
       ReadonlyCleanedProgress, FixReplicaProgress, ReplicasFixedProgress
  <2>5. CASE PreprocessTable \/ CleanMetadata \/ TablesCleaned
    BY <2>5, PreprocessTableProgress, CleanMetadataProgress, TablesCleanedProgress
  <2>6. CASE RestoreTableObject \/ TableObjectFails \/ TablesCreated \/ EnterDisks
    BY <2>6, RestoreTableObjectProgress, TableObjectFailsProgress, TablesCreatedProgress,
       EnterDisksProgress
  <2>7. CASE RestoreData \/ AttachFails \/ DataFail
    BY <2>7, RestoreDataProgress, AttachFailsProgress, NobodyRaises
  <2>8. CASE DropReplica \/ Databases
    BY <2>8, DropReplicaProgress, DatabasesProgress
  <2>9. CASE Ended
    BY <2>9, EndedProgress DEF Ended
  <2> QED BY <1>2, <2>1, <2>2, <2>3, <2>4, <2>5, <2>6, <2>7, <2>8, <2>9 DEF Next, Main
<1> QED BY <1>1, <1>2

\* The command does not come back from an error.
LEMMA FailedForGood == ASSUME At("failed"), IInv, [Next]_vars PROVE restore'.pc = "failed"
<1>1. CASE UNCHANGED vars \/ Databases
  BY <1>1 DEF At, vars, Databases
<1>2. CASE Ended
  BY <1>2 DEF Ended, At, vars
<1>3. CASE DropReplica
  BY <1>3 DEF DropReplica, At, Proceed, IInv, Safety, CommandShape, RestoreFields
<1>4. ~Main
  BY DEF Main, At, Item, Over, Awaiting, Start, Raise, DropMismatched, CleanDatabases,
         DatabasesCleaned, RestoreDatabase, DatabaseFails, StartSync, Resolve, Poll, SyncOver,
         SyncAgain, ListTables, ListExisting, ListReadonly, CleanReadonly, ReadonlyCleaned,
         FixReplica, ReplicasFixed, PreprocessTable, CleanMetadata, TablesCleaned,
         RestoreTableObject, TableObjectFails, TablesCreated, EnterDisks, RestoreData,
         AttachFails, DataFail, AwaitTask, Connecting, DroppingDatabases, ListingTables,
         EnteringDisks
<1> QED BY <1>1, <1>2, <1>3, <1>4 DEF Next

LEMMA SameSetup == ASSUME [Next]_vars PROVE UNCHANGED setup
<1>1. CASE UNCHANGED vars \/ Ended \/ Databases
  BY <1>1 DEF vars, Ended, Databases
<1>2. CASE Start \/ Raise \/ AwaitTask \/ DropReplica
  BY <1>2 DEF Start, Raise, AwaitTask, DropReplica, Proceed
<1>3. CASE \/ DropMismatched \/ CleanDatabases \/ DatabasesCleaned
           \/ RestoreDatabase \/ DatabaseFails
  BY <1>3
     DEF DropMismatched, CleanDatabases, DatabasesCleaned, RestoreDatabase, DatabaseFails, Proceed
<1>4. CASE StartSync \/ Resolve \/ Poll \/ SyncOver \/ SyncAgain
  BY <1>4 DEF StartSync, Resolve, Poll, SyncOver, SyncAgain, Proceed
<1>5. CASE \/ ListTables \/ ListExisting \/ ListReadonly
           \/ CleanReadonly \/ ReadonlyCleaned \/ FixReplica \/ ReplicasFixed
  BY <1>5
     DEF ListTables, ListExisting, ListReadonly, CleanReadonly, CleanTables, ReadonlyCleaned,
         FixReplica, ReplicasFixed, Proceed
<1>6. CASE PreprocessTable \/ CleanMetadata \/ TablesCleaned
  BY <1>6 DEF PreprocessTable, CleanMetadata, CleanTables, TablesCleaned, Proceed
<1>7. CASE \/ RestoreTableObject \/ TableObjectFails \/ TablesCreated \/ EnterDisks
           \/ RestoreData \/ AttachFails \/ DataFail
  BY <1>7
     DEF RestoreTableObject, TableObjectFails, TablesCreated, EnterDisks, RestoreData,
         AttachFails, DataFail, Proceed
<1> QED BY <1>1, <1>2, <1>3, <1>4, <1>5, <1>6, <1>7 DEF Next, Main

LEMMA SuccessInvariance == Spec => []PInv
<1>1. Init => PInv
  BY InitKeeps, InitProgress DEF PInv
<1>2. ASSUME PInv, [Next]_vars PROVE PInv'
  <2>1. IInv /\ IInv' /\ UNCHANGED setup
    BY <1>2, SameSetup, NextKeeps DEF PInv
  <2>2. ASSUME Succeeding' PROVE Progress(server, restore)'
    <3>1. ~KeepGoing /\ restore'.pc # "failed"
      BY <2>1, <2>2, SetupStays DEF Succeeding, At
    <3>2. Progress(server, restore)
      BY <1>2, <2>1, <3>1, FailedForGood DEF PInv, Succeeding
    <3>3. Progress(server', restore')
      BY <1>2, <2>1, <3>1, <3>2, StepProgress
    <3> QED BY <2>1, <3>3, SameAims
  <2> QED BY <2>1, <2>2 DEF PInv
<1> QED BY <1>1, <1>2, PTL DEF Spec

\* A restore that succeeds without --keep-going has every table of the backup on the
\* server, with the statement of the backup and not readonly: whatever was there
\* (readonly, detached and mismatching tables, databases of another engine, what is
\* left in ZooKeeper), in whatever order tables can be created, and whatever other
\* threads did meanwhile (_restore, _preprocess_tables_to_restore). The data of a
\* table are there unless attaching them failed, which the restore has recorded; with
\* restore_fail_on_attach_error they always are.
THEOREM RestoresEverything == Spec => []SuccessRestoresAll
<1>1. PInv => SuccessRestoresAll
  <2> SUFFICES ASSUME PInv, At("done"), ~KeepGoing, NEW t \in ToSet(TablesMeta),
                      ~LeftToDatabase(t), ~Replaced(t)
               PROVE  \E u \in Named(server.tables, t.name) :
                         /\ u.schema = t.schema /\ ~Readonly(server, u)
                         /\ Option("schema_only") \/ "backup" \in u.data \/ WarnedOf(t)
    BY DEF SuccessRestoresAll
  <2>1. Progress(server, restore)
    BY DEF PInv, Succeeding, At
  <2>2. Holds(server, t, Due(restore, t))
    BY <2>1 DEF Progress, Wanted, TableOK, LastSync, At
  <2>3. Option("restore_fail_on_attach_error") => restore.failed = {}
    BY DEF PInv, IInv, Safety, TodoOK, At
  <2> QED BY <2>2, <2>3 DEF Holds, Due, RowsToo, WarnedOf
<1> QED BY <1>1, SuccessInvariance, PTL
=============================================================================
