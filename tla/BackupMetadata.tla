--------------------------- MODULE BackupMetadata ---------------------------
(***************************************************************************)
(* The metadata ch-backup keeps for a backup, and the pure decisions taken *)
(* on it: where the data of a part is stored, which parts a new backup may *)
(* reuse, which stored parts a deletion must spare, and which backups the  *)
(* delete and purge commands pick.                                         *)
(*                                                                         *)
(* One table is modelled.  A part has a name and a checksum; a mutation    *)
(* may rename a part without touching its data, so two names of the same   *)
(* Block can carry one checksum.                                           *)
(***************************************************************************)
EXTENDS Integers, FiniteSets

CONSTANTS
    Backups,      \* backup names
    Hosts,        \* hosts running ch-backup, one process each
    PartNames,    \* names of data parts
    Sums,         \* checksums of data parts
    Block,        \* Block[n]: partition, block range and level of part name n
    NoBackup,     \* an absent part link
    NoPart,       \* an absent link_part_name
    NoMeta        \* an absent metadata object

ASSUME AbsentValues ==
    /\ NoBackup \notin Backups
    /\ NoPart \notin PartNames

States == {"creating", "created", "deleting", "partially_deleted", "failed"}

\* PartMetadata: link is None for a part whose data lies in its own backup.
Part == [name: PartNames, sum: Sums,
         link: Backups \cup {NoBackup}, linkPartName: PartNames \cup {NoPart}]

Meta == [start: Nat, host: Hosts, state: States, parts: SUBSET Part]

ASSUME NoMetaIsAbsent == NoMeta \notin Meta

\* The light metadata leaves out the parts.
Light == [start: Nat, state: States]

ASSUME NoLightIsAbsent == NoMeta \notin Light

\* Light metadata that keeps the parts.
LightWithParts(m) == [start |-> m.start, state |-> m.state, parts |-> m.parts]

LightOf(m) == [start |-> m.start, state |-> m.state]

-----------------------------------------------------------------------------
(* Parts                                                                   *)

OwnPart(f) ==
    [name |-> f.name, sum |-> f.sum, link |-> NoBackup, linkPartName |-> NoPart]

\* deduplicated_part_name
StoredName(e) == IF e.linkPartName = NoPart THEN e.name ELSE e.linkPartName

\* The data object part e of backup b is restored from.
DataOf(b, e) ==
    <<IF e.link = NoBackup THEN b ELSE e.link, StoredName(e), e.sum>>

\* What restoring metadata m yields: named parts with their contents.
Content(m) == {[name |-> e.name, sum |-> e.sum] : e \in m.parts}

-----------------------------------------------------------------------------
(* Deduplication                                                           *)

\* _is_mutation_renamed, equality of names included.
SamePart(n1, n2) == Block[n1] = Block[n2]

\* A row of the _deduplication_info table.
DedupRow == [name: PartNames, sum: Sums, backup: Backups,
             linkPartName: PartNames \cup {NoPart}, verified: BOOLEAN]

RowOf(b, e) ==
    [name |-> e.name, sum |-> e.sum, linkPartName |-> e.linkPartName,
     backup |-> IF e.link = NoBackup THEN b ELSE e.link,
     verified |-> e.link # NoBackup]

\* Rows that backup b adds to the rows `known` already collected from newer
\* backups; sources are the names of the backups used for deduplication.
NewRows(b, m, known, sources) ==
    {RowOf(b, e) : e \in {d \in m.parts :
        /\ \A r \in known : r.name # d.name
        /\ d.link # NoBackup => d.link \in sources}}

\* A deduplicated part that forgets the stored name a row carries along.
LinkedToRow(f, r) ==
    [name |-> f.name, sum |-> f.sum, link |-> r.backup,
     linkPartName |-> IF f.name # r.name THEN r.name ELSE NoPart]

\* The deduplicated part made of frozen part f and row r.
LinkedPart(f, r) ==
    [name |-> f.name, sum |-> f.sum, link |-> r.backup,
     linkPartName |-> IF r.linkPartName # NoPart THEN r.linkPartName
                      ELSE IF f.name # r.name THEN r.name
                      ELSE NoPart]

-----------------------------------------------------------------------------
(* Deletion.  A listing is a set of records [name, start, state] taken      *)
(* from the light metadata of the existing backups.                        *)

NewerIn(s, L) == {t \in L : t.start > s.start}

NamesOf(L) == {s.name : s \in L}

\* delete: the named backup and, with purge_partial, every backup that is not
\* CREATED except the newest one (i != 0).
DeletedByName(L, name, purgePartial) ==
    {s \in L : \/ s.name = name
               \/ purgePartial /\ s.state # "created" /\ NewerIn(s, L) # {}}

\* Retention that lets backups in any state use up the retain count.
RetainedCountingAll(L, retainCount, limit) ==
    {s \in L : \/ Cardinality(NewerIn(s, L)) < retainCount
               \/ s.start >= limit}

\* purge: a backup is kept while fewer than retain_count newer CREATED ones were
\* met, or when it is not older than the retain_time limit.
Retained(L, retainCount, limit) ==
    {s \in L :
        \/ Cardinality({t \in NewerIn(s, L) : t.state = "created"}) < retainCount
        \/ s.start >= limit}

\* References of the parts by the names they have in the retained backups.
ReferencesByPartName(metas, deleting) ==
    UNION {{<<e.link, e.name>> : e \in {d \in m.parts : d.link \in deleting}} : m \in metas}

\* collect_dedup_references_for_batch_backup_deletion: the data objects of the
\* backups being deleted that the retained backups link to.
DedupReferences(metas, deleting) ==
    UNION {{<<e.link, StoredName(e)>> : e \in {d \in m.parts : d.link \in deleting}} : m \in metas}

\* The part names of backup b among the references.
ReferencedIn(b, refs) == {n \in PartNames : <<b, n>> \in refs}
=============================================================================
