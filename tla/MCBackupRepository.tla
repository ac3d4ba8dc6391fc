------------------------- MODULE MCBackupRepository -------------------------
(***************************************************************************)
(* Instances of the backup repository for TLC.                             *)
(***************************************************************************)
EXTENDS BackupRepositoryProperties, TLC

CONSTANTS b1, b2, b3, h1, h2, a0, a1, c0, sA, sC, blockA, blockC

MCBlock == a0 :> blockA @@ a1 :> blockA @@ c0 :> blockC

p(name, sum) == [name |-> name, sum |-> sum]

\* Part a0 may be renamed to a1 by a mutation that keeps its data, and part c0
\* may be dropped.
MCTableStates == {{p(a0, sA), p(c0, sC)}, {p(a1, sA)}}

\* Part a0 may have other data, as after the table was created anew.
MCRecreatedTable == {{p(a0, sA)}, {p(a0, sC)}, {p(a1, sA)}}

\* Objects of one size: the check of a stored part cannot tell them apart.
OneSize == [s \in Sums |-> 1]

\* Two hosts with all the commands that may overlap with each other.
BackupAndPurgeVersusDelete ==
    [h \in {h1, h2} |-> IF h = h1 THEN {"backup", "purge"} ELSE {"delete"}]

BackupsAndDelete ==
    [h \in {h1, h2} |-> IF h = h1 THEN {"backup"} ELSE {"backup", "delete"}]

\* One host.
BackupAndPurge == [h \in {h1} |-> {"backup", "purge"}]

\* A backup on one host meets a purge on the other.
BackupVersusPurge ==
    [h \in {h1, h2} |-> IF h = h1 THEN {"backup"} ELSE {"purge"}]

NameSymmetry == Permutations(Backups)
=============================================================================
