--------------------------- MODULE MCFreezeTables ---------------------------
(***************************************************************************)
(* Backups of tables that users change, for TLC.                           *)
(***************************************************************************)
EXTENDS FreezeTables

CONSTANTS a, b, s1, s2, s3, p1, p2

Places == [n \in {a, b} |-> IF n = a THEN s1 ELSE s2]
=============================================================================
