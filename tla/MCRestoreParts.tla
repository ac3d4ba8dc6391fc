---------------------------- MODULE MCRestoreParts ----------------------------
(***************************************************************************)
(* Instances of the restore of data for TLC.                               *)
(***************************************************************************)
EXTENDS RestoreParts

CONSTANTS u, v, p1, p2, p3

\* Table u has two parts, table v one.
TwoTables == [p \in Parts |-> IF p = p3 THEN v ELSE u]
=============================================================================
