------------------------- MODULE MCTableRestoreQueue -------------------------
(***************************************************************************)
(* Instances of the restore of table objects for TLC.                      *)
(***************************************************************************)
EXTENDS TableRestoreQueue

CONSTANTS t1, t2, t3, t4

TwoTables == <<t1, t2>>

FourTables == <<t1, t2, t3, t4>>

\* Any table may require any others, or itself: cycles included.
AnyRequirements == [Tables -> SUBSET Tables]
=============================================================================
