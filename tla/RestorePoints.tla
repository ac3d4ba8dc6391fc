---------------------------- MODULE RestorePoints ----------------------------
(***************************************************************************)
(* What ch-backup promises about its backups, with no storage, links or    *)
(* locks: a restore point appears complete, with one of the contents the   *)
(* table had, and keeps exactly that content until it is retired.          *)
(***************************************************************************)
CONSTANTS
    Backups,      \* names of restore points
    Contents,     \* what a restore point may hold
    Absent        \* no restore point of that name

VARIABLE points   \* points[b]: what a restore of backup b yields, or Absent

Init == points = [b \in Backups |-> Absent]

Publish(b, content) ==
    /\ points[b] = Absent
    /\ points' = [points EXCEPT ![b] = content]

Retire(b) ==
    /\ points[b] # Absent
    /\ points' = [points EXCEPT ![b] = Absent]

Next == \E b \in Backups : Retire(b) \/ \E content \in Contents : Publish(b, content)

Spec == Init /\ [][Next]_points
=============================================================================
