-------------------------- MODULE RestorePartsProofs --------------------------
(***************************************************************************)
(* Proofs about the restore of data, for any tables, parts, threshold and  *)
(* number of failures and crashes.                                         *)
(***************************************************************************)
EXTENDS RestoreParts, TLAPS

\* What a count of updates does: it may begin a dump.
LEMMA DumpEffect ==
    ASSUME updates \in 0..Threshold, NEW handler, DumpIfNeeded(handler)
    PROVE  /\ updates' \in 0..Threshold
           /\ dumping' = dumping \/ dumping' = handler
BY OptionsAssumption DEF DumpIfNeeded, Dump

LEMMA ChangeEffect ==
    ASSUME TypeOK, NEW p \in Parts, NEW state, NEW handler, Change(p, state, handler)
    PROVE  /\ context'[p] = state
           /\ \A q \in Parts \ {p} : context'[q] = context[q]
           /\ dumping' = dumping \/ dumping' = handler
BY DumpEffect DEF Change, TypeOK, Progress

LEMMA ChangeTypes ==
    ASSUME TypeOK, NEW p \in Parts, NEW state \in PartStates, NEW handler,
           Change(p, state, handler)
    PROVE  context' \in Progress /\ updates' \in 0..Threshold
BY DumpEffect DEF Change, TypeOK, Progress

\* What is known is of the right type once it is read.
LEMMA DatabasesType == TypeOK /\ Readable => Databases \in Progress
BY DEF TypeOK, Readable, Databases

LEMMA InitialValues ==
    NothingKnown \in Progress /\ NoJobs \in [Parts -> {"none", "running", "ok", "error"}]
BY DEF NothingKnown, NoJobs, Progress, PartStates

-----------------------------------------------------------------------------
\* Every variable keeps its type, in all runs and across crashes.
THEOREM TypeCorrect == Spec => []TypeOK
<1>1. Init => TypeOK
  <2> SUFFICES ASSUME Init PROVE TypeOK
    OBVIOUS
  <2>1. 0 \in 0..Threshold /\ 0 \in 0..MaxFaults /\ 0 \in 0..MaxLost /\ 0 \in 0..MaxCrashes
    BY OptionsAssumption, BoundsAssumption
  <2>2. [p \in Parts |-> 0] \in [Parts -> Nat]
    OBVIOUS
  <2> QED
    BY <2>1, <2>2, InitialValues DEF Init, TypeOK
<1>2. TypeOK /\ [Next]_vars => TypeOK'
  <2> SUFFICES ASSUME TypeOK, [Next]_vars PROVE TypeOK'
    OBVIOUS
  <2> USE DEF external, choices, memory, bounds, At
  <2>1. CASE Begin
    <3>1. /\ detached' \subseteq Parts /\ attached' \in [Parts -> Nat]
          /\ tables' \subseteq Tables /\ skipped' \subseteq Tables
      BY <2>1 DEF Begin, TypeOK
    <3>2. faults' \in 0..MaxFaults /\ updates' \in 0..Threshold
      BY <2>1, OptionsAssumption, BoundsAssumption DEF Begin, TypeOK
    <3> QED
      BY <2>1, <3>1, <3>2, InitialValues DEF Begin, TypeOK
  <2>2. CASE WriteState
    BY <2>2 DEF WriteState, TypeOK
  <2>3. CASE LoadFails \/ Exit \/ Finish \/ Crash
    <3>1. CASE LoadFails \/ Exit \/ Finish
      BY <3>1, InitialValues DEF LoadFails, Exit, Finish, TypeOK
    <3>2. CASE Crash
      <4>1. crashes' \in 0..MaxCrashes /\ file' \in Progress \cup {Absent, Torn}
        BY <3>2, BoundsAssumption DEF Crash, Interrupted, TypeOK
      <4> QED
        BY <3>2, <4>1, InitialValues DEF Crash, TypeOK
    <3> QED
      BY <2>3, <3>1, <3>2
  <2>4. CASE Chown
    <3>1. faults' \in 0..MaxFaults /\ failed' \subseteq Parts \cup {"path"}
      BY <2>4, BoundsAssumption DEF Chown, TypeOK
    <3>2. updates' \in 0..Threshold /\ dumping' \in {dumping, "raise"}
      BY <2>4, DumpEffect DEF Chown, TypeOK
    <3> QED
      BY <2>4, <3>1, <3>2 DEF Chown, TypeOK
  <2>5. CASE RecordRestored \/ MarkInvalid
    <3>1. /\ context' \in Progress /\ updates' \in 0..Threshold
          /\ dumping' \in {dumping, "refused", "raise"}
      BY <2>5, ChangeTypes, ChangeEffect DEF RecordRestored, MarkInvalid, TypeOK, PartStates
    <3> QED
      BY <2>5, <3>1 DEF RecordRestored, MarkInvalid, TypeOK
  <2>6. CASE DumpFinally \/ DumpFails
    BY <2>6, OptionsAssumption, BoundsAssumption
       DEF DumpFinally, Dump, DumpFails, Interrupted, TypeOK
  <2>7. ASSUME NEW t \in Tables, OpenTable(t) \/ TableFails(t) PROVE TypeOK'
    <3>1. context' \in Progress
      BY <2>7, DatabasesType DEF OpenTable, TableFails, Schedule
    <3>2. job' \in [Parts -> {"none", "running", "ok", "error"}] /\ detached' \subseteq Parts
      BY <2>7 DEF OpenTable, TableFails, Schedule, TypeOK
    <3>3. /\ toAttach' \subseteq Parts /\ unscheduled' \subseteq Parts
          /\ faults' \in 0..MaxFaults
      BY <2>7, BoundsAssumption DEF OpenTable, TableFails, Schedule, PartsOf, ToDownload, TypeOK
    <3>4. /\ loaded' = TRUE /\ tables' = tables \ {t} /\ pc' \in {"wait", "raise"}
          /\ UNCHANGED <<file, attached, updates, dumping, failed, choices, part, lost, crashes>>
      BY <2>7 DEF OpenTable, TableFails, Schedule
    <3> QED
      BY <3>1, <3>2, <3>3, <3>4 DEF TypeOK
  <2>8. ASSUME NEW p \in Parts, Download(p) \/ DownloadFailed(p) PROVE TypeOK'
    BY <2>8, BoundsAssumption DEF Download, DownloadFailed, TypeOK
  <2>9. ASSUME NEW p \in Parts, Downloaded(p) PROVE TypeOK'
    <3>1. /\ context' \in Progress /\ updates' \in 0..Threshold
          /\ dumping' \in {dumping, "raise"}
      BY <2>9, ChangeTypes, ChangeEffect DEF Downloaded, PartStates
    <3> QED
      BY <2>9, <3>1 DEF Downloaded, TypeOK
  <2>10. ASSUME NEW p \in Parts, Attach(p) PROVE TypeOK'
    BY <2>10 DEF Attach, TypeOK
  <2>11. ASSUME NEW p \in Parts, AttachFails(p) PROVE TypeOK'
    BY <2>11, BoundsAssumption DEF AttachFails, TypeOK
  <2>13. CASE AddFailedPart
    <3>1. updates' \in 0..Threshold /\ dumping' \in {dumping, "raise"}
      BY <2>13, DumpEffect DEF AddFailedPart, TypeOK
    <3> QED
      BY <2>13, <3>1 DEF AddFailedPart, TypeOK
  <2>12. CASE UNCHANGED vars
    BY <2>12 DEF vars, TypeOK
  <2> QED
    BY <2>1, <2>2, <2>3, <2>4, <2>5, <2>6, <2>7, <2>8, <2>9, <2>10, <2>11, <2>12, <2>13
       DEF Next, Step
<1> QED
  BY <1>1, <1>2, PTL DEF Spec

-----------------------------------------------------------------------------
(* The invariant behind the other theorems *)

\* What the control state says of the parts that are being worked on.
LabelInv ==
    /\ pc \notin {"wait", "raise", "exit"} => job = NoJobs
    /\ pc \in {"table", "done"} => toAttach = {}
    /\ pc = "done" => tables = {}
    /\ dumping # "no" => pc \notin {"stopped", "done"}
    /\ dumping = "refused" => pc = "attach"
    /\ pc \in {"record", "refused", "invalid"} \/ dumping = "refused" =>
         TableOf[part] \notin tables /\ part \notin toAttach
    /\ pc = "wait" => \A p \in Parts : job[p] # "none" => p \in toAttach
    /\ pc # "stopped" =>
         \A p \in toAttach : TableOf[p] \notin tables /\ context[p] # "restored"

\* When the context is filled, and how it relates to the file: on parts of tables
\* still to do they agree, and after the finally block they are equal.
ContextInv ==
    /\ pc # "stopped" /\ ~loaded => context = NothingKnown
    /\ pc \notin {"stopped", "table", "done"} => loaded
    /\ dumping # "no" => loaded
    /\ pc # "stopped" /\ loaded /\ file \in Progress =>
         \A p \in Parts : TableOf[p] \in tables => file[p] = context[p]
    /\ pc = "table" /\ loaded /\ dumping = "no" => file = context

\* Nobody claims too much.
TruthInv ==
    /\ pc # "stopped" => Truthful(context)
    /\ FileIsTruthful
    /\ \A p \in Parts : job[p] = "ok" => p \in detached
    /\ pc = "record" => attached[part] > 0

\* A part of a table that is done or begun is to attach, refused or failed, left
\* out with keep_going, or in its table, unless the run is about to end.
AccountInv ==
    /\ unscheduled \cup skipped # {} => keepGoing
    /\ pc \notin {"stopped", "raise", "exit"} =>
         \A p \in Parts :
            \/ TableOf[p] \in tables \cup skipped
            \/ p \in toAttach \cup failed \cup unscheduled
            \/ pc = "refused" /\ part = p
            \/ attached[p] > 0

\* What the next use of the context will see.
Known == IF loaded /\ pc \notin {"stopped", "done"} THEN context ELSE file

\* A part that may be attached once more was not attached yet, up to incidents.
Recorded(p) ==
    \/ Known = Torn
    \/ Known \in Progress /\ Known[p] = "restored"
    \/ pc = "record" /\ part = p

\* The rows of a part are there as often as there were incidents, and once more
\* only if that is recorded. A record may be taken back after an incident, and
\* be missing in the file after one.
IncidentInv ==
    /\ \A p \in Parts :
         /\ attached[p] <= 1 + crashes + lost
         /\ ~Recorded(p) => attached[p] <= crashes + lost
    /\ pc \in {"refused", "invalid"} => attached[part] <= crashes + lost
    /\ pc = "exit" /\ dumping = "no" =>
         file = context \/ \A p \in Parts : attached[p] <= crashes + lost

\* ... is kept by every step.
LEMMA LabelNext ==
    ASSUME TypeOK, TypeOK', LabelInv, [Next]_vars
    PROVE  LabelInv'
<1> USE DEF external, choices, memory, bounds, At
<1>1. CASE Begin
  BY <1>1
     DEF Begin, TypeOK, LabelInv, NoJobs
<1>2. CASE WriteState
  BY <1>2
     DEF WriteState, TypeOK, LabelInv, NoJobs
<1>3. CASE DumpFails
  BY <1>3
     DEF DumpFails, Interrupted, TypeOK, LabelInv, NoJobs
<1>4. CASE LoadFails
  BY <1>4
     DEF LoadFails, Readable, TypeOK, LabelInv, NoJobs
<1>5. CASE Chown
  <2>1. dumping' = dumping \/ dumping' = "raise"
    BY <1>5, DumpEffect DEF Chown, TypeOK
  <2> QED
    BY <1>5, <2>1 DEF Chown, TypeOK, LabelInv, NoJobs
<1>6. CASE RecordRestored
  <2>1. part \in Parts /\ Change(part, "restored", "refused")
    BY <1>6 DEF RecordRestored, TypeOK
  <2>2. /\ context'[part] = "restored"
        /\ \A q \in Parts \ {part} : context'[q] = context[q]
        /\ dumping' = dumping \/ dumping' = "refused"
    BY <2>1, ChangeEffect
  <2> QED
    BY <1>6, <2>1, <2>2 DEF RecordRestored, TypeOK, LabelInv, NoJobs
<1>7. CASE AddFailedPart
  <2>1. dumping' = dumping \/ dumping' = "raise"
    BY <1>7, DumpEffect DEF AddFailedPart, TypeOK
  <2> QED
    BY <1>7, <2>1 DEF AddFailedPart, TypeOK, LabelInv, NoJobs
<1>8. CASE MarkInvalid
  <2>1. part \in Parts /\ Change(part, "invalid", "raise")
    BY <1>8 DEF MarkInvalid, TypeOK
  <2>2. /\ context'[part] = "invalid"
        /\ \A q \in Parts \ {part} : context'[q] = context[q]
        /\ dumping' = dumping \/ dumping' = "raise"
    BY <2>1, ChangeEffect
  <2> QED
    BY <1>8, <2>1, <2>2 DEF MarkInvalid, TypeOK, LabelInv, NoJobs
<1>9. CASE DumpFinally
  BY <1>9
     DEF DumpFinally, Dump, TypeOK, LabelInv, NoJobs
<1>10. CASE Exit
  BY <1>10
     DEF Exit, TypeOK, LabelInv, NoJobs
<1>11. CASE Finish
  BY <1>11
     DEF Finish, TypeOK, LabelInv, NoJobs
<1>12. ASSUME NEW t \in Tables, OpenTable(t) PROVE LabelInv'
  BY <1>12
     DEF OpenTable, Schedule, PartsOf, ToDownload, Databases, Readable, TypeOK, LabelInv, NoJobs
<1>13. ASSUME NEW t \in Tables, TableFails(t) PROVE LabelInv'
  BY <1>13
     DEF TableFails, Schedule, PartsOf, ToDownload, Databases, Readable, TypeOK, LabelInv, NoJobs
<1>14. ASSUME NEW p \in Parts, Download(p) PROVE LabelInv'
  BY <1>14
     DEF Download, TypeOK, LabelInv, NoJobs
<1>15. ASSUME NEW p \in Parts, Downloaded(p) PROVE LabelInv'
  <2>1. p \in Parts /\ Change(p, "downloaded", "raise")
    BY <1>15 DEF Downloaded, TypeOK
  <2>2. /\ context'[p] = "downloaded"
        /\ \A q \in Parts \ {p} : context'[q] = context[q]
        /\ dumping' = dumping \/ dumping' = "raise"
    BY <2>1, ChangeEffect
  <2> QED
    BY <1>15, <2>1, <2>2 DEF Downloaded, TypeOK, LabelInv, NoJobs
<1>16. ASSUME NEW p \in Parts, DownloadFailed(p) PROVE LabelInv'
  BY <1>16
     DEF DownloadFailed, TypeOK, LabelInv, NoJobs
<1>17. ASSUME NEW p \in Parts, Attach(p) PROVE LabelInv'
  BY <1>17
     DEF Attach, TypeOK, LabelInv, NoJobs
<1>18. ASSUME NEW p \in Parts, AttachFails(p) PROVE LabelInv'
  BY <1>18
     DEF AttachFails, TypeOK, LabelInv, NoJobs
<1>19. CASE Crash
  BY <1>19
     DEF Crash, Interrupted, TypeOK, LabelInv, NoJobs
<1>20. CASE UNCHANGED vars
  BY <1>20 DEF vars, LabelInv, NoJobs
<1> QED
  BY <1>1, <1>2, <1>3, <1>4, <1>5, <1>6, <1>7, <1>8, <1>9, <1>10, <1>11, <1>12, <1>13, <1>14,
     <1>15, <1>16, <1>17, <1>18, <1>19, <1>20
     DEF Next, Step

\* The context follows the file.
LEMMA ContextNext ==
    ASSUME TypeOK, TypeOK', LabelInv, ContextInv, [Next]_vars
    PROVE  ContextInv'
<1> USE DEF external, choices, memory, bounds, At
<1>1. CASE Begin
  BY <1>1, FileAssumption
     DEF Begin, TypeOK, LabelInv, ContextInv
<1>2. CASE WriteState
  BY <1>2, FileAssumption
     DEF WriteState, TypeOK, LabelInv, ContextInv
<1>3. CASE DumpFails
  BY <1>3, FileAssumption
     DEF DumpFails, Interrupted, TypeOK, LabelInv, ContextInv
<1>4. CASE LoadFails
  BY <1>4, FileAssumption
     DEF LoadFails, Readable, TypeOK, LabelInv, ContextInv
<1>5. CASE Chown
  <2>1. dumping' = dumping \/ dumping' = "raise"
    BY <1>5, DumpEffect DEF Chown, TypeOK
  <2> QED
    BY <1>5, <2>1, FileAssumption DEF Chown, TypeOK, LabelInv, ContextInv
<1>6. CASE RecordRestored
  <2>1. part \in Parts /\ Change(part, "restored", "refused")
    BY <1>6 DEF RecordRestored, TypeOK
  <2>2. /\ context'[part] = "restored"
        /\ \A q \in Parts \ {part} : context'[q] = context[q]
        /\ dumping' = dumping \/ dumping' = "refused"
    BY <2>1, ChangeEffect
  <2> QED
    BY <1>6, <2>1, <2>2, FileAssumption DEF RecordRestored, TypeOK, LabelInv, ContextInv
<1>7. CASE AddFailedPart
  <2>1. dumping' = dumping \/ dumping' = "raise"
    BY <1>7, DumpEffect DEF AddFailedPart, TypeOK
  <2> QED
    BY <1>7, <2>1, FileAssumption DEF AddFailedPart, TypeOK, LabelInv, ContextInv
<1>8. CASE MarkInvalid
  <2>1. part \in Parts /\ Change(part, "invalid", "raise")
    BY <1>8 DEF MarkInvalid, TypeOK
  <2>2. /\ context'[part] = "invalid"
        /\ \A q \in Parts \ {part} : context'[q] = context[q]
        /\ dumping' = dumping \/ dumping' = "raise"
    BY <2>1, ChangeEffect
  <2> QED
    BY <1>8, <2>1, <2>2, FileAssumption DEF MarkInvalid, TypeOK, LabelInv, ContextInv
<1>9. CASE DumpFinally
  BY <1>9, FileAssumption
     DEF DumpFinally, Dump, TypeOK, LabelInv, ContextInv
<1>10. CASE Exit
  BY <1>10, FileAssumption
     DEF Exit, TypeOK, LabelInv, ContextInv
<1>11. CASE Finish
  BY <1>11, FileAssumption
     DEF Finish, TypeOK, LabelInv, ContextInv
<1>12. ASSUME NEW t \in Tables, OpenTable(t) PROVE ContextInv'
  BY <1>12, FileAssumption
     DEF OpenTable, Schedule, PartsOf, ToDownload, Databases, Readable, TypeOK, LabelInv, ContextInv
<1>13. ASSUME NEW t \in Tables, TableFails(t) PROVE ContextInv'
  BY <1>13, FileAssumption
     DEF TableFails, Schedule, PartsOf, ToDownload, Databases, Readable, TypeOK, LabelInv,
       ContextInv
<1>14. ASSUME NEW p \in Parts, Download(p) PROVE ContextInv'
  BY <1>14, FileAssumption
     DEF Download, TypeOK, LabelInv, ContextInv
<1>15. ASSUME NEW p \in Parts, Downloaded(p) PROVE ContextInv'
  <2>1. p \in Parts /\ Change(p, "downloaded", "raise")
    BY <1>15 DEF Downloaded, TypeOK
  <2>2. /\ context'[p] = "downloaded"
        /\ \A q \in Parts \ {p} : context'[q] = context[q]
        /\ dumping' = dumping \/ dumping' = "raise"
    BY <2>1, ChangeEffect
  <2> QED
    BY <1>15, <2>1, <2>2, FileAssumption DEF Downloaded, TypeOK, LabelInv, ContextInv
<1>16. ASSUME NEW p \in Parts, DownloadFailed(p) PROVE ContextInv'
  BY <1>16, FileAssumption
     DEF DownloadFailed, TypeOK, LabelInv, ContextInv
<1>17. ASSUME NEW p \in Parts, Attach(p) PROVE ContextInv'
  BY <1>17, FileAssumption
     DEF Attach, TypeOK, LabelInv, ContextInv
<1>18. ASSUME NEW p \in Parts, AttachFails(p) PROVE ContextInv'
  BY <1>18, FileAssumption
     DEF AttachFails, TypeOK, LabelInv, ContextInv
<1>19. CASE Crash
  BY <1>19, FileAssumption
     DEF Crash, Interrupted, TypeOK, LabelInv, ContextInv
<1>20. CASE UNCHANGED vars
  BY <1>20 DEF vars, LabelInv, ContextInv
<1> QED
  BY <1>1, <1>2, <1>3, <1>4, <1>5, <1>6, <1>7, <1>8, <1>9, <1>10, <1>11, <1>12, <1>13, <1>14,
     <1>15, <1>16, <1>17, <1>18, <1>19, <1>20
     DEF Next, Step

\* A record is made after what it records.
LEMMA TruthNext ==
    ASSUME TypeOK, TypeOK', ~Recreate, LabelInv, ContextInv, TruthInv, [Next]_vars
    PROVE  TruthInv'
<1> USE DEF external, choices, memory, bounds, At
<1>1. CASE Begin
  BY <1>1, FileAssumption
     DEF Begin, TypeOK, LabelInv, ContextInv, TruthInv,
         Truthful, FileIsTruthful, NothingKnown, NoJobs
<1>2. CASE WriteState
  BY <1>2, FileAssumption
     DEF WriteState, TypeOK, LabelInv, ContextInv, TruthInv,
         Truthful, FileIsTruthful, NothingKnown, NoJobs
<1>3. CASE DumpFails
  BY <1>3, FileAssumption
     DEF DumpFails, Interrupted, TypeOK, LabelInv, ContextInv, TruthInv,
         Truthful, FileIsTruthful, NothingKnown, NoJobs
<1>4. CASE LoadFails
  BY <1>4, FileAssumption
     DEF LoadFails, Readable, TypeOK, LabelInv, ContextInv, TruthInv,
         Truthful, FileIsTruthful, NothingKnown, NoJobs
<1>5. CASE Chown
  <2>1. dumping' = dumping \/ dumping' = "raise"
    BY <1>5, DumpEffect DEF Chown, TypeOK
  <2> QED
    BY <1>5, <2>1, FileAssumption DEF Chown, TypeOK, LabelInv, ContextInv, TruthInv,
         Truthful, FileIsTruthful, NothingKnown, NoJobs
<1>6. CASE RecordRestored
  <2>1. part \in Parts /\ Change(part, "restored", "refused")
    BY <1>6 DEF RecordRestored, TypeOK
  <2>2. /\ context'[part] = "restored"
        /\ \A q \in Parts \ {part} : context'[q] = context[q]
        /\ dumping' = dumping \/ dumping' = "refused"
    BY <2>1, ChangeEffect
  <2> QED
    BY <1>6, <2>1, <2>2, FileAssumption DEF RecordRestored, TypeOK, LabelInv, ContextInv, TruthInv,
         Truthful, FileIsTruthful, NothingKnown, NoJobs
<1>7. CASE AddFailedPart
  <2>1. dumping' = dumping \/ dumping' = "raise"
    BY <1>7, DumpEffect DEF AddFailedPart, TypeOK
  <2> QED
    BY <1>7, <2>1, FileAssumption DEF AddFailedPart, TypeOK, LabelInv, ContextInv, TruthInv,
         Truthful, FileIsTruthful, NothingKnown, NoJobs
<1>8. CASE MarkInvalid
  <2>1. part \in Parts /\ Change(part, "invalid", "raise")
    BY <1>8 DEF MarkInvalid, TypeOK
  <2>2. /\ context'[part] = "invalid"
        /\ \A q \in Parts \ {part} : context'[q] = context[q]
        /\ dumping' = dumping \/ dumping' = "raise"
    BY <2>1, ChangeEffect
  <2> QED
    BY <1>8, <2>1, <2>2, FileAssumption DEF MarkInvalid, TypeOK, LabelInv, ContextInv, TruthInv,
         Truthful, FileIsTruthful, NothingKnown, NoJobs
<1>9. CASE DumpFinally
  BY <1>9, FileAssumption
     DEF DumpFinally, Dump, TypeOK, LabelInv, ContextInv, TruthInv,
         Truthful, FileIsTruthful, NothingKnown, NoJobs
<1>10. CASE Exit
  BY <1>10, FileAssumption
     DEF Exit, TypeOK, LabelInv, ContextInv, TruthInv,
         Truthful, FileIsTruthful, NothingKnown, NoJobs
<1>11. CASE Finish
  BY <1>11, FileAssumption
     DEF Finish, TypeOK, LabelInv, ContextInv, TruthInv,
         Truthful, FileIsTruthful, NothingKnown, NoJobs
<1>12. ASSUME NEW t \in Tables, OpenTable(t) PROVE TruthInv'
  BY <1>12, FileAssumption
     DEF OpenTable, Schedule, PartsOf, ToDownload, Databases, Readable, TypeOK, LabelInv,
       ContextInv, TruthInv,
         Truthful, FileIsTruthful, NothingKnown, NoJobs
<1>13. ASSUME NEW t \in Tables, TableFails(t) PROVE TruthInv'
  BY <1>13, FileAssumption
     DEF TableFails, Schedule, PartsOf, ToDownload, Databases, Readable, TypeOK, LabelInv,
       ContextInv, TruthInv,
         Truthful, FileIsTruthful, NothingKnown, NoJobs
<1>14. ASSUME NEW p \in Parts, Download(p) PROVE TruthInv'
  BY <1>14, FileAssumption
     DEF Download, TypeOK, LabelInv, ContextInv, TruthInv,
         Truthful, FileIsTruthful, NothingKnown, NoJobs
<1>15. ASSUME NEW p \in Parts, Downloaded(p) PROVE TruthInv'
  <2>1. p \in Parts /\ Change(p, "downloaded", "raise")
    BY <1>15 DEF Downloaded, TypeOK
  <2>2. /\ context'[p] = "downloaded"
        /\ \A q \in Parts \ {p} : context'[q] = context[q]
        /\ dumping' = dumping \/ dumping' = "raise"
    BY <2>1, ChangeEffect
  <2> QED
    BY <1>15, <2>1, <2>2, FileAssumption DEF Downloaded, TypeOK, LabelInv, ContextInv, TruthInv,
         Truthful, FileIsTruthful, NothingKnown, NoJobs
<1>16. ASSUME NEW p \in Parts, DownloadFailed(p) PROVE TruthInv'
  BY <1>16, FileAssumption
     DEF DownloadFailed, TypeOK, LabelInv, ContextInv, TruthInv,
         Truthful, FileIsTruthful, NothingKnown, NoJobs
<1>17. ASSUME NEW p \in Parts, Attach(p) PROVE TruthInv'
  <2>1. \A q \in Parts :
           /\ attached'[q] >= attached[q]
           /\ q \in detached => q \in detached' \/ attached'[q] > 0
    BY <1>17 DEF Attach, TypeOK
  <2>2. \A q \in Parts : job'[q] = "none"
    BY <1>17 DEF Attach, LabelInv, NoJobs
  <2>3. Truthful(context)'
    BY <1>17, <2>1 DEF Attach, TypeOK, TruthInv, Truthful
  <2>4. FileIsTruthful'
    BY <1>17, <2>1, FileAssumption DEF Attach, TypeOK, TruthInv, FileIsTruthful, Truthful
  <2>5. pc' = "record" => attached'[part'] > 0
    BY <1>17 DEF Attach, TypeOK
  <2> QED
    BY <2>2, <2>3, <2>4, <2>5 DEF TruthInv
<1>18. ASSUME NEW p \in Parts, AttachFails(p) PROVE TruthInv'
  <2>1. \A q \in Parts :
           /\ attached'[q] >= attached[q]
           /\ q \in detached => q \in detached' \/ attached'[q] > 0
    BY <1>18 DEF AttachFails, TypeOK
  <2>2. \A q \in Parts : job'[q] = "none"
    BY <1>18 DEF AttachFails, LabelInv, NoJobs
  <2>3. Truthful(context)'
    BY <1>18, <2>1 DEF AttachFails, TypeOK, TruthInv, Truthful
  <2>4. FileIsTruthful'
    BY <1>18, <2>1, FileAssumption DEF AttachFails, TypeOK, TruthInv, FileIsTruthful, Truthful
  <2>5. pc' = "record" => attached'[part'] > 0
    BY <1>18 DEF AttachFails, TypeOK
  <2> QED
    BY <2>2, <2>3, <2>4, <2>5 DEF TruthInv
<1>19. CASE Crash
  BY <1>19, FileAssumption
     DEF Crash, Interrupted, TypeOK, LabelInv, ContextInv, TruthInv,
         Truthful, FileIsTruthful, NothingKnown, NoJobs
<1>20. CASE UNCHANGED vars
  BY <1>20 DEF vars, LabelInv, ContextInv, TruthInv,
         Truthful, FileIsTruthful, NothingKnown, NoJobs
<1> QED
  BY <1>1, <1>2, <1>3, <1>4, <1>5, <1>6, <1>7, <1>8, <1>9, <1>10, <1>11, <1>12, <1>13, <1>14,
     <1>15, <1>16, <1>17, <1>18, <1>19, <1>20
     DEF Next, Step

\* No part is lost from sight.
LEMMA AccountNext ==
    ASSUME TypeOK, TypeOK', ~Recreate, LabelInv, ContextInv, TruthInv, AccountInv, [Next]_vars
    PROVE  AccountInv'
<1> USE DEF external, choices, memory, bounds, At
<1>1. CASE Begin
  BY <1>1, TableOfAssumption
     DEF Begin, TypeOK, LabelInv, AccountInv, TruthInv, Truthful,
         FileIsTruthful, ContextInv
<1>2. CASE WriteState
  BY <1>2, TableOfAssumption
     DEF WriteState, TypeOK, LabelInv, AccountInv, TruthInv, Truthful,
         FileIsTruthful, ContextInv
<1>3. CASE DumpFails
  BY <1>3, TableOfAssumption
     DEF DumpFails, Interrupted, TypeOK, LabelInv, AccountInv, TruthInv, Truthful,
         FileIsTruthful, ContextInv
<1>4. CASE LoadFails
  BY <1>4, TableOfAssumption
     DEF LoadFails, Readable, TypeOK, LabelInv, AccountInv, TruthInv, Truthful,
         FileIsTruthful, ContextInv
<1>5. CASE Chown
  <2>1. dumping' = dumping \/ dumping' = "raise"
    BY <1>5, DumpEffect DEF Chown, TypeOK
  <2> QED
    BY <1>5, <2>1, TableOfAssumption DEF Chown, TypeOK, LabelInv, AccountInv, TruthInv, Truthful,
         FileIsTruthful, ContextInv
<1>6. CASE RecordRestored
  <2>1. part \in Parts /\ Change(part, "restored", "refused")
    BY <1>6 DEF RecordRestored, TypeOK
  <2>2. /\ context'[part] = "restored"
        /\ \A q \in Parts \ {part} : context'[q] = context[q]
        /\ dumping' = dumping \/ dumping' = "refused"
    BY <2>1, ChangeEffect
  <2> QED
    BY <1>6, <2>1, <2>2, TableOfAssumption DEF RecordRestored, TypeOK, LabelInv, AccountInv,
       TruthInv, Truthful,
         FileIsTruthful, ContextInv
<1>7. CASE AddFailedPart
  <2>1. dumping' = dumping \/ dumping' = "raise"
    BY <1>7, DumpEffect DEF AddFailedPart, TypeOK
  <2> QED
    BY <1>7, <2>1, TableOfAssumption DEF AddFailedPart, TypeOK, LabelInv, AccountInv, TruthInv,
       Truthful,
         FileIsTruthful, ContextInv
<1>8. CASE MarkInvalid
  <2>1. part \in Parts /\ Change(part, "invalid", "raise")
    BY <1>8 DEF MarkInvalid, TypeOK
  <2>2. /\ context'[part] = "invalid"
        /\ \A q \in Parts \ {part} : context'[q] = context[q]
        /\ dumping' = dumping \/ dumping' = "raise"
    BY <2>1, ChangeEffect
  <2> QED
    BY <1>8, <2>1, <2>2, TableOfAssumption DEF MarkInvalid, TypeOK, LabelInv, AccountInv, TruthInv,
       Truthful,
         FileIsTruthful, ContextInv
<1>9. CASE DumpFinally
  BY <1>9, TableOfAssumption
     DEF DumpFinally, Dump, TypeOK, LabelInv, AccountInv, TruthInv, Truthful,
         FileIsTruthful, ContextInv
<1>10. CASE Exit
  BY <1>10, TableOfAssumption
     DEF Exit, TypeOK, LabelInv, AccountInv, TruthInv, Truthful,
         FileIsTruthful, ContextInv
<1>11. CASE Finish
  BY <1>11, TableOfAssumption
     DEF Finish, TypeOK, LabelInv, AccountInv, TruthInv, Truthful,
         FileIsTruthful, ContextInv
<1>12. ASSUME NEW t \in Tables, OpenTable(t) PROVE AccountInv'
  BY <1>12, TableOfAssumption
     DEF OpenTable, Schedule, PartsOf, ToDownload, Databases, Readable, TypeOK, LabelInv,
       AccountInv, TruthInv, Truthful,
         FileIsTruthful, ContextInv
<1>13. ASSUME NEW t \in Tables, TableFails(t) PROVE AccountInv'
  BY <1>13, TableOfAssumption
     DEF TableFails, Schedule, PartsOf, ToDownload, Databases, Readable, TypeOK, LabelInv,
       AccountInv, TruthInv, Truthful,
         FileIsTruthful, ContextInv
<1>14. ASSUME NEW p \in Parts, Download(p) PROVE AccountInv'
  BY <1>14, TableOfAssumption
     DEF Download, TypeOK, LabelInv, AccountInv, TruthInv, Truthful,
         FileIsTruthful, ContextInv
<1>15. ASSUME NEW p \in Parts, Downloaded(p) PROVE AccountInv'
  <2>1. p \in Parts /\ Change(p, "downloaded", "raise")
    BY <1>15 DEF Downloaded, TypeOK
  <2>2. /\ context'[p] = "downloaded"
        /\ \A q \in Parts \ {p} : context'[q] = context[q]
        /\ dumping' = dumping \/ dumping' = "raise"
    BY <2>1, ChangeEffect
  <2> QED
    BY <1>15, <2>1, <2>2, TableOfAssumption DEF Downloaded, TypeOK, LabelInv, AccountInv, TruthInv,
       Truthful,
         FileIsTruthful, ContextInv
<1>16. ASSUME NEW p \in Parts, DownloadFailed(p) PROVE AccountInv'
  BY <1>16, TableOfAssumption
     DEF DownloadFailed, TypeOK, LabelInv, AccountInv, TruthInv, Truthful,
         FileIsTruthful, ContextInv
<1>17. ASSUME NEW p \in Parts, Attach(p) PROVE AccountInv'
  BY <1>17, TableOfAssumption
     DEF Attach, TypeOK, LabelInv, AccountInv, TruthInv, Truthful,
         FileIsTruthful, ContextInv
<1>18. ASSUME NEW p \in Parts, AttachFails(p) PROVE AccountInv'
  BY <1>18, TableOfAssumption
     DEF AttachFails, TypeOK, LabelInv, AccountInv, TruthInv, Truthful,
         FileIsTruthful, ContextInv
<1>19. CASE Crash
  BY <1>19, TableOfAssumption
     DEF Crash, Interrupted, TypeOK, LabelInv, AccountInv, TruthInv, Truthful,
         FileIsTruthful, ContextInv
<1>20. CASE UNCHANGED vars
  BY <1>20 DEF vars, LabelInv, AccountInv, TruthInv, Truthful,
         FileIsTruthful, ContextInv
<1> QED
  BY <1>1, <1>2, <1>3, <1>4, <1>5, <1>6, <1>7, <1>8, <1>9, <1>10, <1>11, <1>12, <1>13, <1>14,
     <1>15, <1>16, <1>17, <1>18, <1>19, <1>20
     DEF Next, Step

\* A part is attached again only if its record was lost.
LEMMA IncidentNext ==
    ASSUME TypeOK, TypeOK', LabelInv, ContextInv, IncidentInv, [Next]_vars
    PROVE  IncidentInv'
<1> USE DEF external, choices, memory, bounds, At
<1>1. CASE Begin
  BY <1>1, FileAssumption
     DEF Begin, TypeOK, LabelInv, ContextInv, IncidentInv,
         Recorded, Known, NothingKnown, Progress, PartStates
<1>2. CASE WriteState
  BY <1>2, FileAssumption
     DEF WriteState, TypeOK, LabelInv, ContextInv, IncidentInv,
         Recorded, Known, NothingKnown, Progress, PartStates
<1>3. CASE DumpFails
  BY <1>3, FileAssumption
     DEF DumpFails, Interrupted, TypeOK, LabelInv, ContextInv, IncidentInv,
         Recorded, Known, NothingKnown, Progress, PartStates
<1>4. CASE LoadFails
  BY <1>4, FileAssumption
     DEF LoadFails, Readable, TypeOK, LabelInv, ContextInv, IncidentInv,
         Recorded, Known, NothingKnown, Progress, PartStates
<1>5. CASE Chown
  <2>1. dumping' = dumping \/ dumping' = "raise"
    BY <1>5, DumpEffect DEF Chown, TypeOK
  <2> QED
    BY <1>5, <2>1, FileAssumption DEF Chown, TypeOK, LabelInv, ContextInv, IncidentInv,
         Recorded, Known, NothingKnown, Progress, PartStates
<1>6. CASE RecordRestored
  <2>1. part \in Parts /\ Change(part, "restored", "refused")
    BY <1>6 DEF RecordRestored, TypeOK
  <2>2. /\ context'[part] = "restored"
        /\ \A q \in Parts \ {part} : context'[q] = context[q]
        /\ dumping' = dumping \/ dumping' = "refused"
    BY <2>1, ChangeEffect
  <2> QED
    BY <1>6, <2>1, <2>2, FileAssumption DEF RecordRestored, TypeOK, LabelInv, ContextInv,
       IncidentInv,
         Recorded, Known, NothingKnown, Progress, PartStates
<1>7. CASE AddFailedPart
  <2>1. dumping' = dumping \/ dumping' = "raise"
    BY <1>7, DumpEffect DEF AddFailedPart, TypeOK
  <2> QED
    BY <1>7, <2>1, FileAssumption DEF AddFailedPart, TypeOK, LabelInv, ContextInv, IncidentInv,
         Recorded, Known, NothingKnown, Progress, PartStates
<1>8. CASE MarkInvalid
  <2>1. part \in Parts /\ Change(part, "invalid", "raise")
    BY <1>8 DEF MarkInvalid, TypeOK
  <2>2. /\ context'[part] = "invalid"
        /\ \A q \in Parts \ {part} : context'[q] = context[q]
        /\ dumping' = dumping \/ dumping' = "raise"
    BY <2>1, ChangeEffect
  <2> QED
    BY <1>8, <2>1, <2>2, FileAssumption DEF MarkInvalid, TypeOK, LabelInv, ContextInv, IncidentInv,
         Recorded, Known, NothingKnown, Progress, PartStates
<1>9. CASE DumpFinally
  BY <1>9, FileAssumption
     DEF DumpFinally, Dump, TypeOK, LabelInv, ContextInv, IncidentInv,
         Recorded, Known, NothingKnown, Progress, PartStates
<1>10. CASE Exit
  BY <1>10, FileAssumption
     DEF Exit, TypeOK, LabelInv, ContextInv, IncidentInv,
         Recorded, Known, NothingKnown, Progress, PartStates
<1>11. CASE Finish
  BY <1>11, FileAssumption
     DEF Finish, TypeOK, LabelInv, ContextInv, IncidentInv,
         Recorded, Known, NothingKnown, Progress, PartStates
<1>12. ASSUME NEW t \in Tables, OpenTable(t) PROVE IncidentInv'
  BY <1>12, FileAssumption
     DEF OpenTable, Schedule, PartsOf, ToDownload, Databases, Readable, TypeOK, LabelInv,
       ContextInv, IncidentInv,
         Recorded, Known, NothingKnown, Progress, PartStates
<1>13. ASSUME NEW t \in Tables, TableFails(t) PROVE IncidentInv'
  BY <1>13, FileAssumption
     DEF TableFails, Schedule, PartsOf, ToDownload, Databases, Readable, TypeOK, LabelInv,
       ContextInv, IncidentInv,
         Recorded, Known, NothingKnown, Progress, PartStates
<1>14. ASSUME NEW p \in Parts, Download(p) PROVE IncidentInv'
  BY <1>14, FileAssumption
     DEF Download, TypeOK, LabelInv, ContextInv, IncidentInv,
         Recorded, Known, NothingKnown, Progress, PartStates
<1>15. ASSUME NEW p \in Parts, Downloaded(p) PROVE IncidentInv'
  <2>1. p \in Parts /\ Change(p, "downloaded", "raise")
    BY <1>15 DEF Downloaded, TypeOK
  <2>2. /\ context'[p] = "downloaded"
        /\ \A q \in Parts \ {p} : context'[q] = context[q]
        /\ dumping' = dumping \/ dumping' = "raise"
    BY <2>1, ChangeEffect
  <2> QED
    BY <1>15, <2>1, <2>2, FileAssumption DEF Downloaded, TypeOK, LabelInv, ContextInv, IncidentInv,
         Recorded, Known, NothingKnown, Progress, PartStates
<1>16. ASSUME NEW p \in Parts, DownloadFailed(p) PROVE IncidentInv'
  BY <1>16, FileAssumption
     DEF DownloadFailed, TypeOK, LabelInv, ContextInv, IncidentInv,
         Recorded, Known, NothingKnown, Progress, PartStates
<1>17. ASSUME NEW p \in Parts, Attach(p) PROVE IncidentInv'
  BY <1>17, FileAssumption
     DEF Attach, TypeOK, LabelInv, ContextInv, IncidentInv,
         Recorded, Known, NothingKnown, Progress, PartStates
<1>18. ASSUME NEW p \in Parts, AttachFails(p) PROVE IncidentInv'
  BY <1>18, FileAssumption
     DEF AttachFails, TypeOK, LabelInv, ContextInv, IncidentInv,
         Recorded, Known, NothingKnown, Progress, PartStates
<1>19. CASE Crash
  BY <1>19, FileAssumption
     DEF Crash, Interrupted, TypeOK, LabelInv, ContextInv, IncidentInv,
         Recorded, Known, NothingKnown, Progress, PartStates
<1>20. CASE UNCHANGED vars
  BY <1>20 DEF vars, LabelInv, ContextInv, IncidentInv,
         Recorded, Known, NothingKnown, Progress, PartStates
<1> QED
  BY <1>1, <1>2, <1>3, <1>4, <1>5, <1>6, <1>7, <1>8, <1>9, <1>10, <1>11, <1>12, <1>13, <1>14,
     <1>15, <1>16, <1>17, <1>18, <1>19, <1>20
     DEF Next, Step

-----------------------------------------------------------------------------
\* Where the process is and what its context holds, for all runs.
Sound == TypeOK /\ LabelInv /\ ContextInv

LEMMA SoundAlways == Spec => []Sound
<1>1. Init => LabelInv /\ ContextInv
  BY DEF Init, LabelInv, ContextInv
<1>2. TypeOK /\ TypeOK' /\ LabelInv /\ ContextInv /\ [Next]_vars => LabelInv' /\ ContextInv'
  BY LabelNext, ContextNext
<1> QED
  BY <1>1, <1>2, TypeCorrect, PTL DEF Spec, Sound

\* Rows are doubled only by crashes, lost answers and records that could not be
\* written, whatever is repeated.
THEOREM RowsDoubledOnlyByIncidents == Spec => []DoubledOnlyByIncidents
<1>1. Init => IncidentInv
  BY DEF Init, IncidentInv
<1>2. Sound /\ Sound' /\ IncidentInv /\ [Next]_vars => IncidentInv'
  BY IncidentNext DEF Sound
<1>3. IncidentInv => DoubledOnlyByIncidents
  BY DEF IncidentInv, DoubledOnlyByIncidents
<1> QED
  BY <1>1, <1>2, <1>3, SoundAlways, PTL DEF Spec

\* No table is dropped that an earlier run has restored.
TablesKept == ~Recreate

LEMMA TruthAlways == TablesKept /\ Spec => [](TablesKept /\ Sound /\ TruthInv)
<1>1. Init => TruthInv
  BY FileAssumption DEF Init, TruthInv, FileIsTruthful, NoJobs
<1>2. TablesKept /\ Sound /\ Sound' /\ TruthInv /\ [Next]_vars => TruthInv'
  BY TruthNext DEF Sound, TablesKept
<1>3. TablesKept => TablesKept'
  BY DEF TablesKept
<1> QED
  BY <1>1, <1>2, <1>3, SoundAlways, PTL DEF Spec

\* The state file never says more than is so (change_part_state comes after the
\* download and the attachment).
THEOREM StateFileIsTruthful == TablesKept /\ Spec => []FileIsTruthful
<1>1. TruthInv => FileIsTruthful
  BY DEF TruthInv
<1> QED
  BY <1>1, TruthAlways, PTL

\* A run without --keep-going and without failed parts leaves every part attached,
\* whatever failed or crashed before; with it, parts are missing only with their
\* table, or because they could not be scheduled (the log of _restore_data).
THEOREM SuccessLeavesAllAttached == TablesKept /\ Spec => []SuccessIsComplete
<1>1. Init => AccountInv
  BY DEF Init, AccountInv
<1>2. /\ TablesKept /\ Sound /\ Sound' /\ TruthInv /\ AccountInv /\ [Next]_vars
      => AccountInv'
  BY AccountNext DEF Sound, TablesKept
<1>3. Sound /\ AccountInv => SuccessIsComplete
  BY DEF Sound, LabelInv, AccountInv, SuccessIsComplete
<1> QED
  BY <1>1, <1>2, <1>3, TruthAlways, PTL DEF Spec
=============================================================================
