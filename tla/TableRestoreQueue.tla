-------------------------- MODULE TableRestoreQueue --------------------------
(***************************************************************************)
(* The restore of table objects.  A table may need other ones to exist (a  *)
(* view its source, a dictionary its table) and the backup does not say    *)
(* which: a table that cannot be created goes to the end of a queue, until *)
(* the failures since the last success outnumber the tables left.          *)
(***************************************************************************)
EXTENDS Naturals, Sequences, SequencesExt

CONSTANTS
    Tables,       \* tables to restore
    Order,        \* the order they are tried in at first, by kind of engine
    Requirements, \* what tables may require: the functions `requires` is drawn from
    MaxFaults     \* bound on the errors of ClickHouse that have another cause

ASSUME OrderAssumption ==
    Order \in Seq(Tables) /\ IsInjective(Order) /\ ToSet(Order) = Tables

ASSUME RequirementsAssumption == Requirements \subseteq [Tables -> SUBSET Tables]

ASSUME MaxFaultsAssumption == MaxFaults \in Nat

VARIABLES
    requires,     \* requires[t]: tables without which t cannot be created
    created,      \* tables restored, and in ClickHouse
    leftover,     \* failed tables that are in ClickHouse: they could not be dropped
    chained,      \* tables not taken from the iterator over them yet
    unprocessed,  \* the queue
    errors,       \* the tables that failed since the last success, in order
    disturbed,    \* those among them that failed for another cause
    readonly,     \* replicas found readonly after the restore
    faults,       \* errors with another cause so far
    pc

vars ==
    <<requires, created, leftover, chained, unprocessed, errors, disturbed, readonly, faults, pc>>

\* ClickHouse creates a table that does not exist when those it requires do; one
\* that requires itself can never be created.
Creatable(t) == t \notin leftover /\ requires[t] \subseteq created \cup leftover

Init ==
    /\ requires \in Requirements
    /\ created = {}
    /\ leftover = {}
    /\ chained = Order
    /\ unprocessed = <<>>
    /\ errors = <<>>
    /\ disturbed = {}
    /\ readonly = {}
    /\ faults = 0
    /\ pc = "enqueue"

\* The iterator is exhausted into the queue.
Enqueue ==
    /\ pc = "enqueue"
    /\ unprocessed' = chained
    /\ chained' = <<>>
    /\ pc' = "restore"
    /\ UNCHANGED <<requires, created, leftover, errors, disturbed, readonly, faults>>

\* A success that leaves the earlier errors in place.
RestoredKeepingErrors ==
    /\ pc = "restore" /\ unprocessed # <<>>
    /\ Creatable(Head(unprocessed))
    /\ created' = created \cup {Head(unprocessed)}
    /\ unprocessed' = Tail(unprocessed)
    /\ UNCHANGED <<requires, leftover, chained, errors, disturbed, readonly, faults, pc>>

\* The table at the head is created, and restored as a replica if it is one.
Restored ==
    /\ pc = "restore" /\ unprocessed # <<>>
    /\ Creatable(Head(unprocessed))
    /\ created' = created \cup {Head(unprocessed)}
    /\ unprocessed' = Tail(unprocessed)
    /\ errors' = <<>>
    /\ disturbed' = {}
    /\ UNCHANGED <<requires, leftover, chained, readonly, faults, pc>>

\* Only the last error is remembered.
RetryRememberingLast(t) ==
    /\ errors' = <<t>>
    /\ unprocessed' = Append(Tail(unprocessed), t)
    /\ pc' = IF Len(errors') > Len(unprocessed') THEN "check" ELSE "restore"

\* Table t goes to the end of the queue and, with more errors than tables left,
\* the retries end.
Retry(t) ==
    /\ errors' = Append(errors, t)
    /\ unprocessed' = Append(Tail(unprocessed), t)
    /\ pc' = IF Len(errors') > Len(unprocessed') THEN "check" ELSE "restore"

\* ClickHouse refuses a table that lacks what it requires, or that exists because
\* an earlier attempt could not drop it. It is dropped.
Refused ==
    /\ pc = "restore" /\ unprocessed # <<>>
    /\ ~Creatable(Head(unprocessed))
    /\ Retry(Head(unprocessed))
    /\ leftover' = leftover \ {Head(unprocessed)}
    /\ disturbed' = disturbed \cup (leftover \cap {Head(unprocessed)})
    /\ UNCHANGED <<requires, created, chained, readonly, faults>>

\* Any other error: a timeout, a replica that cannot be restored. If dropping the
\* table fails as well, what was made of it stays.
Disturbed ==
    /\ pc = "restore" /\ unprocessed # <<>>
    /\ faults < MaxFaults
    /\ faults' = faults + 1
    /\ Retry(Head(unprocessed))
    /\ disturbed' = disturbed \cup {Head(unprocessed)}
    /\ \/ leftover' = leftover \ {Head(unprocessed)}
       \/ /\ Creatable(Head(unprocessed)) \/ Head(unprocessed) \in leftover
          /\ leftover' = leftover \cup {Head(unprocessed)}
    /\ UNCHANGED <<requires, created, chained, readonly>>

QueueEmpty ==
    /\ pc = "restore" /\ unprocessed = <<>>
    /\ pc' = "check"
    /\ UNCHANGED <<requires, created, leftover, chained, unprocessed, errors, disturbed, readonly, faults>>

\* _check_readonly_restored_tables goes through the iterator once more. Any of the
\* replicas may be readonly, but only tables in the iterator are looked at: those
\* that have no error yet are added to the errors, in an order that is left open.
CheckReadonly ==
    /\ pc = "check"
    /\ readonly' \in SUBSET created
    /\ errors' = errors \o SetToSeq((ToSet(chained) \cap readonly') \ ToSet(errors))
    /\ pc' = "done"
    /\ UNCHANGED <<requires, created, leftover, chained, unprocessed, disturbed, faults>>

Next == Enqueue \/ Restored \/ Refused \/ Disturbed \/ QueueEmpty \/ CheckReadonly

Spec == Init /\ [][Next]_vars /\ WF_vars(Next)

-----------------------------------------------------------------------------
\* A table is waiting or restored, once and not both, and only waiting tables have
\* errors or left something behind: `unprocessed` and `errors` of
\* _restore_table_objects agree with ClickHouse.
QueueOK ==
    /\ requires \in Requirements
    /\ readonly \subseteq created
    /\ disturbed \subseteq ToSet(errors)
    /\ faults \in 0..MaxFaults
    /\ pc \in {"enqueue", "restore", "check", "done"}
    /\ IsInjective(chained \o unprocessed)
    /\ ToSet(chained \o unprocessed) = Tables \ created
    /\ leftover \cup ToSet(errors) \subseteq ToSet(unprocessed)

\* The tables named in the error, or returned with keep_going.
Reported == ToSet(errors)

\* The restore gives up a table only for a reason that is left: something it
\* requires was not restored, whatever the order of the queue, or it failed for
\* another cause since the last success (the bound on `errors` in
\* _restore_table_objects).
GivesUpOnlyHopeless ==
    pc = "done" =>
        \A t \in ToSet(unprocessed) : t \in disturbed \/ ~(requires[t] \subseteq created)

\* No table that was not restored is missing among the tables reported as failed,
\* or left out of the restore of data with keep_going, and of those restored only
\* what _check_readonly_restored_tables is after may be among them.
ReportsWhatFailed ==
    pc = "done" =>
        /\ Tables \ created \subseteq Reported
        /\ Reported \subseteq (Tables \ created) \cup readonly

\* A table that is readonly after a successful RESTORE REPLICA is reported as well,
\* as the docstring of _check_readonly_restored_tables says.
ReadonlyReported == pc = "done" => readonly \subseteq Reported

\* The loop over `unprocessed` ends, whatever tables require of one another.
RetriesEnd == <>(pc = "done")
=============================================================================
