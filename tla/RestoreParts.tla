----------------------------- MODULE RestoreParts -----------------------------
(***************************************************************************)
(* The restore of data: the parts of a backup are downloaded by workers,   *)
(* table by table, and attached.  How far each part got is kept in a state *)
(* file, so that a restore which failed or crashed can be run again.       *)
(***************************************************************************)
EXTENDS Naturals

CONSTANTS
    Tables,      \* tables of the backup
    Parts,       \* their parts
    TableOf,     \* the table of each part
    Threshold,   \* restore_context_sync_threshold_ops
    Recreate,    \* may a repeated restore find tables it has to drop first?
    Absent,      \* there is no state file
    Torn,        \* the state file is not complete
    MaxFaults,   \* bound on errors
    MaxLost,     \* bound on lost answers to attachments and failed writes of the file
    MaxCrashes   \* bound on crashes

ASSUME TableOfAssumption == TableOf \in [Parts -> Tables]

ASSUME OptionsAssumption ==
    Recreate \in BOOLEAN /\ Threshold \in Nat \ {0}

ASSUME BoundsAssumption == MaxFaults \in Nat /\ MaxLost \in Nat /\ MaxCrashes \in Nat

\* PartState, also how part_state is stored in the file.
PartStates == {"not_downloaded", "invalid", "downloaded", "restored"}

Progress == [Parts -> PartStates]

ASSUME FileAssumption == Absent \notin Progress /\ Torn \notin Progress /\ Absent # Torn

VARIABLES
    \* outside of the process
    file,       \* the state file
    detached,   \* parts complete in the `detached` directory of their table
    attached,   \* how many times the rows of each part are in its table
    \* in memory
    pc,
    keepGoing,  \* --keep-going
    context,    \* _databases_dict of the restore context
    loaded,     \* is context filled, from the file if there was one?
    updates,    \* _state_updates_cnt
    dumping,    \* "no", or where the exception goes if writing the file fails
    failed,     \* failed_parts and failed_paths
    tables,     \* tables still to do
    skipped,    \* tables left out because they could not be created
    unscheduled,\* parts left out because their download could not be scheduled
    toAttach,   \* attach_parts
    job,        \* the download of each part: none, running, ok, error
    part,       \* the part being attached
    \* bounds
    faults, lost, crashes

external == <<file, detached, attached>>
choices == <<keepGoing, skipped>>
memory == <<pc, choices, context, loaded, updates, dumping, failed, tables, unscheduled,
            toAttach, job, part>>
bounds == <<faults, lost, crashes>>
vars == <<external, memory, bounds>>

PartsOf(t) == {p \in Parts : TableOf[p] = t}
NothingKnown == [p \in Parts |-> "not_downloaded"]
NoJobs == [p \in Parts |-> "none"]

Init ==
    /\ file = Absent /\ detached = {} /\ attached = [p \in Parts |-> 0]
    /\ pc = "stopped" /\ keepGoing = FALSE
    /\ context = NothingKnown /\ loaded = FALSE
    /\ updates = 0 /\ dumping = "no"
    /\ failed = {} /\ tables = {} /\ skipped = {} /\ unscheduled = {} /\ toAttach = {}
    /\ job = NoJobs /\ part \in Parts
    /\ faults = 0 /\ lost = 0 /\ crashes = 0

-----------------------------------------------------------------------------
(* The restore context *)

\* _databases, which is filled by its first use.
Databases == IF loaded \/ file = Absent THEN context ELSE file

\* The file is loaded already, or can be parsed.
Readable == loaded \/ file # Torn

\* dump_state, whose exceptions go to `handler`: it begins here and ends with
\* WriteState or DumpFails.
Dump(handler) == dumping' = handler

\* A dump that does not start the count again.
DumpKeepingCount(handler) ==
    /\ updates' = updates + 1
    /\ IF updates' >= Threshold THEN Dump(handler) ELSE UNCHANGED dumping

\* _dump_state_if_need
DumpIfNeeded(handler) ==
    \/ /\ updates + 1 < Threshold
       /\ updates' = updates + 1
       /\ UNCHANGED dumping
    \/ /\ updates + 1 >= Threshold
       /\ updates' = 0
       /\ Dump(handler)

\* change_part_state
Change(p, state, handler) ==
    /\ context' = [context EXCEPT ![p] = state]
    /\ DumpIfNeeded(handler)

WriteState ==
    /\ dumping # "no"
    /\ file' = context
    /\ dumping' = "no"
    /\ UNCHANGED <<detached, attached, pc, context, loaded, updates, failed, tables,
                   unscheduled, choices, toAttach, job, part, bounds>>

\* What is left of the file by an error or a crash: it was emptied by opening it
\* for writing, or not even opened.
Interrupted == {file, Torn}

\* The file cannot be written. The count has not been started again, so that the
\* next update dumps.
DumpFails ==
    /\ dumping # "no"
    /\ lost < MaxLost
    /\ lost' = lost + 1
    /\ file' \in Interrupted
    /\ updates' = Threshold
    /\ pc' = dumping
    /\ dumping' = "no"
    /\ UNCHANGED <<detached, attached, context, loaded, failed, tables, unscheduled, choices,
                   toAttach, job, part, faults, crashes>>

\* The process is at label l and not inside dump_state.
At(l) == pc = l /\ dumping = "no"

-----------------------------------------------------------------------------
(* One run of the restore *)

\* Tables are in place, or dropped and created anew because they were readonly
\* or had another schema; with --keep-going those that cannot be created are left out.
Begin ==
    /\ pc \in {"stopped", "done"}
    /\ skipped' \in SUBSET Tables
    /\ keepGoing' \in BOOLEAN
    /\ skipped' # {} => keepGoing' /\ faults < MaxFaults
    /\ faults' = IF skipped' = {} THEN faults ELSE faults + 1
    /\ tables' = Tables \ skipped'
    /\ \E dropped \in SUBSET Tables :
         /\ dropped # {} => Recreate
         /\ detached' = {p \in detached : TableOf[p] \notin dropped}
         /\ attached' = [p \in Parts |-> IF TableOf[p] \in dropped THEN 0 ELSE attached[p]]
    /\ pc' = "table"
    /\ context' = NothingKnown /\ loaded' = FALSE
    /\ updates' = 0 /\ dumping' = "no"
    /\ failed' = {} /\ unscheduled' = {} /\ toAttach' = {} /\ job' = NoJobs
    /\ UNCHANGED <<file, part, lost, crashes>>

\* Every part that is recorded as neither restored nor downloaded.
ToDownload(t, known) == {p \in PartsOf(t) : known[p] \notin {"restored", "downloaded"}}

\* Downloads are scheduled, the context is loaded if it was not.
Schedule(t, parts) ==
    /\ At("table") /\ t \in tables
    /\ context' = Databases
    /\ loaded' = TRUE
    /\ tables' = tables \ {t}
    /\ job' = [p \in Parts |-> IF p \in parts THEN "running" ELSE "none"]
    /\ detached' = detached \ parts
    /\ UNCHANGED <<file, attached, updates, dumping, failed, choices, part, lost, crashes>>

\* A restore that downloads every part, whatever is recorded.
OpenTableAgain(t) ==
    /\ Readable
    /\ Schedule(t, PartsOf(t))
    /\ toAttach' = PartsOf(t)
    /\ pc' = "wait"
    /\ UNCHANGED <<unscheduled, faults>>

\* All parts but those recorded as restored will be attached. A part downloaded
\* again overwrites what is in the directory. With --keep-going parts whose
\* downloads cannot be scheduled are left out: this is logged, and not recorded.
OpenTable(t) ==
    /\ Readable
    /\ \E missed \in SUBSET ToDownload(t, Databases) :
         /\ Schedule(t, ToDownload(t, Databases) \ missed)
         /\ missed # {} => keepGoing /\ faults < MaxFaults
         /\ faults' = IF missed = {} THEN faults ELSE faults + 1
         /\ unscheduled' = unscheduled \cup missed
         /\ toAttach' = {p \in PartsOf(t) : Databases[p] # "restored"} \ missed
    /\ pc' = "wait"

\* The table cannot be read, which ends the run with --keep-going as well, or
\* without it a download cannot be scheduled, with the ones before it running.
TableFails(t) ==
    /\ Readable
    /\ faults < MaxFaults
    /\ faults' = faults + 1
    /\ \E started \in SUBSET ToDownload(t, Databases) :
         /\ Schedule(t, started)
         /\ started # {} => ~keepGoing /\ started # ToDownload(t, Databases)
    /\ pc' = "raise"
    /\ UNCHANGED <<unscheduled, toAttach>>

\* The file cannot be parsed; the dump in the finally block fails for the same reason.
LoadFails ==
    /\ At("table") /\ tables # {}
    /\ ~Readable
    /\ pc' = "stopped"
    /\ UNCHANGED <<external, context, loaded, updates, dumping, failed, tables, unscheduled,
                   choices, toAttach, job, part, bounds>>

\* A worker downloads a part.
Download(p) ==
    /\ job[p] = "running"
    /\ \/ /\ job' = [job EXCEPT ![p] = "ok"]
          /\ detached' = detached \cup {p}
          /\ UNCHANGED faults
       \/ /\ faults < MaxFaults
          /\ job' = [job EXCEPT ![p] = "error"]
          /\ faults' = faults + 1
          /\ UNCHANGED detached
    /\ UNCHANGED <<file, attached, pc, context, loaded, updates, dumping, failed, tables,
                   unscheduled, choices, toAttach, part, lost, crashes>>

\* A callback that runs while the download does.
DownloadedEarly(p) ==
    /\ At("wait") /\ job[p] \in {"running", "ok"} /\ context[p] # "downloaded"
    /\ Change(p, "downloaded", "raise")
    /\ job' = [job EXCEPT ![p] = IF @ = "ok" THEN "none" ELSE @]
    /\ UNCHANGED <<external, pc, loaded, failed, tables, unscheduled, choices, toAttach, part,
                   bounds>>

\* wait() calls the callback of a finished download, whose exceptions it raises.
Downloaded(p) ==
    /\ At("wait") /\ job[p] = "ok"
    /\ job' = [job EXCEPT ![p] = "none"]
    /\ Change(p, "downloaded", "raise")
    /\ UNCHANGED <<external, pc, loaded, failed, tables, unscheduled, choices, toAttach, part,
                   bounds>>

\* ... and passes over a failed one with --keep-going, or raises its exception.
DownloadFailed(p) ==
    /\ At("wait") /\ job[p] = "error"
    /\ \/ keepGoing /\ job' = [job EXCEPT ![p] = "none"] /\ UNCHANGED pc
       \/ ~keepGoing /\ pc' = "raise" /\ UNCHANGED job
    /\ UNCHANGED <<external, context, loaded, updates, dumping, failed, tables, unscheduled,
                   choices, toAttach, part, bounds>>

\* All downloads ended; the owner of the directory is changed. A directory that
\* does not exist is recorded, any other error raised.
Chown ==
    /\ At("wait") /\ job = NoJobs
    /\ \/ pc' = "attach" /\ UNCHANGED <<failed, updates, dumping, faults>>
       \/ /\ faults < MaxFaults
          /\ faults' = faults + 1
          /\ \/ /\ failed' = failed \cup {"path"}
                /\ DumpIfNeeded("raise")
                /\ pc' = "attach"
             \/ pc' = "raise" /\ UNCHANGED <<failed, updates, dumping>>
    /\ UNCHANGED <<external, context, loaded, tables, unscheduled, choices, toAttach, job,
                   part, lost, crashes>>

\* ALTER TABLE ... ATTACH PART moves a complete part into the table.
Attach(p) ==
    /\ At("attach") /\ p \in toAttach
    /\ p \in detached
    /\ detached' = detached \ {p}
    /\ attached' = [attached EXCEPT ![p] = @ + 1]
    /\ part' = p
    /\ toAttach' = toAttach \ {p}
    /\ pc' = "record"
    /\ UNCHANGED <<file, context, loaded, updates, dumping, failed, tables, unscheduled,
                   choices, job, bounds>>

\* An error of the dump is caught like one of the attachment.
RecordRestored ==
    /\ At("record")
    /\ Change(part, "restored", "refused")
    /\ pc' = "attach"
    /\ UNCHANGED <<external, loaded, failed, tables, unscheduled, choices, toAttach, job, part,
                   bounds>>

\* A failure that is not reported.
AttachFailsSilently(p) ==
    /\ At("attach") /\ p \in toAttach
    /\ \/ p \notin detached /\ UNCHANGED faults
       \/ faults < MaxFaults /\ faults' = faults + 1
    /\ part' = p
    /\ toAttach' = toAttach \ {p}
    /\ pc' = "invalid"
    /\ UNCHANGED <<external, context, loaded, updates, dumping, failed, tables, unscheduled,
                   choices, job, lost, crashes>>

\* The query fails: the part is not complete, or for another reason, or it did
\* attach the part and only the answer was lost.
AttachFails(p) ==
    /\ At("attach") /\ p \in toAttach
    /\ \/ p \notin detached /\ UNCHANGED <<detached, attached, faults, lost>>
       \/ faults < MaxFaults /\ faults' = faults + 1 /\ UNCHANGED <<detached, attached, lost>>
       \/ /\ p \in detached /\ lost < MaxLost
          /\ lost' = lost + 1
          /\ detached' = detached \ {p}
          /\ attached' = [attached EXCEPT ![p] = @ + 1]
          /\ UNCHANGED faults
    /\ part' = p
    /\ toAttach' = toAttach \ {p}
    /\ pc' = "refused"
    /\ UNCHANGED <<file, context, loaded, updates, dumping, failed, tables, unscheduled,
                   choices, job, crashes>>

\* add_failed_part
AddFailedPart ==
    /\ At("refused")
    /\ failed' = failed \cup {part}
    /\ DumpIfNeeded("raise")
    /\ pc' = "invalid"
    /\ UNCHANGED <<external, context, loaded, tables, unscheduled, choices, toAttach, job, part,
                   bounds>>

\* The state after a failed attachment is "downloaded": it will only be attached again.
MarkDownloaded ==
    /\ At("invalid")
    /\ Change(part, "downloaded", "raise")
    /\ pc' = "attach"
    /\ UNCHANGED <<external, loaded, failed, tables, unscheduled, choices, toAttach, job, part,
                   bounds>>

MarkInvalid ==
    /\ At("invalid")
    /\ Change(part, "invalid", "raise")
    /\ pc' = "attach"
    /\ UNCHANGED <<external, loaded, failed, tables, unscheduled, choices, toAttach, job, part,
                   bounds>>

\* The finally block, after the last part of a table and after an exception.
DumpFinally ==
    /\ \/ At("attach") /\ toAttach = {} /\ pc' = "table"
       \/ At("raise") /\ pc' = "exit"
    /\ Dump("exit")
    /\ UNCHANGED <<external, context, loaded, updates, failed, tables, unscheduled, choices,
                   toAttach, job, part, bounds>>

\* The process that raised an exception ends with its workers: downloads that
\* have not started are cancelled.
Exit ==
    /\ At("exit")
    /\ job' = NoJobs
    /\ pc' = "stopped"
    /\ UNCHANGED <<external, context, loaded, updates, dumping, failed, tables, unscheduled,
                   choices, toAttach, part, bounds>>

Finish ==
    /\ At("table") /\ tables = {}
    /\ pc' = "done"
    /\ UNCHANGED <<external, context, loaded, updates, dumping, failed, tables, unscheduled,
                   choices, toAttach, job, part, bounds>>

\* The process ends; it may have been writing the state file.
Crash ==
    /\ pc \notin {"stopped", "done"}
    /\ crashes < MaxCrashes
    /\ crashes' = crashes + 1
    /\ file' \in IF dumping = "no" THEN {file} ELSE Interrupted
    /\ pc' = "stopped"
    /\ job' = NoJobs
    /\ dumping' = "no"
    /\ UNCHANGED <<detached, attached, context, loaded, updates, failed, tables, unscheduled,
                   choices, toAttach, part, faults, lost>>

\* Steps of a run that has begun.
Step ==
    \/ WriteState \/ DumpFails \/ LoadFails \/ Chown \/ RecordRestored \/ AddFailedPart
    \/ MarkInvalid \/ DumpFinally \/ Exit \/ Finish
    \/ \E t \in Tables : OpenTable(t) \/ TableFails(t)
    \/ \E p \in Parts :
         Download(p) \/ Downloaded(p) \/ DownloadFailed(p) \/ Attach(p) \/ AttachFails(p)

Next == Begin \/ Step \/ Crash

Spec == Init /\ [][Next]_vars

\* The operator repeats the restore until it succeeds without --keep-going, and
\* reports no failed part.
Unsuccessful == pc = "stopped" \/ (pc = "done" /\ (keepGoing \/ failed # {}))

FairSpec == Spec /\ WF_vars(Step) /\ WF_vars(Unsuccessful /\ Begin)

-----------------------------------------------------------------------------
(* Properties *)

TypeOK ==
    /\ file \in Progress \cup {Absent, Torn}
    /\ detached \subseteq Parts
    /\ attached \in [Parts -> Nat]
    /\ pc \in {"stopped", "table", "wait", "attach", "record", "refused", "invalid",
              "raise", "exit", "done"}
    /\ keepGoing \in BOOLEAN
    /\ context \in Progress
    /\ loaded \in BOOLEAN
    /\ updates \in 0..Threshold
    /\ dumping \in {"no", "refused", "raise", "exit"}
    /\ failed \subseteq Parts \cup {"path"}
    /\ tables \subseteq Tables /\ skipped \subseteq Tables
    /\ unscheduled \subseteq Parts /\ toAttach \subseteq Parts
    /\ job \in [Parts -> {"none", "running", "ok", "error"}]
    /\ part \in Parts
    /\ faults \in 0..MaxFaults /\ lost \in 0..MaxLost /\ crashes \in 0..MaxCrashes

\* What a record of progress says is so: a restored part is in its table, a
\* downloaded one is complete in the directory unless it is in the table already.
Truthful(known) ==
    \A p \in Parts :
        /\ known[p] = "restored" => attached[p] > 0
        /\ known[p] = "downloaded" => p \in detached \/ attached[p] > 0

\* The state file tells the truth whenever it can be read: change_part_state
\* follows the download and the attachment it records, whatever crashes.
FileIsTruthful == file \in Progress => Truthful(file)

\* A run without --keep-going that reports no failed part leaves no part
\* unattached, however many runs failed or crashed before. With it, parts are left
\* out only with their tables, or because they could not be scheduled.
SuccessIsComplete ==
    pc = "done" /\ failed = {} =>
        \A p \in Parts :
            attached[p] > 0 \/ (keepGoing /\ (TableOf[p] \in skipped \/ p \in unscheduled))

\* The rows of a part are doubled only by as many crashes, lost answers and
\* records, not by repeating the restore (part_restored, part_downloaded in
\* _restore_data).
DoubledOnlyByIncidents == \A p \in Parts : attached[p] <= 1 + crashes + lost

\* Repeated until it reports no failure, the restore gets all parts in place,
\* unless it is left with a state file it cannot read.
RestoreCompletes == <>[](file = Torn) \/ <>(\A p \in Parts : attached[p] > 0)
=============================================================================
