--------------------------- MODULE ObjectTransfer ---------------------------
(***************************************************************************)
(* An object is replaced by an upload while it is downloaded, as the       *)
(* metadata of a backup are, which one host uploads again and again while  *)
(* others read them.                                                       *)
(***************************************************************************)
EXTENDS DownloadPipeline

ASSUME TransferAssumption ==
    /\ {ReadChunk, EncryptChunk, UploadChunk, UploadBuffer, MaxChunkCount, QueueSize,
        PollsPerSecond, DownloadChunk, WriteChunk, WriteBuffer} \subseteq Nat \ {0}
    /\ UploadChunk <= UploadBuffer /\ WriteChunk <= WriteBuffer /\ BlockSize <= WriteBuffer
    /\ MaxFaults \in Nat

vars == <<uploadVars, downloadVars>>

Init == UploadInit /\ DownloadInit

Uploading == UNCHANGED downloadVars /\ UploadStep

Downloading == UNCHANGED uploadVars /\ DownloadStep

\* Nobody has to download.
Asking == UNCHANGED uploadVars /\ CreateDownload

TimePasses == UNCHANGED downloadVars /\ Tick

Faulty ==
    \/ (UploadFails \/ CompleteUnanswered) /\ UNCHANGED downloadVars
    \/ /\ DownloadFails
       /\ UNCHANGED <<setup, limiterVars, pieces, chunking, chunks, start, parts, working, s3Vars,
                      local, upload>>

\* Nothing is left to do.
Ended ==
    /\ upload \in {"done", "failed"} /\ download.state \in {"done", "failed"}
    /\ UNCHANGED vars

Next == Uploading \/ Downloading \/ Asking \/ TimePasses \/ Faulty \/ Ended

Spec == Init /\ [][Next]_vars

\* Threads run, and time goes by.
FairSpec == Spec /\ WF_vars(Uploading) /\ WF_vars(TimePasses) /\ WF_vars(Downloading)

-----------------------------------------------------------------------------
(* Properties.                                                              *)

\* Local files are deleted (delete_after) only when the object holds all of
\* them, in the form the download reads.
DeletesOnlyStored == local # DOMAIN setup.files => object = New[setup]

\* An upload fails only when something fails: parts are in order for
\* complete_multipart_upload, and there are no more of them than S3 takes,
\* because build_uploading_stage enlarges the chunks.
FailsOnlyByFaults ==
    /\ upload = "failed" => faults > 0
    /\ download.state = "failed" => faults > 0 \/ object # Old[setup]

\* What has passed the limiter never exceeds the bucket and the time gone by.
WithinRate ==
    setup.limit > 0 =>
        LET passed == Len(New[setup]) - Len(FlattenSeq(source)) - Len(limiter.value)
        IN  passed * PollsPerSecond <= setup.limit * (PollsPerSecond + clock)

\* An upload ends, and so does a download that has begun: no stage waits for
\* ever for another, or for the limiter.
TransferEnds ==
    /\ <>(upload \in {"done", "failed"})
    /\ download.state # "none" ~> download.state \in {"done", "failed"}

-----------------------------------------------------------------------------
(* The object is atomic.                                                    *)

Version(data) ==
    CASE data = Old[setup] -> "old"
      [] data = New[setup] -> "new"
      [] OTHER -> "torn"

\* Empty members are dropped by UnpackTarballStage.
Members(files) ==
    LET kept == IF InMemory THEN SelectSeq(files, LAMBDA file : file.size > 0) ELSE files
    IN  [i \in DOMAIN kept |-> [path |-> Path(kept[i]), data |-> Content(kept[i])]]

Returned ==
    CASE Archived /\ unpacking.files = Members(setup.old) -> "old"
      [] Archived /\ unpacking.files = Members(setup.files) -> "new"
      [] ~Archived /\ unpacking.data = Content(setup.old[1]) -> "old"
      [] ~Archived /\ unpacking.data = Content(setup.files[1]) -> "new"
      [] OTHER -> "torn"

Abstract == INSTANCE AtomicObject WITH
    Versions <- {"old", "new"}, None <- "none",
    object <- Version(object),
    taken <- IF download.start = 0 THEN "none" ELSE Version(download.etag),
    answer <- IF download.state = "done" THEN Returned ELSE "none"

\* Uploads and downloads implement the atomic object.
ImplementsAtomicObject == Abstract!Spec
=============================================================================
