------------------------- MODULE DownloadPipeline --------------------------
(***************************************************************************)
(* One download of the object the upload replaces: ranged requests, whose  *)
(* ETags are compared, then decryption, and unpacking of the tar stream as *)
(* it arrives.                                                             *)
(***************************************************************************)
EXTENDS UploadPipeline

CONSTANTS DownloadChunk, WriteChunk, WriteBuffer

VARIABLES
    download,   \* [state, start, total, etag]: state is "none", "open", "read", "done" or "failed"
    got,        \* blocks received
    ready,      \* chunks the stages before the last have made of them
    fed,        \* how many of these the last stage has taken
    unpacking   \* the tar stream state machine

downloadVars == <<download, got, ready, fed, unpacking>>

DownloadInit ==
    /\ download = [state |-> "none", start |-> 0, total |-> 0, etag |-> <<>>]
    /\ got = <<>>
    /\ ready = <<>>
    /\ fed = 0
    /\ unpacking = NewUnpacking(WriteBuffer)

Archived == setup.kind \in {"tarball", "members"}

InMemory == setup.kind = "members"

\* The ETag tells the versions of an object apart: it is as good as their data.
CreateDownload ==
    /\ download.state = "none"
    /\ object # <<>>
    /\ download' = [state |-> "open", start |-> 0, total |-> Len(object), etag |-> object]
    /\ UNCHANGED <<got, ready, fed, unpacking>>

\* What the stages up to the last make of the blocks: a chunking stage keeps a
\* chunk that is not full until the stream ends.
Full(cut, n, ended) == SelectSeq(cut, LAMBDA chunk : ended \/ Len(chunk) = n)

\* What the decrypting stage is given, or passes on as it is.
Boxes(blocks, ended) ==
    LET size == EncryptChunk + MetaSize
    IN  IF setup.encrypt THEN Full(Chunked(blocks, size), size, ended) ELSE blocks

Opened(boxes) ==
    IF setup.encrypt THEN [i \in DOMAIN boxes |-> Decrypt(boxes[i])] ELSE boxes

Cut(opened, ended) ==
    IF setup.kind = "tarball" THEN Full(Chunked(opened, WriteChunk), WriteChunk, ended) ELSE opened

\* The blocks go through the stages; DecryptStage raises at a broken box.
Pass(blocks, ended, new) ==
    \E boxes \in {Boxes(blocks, ended)} :
        LET broken == setup.encrypt /\ \E i \in DOMAIN boxes : ~CanDecrypt(boxes[i])
        IN  /\ got' = blocks
            /\ ready' = IF broken THEN ready ELSE Cut(Opened(boxes), ended)
            /\ download' = IF broken THEN [new EXCEPT !.state = "failed"] ELSE new

\* The first range may find another version, the others may not.
AnyVersion == TRUE

SameVersion == object = download.etag \/ download.start = 0

\* download_part.
DownloadPart ==
    /\ download.state = "open"
    /\ download.start < download.total
    /\ LET end == Least(download.start + DownloadChunk, download.total)
           part == SubSeq(object, download.start + 1, Least(end, Len(object)))
       IN  IF SameVersion
           THEN Pass(Append(got, part), FALSE,
                     [download EXCEPT !.start = @ + Len(part), !.total = Len(object),
                                      !.etag = object])
           ELSE /\ download' = [download EXCEPT !.state = "failed"]
                /\ UNCHANGED <<got, ready>>
    /\ UNCHANGED <<fed, unpacking>>

EndDownload ==
    /\ download.state = "open"
    /\ download.start >= download.total
    /\ Pass(got, TRUE, [download EXCEPT !.state = "read"])
    /\ UNCHANGED <<fed, unpacking>>

Receiving == download.state \in {"open", "read"}

\* The stage raises when its buffer is full, or what it holds is no tar stream.
Unpacks(next) ==
    /\ unpacking' = next
    /\ download' = IF next.ok THEN download ELSE [download EXCEPT !.state = "failed"]

Feed ==
    /\ Receiving
    /\ Archived /\ ~unpacking.more /\ fed < Len(ready)
    /\ Unpacks(Accept(unpacking, ready[fed + 1]))
    /\ fed' = fed + 1
    /\ UNCHANGED <<got, ready>>

Turn ==
    /\ Receiving
    /\ unpacking.more
    /\ Unpacks(UnpackTurn(unpacking, InMemory))
    /\ UNCHANGED <<got, ready, fed>>

\* on_done of the last stage.
FinishDownload ==
    /\ download.state = "read"
    /\ Archived => ~unpacking.more /\ fed = Len(ready)
    /\ download' = [download EXCEPT !.state = "done"]
    /\ unpacking' = IF Archived THEN CompleteFile(unpacking, InMemory)
                    ELSE [unpacking EXCEPT !.data = FlattenSeq(ready)]
    /\ UNCHANGED <<got, ready, fed>>

DownloadFails ==
    /\ download.state = "open"
    /\ faults < MaxFaults
    /\ faults' = faults + 1
    /\ download' = [download EXCEPT !.state = "failed"]
    /\ UNCHANGED <<got, ready, fed, unpacking>>

DownloadStep == DownloadPart \/ EndDownload \/ Feed \/ Turn \/ FinishDownload
=============================================================================
