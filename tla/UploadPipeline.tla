-------------------------- MODULE UploadPipeline ---------------------------
(***************************************************************************)
(* One upload: read, archive, encrypt, limit the rate, cut into chunks,    *)
(* put the chunks as parts of a multipart upload from several workers,     *)
(* complete it and delete the local files.  The stages run in threads of   *)
(* their own, joined by bounded queues.                                    *)
(***************************************************************************)
EXTENDS TarStream, FiniteSets

CONSTANTS
    Setups,          \* the uploads: [kind, files, encrypt, delete_after, limit, old]
    ReadChunk, EncryptChunk, UploadChunk, UploadBuffer, MaxChunkCount,
    QueueSize,       \* of the input queue of a stage
    Workers,         \* uploading threads
    PollsPerSecond,  \* retry intervals of the rate limiter in a second
    MaxFaults,       \* bound of the errors
    Idle

Kinds == {"data", "file", "tarball", "members"}

Files == Seq([name : Names, length : Nat \ {0}, size : Nat]) \ {<<>>}

ASSUME SetupsAssumption ==
    Setups \subseteq [kind : Kinds, files : Files, encrypt : BOOLEAN, delete_after : BOOLEAN,
                      limit : Nat, old : Files]

Symbols == Cells \union {Unwritten}

UploadingPart == [data : Seq(Symbols), upload : BOOLEAN, index : Nat]

ASSUME IdleAssumption == Idle \notin UploadingPart

VARIABLES
    setup,     \* never changes
    source,    \* values the limiter has not read
    limiter,   \* [value, tokens, lapse, asleep]
    clock,     \* retry intervals since the start, up to the last that matters
    pieces,    \* queue of the chunking stage
    chunking,  \* [fifo, value, done]
    chunks,    \* queue of the starting stage
    start,     \* [upload, index]
    parts,     \* queue of the workers
    working,   \* what each worker uploads
    completing,  \* the upload id that has reached the completing stage, or not
    recorded,  \* part numbers, in the order of the answers
    stored,    \* part number -> data, as S3 holds them
    object,    \* data of the object
    local,     \* files not deleted
    upload,    \* "running", "deleting", "done" or "failed"
    faults

limiterVars == <<source, limiter, clock>>
s3Vars == <<completing, recorded, stored, object>>
endVars == <<local, upload, faults>>

uploadVars == <<setup, source, limiter, clock, pieces, chunking, chunks, start, parts, working,
                completing, recorded, stored, object, local, upload, faults>>

-----------------------------------------------------------------------------
(* What the pipeline is built from.                                         *)

Read(s, files) ==
    CASE s.kind = "data" -> <<Content(files[1])>>
      [] s.kind = "file" -> ReadByChunks(Content(files[1]), ReadChunk)
      [] OTHER -> ReadTarball(files, ReadChunk)

Encrypted(s, values) ==
    IF s.encrypt
    THEN LET cut == Chunked(values, EncryptChunk) IN [i \in DOMAIN cut |-> Encrypt(cut[i])]
    ELSE values

Stream(s, files) == FlattenSeq(Encrypted(s, Read(s, files)))

\* The object before the upload and the one it is to make, for each setup.
Old == [s \in Setups |-> Stream(s, s.old)]

New == [s \in Setups |-> Stream(s, s.files)]

\* What is deleted after its upload is not empty: it is a tarball of some files.
ASSUME DeletedAssumption == \A s \in Setups : s.delete_after => New[s] # <<>>

EstimatedSize(s) ==
    LET size == IF s.kind \in {"data", "file"} THEN s.files[1].size ELSE CalcTarballSize(s.files)
    IN  IF s.encrypt THEN CalcEncryptedSize(size, EncryptChunk) ELSE size

MultiplierRoundedDown(s) ==
    IF EstimatedSize(s) > UploadChunk * MaxChunkCount
    THEN EstimatedSize(s) \div (UploadChunk * MaxChunkCount) ELSE 1

Multiplier(s) ==
    IF EstimatedSize(s) > UploadChunk /\ EstimatedSize(s) > UploadChunk * MaxChunkCount
    THEN Ceiling(EstimatedSize(s), UploadChunk * MaxChunkCount) ELSE 1

ChunkSize == UploadChunk * Multiplier(setup)

\* After the last of these the limiter could have let everything pass.
LastTick(s) ==
    IF s.limit = 0 THEN 0 ELSE PollsPerSecond * Ceiling(Len(New[s]), s.limit)

UploadInit ==
    \E s \in Setups :
        /\ setup = s
        /\ source = Encrypted(s, Read(s, s.files))
        /\ limiter = [value |-> <<>>, tokens |-> s.limit, lapse |-> 0, asleep |-> FALSE]
        /\ clock = 0
        /\ pieces = <<>>
        /\ chunking = [fifo |-> NewFIFO(UploadBuffer * Multiplier(s)), value |-> <<>>,
                        done |-> FALSE]
        /\ chunks = <<>>
        /\ start = [upload |-> FALSE, index |-> 0]
        /\ parts = <<>>
        /\ working = [w \in Workers |-> Idle]
        /\ completing = FALSE
        /\ recorded = <<>>
        /\ stored = <<>>
        /\ object = Old[s]
        /\ local = DOMAIN s.files
        /\ upload = "running"
        /\ faults = 0

Running == upload = "running"

-----------------------------------------------------------------------------
(* RateLimiterStage.                                                        *)

NextValue ==
    /\ Running
    /\ limiter.value = <<>> /\ source # <<>>
    /\ limiter' = [limiter EXCEPT !.value = Head(source), !.asleep = FALSE]
    /\ source' = Tail(source)
    /\ UNCHANGED <<setup, clock, pieces, chunking, chunks, start, parts, working, s3Vars,
                   endVars>>

ReplenishedPerInterval(l) == Least(setup.limit, l.tokens + l.lapse * setup.limit)

ReplenishedPerSecond(l) ==
    Least(setup.limit, l.tokens + (l.lapse \div PollsPerSecond) * setup.limit)

\* Tokens are counted in whole ones, the time since the last look in full.
Replenished(l) ==
    Least(setup.limit, l.tokens + (l.lapse * setup.limit) \div PollsPerSecond)

\* extract_tokens, and what it lets pass.
Limit ==
    /\ Running
    /\ limiter.value # <<>> /\ ~limiter.asleep
    /\ Len(pieces) < QueueSize
    /\ LET wanted == Len(limiter.value)
           tokens == Replenished(limiter)
           passed == IF setup.limit = 0 THEN wanted ELSE Least(wanted, tokens)
       IN  /\ pieces' = Append(pieces, SubSeq(limiter.value, 1, passed))
           /\ limiter' = [value |-> SubSeq(limiter.value, passed + 1, wanted),
                          tokens |-> IF setup.limit = 0 THEN 0 ELSE tokens - passed,
                          lapse |-> 0, asleep |-> passed < wanted]
    /\ UNCHANGED <<setup, source, clock, chunking, chunks, start, parts, working, s3Vars,
                   endVars>>

\* A retry interval goes by.
Tick ==
    /\ Running
    /\ setup.limit > 0
    /\ source # <<>> \/ limiter.value # <<>>
    /\ limiter' = [limiter EXCEPT !.lapse = Least(@ + 1, PollsPerSecond), !.asleep = FALSE]
    /\ clock' = Least(clock + 1, LastTick(setup))
    /\ UNCHANGED <<setup, source, pieces, chunking, chunks, start, parts, working, s3Vars,
                   endVars>>

-----------------------------------------------------------------------------
(* ChunkingStage.                                                           *)

NextPiece ==
    /\ Running
    /\ chunking.value = <<>> /\ chunking.fifo.filled < ChunkSize
    /\ pieces # <<>>
    /\ chunking' = [chunking EXCEPT !.value = Head(pieces)]
    /\ pieces' = Tail(pieces)
    /\ UNCHANGED <<setup, limiterVars, chunks, start, parts, working, s3Vars, endVars>>

Chunk ==
    /\ Running
    /\ chunking.value # <<>> \/ chunking.fifo.filled >= ChunkSize
    /\ Len(chunks) < QueueSize
    /\ LET turn == ChunkingTurn(chunking.fifo, chunking.value, ChunkSize)
       IN  /\ chunking' = [chunking EXCEPT !.fifo = turn.fifo, !.value = turn.value]
           /\ chunks' = IF turn.chunk = <<>> THEN chunks ELSE Append(chunks, turn.chunk)
    /\ UNCHANGED <<setup, limiterVars, pieces, start, parts, working, s3Vars, endVars>>

\* on_done, when the stages before have ended.
ChunkRest ==
    /\ Running
    /\ ~chunking.done
    /\ source = <<>> /\ limiter.value = <<>> /\ pieces = <<>>
    /\ chunking.value = <<>> /\ chunking.fifo.filled < ChunkSize
    /\ Len(chunks) < QueueSize
    /\ chunking' = [chunking EXCEPT !.done = TRUE, !.fifo = AfterRead(@, @.filled)]
    /\ chunks' = IF chunking.fifo.filled = 0 THEN chunks
                 ELSE Append(chunks, Contents(chunking.fifo))
    /\ UNCHANGED <<setup, limiterVars, pieces, start, parts, working, s3Vars, endVars>>

-----------------------------------------------------------------------------
(* The multipart upload.                                                    *)

\* Only a full chunk starts a multipart upload.
StartUpload ==
    /\ Running
    /\ chunks # <<>> /\ Len(parts) < QueueSize
    /\ LET started == start.upload \/ Len(Head(chunks)) = ChunkSize
       IN  /\ start' = [upload |-> started, index |-> start.index + 1]
           /\ parts' = Append(parts, [data |-> Head(chunks), upload |-> started,
                                      index |-> start.index])
    /\ chunks' = Tail(chunks)
    /\ UNCHANGED <<setup, limiterVars, pieces, chunking, working, s3Vars, endVars>>

Take(w) ==
    /\ Running
    /\ working[w] = Idle /\ parts # <<>>
    /\ working' = [working EXCEPT ![w] = Head(parts)]
    /\ parts' = Tail(parts)
    /\ UNCHANGED <<setup, limiterVars, pieces, chunking, chunks, start, s3Vars, endVars>>

PartNumber(part) == part.index + 1

\* upload_part or upload_data; a retry after a lost answer puts the same again.
\* S3 takes no more than so many parts ...
PutPart(w) ==
    /\ Running
    /\ working[w] # Idle
    /\ LET part == working[w]
       IN  CASE part.upload /\ PartNumber(part) <= MaxChunkCount ->
                    /\ stored' = [number \in DOMAIN stored \union {PartNumber(part)} |->
                                   IF number = PartNumber(part) THEN part.data
                                   ELSE stored[number]]
                    /\ recorded' = Append(recorded, PartNumber(part))
                    /\ completing' = TRUE
                    /\ UNCHANGED <<object, upload>>
             [] part.upload /\ PartNumber(part) > MaxChunkCount ->
                    /\ upload' = "failed"
                    /\ UNCHANGED s3Vars
             [] ~part.upload ->
                    /\ object' = part.data
                    /\ UNCHANGED <<completing, recorded, stored, upload>>
    /\ working' = [working EXCEPT ![w] = Idle]
    /\ UNCHANGED <<setup, limiterVars, pieces, chunking, chunks, start, parts, local, faults>>

\* ... and the list of parts, which is sorted, only in ascending order.
PartList ==
    CHOOSE list \in [1..Len(recorded) -> ToSet(recorded)] :
        /\ ToSet(list) = ToSet(recorded)
        /\ \A i, j \in 1..Len(recorded) : i < j => list[i] <= list[j]

Ascending(list) == \A i \in 1..Len(list) - 1 : list[i] < list[i + 1]

Assembled == FlattenSeq([i \in DOMAIN PartList |-> stored[PartList[i]]])

AllTaken == chunking.done /\ chunks = <<>> /\ parts = <<>>

AllPut ==
    chunking.done /\ chunks = <<>> /\ parts = <<>> /\ \A w \in Workers : working[w] = Idle

\* on_done of CompleteMultipartUploadStage.
Complete ==
    /\ Running
    /\ AllPut
    /\ IF completing /\ ~Ascending(PartList)
       THEN upload' = "failed" /\ UNCHANGED object
       ELSE /\ object' = IF completing THEN Assembled ELSE object
            /\ upload' = IF setup.delete_after THEN "deleting" ELSE "done"
    /\ UNCHANGED <<setup, limiterVars, pieces, chunking, chunks, start, parts, working,
                   completing, recorded, stored, local, faults>>

\* on_done of DeleteFilesStage, file by file.
DeleteLocal ==
    /\ upload = "deleting"
    /\ \E i \in local :
        /\ \A j \in local : i <= j
        /\ local' = local \ {i}
        /\ upload' = IF local = {i} THEN "done" ELSE upload
    /\ UNCHANGED <<setup, limiterVars, pieces, chunking, chunks, start, parts, working, s3Vars,
                   faults>>

\* A stage raises, or an operation has failed more often than it is retried.
UploadFails ==
    /\ upload \in {"running", "deleting"}
    /\ faults < MaxFaults
    /\ faults' = faults + 1
    /\ upload' = "failed"
    /\ UNCHANGED <<setup, limiterVars, pieces, chunking, chunks, start, parts, working, s3Vars,
                   local>>

\* The last answers get lost: the retries find no such upload.
CompleteUnanswered ==
    /\ Running
    /\ AllPut /\ completing /\ Ascending(PartList)
    /\ faults < MaxFaults
    /\ faults' = faults + 1
    /\ object' = Assembled
    /\ upload' = "failed"
    /\ UNCHANGED <<setup, limiterVars, pieces, chunking, chunks, start, parts, working,
                   completing, recorded, stored, local>>

UploadStep ==
    \/ NextValue \/ Limit \/ NextPiece \/ Chunk \/ ChunkRest \/ StartUpload
    \/ \E w \in Workers : Take(w) \/ PutPart(w)
    \/ Complete \/ DeleteLocal
=============================================================================
