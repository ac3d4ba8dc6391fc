----------------------------- MODULE TarStream -----------------------------
(***************************************************************************)
(* Streams of cells between a file and an object: how the pipelines cut    *)
(* them into chunks, archive and encrypt them, estimate their size, and    *)
(* turn them back into files.  A stage with one worker is a function of    *)
(* the values it is given.                                                 *)
(*                                                                         *)
(* A file is [name, length, size]: length is that of its path in the tar.  *)
(* A cell is a byte, but for the first of a header, which holds what the   *)
(* 512 bytes of the header tell.                                           *)
(***************************************************************************)
EXTENDS BytesFIFO, SequencesExt

CONSTANTS BlockSize, LengthName, MetaSize,
    Names  \* of files

ASSUME BlockAssumption == {BlockSize, LengthName, MetaSize} \subseteq Nat \ {0}

CellKinds == {"data", "path", "longname", "header", "rest", "nul", "box"}

Cells == [kind : CellKinds, of : Names \union {"none"}, at : Nat]

Cell(kind, of, at) == [kind |-> kind, of |-> of, at |-> at]

Nul == Cell("nul", "none", 0)

Ceiling(a, b) == (a + b - 1) \div b

-----------------------------------------------------------------------------
(* Reading.                                                                 *)

Content(file) == [i \in 1..file.size |-> Cell("data", file.name, i)]

ReadByChunks(content, n) ==
    [k \in 1..Ceiling(Len(content), n) |->
        SubSeq(content, (k - 1) * n + 1, Least(k * n, Len(content)))]

Padding(size) ==
    IF size % BlockSize = 0 THEN <<>> ELSE [i \in 1..(BlockSize - (size % BlockSize)) |-> Nul]

Path(file) == [i \in 1..file.length |-> Cell("path", file.name, i)]

Block(kind, path, size) ==
    <<Cell(kind, path[1].of, size)>> \o [i \in 1..BlockSize - 1 |-> Cell("rest", "none", i)]

\* GNU format: a path that does not fit is a file of its own before the header.
Header(file) ==
    (IF file.length > LengthName
     THEN Block("longname", Path(file), file.length + 1)
          \o Path(file) \o <<Nul>> \o Padding(file.length + 1)
     ELSE <<>>)
    \o Block("header", Path(file), file.size)

ReadTarball(files, n) ==
    FlattenSeq([i \in DOMAIN files |->
        <<Header(files[i])>> \o ReadByChunks(Content(files[i]), n)
        \o (IF files[i].size % BlockSize = 0 THEN <<>> ELSE <<Padding(files[i].size)>>)])

-----------------------------------------------------------------------------
(* The stages in between.                                                   *)

\* ChunkingStage from its first value to its end: the stream it is given, in
\* chunks of one size (ChunkingKeepsStream in ObjectTransferProofs).
Chunked(values, n) == ReadByChunks(FlattenSeq(values), n)

\* A box is authenticated: only the whole of what was encrypted can be opened.
Encrypt(data) == [i \in 1..MetaSize |-> Cell("box", "none", Len(data))] \o data

CanDecrypt(box) == Len(box) > MetaSize /\ box[1] = Cell("box", "none", Len(box) - MetaSize)

Decrypt(box) == SubSeq(box, MetaSize + 1, Len(box))

-----------------------------------------------------------------------------
(* Estimated sizes.                                                         *)

Total(sizes) ==
    LET total[i \in 0..Len(sizes)] == IF i = 0 THEN 0 ELSE total[i - 1] + sizes[i]
    IN  total[Len(sizes)]

CalcAlignedSize(files) ==
    Total([i \in DOMAIN files |-> files[i].size + Len(Padding(files[i].size))])

HeaderSize(file) ==
    BlockSize * (IF file.length <= LengthName THEN 1 ELSE Ceiling(file.length, BlockSize) + 2)

CalcTarballSize(files) ==
    CalcAlignedSize(files) + Total([i \in DOMAIN files |-> HeaderSize(files[i])])

CalcEncryptedSize(size, chunk_size) == size + Ceiling(size, chunk_size) * MetaSize

-----------------------------------------------------------------------------
(* Unpacking: the state machine fed with one chunk after another. A turn   *)
(* is one action of the loop in __call__.                                   *)

NewUnpacking(buffer_size) ==
    [fifo |-> NewFIFO(buffer_size), state |-> "READ_HEADER", left |-> 0, size |-> 0, name |-> <<>>,
     data |-> <<>>, open |-> FALSE, files |-> <<>>, more |-> FALSE, ok |-> TRUE]

\* WriteFilesStage closes the file; UnpackTarballStage (in_memory) drops it when
\* it is empty.
CompleteFile(u, in_memory) ==
    [u EXCEPT !.files = IF u.open /\ ~(in_memory /\ u.data = <<>>)
                        THEN Append(@, [path |-> u.name, data |-> u.data]) ELSE @,
              !.open = FALSE, !.data = <<>>,
              !.name = IF u.open THEN <<>> ELSE @]

ReadHeader(u0, in_memory) ==
    LET u == CompleteFile(u0, in_memory)
        info == ReadData(u.fifo, 1)[1]
    IN  IF u.fifo.filled < BlockSize THEN [u EXCEPT !.more = FALSE]
        ELSE [u EXCEPT !.fifo = AfterRead(@, BlockSize),
                       !.left = info.at, !.size = info.at,
                       !.state = IF info.kind = "longname" THEN "READ_LONG_NAME" ELSE "READ_DATA",
                       !.open = info.kind # "longname",
                       !.ok = @ /\ info.kind \in {"header", "longname"},
                       !.name = IF info.kind = "longname" THEN <<>>
                                ELSE IF u.name # <<>> THEN Front(u.name)
                                ELSE <<Cell("path", info.of, 1)>>]

\* READ_LONG_NAME, READ_DATA and SKIP_BYTES consume what they can.
Consume(u) ==
    LET got == ReadData(u.fifo, u.left)
        v == [u EXCEPT !.fifo = AfterRead(@, u.left), !.left = @ - Len(got),
                       !.more = Len(got) = u.left]
        skip == [v EXCEPT !.state = IF v.more THEN "SKIP_BYTES" ELSE @,
                          !.left = IF v.more THEN Len(Padding(u.size)) ELSE @]
    IN  CASE u.state = "READ_LONG_NAME" -> [skip EXCEPT !.name = @ \o got]
          [] u.state = "READ_DATA" -> [skip EXCEPT !.data = @ \o got]
          [] u.state = "SKIP_BYTES" ->
                [v EXCEPT !.state = IF v.more THEN "READ_HEADER" ELSE @,
                          !.ok = @ /\ \A i \in DOMAIN got : got[i] = Nul]

UnpackTurn(u, in_memory) ==
    IF u.state = "READ_HEADER" THEN ReadHeader(u, in_memory) ELSE Consume(u)

\* A chunk that does not fit is an error.
Accept(u, data) ==
    [u EXCEPT !.ok = Len(data) <= Free(u.fifo), !.fifo = AfterWrite(@, data), !.more = TRUE]
=============================================================================
