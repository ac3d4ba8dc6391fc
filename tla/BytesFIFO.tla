----------------------------- MODULE BytesFIFO -----------------------------
(***************************************************************************)
(* The circular buffer of the pipeline stages (bytes_fifo.py): a record of *)
(* its cells, its size, the number of cells filled and the two pointers.   *)
(* A pointer that has reached the end of the buffer stays there until the  *)
(* next call wraps it.                                                     *)
(***************************************************************************)
EXTENDS Naturals, Sequences

\* What a cell holds before anything is written to it.
CONSTANT Unwritten

Least(a, b) == IF a <= b THEN a ELSE b

\* BytesFIFO.__init__
NewFIFO(size) ==
    [cells |-> [i \in 0..size - 1 |-> Unwritten], size |-> size, filled |-> 0,
     read |-> 0, write |-> 0]

Free(f) == f.size - f.filled

\* How many cells of d fit, and where the pointer is after n cells more.
Written(f, d) == Least(Len(d), Free(f))

Moved(f, pointer, n) ==
    IF f.size - pointer < n THEN n - (f.size - pointer) ELSE pointer + n

\* write: the first cells go from the pointer to the end, the others to the
\* beginning of the buffer.
AfterWrite(f, d) ==
    LET n == Written(f, d)
        first == Least(f.size - f.write, n)
    IN  [f EXCEPT !.cells = [i \in 0..f.size - 1 |->
                        IF i >= f.write /\ i < f.write + first THEN d[i - f.write + 1]
                        ELSE IF i < n - first THEN d[first + i + 1]
                        ELSE f.cells[i]],
                  !.write = IF n = 0 THEN f.write ELSE Moved(f, f.write, n),
                  !.filled = f.filled + n]

\* read: the first cells up to the end, the others from the beginning.
ReadData(f, size) ==
    LET n == Least(size, f.filled)
        first == Least(f.size - f.read, n)
    IN  [i \in 1..n |-> IF i <= first THEN f.cells[f.read + i - 1] ELSE f.cells[i - first - 1]]

AfterRead(f, size) ==
    LET n == Least(size, f.filled)
    IN  [f EXCEPT !.read = Moved(f, f.read, n), !.filled = f.filled - n]

\* The cells still to be read, in their order.
Contents(f) == ReadData(f, f.filled)

\* The buffers of n cells.
Buffers(S, n) == [cells : [0..n - 1 -> S], size : {n}, filled : 0..n, read : 0..n, write : 0..n]

\* The write pointer is where the cells still to be read end.
WellFormed(f) == f.write = f.read + f.filled \/ f.write + f.size = f.read + f.filled

-----------------------------------------------------------------------------
(* ChunkingStage: what it has buffered and what is left of the value it is  *)
(* given.                                                                   *)

\* One turn of the outer loop writes what fits, one of the inner loop yields a
\* chunk.
Absorb(f, value) ==
    [fifo |-> AfterWrite(f, value), value |-> SubSeq(value, Written(f, value) + 1, Len(value)),
     chunk |-> <<>>]

Yield(f, value, chunk_size) ==
    [fifo |-> AfterRead(f, chunk_size), value |-> value, chunk |-> ReadData(f, chunk_size)]

ChunkingTurn(f, value, chunk_size) ==
    IF f.filled >= chunk_size THEN Yield(f, value, chunk_size) ELSE Absorb(f, value)
=============================================================================
