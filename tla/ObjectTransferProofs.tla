------------------------ MODULE ObjectTransferProofs ------------------------
(***************************************************************************)
(* What holds of transfers for all uploads, chunk and queue sizes, numbers *)
(* of workers and faults: the circular buffer is a queue, the object is    *)
(* never torn, local files are deleted only when it is whole, S3 takes all *)
(* the parts, and the rate is kept.                                        *)
(***************************************************************************)
EXTENDS ObjectTransfer, TLAPS, SequenceTheorems, FiniteSetTheorems, WellFoundedInduction

-----------------------------------------------------------------------------
(* Where a cell of the queue lies in a buffer of n cells.                   *)

Place(n, read, i) == IF i <= n - read THEN read + i - 1 ELSE i - (n - read) - 1

Pointers(n, read, write, filled) ==
    /\ n \in Nat /\ filled \in 0..n /\ read \in 0..n /\ write \in 0..n
    /\ write = read + filled \/ write + n = read + filled

\* How much of w cells goes to the end of the buffer.
First(n, pointer, w) == IF n - pointer <= w THEN n - pointer ELSE w

After(n, pointer, w) == IF n - pointer < w THEN w - (n - pointer) ELSE pointer + w

\* What write() takes from its argument for a place between pointer and end.
LEMMA TakenInside ==
    ASSUME NEW write \in Nat, NEW first \in Nat, NEW w \in Nat, NEW len \in Nat, first <= w,
             w <= len,
           NEW i \in Nat, i >= write, i < write + first
    PROVE  i - write + 1 \in 1..len
OBVIOUS

\* Where read() finds the i-th cell it returns.
LEMMA FoundInside ==
    ASSUME NEW n \in Nat, NEW read \in 0..n, NEW filled \in 0..n, NEW first \in 0..filled,
           first <= n - read, first = filled \/ first = n - read, NEW i \in 1..filled
    PROVE  IF i <= first THEN read + i - 1 \in 0..n - 1 ELSE i - first - 1 \in 0..n - 1
OBVIOUS

\* A cell of the queue lies in the buffer.
LEMMA PlaceInside ==
    ASSUME NEW n, NEW read, NEW write, NEW filled, Pointers(n, read, write, filled),
           NEW i \in 1..filled
    PROVE  Place(n, read, i) \in 0..n - 1
BY DEF Pointers, Place

\* Nothing is written over a cell still to be read ...
LEMMA PlaceKept ==
    ASSUME NEW n, NEW read, NEW write, NEW filled, Pointers(n, read, write, filled),
           NEW w \in 0..(n - filled), NEW i \in 1..filled
    PROVE  LET first == First(n, write, w)  place == Place(n, read, i)
           IN  ~(place >= write /\ place < write + first) /\ ~(place < w - first)
BY DEF Pointers, Place, First

\* ... and every cell written lies where it is to be read.
LEMMA PlaceWritten ==
    ASSUME NEW n, NEW read, NEW write, NEW filled, Pointers(n, read, write, filled),
           NEW w \in 0..(n - filled), NEW i \in 1..w
    PROVE  LET first == First(n, write, w)  place == Place(n, read, filled + i)
           IN  \/ place >= write /\ place < write + first /\ place - write + 1 = i
               \/ ~(place >= write /\ place < write + first) /\ place < w - first
                    /\ first + place + 1 = i
BY DEF Pointers, Place, First

\* After a read the pointers are right and the places shift.
LEMMA PlaceRead ==
    ASSUME NEW n, NEW read, NEW write, NEW filled, Pointers(n, read, write, filled),
           NEW k \in 0..filled
    PROVE  /\ Pointers(n, After(n, read, k), write, filled - k)
           /\ \A i \in 1..filled - k : Place(n, After(n, read, k), i) = Place(n, read, k + i)
BY DEF Pointers, Place, After

\* After a write the pointers are right.
LEMMA PointersAfterWrite ==
    ASSUME NEW n, NEW read, NEW write, NEW filled, Pointers(n, read, write, filled),
           NEW w \in 0..(n - filled)
    PROVE  Pointers(n, read, After(n, write, w), filled + w)
BY DEF Pointers, After

-----------------------------------------------------------------------------
(* Writing, reading and cutting into chunks.                                *)

\* Concatenation under a name of its own: the provers expand \o.
Cat(a, b) == a \o b

\* A sequence whose cells are those of a and then those of b.
LEMMA IsConcatenation ==
    ASSUME NEW S, NEW a \in Seq(S), NEW b \in Seq(S), NEW c \in Seq(S), Len(c) = Len(a) + Len(b),
           \A i \in 1..Len(a) : c[i] = a[i], \A i \in 1..Len(b) : c[Len(a) + i] = b[i]
    PROVE  a \o b = c
<1>1. \A i \in 1..Len(c) : (a \o b)[i] = c[i]
  <2>1. ASSUME NEW i \in 1..Len(c)
        PROVE  (a \o b)[i] = IF i <= Len(a) THEN a[i] ELSE b[i - Len(a)]
    OBVIOUS
  <2>2. ASSUME NEW i \in 1..Len(c), i > Len(a)
        PROVE  i - Len(a) \in 1..Len(b) /\ c[i] = b[i - Len(a)]
    BY <2>2, i - Len(a) \in 1..Len(b)
  <2> QED BY <2>1, <2>2
<1>2. a \o b \in Seq(S) /\ Len(a \o b) = Len(c)
  OBVIOUS
<1> QED BY <1>1, <1>2

\* A sequence is its first cells and the others.
LEMMA CutInTwo ==
    ASSUME NEW S, NEW a \in Seq(S), NEW b \in Seq(S), NEW w \in 0..Len(b)
    PROVE  <<>> \o (a \o SubSeq(b, 1, w)) \o SubSeq(b, w + 1, Len(b)) = a \o b
<1> DEFINE head == SubSeq(b, 1, w)
           tail == SubSeq(b, w + 1, Len(b))
<1>1. /\ head \in Seq(S) /\ Len(head) = w /\ \A i \in 1..w : head[i] = b[i]
      /\ tail \in Seq(S) /\ Len(tail) = Len(b) - w /\ \A i \in 1..Len(b) - w : tail[i] = b[w + i]
  OBVIOUS
<1> HIDE DEF head, tail
<1>2. head \o tail = b
  <2>1. Len(b) = Len(head) + Len(tail)
    BY <1>1
  <2>2. \A i \in 1..Len(head) : b[i] = head[i]
    BY <1>1
  <2>3. \A i \in 1..Len(tail) : b[Len(head) + i] = tail[i]
    BY <1>1
  <2> QED BY <1>1, <2>1, <2>2, <2>3, IsConcatenation
<1>3. <<>> \o (a \o head) \o tail = a \o (head \o tail)
  BY <1>1
<1> QED BY <1>2, <1>3 DEF head, tail

\* The cell at a place of the queue that the buffer holds.
LEMMA ContentsAt ==
    ASSUME NEW S, NEW n \in Nat, NEW f \in Buffers(S, n), WellFormed(f)
    PROVE  /\ Contents(f) \in Seq(S)
           /\ Len(Contents(f)) = f.filled
           /\ \A i \in 1..f.filled :
                 Contents(f)[i] = f.cells[Place(n, f.read, i)]
           /\ Pointers(n, f.read, f.write, f.filled)
<1> DEFINE first == IF n - f.read <= f.filled THEN n - f.read ELSE f.filled
           at(i) == IF i <= first THEN f.cells[f.read + i - 1] ELSE f.cells[i - first - 1]
<1>1. /\ f.cells \in [0..n - 1 -> S] /\ f.size = n
      /\ f.filled \in 0..n /\ f.read \in 0..n /\ f.write \in 0..n
  BY DEF Buffers
<1>2. Contents(f) = [i \in 1..f.filled |-> at(i)]
  BY <1>1 DEF Contents, ReadData, Least
<1>3. ASSUME NEW i \in 1..f.filled
      PROVE  at(i) \in S
  <2>1. first \in 0..f.filled /\ first <= n - f.read /\ (first = f.filled \/ first = n - f.read)
    BY <1>1
  <2>2. IF i <= first THEN f.read + i - 1 \in 0..n - 1 ELSE i - first - 1 \in 0..n - 1
    BY <1>1, <2>1, FoundInside
  <2> HIDE DEF first
  <2> QED BY <1>1, <2>2
<1>4. ASSUME NEW i \in 1..f.filled
      PROVE  at(i) = f.cells[Place(n, f.read, i)]
  <2>1. i <= first <=> i <= n - f.read
    BY <1>1
  <2>2. i > n - f.read => first = n - f.read
    BY <1>1
  <2> QED BY <2>1, <2>2 DEF Place
<1>5. Pointers(n, f.read, f.write, f.filled)
  BY <1>1 DEF Pointers, WellFormed
<1> HIDE DEF at
<1> QED BY <1>1, <1>2, <1>3, <1>4, <1>5

\* write() takes what fits and appends it to what the buffer holds.
THEOREM WriteAppends ==
    ASSUME NEW S, NEW n \in Nat, NEW f \in Buffers(S, n), WellFormed(f), NEW d \in Seq(S)
    PROVE  /\ AfterWrite(f, d) \in Buffers(S, n) /\ WellFormed(AfterWrite(f, d))
           /\ Contents(AfterWrite(f, d)) = Contents(f) \o SubSeq(d, 1, Written(f, d))
<1> DEFINE w == Written(f, d)
           g == AfterWrite(f, d)
           first == Least(n - f.write, w)
           cell(i) == IF i >= f.write /\ i < f.write + first THEN d[i - f.write + 1]
                      ELSE IF i < w - first THEN d[first + i + 1]
                      ELSE f.cells[i]
<1>1. /\ f.cells \in [0..n - 1 -> S] /\ f.size = n
      /\ f.filled \in 0..n /\ f.read \in 0..n /\ f.write \in 0..n
  BY DEF Buffers
<1>2. w \in 0..(n - f.filled) /\ w <= Len(d) /\ Len(d) \in Nat
  BY <1>1 DEF Written, Free, Least
<1>3. first \in 0..w /\ first <= n - f.write /\ (first = w \/ first = n - f.write)
  BY <1>1, <1>2 DEF Least
<1>4. /\ g.cells = [i \in 0..n - 1 |-> cell(i)] /\ g.size = n
      /\ g.filled = f.filled + w /\ g.read = f.read /\ g.write = After(n, f.write, w)
      /\ g = [cells |-> g.cells, size |-> g.size, filled |-> g.filled, read |-> g.read,
           write |-> g.write]
  <2> DEFINE cells == [i \in 0..n - 1 |-> cell(i)]
             write == IF w = 0 THEN f.write ELSE Moved(f, f.write, w)
  <2>1. f = [cells |-> f.cells, size |-> f.size, filled |-> f.filled, read |-> f.read,
          write |-> f.write]
    BY DEF Buffers
  <2>2. g = [f EXCEPT !.cells = cells, !.write = write, !.filled = f.filled + w]
    BY <1>1 DEF AfterWrite
  <2>3. write = After(n, f.write, w)
    BY <1>1, <1>2 DEF Moved, After
  <2> HIDE DEF g, w, cells, write
  <2>4. g = [cells |-> cells, size |-> f.size, filled |-> f.filled + w, read |-> f.read,
          write |-> write]
    BY <2>1, <2>2
  <2> QED BY <1>1, <2>3, <2>4 DEF cells
<1> HIDE DEF w, g, first
<1>5. ASSUME NEW i \in 0..n - 1
      PROVE  cell(i) \in S
  <2>1. CASE i >= f.write /\ i < f.write + first
    <3>1. i - f.write + 1 \in 1..Len(d)
      <4>1. /\ f.write \in Nat /\ first \in Nat /\ w \in Nat /\ Len(d) \in Nat /\ i \in Nat
            /\ first <= w /\ w <= Len(d)
        BY <1>1, <1>2, <1>3
      <4> QED BY <2>1, <4>1, TakenInside
    <3> QED BY <2>1, <3>1
  <2>2. CASE ~(i >= f.write /\ i < f.write + first) /\ i < w - first
    <3>1. first + i + 1 \in 1..Len(d)
      BY <1>1, <1>2, <1>3, <2>2
    <3> QED BY <2>2, <3>1
  <2> QED BY <1>1, <2>1, <2>2
<1>6. Pointers(n, f.read, f.write, f.filled) /\ Pointers(n, g.read, g.write, g.filled)
  BY <1>2, <1>4, ContentsAt, PointersAfterWrite
<1>7. g \in Buffers(S, n)
  BY <1>1, <1>4, <1>5, <1>6 DEF Buffers, Pointers
<1>8. WellFormed(g)
  BY <1>4, <1>6 DEF WellFormed, Pointers
<1>9. first = First(n, f.write, w)
  BY <1>1, <1>2 DEF first, First, Least
<1>10. /\ Contents(g) \in Seq(S) /\ Len(Contents(g)) = f.filled + w
       /\ \A i \in 1..(f.filled + w) : Contents(g)[i] = g.cells[Place(n, f.read, i)]
  <2>1. g.filled = f.filled + w /\ g.read = f.read
    BY <1>4
  <2>2. /\ Contents(g) \in Seq(S) /\ Len(Contents(g)) = g.filled
        /\ \A i \in 1..g.filled : Contents(g)[i] = g.cells[Place(n, g.read, i)]
    BY <1>7, <1>8, ContentsAt
  <2> QED BY <2>1, <2>2
<1>11. Contents(g) = Contents(f) \o SubSeq(d, 1, w)
  <2>1. /\ Contents(f) \in Seq(S) /\ Len(Contents(f)) = f.filled
        /\ SubSeq(d, 1, w) \in Seq(S) /\ Len(SubSeq(d, 1, w)) = w
        /\ \A i \in 1..w : SubSeq(d, 1, w)[i] = d[i]
    BY <1>2, ContentsAt
  <2>2. ASSUME NEW i \in 1..f.filled
        PROVE  Contents(g)[i] = Contents(f)[i]
    <3> DEFINE place == Place(n, f.read, i)
    <3>1. place \in 0..n - 1
      BY <1>6, PlaceInside
    <3>2. i \in 1..(f.filled + w)
      BY <1>1, <1>2
    <3>3. Contents(f)[i] = f.cells[place]
      BY ContentsAt
    <3>4. Contents(g)[i] = g.cells[place]
      BY <1>10, <3>2
    <3>5. ~(place >= f.write /\ place < f.write + first) /\ ~(place < w - first)
      BY <1>2, <1>6, <1>9, PlaceKept
    <3> HIDE DEF place
    <3> QED BY <1>4, <3>1, <3>3, <3>4, <3>5
  <2>3. ASSUME NEW i \in 1..w
        PROVE  Contents(g)[f.filled + i] = d[i]
    <3> DEFINE place == Place(n, f.read, f.filled + i)
    <3>1. f.filled + i \in 1..(f.filled + w)
      BY <1>1, <1>2
    <3>2. place \in 0..n - 1
      BY <1>4, <1>6, <3>1, PlaceInside
    <3>3. Contents(g)[f.filled + i] = g.cells[place]
      BY <1>10, <3>1
    <3>4. \/ place >= f.write /\ place < f.write + first /\ place - f.write + 1 = i
          \/ ~(place >= f.write /\ place < f.write + first) /\ place < w - first
               /\ first + place + 1 = i
      BY <1>2, <1>6, <1>9, PlaceWritten
    <3> HIDE DEF place
    <3> QED BY <1>4, <3>2, <3>3, <3>4
  <2> DEFINE a == Contents(f)  b == SubSeq(d, 1, w)  c == Contents(g)
  <2>4. /\ a \in Seq(S) /\ b \in Seq(S) /\ c \in Seq(S) /\ Len(c) = Len(a) + Len(b)
        /\ \A i \in 1..Len(a) : c[i] = a[i]
        /\ \A i \in 1..Len(b) : c[Len(a) + i] = b[i]
    BY <1>10, <2>1, <2>2, <2>3
  <2> HIDE DEF a, b, c
  <2>5. a \o b = c
    BY <2>4, IsConcatenation
  <2> QED BY <2>5 DEF a, b, c
<1> QED BY <1>7, <1>8, <1>11 DEF g, w

\* read() takes from the front of what the buffer holds.
THEOREM ReadTakes ==
    ASSUME NEW S, NEW n \in Nat, NEW f \in Buffers(S, n), WellFormed(f), NEW size \in Nat
    PROVE  /\ AfterRead(f, size) \in Buffers(S, n) /\ WellFormed(AfterRead(f, size))
           /\ ReadData(f, size) \in Seq(S) /\ Len(ReadData(f, size)) = Least(size, f.filled)
           /\ ReadData(f, size) \o Contents(AfterRead(f, size)) = Contents(f)
<1> DEFINE k == Least(size, f.filled)
           g == AfterRead(f, size)
           first == Least(n - f.read, k)
<1>1. /\ f.cells \in [0..n - 1 -> S] /\ f.size = n
      /\ f.filled \in 0..n /\ f.read \in 0..n /\ f.write \in 0..n
  BY DEF Buffers
<1>2. k \in 0..f.filled
  BY <1>1 DEF Least
<1>3. first \in 0..k /\ first <= n - f.read /\ (first = k \/ first = n - f.read)
  BY <1>1, <1>2 DEF Least
<1>4. /\ g.cells = f.cells /\ g.size = n /\ g.write = f.write /\ g.filled = f.filled - k
      /\ g.read = After(n, f.read, k)
      /\ g = [cells |-> g.cells, size |-> g.size, filled |-> g.filled, read |-> g.read,
           write |-> g.write]
  <2>1. f = [cells |-> f.cells, size |-> f.size, filled |-> f.filled, read |-> f.read,
          write |-> f.write]
    BY DEF Buffers
  <2>2. g = [f EXCEPT !.read = Moved(f, f.read, k), !.filled = f.filled - k]
    BY DEF AfterRead
  <2>3. Moved(f, f.read, k) = After(n, f.read, k)
    BY <1>1 DEF Moved, After
  <2> HIDE DEF g, k
  <2> QED BY <1>1, <2>1, <2>2, <2>3
<1>5. ReadData(f, size) = [i \in 1..k |-> IF i <= first THEN f.cells[f.read + i - 1]
                                                         ELSE f.cells[i - first - 1]]
  BY <1>1 DEF ReadData
<1> HIDE DEF k, g, first
<1>6. Pointers(n, f.read, f.write, f.filled)
  BY ContentsAt
<1>7. g \in Buffers(S, n) /\ WellFormed(g)
  <2>1. Pointers(n, g.read, f.write, f.filled - k)
    BY <1>2, <1>4, <1>6, PlaceRead
  <2>2. g.read \in 0..n /\ g.filled \in 0..n
    BY <1>4, <2>1 DEF Pointers
  <2>3. g \in Buffers(S, n)
    BY <1>1, <1>4, <2>2 DEF Buffers
  <2> QED BY <1>4, <2>1, <2>3 DEF WellFormed, Pointers
<1>8. ASSUME NEW i \in 1..k
      PROVE  ReadData(f, size)[i] = Contents(f)[i] /\ ReadData(f, size)[i] \in S
  <2>1. i \in 1..f.filled /\ (i <= first <=> i <= n - f.read)
    BY <1>1, <1>2, <1>3
  <2>2. Contents(f)[i] = IF i <= n - f.read THEN f.cells[f.read + i - 1]
                                            ELSE f.cells[i - (n - f.read) - 1]
    BY <2>1, ContentsAt DEF Place
  <2>3. first = n - f.read \/ i <= first
    BY <1>3
  <2>4. ReadData(f, size)[i] = Contents(f)[i]
    BY <1>1, <1>2, <1>3, <1>5, <2>1, <2>2, <2>3
  <2>5. Contents(f) \in Seq(S) /\ Len(Contents(f)) = f.filled
    BY ContentsAt
  <2> QED BY <2>1, <2>4, <2>5
<1>9. ReadData(f, size) \in Seq(S) /\ Len(ReadData(f, size)) = k
  BY <1>2, <1>5, <1>8
<1>10. ASSUME NEW i \in 1..(f.filled - k)
       PROVE  Contents(g)[i] = Contents(f)[k + i]
  <2>1. i \in 1..g.filled /\ k + i \in 1..f.filled
    BY <1>1, <1>2, <1>4
  <2>2. Contents(g)[i] = f.cells[Place(n, g.read, i)]
    BY <1>4, <1>7, <2>1, ContentsAt
  <2>3. Contents(f)[k + i] = f.cells[Place(n, f.read, k + i)]
    BY <2>1, ContentsAt
  <2>4. Place(n, g.read, i) = Place(n, f.read, k + i)
    BY <1>2, <1>4, <1>6, PlaceRead
  <2> QED BY <2>2, <2>3, <2>4
<1>11. ReadData(f, size) \o Contents(g) = Contents(f)
  <2>1. /\ Contents(g) \in Seq(S) /\ Len(Contents(g)) = f.filled - k
        /\ Contents(f) \in Seq(S) /\ Len(Contents(f)) = f.filled
    BY <1>4, <1>7, ContentsAt
  <2>2. \A i \in 1..k : Contents(f)[i] = ReadData(f, size)[i]
    BY <1>8
  <2>3. \A i \in 1..f.filled - k : Contents(f)[k + i] = Contents(g)[i]
    BY <1>10
  <2>4. f.filled = k + (f.filled - k)
    BY <1>1, <1>2
  <2> DEFINE read == ReadData(f, size)
             left == Contents(g)
             all == Contents(f)
  <2>5. read \in Seq(S) /\ Len(read) = k
    BY <1>9
  <2>6. left \in Seq(S) /\ all \in Seq(S) /\ Len(all) = Len(read) + Len(left)
    BY <2>1, <2>4, <2>5
  <2>7. \A i \in 1..Len(read) : all[i] = read[i]
    BY <2>2, <2>5
  <2>8. \A i \in 1..Len(left) : all[Len(read) + i] = left[i]
    BY <2>1, <2>3, <2>5
  <2> HIDE DEF read, left, all
  <2>9. read \o left = all
    BY <2>5, <2>6, <2>7, <2>8, IsConcatenation
  <2> QED BY <2>9 DEF read, left, all
<1> QED BY <1>7, <1>9, <1>11 DEF g, k

\* A turn of ChunkingStage.__call__ yields nothing or a chunk of the size asked
\* for, and what it yields, buffers and has left is the stream it was given.
THEOREM ChunkingKeepsStream ==
    ASSUME NEW S, NEW n \in Nat, NEW f \in Buffers(S, n), WellFormed(f), NEW value \in Seq(S),
           NEW chunk_size \in 1..n
    PROVE  LET turn == ChunkingTurn(f, value, chunk_size)
           IN  /\ turn.fifo \in Buffers(S, n) /\ WellFormed(turn.fifo)
               /\ turn.chunk \in Seq(S) /\ turn.value \in Seq(S)
               /\ Len(turn.chunk) \in {0, chunk_size}
               /\ Cat(Cat(turn.chunk, Contents(turn.fifo)), turn.value) = Cat(Contents(f), value)
<1> DEFINE turn == ChunkingTurn(f, value, chunk_size)
<1>1. CASE f.filled >= chunk_size
  <2>1. /\ turn.fifo = AfterRead(f, chunk_size) /\ turn.value = value
        /\ turn.chunk = ReadData(f, chunk_size)
    BY <1>1 DEF ChunkingTurn, Yield
  <2>2. Least(chunk_size, f.filled) = chunk_size
    BY <1>1 DEF Least, Buffers
  <2>3. chunk_size \in Nat
    OBVIOUS
  <2>4. /\ AfterRead(f, chunk_size) \in Buffers(S, n) /\ WellFormed(AfterRead(f, chunk_size))
        /\ ReadData(f, chunk_size) \in Seq(S)
        /\ Len(ReadData(f, chunk_size)) = Least(chunk_size, f.filled)
        /\ ReadData(f, chunk_size) \o Contents(AfterRead(f, chunk_size)) = Contents(f)
    BY <2>3, ReadTakes
  <2> HIDE DEF turn
  <2>5. Len(turn.chunk) \in {0, chunk_size}
    BY <2>1, <2>2, <2>4
  <2>6. Cat(Cat(turn.chunk, Contents(turn.fifo)), turn.value) = Cat(Contents(f), value)
    BY <2>1, <2>4 DEF Cat
  <2> QED BY <2>1, <2>4, <2>5, <2>6 DEF turn
<1>2. CASE ~(f.filled >= chunk_size)
  <2> DEFINE w == Written(f, value)
  <2>1. /\ turn.fifo = AfterWrite(f, value) /\ turn.chunk = <<>>
        /\ turn.value = SubSeq(value, w + 1, Len(value))
    BY <1>2 DEF ChunkingTurn, Absorb
  <2>2. w \in 0..Len(value)
    BY DEF Written, Free, Least, Buffers
  <2>3. /\ turn.fifo \in Buffers(S, n) /\ WellFormed(turn.fifo)
        /\ Contents(turn.fifo) = Contents(f) \o SubSeq(value, 1, w)
    BY <2>1, WriteAppends
  <2>4. Contents(f) \in Seq(S)
    BY ContentsAt
  <2> HIDE DEF w, turn
  <2>5. <<>> \o (Contents(f) \o SubSeq(value, 1, w)) \o SubSeq(value, w + 1, Len(value))
          = Contents(f) \o value
    BY <2>2, <2>4, CutInTwo
  <2>6. Len(turn.chunk) = 0
    BY <2>1
  <2>7. Cat(Cat(turn.chunk, Contents(turn.fifo)), turn.value) = Cat(Contents(f), value)
    BY <2>1, <2>3, <2>5 DEF Cat
  <2>8. turn.chunk \in Seq(S) /\ turn.value \in Seq(S)
    BY <2>1, <2>2
  <2> QED BY <2>3, <2>6, <2>7, <2>8 DEF turn
<1> QED BY <1>1, <1>2

-----------------------------------------------------------------------------
(* FlattenSeq, which joins the values of a stream.                          *)

LEMMA CatType ==
    ASSUME NEW S, NEW a \in Seq(S), NEW b \in Seq(S)
    PROVE  Cat(a, b) \in Seq(S) /\ Len(Cat(a, b)) = Len(a) + Len(b)
BY ConcatProperties DEF Cat

LEMMA CatAssociative ==
    ASSUME NEW S, NEW a \in Seq(S), NEW b \in Seq(S), NEW c \in Seq(S)
    PROVE  Cat(Cat(a, b), c) = Cat(a, Cat(b, c))
BY ConcatAssociative DEF Cat

LEMMA CatNothing ==
    ASSUME NEW S, NEW a \in Seq(S)
    PROVE  Cat(a, <<>>) = a /\ Cat(<<>>, a) = a
BY ConcatEmptySeq DEF Cat

\* A range, and the range after it.
LEMMA NextRange ==
    ASSUME NEW S, NEW v \in Seq(S), NEW p \in 0..Len(v), NEW q \in 0..Len(v), p <= q
    PROVE  /\ SubSeq(v, p + 1, q) \in Seq(S) /\ Len(SubSeq(v, p + 1, q)) = q - p
           /\ Cat(SubSeq(v, 1, p), SubSeq(v, p + 1, q)) = SubSeq(v, 1, q)
<1> DEFINE x == SubSeq(v, 1, p)
           y == SubSeq(v, p + 1, q)
           z == SubSeq(v, 1, q)
<1>1. /\ x \in Seq(S) /\ Len(x) = p /\ (\A i \in 1..p : x[i] = v[i])
      /\ y \in Seq(S) /\ Len(y) = q - p /\ (\A i \in 1..(q - p) : y[i] = v[p + i])
      /\ z \in Seq(S) /\ Len(z) = q /\ (\A i \in 1..q : z[i] = v[i])
  OBVIOUS
<1> HIDE DEF x, y, z
<1>2. Cat(x, y) = z
  <2>1. Len(z) = Len(x) + Len(y)
    BY <1>1
  <2>2. \A i \in 1..Len(x) : z[i] = x[i]
    BY <1>1
  <2>3. ASSUME NEW i \in 1..Len(y) PROVE z[Len(x) + i] = y[i]
    <3>1. i \in 1..(q - p) /\ p + i \in 1..q /\ Len(x) = p
      BY <1>1
    <3>2. z[p + i] = v[p + i] /\ y[i] = v[p + i]
      BY <1>1, <3>1
    <3> QED BY <3>1, <3>2
  <2> QED BY <1>1, <2>1, <2>2, <2>3, IsConcatenation DEF Cat
<1> QED BY <1>1, <1>2 DEF x, y, z

\* The sequence joined so far, after each of the values.
JoinStep(s, f, i) == IF i = 1 THEN s[i] ELSE f[i - 1] \o s[i]

\* The recursive function of FlattenSeq exists.
LEMMA StepsOfFlatten ==
    ASSUME NEW S, NEW s \in Seq(Seq(S)), s # <<>>
    PROVE  \E f : /\ FlattenSeq(s) = f[Len(s)]
                  /\ \A i \in 1..Len(s) : f[i] = JoinStep(s, f, i)
<1> DEFINE Good(f, n) == f = [i \in 1..n |-> JoinStep(s, f, i)]
           bad == {n \in Nat : ~\E f : Good(f, n)}
<1>1. bad = {}
  <2> SUFFICES ASSUME bad # {} PROVE FALSE
    OBVIOUS
  <2>1. PICK n \in bad : \A m \in bad : ~(<<m, n>> \in OpToRel(<, Nat))
    <3>1. bad \subseteq Nat
      OBVIOUS
    <3> HIDE DEF bad
    <3> QED BY <3>1, NatLessThanWellFounded, WFMin
  <2>2. n # 0
    <3> DEFINE f == [i \in 1..0 |-> 0]
    <3>1. [i \in 1..0 |-> JoinStep(s, f, i)] = f
      OBVIOUS
    <3>2. Good(f, 0)
      BY <3>1
    <3> QED BY <3>2
  <2>3. PICK f : Good(f, n - 1)
    <3>1. n - 1 \in Nat /\ n - 1 < n
      BY <2>2
    <3>2. n - 1 \notin bad
      BY <2>1, <3>1 DEF OpToRel
    <3> QED BY <3>1, <3>2
  <2> DEFINE g == [i \in 1..n |-> JoinStep(s, f, i)]
  <2>4. \A i \in 1..(n - 1) : g[i] = f[i]
    BY <2>2, <2>3
  <2>5. \A i \in 1..n : JoinStep(s, g, i) = JoinStep(s, f, i)
    <3>1. ASSUME NEW i \in 1..n, i # 1 PROVE g[i - 1] = f[i - 1]
      <4>1. i - 1 \in 1..(n - 1)
        BY <2>2, <3>1
      <4> QED BY <2>4, <4>1
    <3> HIDE DEF g
    <3> QED BY <3>1 DEF JoinStep
  <2>6. Good(g, n)
    BY <2>5
  <2> QED BY <2>6
<1>2. Len(s) \in Nat /\ Len(s) # 0
  OBVIOUS
<1>3. \E f : Good(f, Len(s))
  BY <1>1, <1>2
<1> DEFINE f == CHOOSE f : Good(f, Len(s))
<1>4. Good(f, Len(s))
  BY <1>3
<1>5. FlattenSeq(s) = f[Len(s)]
  BY <1>2 DEF FlattenSeq, JoinStep
<1> HIDE DEF f
<1>6. \A i \in 1..Len(s) : f[i] = JoinStep(s, f, i)
  BY <1>4
<1> QED BY <1>5, <1>6

\* g joins the values of s one after another.
Joins(g, s, S) ==
    /\ g \in [0..Len(s) -> Seq(S)] /\ g[0] = <<>>
    /\ \A i \in 1..Len(s) : g[i] = g[i - 1] \o s[i]

\* Joining one after another gives what FlattenSeq gives, ...
LEMMA FlattenIs ==
    ASSUME NEW S, NEW s \in Seq(Seq(S)), NEW g, Joins(g, s, S)
    PROVE  FlattenSeq(s) = g[Len(s)]
<1>1. CASE s = <<>>
  BY <1>1 DEF Joins, FlattenSeq
<1>2. CASE s # <<>>
  <2>1. PICK f : FlattenSeq(s) = f[Len(s)] /\ \A i \in 1..Len(s) : f[i] = JoinStep(s, f, i)
    BY <1>2, StepsOfFlatten
  <2> DEFINE bad == {n \in 1..Len(s) : f[n] # g[n]}
  <2>2. bad = {}
    <3> SUFFICES ASSUME bad # {} PROVE FALSE
      OBVIOUS
    <3>1. PICK n \in bad : \A m \in bad : ~(<<m, n>> \in OpToRel(<, Nat))
      <4>1. bad \subseteq Nat
        OBVIOUS
      <4> HIDE DEF bad
      <4> QED BY <4>1, NatLessThanWellFounded, WFMin
    <3>2. n \in 1..Len(s) /\ f[n] # g[n] /\ f[n] = JoinStep(s, f, n) /\ g[n] = g[n - 1] \o s[n]
      BY <2>1 DEF Joins
    <3>3. CASE n = 1
      <4>1. s[1] \in Seq(S) /\ g[0] = <<>>
        BY <1>2 DEF Joins
      <4>2. <<>> \o s[1] = s[1]
        BY <4>1
      <4>3. n - 1 = 0
        BY <3>3
      <4> QED BY <3>2, <3>3, <4>1, <4>2, <4>3 DEF JoinStep
    <3>4. CASE n # 1
      <4>1. n - 1 \in 1..Len(s) /\ n \in Nat /\ n - 1 \in Nat /\ n - 1 < n
        BY <3>2, <3>4
      <4>2. <<n - 1, n>> \in OpToRel(<, Nat)
        BY <4>1 DEF OpToRel
      <4>3. n - 1 \notin bad
        BY <3>1, <4>2
      <4>4. f[n - 1] = g[n - 1]
        BY <4>1, <4>3
      <4> QED BY <3>2, <3>4, <4>4 DEF JoinStep
    <3> QED BY <3>3, <3>4
  <2>3. Len(s) \in 1..Len(s)
    BY <1>2
  <2> QED BY <2>1, <2>2, <2>3
<1> QED BY <1>1, <1>2

\* ... and there is such a joining.
LEMMA Joining ==
    ASSUME NEW S, NEW s \in Seq(Seq(S))
    PROVE  \E g : Joins(g, s, S)
<1> DEFINE Good(g, n) == /\ g \in [0..n -> Seq(S)] /\ g[0] = <<>>
                         /\ \A i \in 1..n : g[i] = g[i - 1] \o s[i]
           bad == {n \in 0..Len(s) : ~\E g : Good(g, n)}
<1>1. bad = {}
  <2> SUFFICES ASSUME bad # {} PROVE FALSE
    OBVIOUS
  <2>1. PICK n \in bad : \A m \in bad : ~(<<m, n>> \in OpToRel(<, Nat))
    <3> HIDE DEF Good
    <3>1. bad \subseteq Nat
      <4>1. 0..Len(s) \subseteq Nat
        OBVIOUS
      <4> QED BY <4>1
    <3> HIDE DEF bad
    <3> QED BY <3>1, NatLessThanWellFounded, WFMin
  <2>2. n # 0
    <3>1. <<>> \in Seq(S)
      OBVIOUS
    <3>2. Good([i \in 0..0 |-> <<>>], 0)
      BY <3>1
    <3> QED BY <3>2
  <2>3. n \in 1..Len(s) /\ n - 1 \in 0..Len(s) /\ n - 1 < n /\ n \in Nat /\ n - 1 \in Nat
    BY <2>2
  <2>4. PICK g : Good(g, n - 1)
    <3>1. <<n - 1, n>> \in OpToRel(<, Nat)
      BY <2>3 DEF OpToRel
    <3>2. n - 1 \notin bad
      BY <2>1, <3>1
    <3> QED BY <2>3, <3>2
  <2> DEFINE h == [i \in 0..n |-> IF i = n THEN g[n - 1] \o s[n] ELSE g[i]]
  <2>5. h \in [0..n -> Seq(S)]
    <3>1. s[n] \in Seq(S) /\ g[n - 1] \in Seq(S)
      BY <2>3, <2>4
    <3>2. g[n - 1] \o s[n] \in Seq(S)
      BY <3>1
    <3>3. \A i \in 0..n : i # n => i \in 0..(n - 1)
      BY <2>3
    <3>4. \A i \in 0..n : i # n => g[i] \in Seq(S)
      BY <2>4, <3>3
    <3> QED BY <3>2, <3>4
  <2>6. h[0] = <<>>
    BY <2>2, <2>3, <2>4
  <2>7. ASSUME NEW i \in 1..n PROVE h[i] = h[i - 1] \o s[i]
    <3>1. i - 1 \in 0..n /\ i - 1 # n /\ h[i - 1] = g[i - 1]
      BY <2>3
    <3>2. CASE i = n
      <4>1. n \in 0..n
        BY <2>3
      <4>2. h[n] = g[n - 1] \o s[n]
        BY <4>1
      <4> HIDE DEF h
      <4> QED BY <3>1, <3>2, <4>2
    <3>3. CASE i # n
      <4>1. i \in 1..(n - 1) /\ h[i] = g[i]
        BY <2>3, <3>3
      <4> QED BY <2>4, <3>1, <4>1
    <3> QED BY <3>2, <3>3
  <2>8. Good(h, n)
    BY <2>5, <2>6, <2>7
  <2> HIDE DEF h
  <2> QED BY <2>8
<1>2. Len(s) \in 0..Len(s)
  OBVIOUS
<1>3. PICK g : Good(g, Len(s))
  BY <1>1, <1>2
<1> QED BY <1>3 DEF Joins

LEMMA FlattenNothing == FlattenSeq(<<>>) = <<>>
BY DEF FlattenSeq

LEMMA FlattenType ==
    ASSUME NEW S, NEW s \in Seq(Seq(S))
    PROVE  FlattenSeq(s) \in Seq(S)
<1>1. PICK g : Joins(g, s, S)
  BY Joining
<1>2. Len(s) \in 0..Len(s)
  OBVIOUS
<1>3. FlattenSeq(s) = g[Len(s)]
  BY <1>1, FlattenIs
<1> QED BY <1>1, <1>2, <1>3 DEF Joins

\* A value more at the end.
LEMMA FlattenAppend ==
    ASSUME NEW S, NEW s \in Seq(Seq(S)), NEW e \in Seq(S)
    PROVE  FlattenSeq(Append(s, e)) = FlattenSeq(s) \o e
<1> DEFINE t == Append(s, e)
           n == Len(s)
<1>1. /\ t \in Seq(Seq(S)) /\ Len(t) = n + 1 /\ n \in Nat
      /\ t[n + 1] = e /\ \A i \in 1..n : t[i] = s[i]
  OBVIOUS
<1>2. PICK g : Joins(g, s, S)
  BY Joining
<1>3. g[n] \in Seq(S) /\ FlattenSeq(s) = g[n]
  <2>1. n \in 0..n
    BY <1>1
  <2>2. g[n] \in Seq(S)
    BY <1>2, <2>1 DEF Joins
  <2>3. FlattenSeq(s) = g[n]
    BY <1>2, FlattenIs
  <2> QED BY <2>2, <2>3
<1> DEFINE h == [i \in 0..(n + 1) |-> IF i = n + 1 THEN g[n] \o e ELSE g[i]]
<1> HIDE DEF t
<1>4. h \in [0..Len(t) -> Seq(S)]
  <2>1. g[n] \o e \in Seq(S)
    BY <1>3
  <2>2. \A i \in 0..(n + 1) : i # n + 1 => i \in 0..n
    BY <1>1
  <2>3. \A i \in 0..(n + 1) : i # n + 1 => g[i] \in Seq(S)
    BY <1>2, <2>2 DEF Joins
  <2>4. h \in [0..(n + 1) -> Seq(S)]
    BY <2>1, <2>3
  <2> QED BY <1>1, <2>4
<1>5. h[0] = <<>>
  BY <1>1, <1>2 DEF Joins
<1>6. ASSUME NEW i \in 1..Len(t) PROVE h[i] = h[i - 1] \o t[i]
  <2>1. i - 1 \in 0..(n + 1) /\ i - 1 # n + 1 /\ h[i - 1] = g[i - 1]
    BY <1>1
  <2>2. CASE i = n + 1
    <3>1. h[n + 1] = g[n] \o e /\ i - 1 = n
      BY <1>1, <2>2
    <3> QED BY <1>1, <2>1, <2>2, <3>1
  <2>3. CASE i # n + 1
    <3>1. i \in 1..n /\ h[i] = g[i]
      BY <1>1, <2>3
    <3> QED BY <1>1, <1>2, <2>1, <3>1 DEF Joins
  <2> QED BY <2>2, <2>3
<1>7. Joins(h, t, S)
  BY <1>4, <1>5, <1>6 DEF Joins
<1>8. h[Len(t)] = g[n] \o e
  BY <1>1
<1> HIDE DEF h
<1>9. FlattenSeq(t) = h[Len(t)]
  BY <1>1, <1>7, FlattenIs
<1> QED BY <1>3, <1>8, <1>9 DEF t

\* The first value, and the others.
LEMMA FlattenHead ==
    ASSUME NEW S, NEW s \in Seq(Seq(S)), s # <<>>
    PROVE  FlattenSeq(s) = Head(s) \o FlattenSeq(Tail(s))
<1> DEFINE t == Tail(s)
           e == Head(s)
           n == Len(t)
<1>1. /\ t \in Seq(Seq(S)) /\ Len(s) = n + 1 /\ n \in Nat /\ e \in Seq(S)
      /\ s[1] = e /\ \A i \in 1..n : s[i + 1] = t[i]
  BY HeadTailProperties
<1> HIDE DEF t, e
<1>2. PICK g : Joins(g, t, S)
  BY <1>1, Joining
<1>3. /\ FlattenSeq(t) = g[n] /\ g[0] = <<>>
      /\ \A i \in 0..n : g[i] \in Seq(S)
      /\ \A i \in 1..n : g[i] = g[i - 1] \o t[i]
  BY <1>1, <1>2, FlattenIs DEF Joins
<1> DEFINE h == [i \in 0..(n + 1) |-> IF i = 0 THEN <<>> ELSE e \o g[i - 1]]
<1>4. ASSUME NEW i \in 1..(n + 1) PROVE g[i - 1] \in Seq(S) /\ h[i] = e \o g[i - 1]
               /\ h[i] \in Seq(S)
  <2>1. i - 1 \in 0..n
    BY <1>1
  <2>2. g[i - 1] \in Seq(S)
    BY <1>3, <2>1
  <2>3. e \o g[i - 1] \in Seq(S)
    BY <1>1, <2>2
  <2>4. i \in 0..(n + 1) /\ i # 0
    BY <1>1
  <2>5. h[i] = e \o g[i - 1]
    BY <2>4
  <2> HIDE DEF h
  <2> QED BY <2>2, <2>3, <2>5
<1>5. h \in [0..Len(s) -> Seq(S)] /\ h[0] = <<>>
  <2>1. <<>> \in Seq(S)
    OBVIOUS
  <2>2. \A i \in 0..(n + 1) : i # 0 => i \in 1..(n + 1)
    BY <1>1
  <2>3. \A i \in 0..(n + 1) : h[i] \in Seq(S)
    BY <1>4, <2>1, <2>2
  <2> QED BY <1>1, <2>3
<1>6. ASSUME NEW i \in 1..Len(s) PROVE h[i] = h[i - 1] \o s[i]
  <2>1. CASE i = 1
    <3>1. h[1] = e \o <<>> /\ h[0] = <<>>
      <4>1. 1 \in 1..(n + 1) /\ 1 - 1 = 0
        BY <1>1
      <4>2. h[1] = e \o g[1 - 1]
        BY <1>4, <4>1
      <4> HIDE DEF h
      <4> QED BY <1>3, <1>5, <4>1, <4>2
    <3>2. s[1] = e
      BY <1>1
    <3>3. e \o <<>> = <<>> \o e
      BY <1>1
    <3> QED BY <2>1, <3>1, <3>2, <3>3
  <2>2. CASE i # 1
    <3> DEFINE j == i - 1
    <3>1. j \in 1..n /\ j \in 1..(n + 1) /\ i = j + 1 /\ i \in 1..(n + 1) /\ j - 1 \in 0..n
      BY <1>1, <2>2
    <3>2. h[j] = e \o g[j - 1] /\ h[i] = e \o g[j]
      BY <1>4, <3>1
    <3>3. t[j] \in Seq(S) /\ e \in Seq(S)
      BY <1>1, <3>1
    <3>4. s[i] = t[j]
      BY <1>1, <3>1
    <3>5. g[j - 1] \in Seq(S) /\ g[j] = g[j - 1] \o t[j]
      BY <1>3, <3>1
    <3> HIDE DEF j, h
    <3> DEFINE x == g[j - 1]
               y == t[j]
    <3>6. e \in Seq(S) /\ x \in Seq(S) /\ y \in Seq(S)
      BY <3>3, <3>5
    <3> HIDE DEF x, y
    <3>7. Cat(Cat(e, x), y) = Cat(e, Cat(x, y))
      BY <3>6, CatAssociative
    <3>8. (e \o x) \o y = e \o (x \o y)
      BY <3>7 DEF Cat
    <3> QED BY <3>2, <3>4, <3>5, <3>8 DEF j, x, y
  <2> QED BY <2>1, <2>2
<1>7. Joins(h, s, S)
  BY <1>5, <1>6 DEF Joins
<1>8. h[Len(s)] = e \o g[n]
  BY <1>1, <1>4
<1> HIDE DEF h
<1>9. FlattenSeq(s) = h[Len(s)]
  BY <1>7, FlattenIs
<1> QED BY <1>3, <1>8, <1>9 DEF e, t

\* Stretches of a stream.
LEMMA SubSeqType ==
    ASSUME NEW S, NEW s \in Seq(S), NEW m \in Nat \ {0}, NEW n \in Nat, n <= Len(s)
    PROVE  SubSeq(s, m, n) \in Seq(S)
OBVIOUS

-----------------------------------------------------------------------------
(* What the pipelines read.                                                 *)

LEMMA CeilingType ==
    ASSUME NEW a \in Nat, NEW b \in Nat \ {0}
    PROVE  Ceiling(a, b) \in Nat
BY DEF Ceiling

LEMMA CellType ==
    ASSUME NEW kind \in CellKinds, NEW of \in Names \union {"none"}, NEW at \in Nat
    PROVE  Cell(kind, of, at) \in Symbols
BY DEF Cell, Symbols, Cells

LEMMA CellsType ==
    ASSUME NEW kind \in CellKinds, NEW of \in Names \union {"none"}, NEW n \in Nat
    PROVE  [i \in 1..n |-> Cell(kind, of, i)] \in Seq(Symbols)
<1>1. \A i \in 1..n : i \in Nat
  OBVIOUS
<1>2. \A i \in 1..n : Cell(kind, of, i) \in Symbols
  BY <1>1, CellType
<1> QED BY <1>2

LEMMA KindsType ==
    /\ {"data", "path", "longname", "header", "rest", "nul", "box"} \subseteq CellKinds
    /\ "none" \in Names \union {"none"}
BY DEF CellKinds

LEMMA NulType == Nul \in Symbols
BY CellType DEF Nul, CellKinds

LEMMA ByChunksType ==
    ASSUME NEW S, NEW s \in Seq(S), NEW n \in Nat \ {0}
    PROVE  ReadByChunks(s, n) \in Seq(Seq(S))
<1> DEFINE m == Ceiling(Len(s), n)
           piece(k) == SubSeq(s, (k - 1) * n + 1, Least(k * n, Len(s)))
<1>1. m \in Nat
  BY CeilingType
<1>2. ASSUME NEW k \in 1..m PROVE piece(k) \in Seq(S)
  <2>1. (k - 1) * n \in Nat /\ k * n \in Nat
    BY <1>1
  <2>2. (k - 1) * n + 1 \in Nat \ {0} /\ Least(k * n, Len(s)) \in Nat
          /\ Least(k * n, Len(s)) <= Len(s)
    BY <2>1 DEF Least
  <2> QED BY <2>2, SubSeqType
<1> HIDE DEF m, piece
<1>3. [k \in 1..m |-> piece(k)] \in Seq(Seq(S))
  BY <1>1, <1>2
<1> QED BY <1>3 DEF ReadByChunks, m, piece

File == [name : Names, length : Nat \ {0}, size : Nat]

LEMMA ContentType ==
    ASSUME NEW file \in File
    PROVE  Content(file) \in Seq(Symbols) /\ Len(Content(file)) = file.size
<1>1. file.size \in Nat /\ file.name \in Names
  BY DEF File
<1>2. "data" \in CellKinds /\ file.name \in Names \union {"none"}
  BY <1>1, KindsType
<1>3. [i \in 1..file.size |-> Cell("data", file.name, i)] \in Seq(Symbols)
  BY <1>1, <1>2, CellsType
<1> QED BY <1>1, <1>3 DEF Content

LEMMA PaddingType ==
    ASSUME NEW size \in Nat
    PROVE  /\ Padding(size) \in Seq(Symbols)
           /\ Len(Padding(size)) =
                IF size % BlockSize = 0 THEN 0 ELSE BlockSize - (size % BlockSize)
<1>1. BlockSize \in Nat \ {0}
  BY BlockAssumption
<1>2. size % BlockSize \in 0..(BlockSize - 1)
  BY <1>1
<1> QED BY <1>1, <1>2, NulType DEF Padding

LEMMA PathType ==
    ASSUME NEW file \in File
    PROVE  Path(file) \in Seq(Symbols) /\ Len(Path(file)) = file.length
             /\ Path(file)[1].of \in Names \union {"none"}
<1>1. file.length \in Nat \ {0} /\ file.name \in Names
  BY DEF File
<1>2. "path" \in CellKinds /\ file.name \in Names \union {"none"}
  BY <1>1, KindsType
<1>3. [i \in 1..file.length |-> Cell("path", file.name, i)] \in Seq(Symbols)
  BY <1>1, <1>2, CellsType
<1>4. Path(file)[1].of = file.name
  BY <1>1 DEF Path, Cell
<1>5. Path(file) \in Seq(Symbols) /\ Len(Path(file)) = file.length
  BY <1>1, <1>3 DEF Path
<1> QED BY <1>2, <1>4, <1>5

LEMMA BlockType ==
    ASSUME NEW kind \in CellKinds, NEW path, path[1].of \in Names \union {"none"}, NEW size \in Nat
    PROVE  Block(kind, path, size) \in Seq(Symbols) /\ Len(Block(kind, path, size)) = BlockSize
<1> DEFINE rest == [i \in 1..BlockSize - 1 |-> Cell("rest", "none", i)]
           first == Cell(kind, path[1].of, size)
<1>1. BlockSize \in Nat \ {0}
  BY BlockAssumption
<1>2. BlockSize - 1 \in Nat
  BY <1>1
<1>3. rest \in Seq(Symbols) /\ Len(rest) = BlockSize - 1
  <2>1. rest \in Seq(Symbols)
    BY <1>2, CellsType, KindsType
  <2> QED BY <1>2, <2>1
<1>4. first \in Symbols
  BY CellType
<1> HIDE DEF first, rest
<1>5. <<first>> \in Seq(Symbols) /\ Len(<<first>>) = 1
  BY <1>4
<1>6. Cat(<<first>>, rest) \in Seq(Symbols) /\ Len(Cat(<<first>>, rest)) = 1 + (BlockSize - 1)
  BY <1>3, <1>5, CatType
<1>7. Block(kind, path, size) = Cat(<<first>>, rest)
  BY DEF Block, Cat, first, rest
<1> QED BY <1>1, <1>6, <1>7

LEMMA HeaderType ==
    ASSUME NEW file \in File
    PROVE  /\ Header(file) \in Seq(Symbols)
           /\ Len(Header(file)) = IF file.length > LengthName
                                  THEN 2 * BlockSize + file.length + 1 + Len(Padding(file.length + 1))
                                  ELSE BlockSize
<1> DEFINE path == Path(file)
           long == Block("longname", path, file.length + 1)
           pad == Padding(file.length + 1)
           nul == <<Nul>>
           block == Block("header", path, file.size)
<1>1. file.length \in Nat /\ file.size \in Nat /\ BlockSize \in Nat /\ LengthName \in Nat
  BY BlockAssumption DEF File
<1>2. path \in Seq(Symbols) /\ Len(path) = file.length /\ path[1].of \in Names \union {"none"}
  BY PathType
<1>3. block \in Seq(Symbols) /\ Len(block) = BlockSize
  BY <1>1, <1>2, BlockType, KindsType
<1>4. long \in Seq(Symbols) /\ Len(long) = BlockSize
  BY <1>1, <1>2, BlockType, KindsType
<1>5. pad \in Seq(Symbols) /\ Len(pad) \in Nat
  <2>1. file.length + 1 \in Nat
    BY <1>1
  <2>2. pad \in Seq(Symbols)
    BY <2>1, PaddingType
  <2> HIDE DEF pad
  <2> QED BY <2>2
<1>6. nul \in Seq(Symbols) /\ Len(nul) = 1
  BY NulType
<1>7. Header(file) = IF file.length > LengthName
                     THEN Cat(Cat(Cat(Cat(long, path), nul), pad), block) ELSE Cat(<<>>, block)
  BY DEF Header, Cat
<1> HIDE DEF path, long, pad, nul, block
<1>8. Cat(long, path) \in Seq(Symbols) /\ Len(Cat(long, path)) = BlockSize + file.length
  BY <1>2, <1>4, CatType
<1> DEFINE named == Cat(long, path)
           ended == Cat(named, nul)
           padded == Cat(ended, pad)
<1>9. ended \in Seq(Symbols) /\ Len(ended) = BlockSize + file.length + 1
  <2> HIDE DEF named
  <2>1. named \in Seq(Symbols) /\ Len(named) = BlockSize + file.length
    BY <1>8 DEF named
  <2>2. ended \in Seq(Symbols) /\ Len(ended) = Len(named) + Len(nul)
    BY <1>6, <2>1, CatType
  <2> QED BY <1>6, <2>1, <2>2
<1>10. padded \in Seq(Symbols) /\ Len(padded) = BlockSize + file.length + 1 + Len(pad)
  <2> HIDE DEF ended
  <2>1. padded \in Seq(Symbols) /\ Len(padded) = Len(ended) + Len(pad)
    BY <1>5, <1>9, CatType
  <2> QED BY <1>9, <2>1
<1>11. /\ Cat(padded, block) \in Seq(Symbols)
       /\ Len(Cat(padded, block)) = BlockSize + file.length + 1 + Len(pad) + BlockSize
  <2> HIDE DEF padded
  <2>1. Cat(padded, block) \in Seq(Symbols) /\ Len(Cat(padded, block)) = Len(padded) + Len(block)
    BY <1>3, <1>10, CatType
  <2> QED BY <1>3, <1>10, <2>1
<1>12. Cat(<<>>, block) = block
  BY <1>3, CatNothing
<1> QED BY <1>1, <1>3, <1>5, <1>7, <1>11, <1>12 DEF pad

\* What ReadTarball reads of one file.
Member(file, n) ==
    <<Header(file)>> \o ReadByChunks(Content(file), n)
    \o (IF file.size % BlockSize = 0 THEN <<>> ELSE <<Padding(file.size)>>)

LEMMA MemberType ==
    ASSUME NEW file \in File, NEW n \in Nat \ {0}
    PROVE  Member(file, n) \in Seq(Seq(Symbols))
<1> DEFINE head == <<Header(file)>>
           body == ReadByChunks(Content(file), n)
           end == IF file.size % BlockSize = 0 THEN <<>> ELSE <<Padding(file.size)>>
<1>1. head \in Seq(Seq(Symbols))
  BY HeaderType
<1>2. body \in Seq(Seq(Symbols))
  BY ContentType, ByChunksType
<1>3. end \in Seq(Seq(Symbols))
  <2>1. file.size \in Nat
    BY DEF File
  <2>2. Padding(file.size) \in Seq(Symbols)
    BY <2>1, PaddingType
  <2> QED BY <2>2
<1> HIDE DEF head, body, end
<1>4. Cat(head, body) \in Seq(Seq(Symbols))
  BY <1>1, <1>2, CatType
<1>5. Cat(Cat(head, body), end) \in Seq(Seq(Symbols))
  BY <1>3, <1>4, CatType
<1> QED BY <1>5 DEF Member, Cat, head, body, end

LEMMA ReadType ==
    ASSUME NEW s \in Setups, NEW files \in Seq(File) \ {<<>>}
    PROVE  Read(s, files) \in Seq(Seq(Symbols))
<1>1. ReadChunk \in Nat \ {0}
  BY TransferAssumption
<1>2. files[1] \in File
  OBVIOUS
<1>3. Content(files[1]) \in Seq(Symbols)
  BY <1>2, ContentType
<1>4. <<Content(files[1])>> \in Seq(Seq(Symbols))
  BY <1>3
<1>5. ReadByChunks(Content(files[1]), ReadChunk) \in Seq(Seq(Symbols))
  BY <1>1, <1>3, ByChunksType
<1>6. ReadTarball(files, ReadChunk) \in Seq(Seq(Symbols))
  <2> DEFINE members == [i \in DOMAIN files |-> Member(files[i], ReadChunk)]
  <2>1. \A i \in 1..Len(files) : Member(files[i], ReadChunk) \in Seq(Seq(Symbols))
    BY <1>1, MemberType
  <2>2. members = [i \in 1..Len(files) |-> Member(files[i], ReadChunk)] /\ Len(files) \in Nat
    OBVIOUS
  <2>3. members \in Seq(Seq(Seq(Symbols)))
    BY <2>1, <2>2
  <2>4. ReadTarball(files, ReadChunk) = FlattenSeq(members)
    BY DEF ReadTarball, Member
  <2> HIDE DEF members
  <2> QED BY <2>3, <2>4, FlattenType
<1> QED BY <1>4, <1>5, <1>6 DEF Read

LEMMA EncryptType ==
    ASSUME NEW data \in Seq(Symbols)
    PROVE  Encrypt(data) \in Seq(Symbols) /\ Len(Encrypt(data)) = MetaSize + Len(data)
<1> DEFINE meta == [i \in 1..MetaSize |-> Cell("box", "none", Len(data))]
<1>1. MetaSize \in Nat
  BY BlockAssumption
<1>2. Cell("box", "none", Len(data)) \in Symbols
  <2>1. Len(data) \in Nat
    OBVIOUS
  <2>2. "box" \in CellKinds /\ "none" \in Names \union {"none"}
    BY KindsType
  <2> QED BY <2>1, <2>2, CellType
<1>3. meta \in Seq(Symbols) /\ Len(meta) = MetaSize
  <2> DEFINE box == Cell("box", "none", Len(data))
  <2> HIDE DEF box
  <2>1. [i \in 1..MetaSize |-> box] \in Seq(Symbols)
    BY <1>1, <1>2 DEF box
  <2> QED BY <1>1, <2>1 DEF box
<1> HIDE DEF meta
<1>4. Cat(meta, data) \in Seq(Symbols) /\ Len(Cat(meta, data)) = MetaSize + Len(data)
  BY <1>3, CatType
<1> QED BY <1>4 DEF Encrypt, Cat, meta

LEMMA EncryptedType ==
    ASSUME NEW s \in Setups, NEW values \in Seq(Seq(Symbols))
    PROVE  Encrypted(s, values) \in Seq(Seq(Symbols))
<1> DEFINE cut == Chunked(values, EncryptChunk)
<1>1. cut \in Seq(Seq(Symbols))
  <2>1. FlattenSeq(values) \in Seq(Symbols)
    BY FlattenType
  <2> QED BY <2>1, TransferAssumption, ByChunksType DEF Chunked
<1> HIDE DEF cut
<1>2. \A i \in 1..Len(cut) : Encrypt(cut[i]) \in Seq(Symbols)
  <2>1. \A i \in 1..Len(cut) : cut[i] \in Seq(Symbols)
    BY <1>1
  <2> QED BY <2>1, EncryptType
<1>3. [i \in 1..Len(cut) |-> Encrypt(cut[i])] \in Seq(Seq(Symbols))
  BY <1>1, <1>2
<1>4. DOMAIN cut = 1..Len(cut)
  BY <1>1
<1>5. [i \in DOMAIN cut |-> Encrypt(cut[i])] \in Seq(Seq(Symbols))
  BY <1>3, <1>4
<1> QED BY <1>5 DEF Encrypted, cut

LEMMA StreamType ==
    ASSUME NEW s \in Setups
    PROVE  /\ Encrypted(s, Read(s, s.files)) \in Seq(Seq(Symbols))
           /\ New[s] = FlattenSeq(Encrypted(s, Read(s, s.files)))
           /\ New[s] \in Seq(Symbols) /\ Old[s] \in Seq(Symbols)
<1>1. s.files \in Seq(File) \ {<<>>} /\ s.old \in Seq(File) \ {<<>>}
  BY SetupsAssumption DEF Files, File
<1>2. /\ Encrypted(s, Read(s, s.files)) \in Seq(Seq(Symbols))
      /\ Encrypted(s, Read(s, s.old)) \in Seq(Seq(Symbols))
  BY <1>1, ReadType, EncryptedType
<1>3. /\ New[s] = FlattenSeq(Encrypted(s, Read(s, s.files)))
      /\ Old[s] = FlattenSeq(Encrypted(s, Read(s, s.old)))
  BY DEF New, Old, Stream
<1> QED BY <1>2, <1>3, FlattenType

-----------------------------------------------------------------------------
(* Sizes.                                                                   *)

\* The recursive function of Total exists.
LEMMA StepsOfTotal ==
    ASSUME NEW sizes \in Seq(Nat)
    PROVE  \E f : /\ f \in [0..Len(sizes) -> Nat] /\ Total(sizes) = f[Len(sizes)]
                  /\ f[0] = 0 /\ \A i \in 1..Len(sizes) : f[i] = f[i - 1] + sizes[i]
<1> DEFINE step(f, i) == IF i = 0 THEN 0 ELSE f[i - 1] + sizes[i]
           Good(f, n) == f = [i \in 0..n |-> step(f, i)] /\ \A i \in 0..n : f[i] \in Nat
           bad == {n \in 0..Len(sizes) : ~\E f : Good(f, n)}
<1>1. bad = {}
  <2> SUFFICES ASSUME bad # {} PROVE FALSE
    OBVIOUS
  <2>1. PICK n \in bad : \A m \in bad : ~(<<m, n>> \in OpToRel(<, Nat))
    <3> HIDE DEF Good
    <3>1. bad \subseteq Nat
      <4>1. 0..Len(sizes) \subseteq Nat
        OBVIOUS
      <4> QED BY <4>1
    <3> HIDE DEF bad
    <3> QED BY <3>1, NatLessThanWellFounded, WFMin
  <2>2. n # 0
    <3>1. Good([i \in 0..0 |-> 0], 0)
      OBVIOUS
    <3> QED BY <3>1
  <2>3. n \in 1..Len(sizes) /\ n - 1 \in 0..Len(sizes) /\ n - 1 < n /\ n \in Nat /\ n - 1 \in Nat
    BY <2>2
  <2>4. PICK f : Good(f, n - 1)
    <3>1. <<n - 1, n>> \in OpToRel(<, Nat)
      BY <2>3 DEF OpToRel
    <3>2. n - 1 \notin bad
      BY <2>1, <3>1
    <3> HIDE DEF Good
    <3> QED BY <2>3, <3>2
  <2> DEFINE g == [i \in 0..n |-> step(f, i)]
  <2>5. \A i \in 0..(n - 1) : g[i] = f[i]
    <3>1. \A i \in 0..(n - 1) : i \in 0..n
      BY <2>3
    <3>2. \A i \in 0..(n - 1) : f[i] = step(f, i)
      BY <2>4
    <3>3. \A i \in 0..n : g[i] = step(f, i)
      OBVIOUS
    <3> HIDE DEF step, g
    <3> QED BY <3>1, <3>2, <3>3
  <2>6. \A i \in 0..n : step(g, i) = step(f, i)
    <3>1. ASSUME NEW i \in 0..n, i # 0 PROVE g[i - 1] = f[i - 1]
      <4>1. i - 1 \in 0..(n - 1)
        BY <2>3, <3>1
      <4> QED BY <2>5, <4>1
    <3> HIDE DEF g
    <3> QED BY <3>1
  <2>7. \A i \in 0..n : g[i] \in Nat
    <3>1. ASSUME NEW i \in 0..n, i # 0 PROVE step(f, i) \in Nat
      <4>1. i - 1 \in 0..(n - 1) /\ i \in 1..Len(sizes)
        BY <2>3, <3>1
      <4>2. f[i - 1] \in Nat
        BY <2>4, <4>1
      <4>3. sizes[i] \in Nat
        BY <4>1
      <4> QED BY <3>1, <4>2, <4>3
    <3>2. step(f, 0) \in Nat
      OBVIOUS
    <3> HIDE DEF step
    <3> QED BY <3>1, <3>2
  <2>8. Good(g, n)
    BY <2>6, <2>7
  <2> QED BY <2>8
<1>2. Len(sizes) \in 0..Len(sizes)
  OBVIOUS
<1>3. \E f : Good(f, Len(sizes))
  BY <1>1, <1>2
<1> DEFINE f == CHOOSE f : f = [i \in 0..Len(sizes) |-> step(f, i)]
<1>4. f = [i \in 0..Len(sizes) |-> step(f, i)]
  BY <1>3
<1>5. PICK g : Good(g, Len(sizes))
  BY <1>3
<1>6. Total(sizes) = f[Len(sizes)]
  BY DEF Total
<1> HIDE DEF f
<1>7. f = g
  <2> DEFINE other == {n \in 0..Len(sizes) : f[n] # g[n]}
  <2>1. other = {}
    <3> SUFFICES ASSUME other # {} PROVE FALSE
      OBVIOUS
    <3>1. PICK n \in other : \A m \in other : ~(<<m, n>> \in OpToRel(<, Nat))
      <4>1. other \subseteq Nat
        <5>1. 0..Len(sizes) \subseteq Nat
          OBVIOUS
        <5> QED BY <5>1
      <4> HIDE DEF other
      <4> QED BY <4>1, NatLessThanWellFounded, WFMin
    <3>2. n \in 0..Len(sizes) /\ f[n] # g[n] /\ f[n] = step(f, n) /\ g[n] = step(g, n)
      BY <1>4, <1>5
    <3>3. n # 0
      BY <3>2
    <3>4. n - 1 \in 0..Len(sizes) /\ n \in Nat /\ n - 1 \in Nat /\ n - 1 < n
      BY <3>2, <3>3
    <3>5. <<n - 1, n>> \in OpToRel(<, Nat)
      BY <3>4 DEF OpToRel
    <3>6. n - 1 \notin other
      BY <3>1, <3>5
    <3>7. f[n - 1] = g[n - 1]
      BY <3>4, <3>6
    <3> QED BY <3>2, <3>7
  <2>2. \A n \in 0..Len(sizes) : f[n] = g[n]
    BY <2>1
  <2> HIDE DEF step
  <2> QED BY <1>4, <1>5, <2>2
<1>8. \A i \in 1..Len(sizes) : i \in 0..Len(sizes) /\ i # 0
  OBVIOUS
<1>9. \A i \in 1..Len(sizes) : f[i] = f[i - 1] + sizes[i]
  BY <1>4, <1>8
<1>10. f \in [0..Len(sizes) -> Nat] /\ f[0] = 0
  BY <1>2, <1>4, <1>5, <1>7
<1> QED BY <1>6, <1>9, <1>10

LEMMA TotalType ==
    ASSUME NEW sizes \in Seq(Nat)
    PROVE  Total(sizes) \in Nat
<1>1. Len(sizes) \in 0..Len(sizes)
  OBVIOUS
<1> QED BY <1>1, StepsOfTotal

LEMMA HeaderSizeType ==
    ASSUME NEW file \in File
    PROVE  HeaderSize(file) \in Nat
<1>1. Ceiling(file.length, BlockSize) \in Nat
  BY BlockAssumption, CeilingType DEF File
<1>2. BlockSize \in Nat
  BY BlockAssumption
<1> QED BY <1>1, <1>2 DEF HeaderSize

LEMMA TarballSizeType ==
    ASSUME NEW files \in Seq(File)
    PROVE  CalcTarballSize(files) \in Nat
<1> DEFINE size(i) == files[i].size + Len(Padding(files[i].size))
<1>1. \A i \in 1..Len(files) : files[i] \in File
  OBVIOUS
<1>2. ASSUME NEW i \in 1..Len(files) PROVE size(i) \in Nat
  <2>1. files[i].size \in Nat
    BY <1>1 DEF File
  <2>2. Padding(files[i].size) \in Seq(Symbols)
    BY <2>1, PaddingType
  <2>3. Len(Padding(files[i].size)) \in Nat
    BY <2>2
  <2> QED BY <2>1, <2>3
<1>3. \A i \in 1..Len(files) : HeaderSize(files[i]) \in Nat
  BY <1>1, HeaderSizeType
<1>4. DOMAIN files = 1..Len(files) /\ Len(files) \in Nat
  OBVIOUS
<1> HIDE DEF size
<1>5. [i \in DOMAIN files |-> size(i)] \in Seq(Nat)
  BY <1>2, <1>4
<1>6. [i \in DOMAIN files |-> HeaderSize(files[i])] \in Seq(Nat)
  BY <1>3, <1>4
<1>7. Total([i \in DOMAIN files |-> HeaderSize(files[i])]) \in Nat
  BY <1>6, TotalType
<1>8. CalcAlignedSize(files) \in Nat
  BY <1>5, TotalType DEF CalcAlignedSize, size
<1> QED BY <1>7, <1>8 DEF CalcTarballSize

LEMMA EstimateType ==
    ASSUME NEW s \in Setups
    PROVE  EstimatedSize(s) \in Nat
<1>1. s.files \in Seq(File) \ {<<>>}
  BY SetupsAssumption DEF Files, File
<1>2. s.files[1] \in File
  BY <1>1
<1>3. s.files[1].size \in Nat
  BY <1>2 DEF File
<1>4. CalcTarballSize(s.files) \in Nat
  BY <1>1, TarballSizeType
<1>5. EncryptChunk \in Nat \ {0} /\ MetaSize \in Nat
  BY TransferAssumption, BlockAssumption
<1>6. ASSUME NEW size \in Nat PROVE CalcEncryptedSize(size, EncryptChunk) \in Nat
  <2>1. Ceiling(size, EncryptChunk) \in Nat
    BY <1>5, CeilingType
  <2> QED BY <1>5, <2>1 DEF CalcEncryptedSize
<1> QED BY <1>3, <1>4, <1>6 DEF EstimatedSize

LEMMA MultiplierType ==
    ASSUME NEW s \in Setups
    PROVE  Multiplier(s) \in Nat \ {0}
<1> DEFINE size == EstimatedSize(s)
           most == UploadChunk * MaxChunkCount
<1>1. size \in Nat
  BY EstimateType
<1>2. UploadChunk \in Nat \ {0} /\ MaxChunkCount \in Nat \ {0}
  BY TransferAssumption
<1>3. most \in Nat \ {0}
  BY <1>2
<1> HIDE DEF size, most
<1>4. ASSUME size > most PROVE Ceiling(size, most) \in Nat \ {0}
  <2>1. size + most - 1 >= most
    BY <1>1, <1>3, <1>4
  <2>2. (size + most - 1) \div most \in Nat \ {0}
    BY <1>1, <1>3, <2>1
  <2> QED BY <2>2 DEF Ceiling
<1> QED BY <1>4 DEF Multiplier, size, most

-----------------------------------------------------------------------------
(* The invariant.                                                           *)

Data == Seq(Symbols)

BufferSize == UploadBuffer * Multiplier(setup)

TypeOK ==
    /\ setup \in Setups
    /\ source \in Seq(Data)
    /\ limiter \in [value : Data, tokens : 0..setup.limit, lapse : Nat, asleep : BOOLEAN]
    /\ clock \in Nat
    /\ pieces \in Seq(Data)
    /\ chunking \in [fifo : Buffers(Symbols, BufferSize), value : Data, done : BOOLEAN]
    /\ WellFormed(chunking.fifo)
    /\ chunks \in Seq(Data)
    /\ start \in [upload : BOOLEAN, index : Nat]
    /\ parts \in Seq(UploadingPart)
    /\ working \in [Workers -> UploadingPart \union {Idle}]
    /\ completing \in BOOLEAN
    /\ recorded \in Seq(Nat)
    /\ object \in Data
    /\ upload \in {"running", "deleting", "done", "failed"}
    /\ faults \in Nat

\* What the stages hold before the chunks, in the order of the stream.
Buffered == Cat(Contents(chunking.fifo), chunking.value)

Waiting == Cat(FlattenSeq(pieces), Cat(limiter.value, FlattenSeq(source)))

\* a: the chunks cut so far. They and what the stages hold are the object to be;
\* all chunks are full but the last, and an end is an end.
CutInto(a) ==
    /\ Cat(FlattenSeq(a), Cat(Buffered, Waiting)) = New[setup]
    /\ Len(a) = start.index + Len(chunks)
    /\ \A i \in 1..Len(chunks) : chunks[i] = a[start.index + i]
    /\ \A i \in 1..Len(a) :
          /\ Len(a[i]) \in 1..ChunkSize
          /\ i < Len(a) \/ ~chunking.done => Len(a[i]) = ChunkSize
    /\ chunking.done =>
          /\ source = <<>> /\ limiter.value = <<>> /\ pieces = <<>>
          /\ chunking.value = <<>> /\ chunking.fifo.filled = 0

\* Whether the chunks are the parts of a multipart upload.
Multi(a) == a # <<>> /\ Len(a[1]) = ChunkSize

PartOf(a, k) == [data |-> a[k], upload |-> Multi(a), index |-> k - 1]

\* How many parts the workers have taken.
Taken == start.index - Len(parts)

Put(a, k) == IF Multi(a) THEN k \in ToSet(recorded) ELSE object = a[k]

\* Each chunk started is a part in the queue, with one worker, or stored.
Sends(a) ==
    /\ start.upload = (start.index > 0 /\ Multi(a))
    /\ Len(parts) <= start.index
    /\ \A i \in 1..Len(parts) : parts[i] = PartOf(a, Taken + i)
    /\ \A w \in Workers : working[w] # Idle =>
          \E k \in 1..Taken : working[w] = PartOf(a, k) /\ k \notin ToSet(recorded)
    /\ \A v, w \in Workers : working[v] = working[w] /\ working[v] # Idle => v = w
    /\ \A k \in 1..Taken : (\E w \in Workers : working[w] = PartOf(a, k)) \/ Put(a, k)
    /\ \A k \in ToSet(recorded) :
          k \in 1..Taken /\ k \in DOMAIN stored /\ stored[k] = a[k] /\ Multi(a)
    /\ \A i, j \in 1..Len(recorded) : recorded[i] = recorded[j] => i = j
    /\ completing = (recorded # <<>>)

\* The object changes at once, and files are deleted after that.
Replaced ==
    /\ object \in {Old[setup], New[setup]}
    /\ upload = "running" => local = DOMAIN setup.files
    /\ upload = "deleting" \/ local # DOMAIN setup.files => object = New[setup]

Uncut == upload = "running" => \E a \in Seq(Data) : CutInto(a) /\ Sends(a)

IInv == TypeOK /\ Replaced /\ Uncut

-----------------------------------------------------------------------------
(* The invariant holds at first.                                            *)

LEMMA Sizes ==
    ASSUME TypeOK
    PROVE  /\ BufferSize \in Nat /\ ChunkSize \in Nat \ {0} /\ ChunkSize \in 1..BufferSize
           /\ UploadChunk \in Nat /\ MaxChunkCount \in Nat /\ PollsPerSecond \in Nat \ {0}
<1>1. Multiplier(setup) \in Nat \ {0}
  BY MultiplierType DEF TypeOK
<1>2. UploadChunk \in Nat \ {0} /\ UploadChunk <= UploadBuffer /\ UploadBuffer \in Nat
  BY TransferAssumption
<1> DEFINE m == Multiplier(setup)
<1> HIDE DEF m
<1>3. m \in Nat \ {0}
  BY <1>1 DEF m
<1>4. UploadChunk * m \in Nat \ {0} /\ UploadBuffer * m \in Nat
        /\ UploadChunk * m <= UploadBuffer * m
  BY <1>2, <1>3
<1> QED BY <1>2, <1>4, TransferAssumption DEF BufferSize, ChunkSize, m

LEMMA NewFIFOEmpty ==
    ASSUME NEW n \in Nat
    PROVE  NewFIFO(n) \in Buffers(Symbols, n) /\ WellFormed(NewFIFO(n))
             /\ Contents(NewFIFO(n)) = <<>>
<1>1. Unwritten \in Symbols
  BY DEF Symbols
<1>2. NewFIFO(n) \in Buffers(Symbols, n) /\ WellFormed(NewFIFO(n))
  BY <1>1 DEF NewFIFO, Buffers, WellFormed
<1>3. Contents(NewFIFO(n)) \in Seq(Symbols) /\ Len(Contents(NewFIFO(n))) = 0
  BY <1>2, ContentsAt DEF NewFIFO
<1> QED BY <1>2, <1>3

LEMMA Initially == Init => IInv
<1> SUFFICES ASSUME UploadInit PROVE IInv
  BY DEF Init
<1>1. PICK s \in Setups : setup = s
  BY DEF UploadInit
<1>2. /\ source = Encrypted(s, Read(s, s.files))
      /\ limiter = [value |-> <<>>, tokens |-> s.limit, lapse |-> 0, asleep |-> FALSE]
      /\ clock = 0 /\ pieces = <<>> /\ chunks = <<>> /\ parts = <<>>
      /\ chunking = [fifo |-> NewFIFO(BufferSize), value |-> <<>>, done |-> FALSE]
      /\ start = [upload |-> FALSE, index |-> 0]
      /\ working = [w \in Workers |-> Idle]
      /\ completing = FALSE /\ recorded = <<>> /\ object = Old[s]
      /\ local = DOMAIN s.files /\ upload = "running" /\ faults = 0
  BY <1>1 DEF UploadInit, BufferSize
<1>3. /\ source \in Seq(Data) /\ New[s] = FlattenSeq(source)
      /\ New[s] \in Data /\ Old[s] \in Data
  BY <1>2, StreamType DEF Data
<1>4. BufferSize \in Nat
  <2>1. Multiplier(s) \in Nat \ {0} /\ UploadBuffer \in Nat
    BY MultiplierType, TransferAssumption
  <2> QED BY <1>1, <2>1 DEF BufferSize
<1>5. /\ NewFIFO(BufferSize) \in Buffers(Symbols, BufferSize) /\ WellFormed(NewFIFO(BufferSize))
      /\ Contents(NewFIFO(BufferSize)) = <<>>
  BY <1>4, NewFIFOEmpty
<1>6. s.limit \in Nat
  BY SetupsAssumption
<1>7. TypeOK
  <2>1. <<>> \in Data /\ <<>> \in Seq(Data) /\ <<>> \in Seq(UploadingPart) /\ <<>> \in Seq(Nat)
    BY DEF Data
  <2>2. limiter \in [value : Data, tokens : 0..setup.limit, lapse : Nat, asleep : BOOLEAN]
    BY <1>1, <1>2, <1>6, <2>1
  <2>3. chunking \in [fifo : Buffers(Symbols, BufferSize), value : Data, done : BOOLEAN]
    BY <1>2, <1>5, <2>1
  <2>4. working \in [Workers -> UploadingPart \union {Idle}]
    BY <1>2
  <2>5. start \in [upload : BOOLEAN, index : Nat]
    BY <1>2
  <2> QED BY <1>1, <1>2, <1>3, <1>5, <2>1, <2>2, <2>3, <2>4, <2>5 DEF TypeOK
<1>8. Replaced
  BY <1>1, <1>2 DEF Replaced
<1>9. CutInto(<<>>)
  <2>1. Cat(FlattenSeq(<<>>), Cat(Buffered, Waiting)) = New[setup]
    <3>1. Buffered = <<>>
      <4>1. Buffered = Cat(<<>>, <<>>)
        BY <1>2, <1>5 DEF Buffered
      <4>2. <<>> \in Seq(Symbols)
        OBVIOUS
      <4> QED BY <4>1, <4>2, CatNothing
    <3>2. Waiting = New[s]
      <4>1. Waiting = Cat(<<>>, Cat(<<>>, New[s]))
        BY <1>2, <1>3, FlattenNothing DEF Waiting
      <4> QED BY <1>3, <4>1, CatNothing DEF Data
    <3> QED BY <1>1, <1>3, <3>1, <3>2, FlattenNothing, CatNothing DEF Data
  <2>2. Len(<<>>) = 0
    OBVIOUS
  <2> QED BY <1>2, <2>1, <2>2 DEF CutInto
<1>10. Sends(<<>>)
  <2>1. Len(<<>>) = 0 /\ ToSet(<<>>) = {}
    BY DEF ToSet
  <2>2. Taken = 0
    BY <1>2, <2>1 DEF Taken
  <2>3. start.upload = FALSE /\ start.index = 0 /\ Len(parts) = 0 /\ Len(recorded) = 0
        /\ ToSet(recorded) = {}
    BY <1>2, <2>1
  <2>4. \A w \in Workers : working[w] = Idle
    BY <1>2
  <2>5. start.upload = (start.index > 0 /\ Multi(<<>>))
    <3>1. ~(start.index > 0)
      BY <2>3
    <3> QED BY <2>3, <3>1, Zenon
  <2>6. /\ \A k \in 1..Taken : FALSE
        /\ \A i \in 1..Len(parts) : FALSE
        /\ \A i \in 1..Len(recorded) : FALSE
    BY <2>2, <2>3
  <2>7. completing = (recorded # <<>>)
    BY <1>2
  <2> QED BY <2>3, <2>4, <2>5, <2>6, <2>7 DEF Sends
<1>11. <<>> \in Seq(Data)
  OBVIOUS
<1> QED BY <1>7, <1>8, <1>9, <1>10, <1>11 DEF IInv, Uncut

-----------------------------------------------------------------------------
(* The steps of a stream through the stages.                                *)

\* The limiter takes a value.
LEMMA StreamNext ==
    ASSUME NEW S, NEW s \in Seq(Seq(S)), s # <<>>
    PROVE  Cat(<<>>, FlattenSeq(s)) = Cat(Head(s), FlattenSeq(Tail(s)))
<1>1. FlattenSeq(s) = Cat(Head(s), FlattenSeq(Tail(s)))
  BY FlattenHead DEF Cat
<1>2. FlattenSeq(s) \in Seq(S)
  BY FlattenType
<1> QED BY <1>1, <1>2, CatNothing

\* The first n of a value go to the end of a queue.
LEMMA StreamPart ==
    ASSUME NEW S, NEW p \in Seq(Seq(S)), NEW v \in Seq(S), NEW n \in 0..Len(v), NEW r \in Seq(S)
    PROVE  /\ SubSeq(v, 1, n) \in Seq(S) /\ SubSeq(v, n + 1, Len(v)) \in Seq(S)
           /\ Len(SubSeq(v, n + 1, Len(v))) = Len(v) - n
           /\ Cat(FlattenSeq(Append(p, SubSeq(v, 1, n))), Cat(SubSeq(v, n + 1, Len(v)), r))
                 = Cat(FlattenSeq(p), Cat(v, r))
<1> DEFINE x == SubSeq(v, 1, n)
           y == SubSeq(v, n + 1, Len(v))
           f == FlattenSeq(p)
<1>1. /\ x \in Seq(S) /\ Len(x) = n /\ \A i \in 1..n : v[i] = x[i]
      /\ y \in Seq(S) /\ Len(y) = Len(v) - n /\ \A i \in 1..Len(v) - n : v[n + i] = y[i]
  OBVIOUS
<1> HIDE DEF x, y
<1>2. Cat(x, y) = v
  <2>1. Len(v) = Len(x) + Len(y)
    BY <1>1
  <2>2. (\A i \in 1..Len(x) : v[i] = x[i]) /\ (\A i \in 1..Len(y) : v[Len(x) + i] = y[i])
    BY <1>1
  <2>3. x \in Seq(S) /\ y \in Seq(S)
    BY <1>1
  <2>4. x \o y = v
    BY <2>1, <2>2, <2>3, IsConcatenation
  <2> QED BY <2>4 DEF Cat
<1>3. FlattenSeq(Append(p, x)) = Cat(f, x)
  BY <1>1, FlattenAppend DEF Cat
<1>4. f \in Seq(S)
  BY FlattenType
<1> HIDE DEF f
<1>5. Cat(y, r) \in Seq(S)
  BY <1>1, CatType
<1>6. Cat(Cat(f, x), Cat(y, r)) = Cat(f, Cat(x, Cat(y, r)))
  BY <1>1, <1>4, <1>5, CatAssociative
<1>7. Cat(x, Cat(y, r)) = Cat(Cat(x, y), r)
  BY <1>1, CatAssociative
<1>8. Cat(FlattenSeq(Append(p, x)), Cat(y, r)) = Cat(f, Cat(v, r))
  BY <1>2, <1>3, <1>6, <1>7
<1> QED BY <1>1, <1>8 DEF x, y, f

\* The chunking stage takes a value.
LEMMA StreamPiece ==
    ASSUME NEW S, NEW c \in Seq(S), NEW p \in Seq(Seq(S)), p # <<>>, NEW r \in Seq(S)
    PROVE  Cat(Cat(c, Head(p)), Cat(FlattenSeq(Tail(p)), r))
             = Cat(Cat(c, <<>>), Cat(FlattenSeq(p), r))
<1> DEFINE h == Head(p)
           t == FlattenSeq(Tail(p))
<1>1. h \in Seq(S) /\ Tail(p) \in Seq(Seq(S))
  OBVIOUS
<1>2. t \in Seq(S) /\ FlattenSeq(p) = Cat(h, t)
  BY <1>1, FlattenType, FlattenHead DEF Cat
<1> HIDE DEF h, t
<1>3. Cat(c, <<>>) = c
  BY CatNothing
<1>4. Cat(t, r) \in Seq(S)
  BY <1>2, CatType
<1>5. Cat(Cat(c, h), Cat(t, r)) = Cat(c, Cat(h, Cat(t, r)))
  BY <1>1, <1>4, CatAssociative
<1>6. Cat(h, Cat(t, r)) = Cat(Cat(h, t), r)
  BY <1>1, <1>2, CatAssociative
<1> QED BY <1>2, <1>3, <1>5, <1>6 DEF h, t

\* A chunk is cut off what is buffered.
LEMMA StreamChunk ==
    ASSUME NEW S, NEW a \in Seq(Seq(S)), NEW x \in Seq(S), NEW b \in Seq(S), NEW r \in Seq(S)
    PROVE  Cat(FlattenSeq(Append(a, x)), Cat(b, r)) = Cat(FlattenSeq(a), Cat(Cat(x, b), r))
<1> DEFINE f == FlattenSeq(a)
<1>1. FlattenSeq(Append(a, x)) = Cat(f, x) /\ f \in Seq(S)
  BY FlattenAppend, FlattenType DEF Cat
<1> HIDE DEF f
<1>2. Cat(b, r) \in Seq(S)
  BY CatType
<1>3. Cat(Cat(f, x), Cat(b, r)) = Cat(f, Cat(x, Cat(b, r)))
  BY <1>1, <1>2, CatAssociative
<1>4. Cat(x, Cat(b, r)) = Cat(Cat(x, b), r)
  BY CatAssociative
<1> QED BY <1>1, <1>3, <1>4 DEF f

-----------------------------------------------------------------------------
(* The stages before the chunks.                                            *)

\* What a step leaves alone of the chunks and their parts.
SameParts ==
    /\ setup' = setup /\ start' = start /\ parts' = parts /\ working' = working
    /\ completing' = completing /\ recorded' = recorded /\ stored' = stored /\ object' = object
    /\ local' = local /\ upload' = upload /\ faults' = faults

LEMMA SendsAlone ==
    ASSUME SameParts, NEW a
    PROVE  (Sends(a) => Sends(a)') /\ (Replaced => Replaced') /\ Multi(a)' = Multi(a)
<1>1. Taken' = Taken /\ ChunkSize' = ChunkSize
  BY DEF SameParts, Taken, ChunkSize
<1>2. Multi(a)' = Multi(a)
  BY <1>1 DEF Multi
<1>3. \A k : PartOf(a, k)' = PartOf(a, k)
  BY <1>2 DEF PartOf
<1>4. \A k : Put(a, k)' = Put(a, k)
  BY <1>2 DEF Put, SameParts
<1>5. Sends(a) => Sends(a)'
  BY <1>1, <1>2, <1>3, <1>4 DEF Sends, SameParts
<1>6. Replaced => Replaced'
  BY DEF Replaced, SameParts
<1> QED BY <1>2, <1>5, <1>6

\* Chunks are left alone, and so is the stream.
LEMMA CutAlone ==
    ASSUME SameParts, chunks' = chunks, chunking'.done = chunking.done, ~chunking.done,
           Cat(Buffered, Waiting)' = Cat(Buffered, Waiting), NEW a, CutInto(a)
    PROVE  CutInto(a)'
<1>1. ChunkSize' = ChunkSize
  BY DEF SameParts, ChunkSize
<1> QED BY <1>1 DEF CutInto, SameParts

\* What the stages before the chunks keep.
LEMMA Upstream ==
    ASSUME IInv, upload = "running", SameParts, TypeOK', chunks' = chunks,
           chunking'.done = chunking.done,
           ~chunking.done => Cat(Buffered, Waiting)' = Cat(Buffered, Waiting),
           \A a \in Seq(Data) : ~(chunking.done /\ CutInto(a))
    PROVE  IInv'
<1>1. PICK a \in Seq(Data) : CutInto(a) /\ Sends(a)
  BY DEF IInv, Uncut
<1>2. CutInto(a)'
  BY <1>1, CutAlone
<1>3. Sends(a)' /\ Replaced'
  BY <1>1, SendsAlone DEF IInv
<1> QED BY <1>2, <1>3 DEF IInv, Uncut

LEMMA NextValueKeeps ==
    ASSUME IInv, NextValue
    PROVE  IInv'
<1>1. upload = "running" /\ limiter.value = <<>> /\ source # <<>> /\ TypeOK
  BY DEF IInv, NextValue, Running
<1>2. /\ limiter' = [limiter EXCEPT !.value = Head(source), !.asleep = FALSE]
      /\ source' = Tail(source) /\ SameParts /\ clock' = clock /\ pieces' = pieces
      /\ chunking' = chunking /\ chunks' = chunks
  BY DEF NextValue, SameParts, s3Vars, endVars
<1>3. Head(source) \in Data /\ Tail(source) \in Seq(Data)
  BY <1>1 DEF TypeOK
<1>4. limiter'.value = Head(source)
  BY <1>1, <1>2 DEF TypeOK
<1>5. BufferSize' = BufferSize
  BY <1>2 DEF BufferSize, SameParts
<1>6. TypeOK'
  <2>1. limiter' \in [value : Data, tokens : 0..setup.limit, lapse : Nat, asleep : BOOLEAN]
    BY <1>1, <1>2, <1>3 DEF TypeOK
  <2> QED BY <1>1, <1>2, <1>3, <1>5, <2>1 DEF TypeOK, SameParts
<1>7. Cat(Buffered, Waiting)' = Cat(Buffered, Waiting)
  <2>1. Buffered' = Buffered
    BY <1>2 DEF Buffered
  <2>2. Cat(Head(source), FlattenSeq(Tail(source))) = Cat(<<>>, FlattenSeq(source))
    BY <1>1, StreamNext DEF TypeOK, Data
  <2>3. Waiting' = Waiting
    BY <1>1, <1>2, <1>4, <2>2 DEF Waiting
  <2> QED BY <2>1, <2>3
<1>8. \A a \in Seq(Data) : ~(chunking.done /\ CutInto(a))
  BY <1>1 DEF CutInto
<1>9. chunking'.done = chunking.done
  BY <1>2
<1> QED BY <1>1, <1>2, <1>6, <1>7, <1>8, <1>9, Upstream

LEMMA ReplenishedType ==
    ASSUME TypeOK
    PROVE  Replenished(limiter) \in 0..setup.limit
<1>1. setup.limit \in Nat
  BY SetupsAssumption DEF TypeOK
<1>2. limiter.lapse * setup.limit \in Nat /\ limiter.tokens \in Nat /\ PollsPerSecond \in Nat \ {0}
  <2>1. limiter.lapse \in Nat /\ limiter.tokens \in Nat
    BY <1>1 DEF TypeOK
  <2>2. limiter.lapse * setup.limit \in Nat
    BY <1>1, <2>1
  <2> QED BY <2>1, <2>2, Sizes
<1>3. (limiter.lapse * setup.limit) \div PollsPerSecond \in Nat
  BY <1>2
<1> QED BY <1>1, <1>2, <1>3 DEF Replenished, Least

\* What Limit does.
Extracted == IF setup.limit = 0 THEN Len(limiter.value)
             ELSE Least(Len(limiter.value), Replenished(limiter))

LEMMA LimitKeeps ==
    ASSUME IInv, Limit
    PROVE  IInv'
<1> DEFINE v == limiter.value
           n == Extracted
           tokens == IF setup.limit = 0 THEN 0 ELSE Replenished(limiter) - n
<1>1. upload = "running" /\ v # <<>> /\ TypeOK
  BY DEF IInv, Limit, Running
<1>2. /\ pieces' = Append(pieces, SubSeq(v, 1, n))
      /\ limiter' = [value |-> SubSeq(v, n + 1, Len(v)), tokens |-> tokens, lapse |-> 0,
                     asleep |-> n < Len(v)]
      /\ SameParts /\ source' = source /\ clock' = clock /\ chunking' = chunking /\ chunks' = chunks
  BY DEF Limit, SameParts, s3Vars, endVars, Extracted
<1>3. v \in Data /\ Len(v) \in Nat /\ setup.limit \in Nat /\ Replenished(limiter) \in 0..setup.limit
  BY <1>1, ReplenishedType, SetupsAssumption DEF TypeOK, Data
<1>4. n \in 0..Len(v) /\ tokens \in 0..setup.limit
  BY <1>3 DEF Extracted, Least
<1> DEFINE x == SubSeq(v, 1, n)
           y == SubSeq(v, n + 1, Len(v))
           w == FlattenSeq(source)
<1>5. pieces \in Seq(Data) /\ w \in Data
  BY <1>1, FlattenType DEF TypeOK, Data
<1> HIDE DEF n, v, tokens
<1>6. /\ x \in Data /\ y \in Data
      /\ Cat(FlattenSeq(Append(pieces, x)), Cat(y, w)) = Cat(FlattenSeq(pieces), Cat(v, w))
  BY <1>3, <1>4, <1>5, StreamPart DEF Data
<1> HIDE DEF x, y, w
<1>7. BufferSize' = BufferSize
  BY <1>2 DEF BufferSize, SameParts
<1>8. limiter'.value = y
  BY <1>2 DEF y
<1>9. TypeOK'
  <2>1. limiter' \in [value : Data, tokens : 0..setup.limit, lapse : Nat, asleep : BOOLEAN]
    BY <1>2, <1>3, <1>4, <1>6 DEF y
  <2>2. pieces' \in Seq(Data)
    BY <1>2, <1>5, <1>6 DEF x
  <2> QED BY <1>1, <1>2, <1>7, <2>1, <2>2 DEF TypeOK, SameParts
<1>10. Cat(Buffered, Waiting)' = Cat(Buffered, Waiting)
  <2>1. Buffered' = Buffered
    BY <1>2 DEF Buffered
  <2>2. Waiting' = Cat(FlattenSeq(Append(pieces, x)), Cat(y, w))
    BY <1>2, <1>8 DEF Waiting, x, w
  <2>3. Waiting = Cat(FlattenSeq(pieces), Cat(v, w))
    BY DEF Waiting, v, w
  <2> QED BY <1>6, <2>1, <2>2, <2>3
<1>11. \A a \in Seq(Data) : ~(chunking.done /\ CutInto(a))
  BY <1>1 DEF CutInto, v
<1>12. chunking'.done = chunking.done
  BY <1>2
<1> QED BY <1>1, <1>2, <1>9, <1>10, <1>11, <1>12, Upstream

LEMMA TickKeeps ==
    ASSUME IInv, Tick
    PROVE  IInv'
<1>1. upload = "running" /\ (source # <<>> \/ limiter.value # <<>>) /\ TypeOK
  BY DEF IInv, Tick, Running
<1>2. /\ limiter' = [limiter EXCEPT !.lapse = Least(limiter.lapse + 1, PollsPerSecond),
           !.asleep = FALSE]
      /\ clock' = Least(clock + 1, LastTick(setup))
      /\ SameParts /\ source' = source /\ pieces' = pieces /\ chunking' = chunking
           /\ chunks' = chunks
  BY DEF Tick, SameParts, s3Vars, endVars
<1>3. limiter'.value = limiter.value
  BY <1>1, <1>2 DEF TypeOK
<1>4. LastTick(setup) \in Nat
  <2>1. setup.limit \in Nat /\ Len(New[setup]) \in Nat /\ PollsPerSecond \in Nat
    <3>1. setup \in Setups
      BY <1>1 DEF TypeOK
    <3>2. New[setup] \in Seq(Symbols)
      BY <3>1, StreamType
    <3>3. setup.limit \in Nat
      BY <3>1, SetupsAssumption
    <3> QED BY <1>1, <3>2, <3>3, Sizes
  <2>2. setup.limit # 0 => Ceiling(Len(New[setup]), setup.limit) \in Nat
    BY <2>1, CeilingType
  <2> QED BY <2>1, <2>2 DEF LastTick
<1>5. BufferSize' = BufferSize
  BY <1>2 DEF BufferSize, SameParts
<1>6. TypeOK'
  <2>1. PollsPerSecond \in Nat
    BY <1>1, Sizes
  <2>2. limiter' \in [value : Data, tokens : 0..setup.limit, lapse : Nat, asleep : BOOLEAN]
    <3> DEFINE lapse == Least(limiter.lapse + 1, PollsPerSecond)
    <3>1. lapse \in Nat
      BY <1>1, <2>1 DEF TypeOK, Least
    <3> HIDE DEF lapse
    <3>2. limiter' = [limiter EXCEPT !.lapse = lapse, !.asleep = FALSE]
      BY <1>2 DEF lapse
    <3> QED BY <1>1, <3>1, <3>2 DEF TypeOK
  <2>3. clock' \in Nat
    BY <1>1, <1>2, <1>4 DEF TypeOK, Least
  <2> QED BY <1>1, <1>2, <1>5, <2>2, <2>3 DEF TypeOK, SameParts
<1>7. Cat(Buffered, Waiting)' = Cat(Buffered, Waiting)
  BY <1>2, <1>3 DEF Buffered, Waiting
<1>8. \A a \in Seq(Data) : ~(chunking.done /\ CutInto(a))
  BY <1>1 DEF CutInto
<1>9. chunking'.done = chunking.done
  BY <1>2
<1> QED BY <1>1, <1>2, <1>6, <1>7, <1>8, <1>9, Upstream

LEMMA NextPieceKeeps ==
    ASSUME IInv, NextPiece
    PROVE  IInv'
<1>1. upload = "running" /\ chunking.value = <<>> /\ pieces # <<>> /\ TypeOK
  BY DEF IInv, NextPiece, Running
<1>2. /\ chunking' = [chunking EXCEPT !.value = Head(pieces)] /\ pieces' = Tail(pieces)
      /\ SameParts /\ source' = source /\ limiter' = limiter /\ clock' = clock /\ chunks' = chunks
  BY DEF NextPiece, SameParts, limiterVars, s3Vars, endVars
<1>3. Head(pieces) \in Data /\ Tail(pieces) \in Seq(Data)
  BY <1>1 DEF TypeOK
<1>4. chunking'.value = Head(pieces) /\ chunking'.fifo = chunking.fifo
        /\ chunking'.done = chunking.done
  BY <1>1, <1>2 DEF TypeOK
<1>5. BufferSize' = BufferSize
  BY <1>2 DEF BufferSize, SameParts
<1>6. TypeOK'
  <2>1. chunking' \in [fifo : Buffers(Symbols, BufferSize), value : Data, done : BOOLEAN]
    BY <1>1, <1>2, <1>3 DEF TypeOK
  <2> QED BY <1>1, <1>2, <1>3, <1>4, <1>5, <2>1 DEF TypeOK, SameParts
<1>7. Cat(Buffered, Waiting)' = Cat(Buffered, Waiting)
  <2> DEFINE c == Contents(chunking.fifo)
             r == Cat(limiter.value, FlattenSeq(source))
  <2>1. BufferSize \in Nat /\ chunking.fifo \in Buffers(Symbols, BufferSize)
          /\ WellFormed(chunking.fifo)
    BY <1>1, Sizes DEF TypeOK
  <2>2. c \in Seq(Symbols)
    BY <2>1, ContentsAt
  <2>3. FlattenSeq(source) \in Seq(Symbols) /\ limiter.value \in Seq(Symbols)
    BY <1>1, FlattenType DEF TypeOK, Data
  <2>4. r \in Seq(Symbols)
    BY <2>3, CatType
  <2> HIDE DEF c, r
  <2>5. Cat(Cat(c, Head(pieces)), Cat(FlattenSeq(Tail(pieces)), r))
          = Cat(Cat(c, <<>>), Cat(FlattenSeq(pieces), r))
    BY <1>1, <2>2, <2>4, StreamPiece DEF TypeOK, Data
  <2>6. Buffered = Cat(c, <<>>) /\ Waiting = Cat(FlattenSeq(pieces), r)
    BY <1>1 DEF Buffered, Waiting, c, r
  <2>7. Buffered' = Cat(c, Head(pieces)) /\ Waiting' = Cat(FlattenSeq(Tail(pieces)), r)
    BY <1>2, <1>4 DEF Buffered, Waiting, c, r
  <2> QED BY <2>5, <2>6, <2>7
<1>8. \A a \in Seq(Data) : ~(chunking.done /\ CutInto(a))
  BY <1>1 DEF CutInto
<1> QED BY <1>1, <1>2, <1>4, <1>6, <1>7, <1>8, Upstream

-----------------------------------------------------------------------------
(* The chunks.                                                              *)

\* Where a sequence with a value more at the end has its values.
LEMMA AppendAt ==
    ASSUME NEW S, NEW a \in Seq(S), NEW x \in S
    PROVE  /\ Append(a, x) \in Seq(S) /\ Len(Append(a, x)) = Len(a) + 1
           /\ Append(a, x)[Len(a) + 1] = x /\ \A i \in 1..Len(a) : Append(a, x)[i] = a[i]
OBVIOUS

\* A chunk more: those cut so far are the same, and so are the parts.
LEMMA SendsMore ==
    ASSUME SameParts, TypeOK, NEW a \in Seq(Data), NEW x \in Data, CutInto(a), Sends(a)
    PROVE  Sends(Append(a, x))'
<1> DEFINE b == Append(a, x)
<1>1. /\ b \in Seq(Data) /\ Len(b) = Len(a) + 1 /\ b # <<>> /\ Len(a) \in Nat
      /\ \A i \in 1..Len(a) : b[i] = a[i]
  <2>1. b # <<>> /\ Len(a) \in Nat
    OBVIOUS
  <2> QED BY <2>1, AppendAt
<1> HIDE DEF b
<1>2. Taken' = Taken /\ ChunkSize' = ChunkSize
  BY DEF SameParts, Taken, ChunkSize
<1>3. Taken + Len(parts) = start.index /\ start.index <= Len(a) /\ start.index \in Nat
      /\ Len(parts) \in 0..start.index /\ Taken \in Nat
  <2>1. start.index \in Nat /\ Len(parts) \in Nat /\ Len(chunks) \in Nat
    BY DEF TypeOK
  <2>2. Len(parts) <= start.index /\ Len(a) = start.index + Len(chunks)
    BY DEF Sends, CutInto
  <2> QED BY <1>1, <2>1, <2>2 DEF Taken
<1>4. start.index > 0 => Multi(b)' = Multi(a)
  <2>1. ASSUME start.index > 0 PROVE a # <<>> /\ b[1] = a[1]
    BY <1>1, <1>3, <2>1
  <2> QED BY <1>1, <1>2, <2>1 DEF Multi
<1>5. \A k \in 1..start.index : PartOf(b, k)' = PartOf(a, k) /\ Put(b, k)' = Put(a, k)
        /\ b[k] = a[k]
  <2>1. ASSUME NEW k \in 1..start.index PROVE start.index > 0 /\ b[k] = a[k]
    BY <1>1, <1>3
  <2>2. SameParts
    OBVIOUS
  <2> QED BY <1>4, <2>1, <2>2 DEF PartOf, Put, SameParts
<1>6. \A k \in 1..Taken : k \in 1..start.index
  BY <1>3
<1>7. \A i \in 1..Len(parts) : Taken + i \in 1..start.index
  BY <1>3
<1>8. Sends(a)
  OBVIOUS
<1>9. start.upload' = (start.index' > 0 /\ Multi(b)')
  <2>1. start.upload = (start.index > 0 /\ Multi(a)) /\ start' = start
    BY <1>8 DEF Sends, SameParts
  <2>2. start.upload = (start.index > 0 /\ Multi(b)')
    BY <1>4, <2>1, Zenon
  <2> QED BY <2>1, <2>2, Zenon
<1>10. \A w \in Workers : working'[w] # Idle =>
          \E k \in 1..Taken' : working'[w] = PartOf(b, k)' /\ k \notin ToSet(recorded')
  BY <1>2, <1>5, <1>6, <1>8 DEF Sends, SameParts
<1>11. \A k \in 1..Taken' : (\E w \in Workers : working'[w] = PartOf(b, k)') \/ Put(b, k)'
  BY <1>2, <1>5, <1>6, <1>8 DEF Sends, SameParts
<1>12. \A k \in ToSet(recorded') :
          k \in 1..Taken' /\ k \in DOMAIN stored' /\ stored'[k] = b[k] /\ Multi(b)'
  <2>1. ASSUME NEW k \in ToSet(recorded)
        PROVE  k \in 1..Taken /\ k \in DOMAIN stored /\ stored[k] = a[k] /\ Multi(a)
    BY <1>8 DEF Sends
  <2>2. ASSUME NEW k \in ToSet(recorded)
        PROVE  k \in 1..Taken /\ k \in DOMAIN stored /\ stored[k] = b[k] /\ Multi(b)'
    <3>1. k \in 1..start.index /\ start.index > 0
      BY <1>3, <2>1
    <3> QED BY <1>4, <1>5, <2>1, <3>1
  <2>3. recorded' = recorded /\ stored' = stored
    BY DEF SameParts
  <2> QED BY <1>2, <2>2, <2>3
<1>13. \A i \in 1..Len(parts') : parts'[i] = PartOf(b, Taken + i)'
  <2>1. \A i \in 1..Len(parts) : parts[i] = PartOf(a, Taken + i)
    BY <1>8 DEF Sends
  <2>2. \A i \in 1..Len(parts) : parts[i] = PartOf(b, Taken + i)'
    <3>1. ASSUME NEW i \in 1..Len(parts)
          PROVE  b[Taken + i] = a[Taken + i] /\ Multi(b)' = Multi(a)
      <4>1. Taken + i \in 1..start.index /\ start.index > 0
        BY <1>3, <1>7
      <4> QED BY <1>4, <1>5, <4>1
    <3> QED BY <1>2, <2>1, <3>1 DEF PartOf
  <2> QED BY <2>2 DEF SameParts
<1>14. /\ Len(parts') <= start'.index
       /\ \A v, w \in Workers : working'[v] = working'[w] /\ working'[v] # Idle => v = w
       /\ \A i, j \in 1..Len(recorded') : recorded'[i] = recorded'[j] => i = j
       /\ completing' = (recorded' # <<>>)
  BY <1>8 DEF Sends, SameParts
<1> QED BY <1>9, <1>10, <1>11, <1>12, <1>13, <1>14 DEF Sends, b

LEMMA StagesType ==
    ASSUME TypeOK
    PROVE  /\ Contents(chunking.fifo) \in Data
                /\ Len(Contents(chunking.fifo)) = chunking.fifo.filled
           /\ Buffered \in Data /\ Waiting \in Data
<1>1. BufferSize \in Nat /\ chunking.fifo \in Buffers(Symbols, BufferSize)
        /\ WellFormed(chunking.fifo)
  BY Sizes DEF TypeOK
<1>2. Contents(chunking.fifo) \in Data /\ Len(Contents(chunking.fifo)) = chunking.fifo.filled
  BY <1>1, ContentsAt DEF Data
<1>3. Buffered \in Data
  BY <1>2, CatType DEF TypeOK, Buffered, Data
<1>4. FlattenSeq(source) \in Data /\ FlattenSeq(pieces) \in Data
  BY FlattenType DEF TypeOK, Data
<1>5. Cat(limiter.value, FlattenSeq(source)) \in Data
  BY <1>4, CatType DEF TypeOK, Data
<1>6. Waiting \in Data
  BY <1>4, <1>5, CatType DEF Waiting, Data
<1> QED BY <1>2, <1>3, <1>6

\* A chunk is put at the end of the queue.
LEMMA ChunkMore ==
    ASSUME IInv, SameParts, TypeOK', NEW a \in Seq(Data), CutInto(a), Sends(a), ~chunking.done,
           NEW x \in Data, Len(x) \in 1..ChunkSize, chunks' = Append(chunks, x),
           ~chunking'.done => Len(x) = ChunkSize,
           Cat(FlattenSeq(Append(a, x)), Cat(Buffered, Waiting)') = New[setup],
           chunking'.done =>
                /\ source' = <<>> /\ limiter'.value = <<>> /\ pieces' = <<>>
                /\ chunking'.value = <<>> /\ chunking'.fifo.filled = 0
    PROVE  IInv'
<1> DEFINE b == Append(a, x)
<1>1. /\ b \in Seq(Data) /\ Len(b) = Len(a) + 1 /\ Len(a) \in Nat
      /\ b[Len(a) + 1] = x /\ \A i \in 1..Len(a) : b[i] = a[i]
  <2>1. Len(a) \in Nat
    OBVIOUS
  <2> QED BY <2>1, AppendAt
<1>2. Sends(b)' /\ Replaced'
  BY SendsMore, SendsAlone DEF IInv
<1>3. ChunkSize' = ChunkSize /\ setup' = setup /\ start' = start
  BY DEF SameParts, ChunkSize
<1>4. /\ Len(a) = start.index + Len(chunks) /\ start.index \in Nat /\ Len(chunks) \in Nat
      /\ \A i \in 1..Len(chunks) : chunks[i] = a[start.index + i]
      /\ \A i \in 1..Len(a) : Len(a[i]) \in 1..ChunkSize /\ Len(a[i]) = ChunkSize
  BY DEF CutInto, TypeOK, IInv
<1>5. /\ Len(chunks') = Len(chunks) + 1 /\ chunks'[Len(chunks) + 1] = x
      /\ \A i \in 1..Len(chunks) : chunks'[i] = chunks[i]
  <2>1. chunks \in Seq(Data)
    BY DEF TypeOK, IInv
  <2> QED BY <2>1, AppendAt
<1> HIDE DEF b
<1>6. Len(b) = start'.index + Len(chunks')
  <2> DEFINE la == Len(a)
             lc == Len(chunks)
             from == start.index
             lb == Len(b)
             more == Len(chunks')
  <2>1. la = from + lc /\ from \in Nat /\ lc \in Nat
    BY <1>4
  <2>2. lb = la + 1 /\ more = lc + 1
    BY <1>1, <1>5
  <2>3. from = start'.index
    BY <1>3
  <2> HIDE DEF la, lc, from, lb, more
  <2>4. lb = from + more
    BY <2>1, <2>2
  <2> QED BY <2>3, <2>4 DEF lb, more
<1>7. \A i \in 1..Len(chunks') : chunks'[i] = b[start'.index + i]
  <2>1. ASSUME NEW i \in 1..Len(chunks), i \in Nat PROVE chunks'[i] = b[start.index + i]
    <3>1. start.index + i \in 1..Len(a)
      BY <1>4
    <3> QED BY <1>1, <1>4, <1>5, <3>1
  <2>2. start.index + (Len(chunks) + 1) = Len(a) + 1
    BY <1>4
  <2>3. chunks'[Len(chunks) + 1] = b[start.index + (Len(chunks) + 1)]
    BY <1>1, <1>5, <2>2
  <2>4. \A i \in 1..Len(chunks') : i = Len(chunks) + 1 \/ i \in 1..Len(chunks)
    BY <1>4, <1>5
  <2> QED BY <1>3, <2>1, <2>3, <2>4
<1>8. \A i \in 1..Len(b) : Len(b[i]) \in 1..ChunkSize
        /\ (i < Len(b) \/ ~chunking'.done => Len(b[i]) = ChunkSize)
  <2>1. ASSUME NEW i \in 1..Len(b)
        PROVE  i \in 1..Len(a) \/ (i = Len(a) + 1 /\ ~(i < Len(b)))
    BY <1>1
  <2>2. ASSUME NEW i \in 1..Len(a) PROVE Len(b[i]) \in 1..ChunkSize /\ Len(b[i]) = ChunkSize
    BY <1>1, <1>4
  <2>3. Len(b[Len(a) + 1]) \in 1..ChunkSize /\ (~chunking'.done => Len(b[Len(a) + 1]) = ChunkSize)
    BY <1>1
  <2> QED BY <2>1, <2>2, <2>3
<1>9. CutInto(b)'
  <2>1. Cat(FlattenSeq(b), Cat(Buffered, Waiting)') = New[setup]
    BY DEF b
  <2>2. Cat(FlattenSeq(b), Cat(Buffered', Waiting')) = New[setup']
    BY <1>3, <2>1
  <2>3. \A i \in 1..Len(b) : Len(b[i]) \in 1..ChunkSize'
          /\ (i < Len(b) \/ ~chunking'.done => Len(b[i]) = ChunkSize')
    BY <1>3, <1>8
  <2> QED BY <1>6, <1>7, <2>2, <2>3 DEF CutInto
<1> QED BY <1>1, <1>2, <1>9 DEF IInv, Uncut

LEMMA ChunkKeeps ==
    ASSUME IInv, Chunk
    PROVE  IInv'
<1> DEFINE turn == ChunkingTurn(chunking.fifo, chunking.value, ChunkSize)
           x == turn.chunk
           c == Contents(turn.fifo)
           v == turn.value
<1>1. upload = "running" /\ (chunking.value # <<>> \/ chunking.fifo.filled >= ChunkSize) /\ TypeOK
  BY DEF IInv, Chunk, Running
<1>2. /\ chunking' = [chunking EXCEPT !.fifo = turn.fifo, !.value = v]
      /\ chunks' = IF x = <<>> THEN chunks ELSE Append(chunks, x)
      /\ SameParts /\ source' = source /\ limiter' = limiter /\ clock' = clock /\ pieces' = pieces
  BY DEF Chunk, SameParts, limiterVars, s3Vars, endVars
<1>3. /\ chunking.fifo \in Buffers(Symbols, BufferSize) /\ WellFormed(chunking.fifo)
      /\ chunking.value \in Seq(Symbols) /\ ChunkSize \in 1..BufferSize /\ BufferSize \in Nat
      /\ ChunkSize \in Nat
  BY <1>1, Sizes DEF TypeOK, Data
<1>4. /\ turn.fifo \in Buffers(Symbols, BufferSize) /\ WellFormed(turn.fifo)
      /\ x \in Data /\ v \in Data /\ Len(x) \in {0, ChunkSize}
      /\ Cat(Cat(x, c), v) = Cat(Contents(chunking.fifo), chunking.value)
  <2>1. /\ turn.fifo \in Buffers(Symbols, BufferSize) /\ WellFormed(turn.fifo)
        /\ x \in Seq(Symbols) /\ v \in Seq(Symbols) /\ Len(x) \in {0, ChunkSize}
        /\ Cat(Cat(x, c), v) = Cat(Contents(chunking.fifo), chunking.value)
    BY <1>3, ChunkingKeepsStream
  <2> HIDE DEF turn, x, c, v
  <2> QED BY <2>1 DEF Data
<1> HIDE DEF turn
<1>5. c \in Data
  BY <1>3, <1>4, ContentsAt DEF Data
<1>6. chunking'.fifo = turn.fifo /\ chunking'.value = v /\ chunking'.done = chunking.done
  BY <1>1, <1>2 DEF TypeOK
<1>7. BufferSize' = BufferSize
  BY <1>2 DEF BufferSize, SameParts
<1> HIDE DEF x, c, v
<1>8. TypeOK'
  <2>1. chunking' \in [fifo : Buffers(Symbols, BufferSize), value : Data, done : BOOLEAN]
    BY <1>1, <1>2, <1>4 DEF TypeOK
  <2>2. chunks' \in Seq(Data)
    BY <1>1, <1>2, <1>4, AppendAt DEF TypeOK
  <2> QED BY <1>1, <1>2, <1>4, <1>6, <1>7, <2>1, <2>2 DEF TypeOK, SameParts
<1>9. Cat(c, v) \in Data /\ Buffered' = Cat(c, v) /\ Waiting' = Waiting
        /\ Buffered = Cat(x, Cat(c, v))
  <2>1. Cat(c, v) \in Data
    BY <1>4, <1>5, CatType DEF Data
  <2>2. Buffered' = Cat(c, v)
    BY <1>6 DEF Buffered, c
  <2>3. Waiting' = Waiting
    BY <1>2 DEF Waiting
  <2>4. Buffered = Cat(Cat(x, c), v)
    BY <1>4 DEF Buffered
  <2>5. Buffered = Cat(x, Cat(c, v))
    BY <1>4, <1>5, <2>4, CatAssociative DEF Data
  <2> QED BY <2>1, <2>2, <2>3, <2>5
<1>10. PICK a \in Seq(Data) : CutInto(a) /\ Sends(a)
  BY <1>1 DEF IInv, Uncut
<1>11. ~chunking.done
  BY <1>1, <1>3, <1>10 DEF CutInto
<1>12. CASE x = <<>>
  <2>1. Buffered' = Buffered
    BY <1>9, <1>12, CatNothing DEF Data
  <2>2. Cat(Buffered, Waiting)' = Cat(Buffered, Waiting)
    BY <1>9, <2>1
  <2>3. chunks' = chunks
    BY <1>2, <1>12
  <2>4. \A e \in Seq(Data) : ~(chunking.done /\ CutInto(e))
    BY <1>11
  <2> QED BY <1>1, <1>2, <1>6, <1>8, <2>2, <2>3, <2>4, Upstream
<1>13. CASE x # <<>>
  <2>1. Len(x) = ChunkSize /\ Len(x) \in 1..ChunkSize
    <3>1. Len(x) # 0
      BY <1>4, <1>13 DEF Data
    <3> QED BY <1>3, <1>4, <3>1
  <2>2. Cat(FlattenSeq(Append(a, x)), Cat(Cat(c, v), Waiting))
          = Cat(FlattenSeq(a), Cat(Buffered, Waiting))
    BY <1>1, <1>4, <1>9, StagesType, StreamChunk DEF Data
  <2>3. Cat(FlattenSeq(Append(a, x)), Cat(Buffered, Waiting)') = New[setup]
    BY <1>9, <1>10, <2>2 DEF CutInto
  <2>4. chunks' = Append(chunks, x)
    BY <1>2, <1>13
  <2> QED BY <1>2, <1>4, <1>6, <1>8, <1>10, <1>11, <2>1, <2>3, <2>4, ChunkMore
<1> QED BY <1>12, <1>13

LEMMA ChunkRestKeeps ==
    ASSUME IInv, ChunkRest
    PROVE  IInv'
<1> DEFINE f == chunking.fifo
           g == AfterRead(f, f.filled)
           x == Contents(f)
<1>1. /\ upload = "running" /\ ~chunking.done /\ source = <<>> /\ limiter.value = <<>>
           /\ pieces = <<>>
      /\ chunking.value = <<>> /\ f.filled < ChunkSize /\ TypeOK
  BY DEF IInv, ChunkRest, Running
<1>2. /\ chunking' = [chunking EXCEPT !.done = TRUE, !.fifo = g]
      /\ chunks' = IF f.filled = 0 THEN chunks ELSE Append(chunks, x)
      /\ SameParts /\ source' = source /\ limiter' = limiter /\ clock' = clock /\ pieces' = pieces
  BY DEF ChunkRest, SameParts, limiterVars, s3Vars, endVars
<1>3. /\ f \in Buffers(Symbols, BufferSize) /\ WellFormed(f)
      /\ ChunkSize \in Nat /\ BufferSize \in Nat /\ f.filled \in Nat
  <2>1. f \in Buffers(Symbols, BufferSize) /\ WellFormed(f)
    BY <1>1 DEF TypeOK
  <2>2. ChunkSize \in Nat /\ BufferSize \in Nat
    BY <1>1, Sizes
  <2> HIDE DEF f
  <2>3. f.filled \in Nat
    BY <2>1, <2>2 DEF Buffers
  <2> QED BY <2>1, <2>2, <2>3
<1>4. g \in Buffers(Symbols, BufferSize) /\ WellFormed(g)
  BY <1>3, ReadTakes
<1>5. g.filled = 0
  <2>1. Least(f.filled, f.filled) = f.filled
    BY <1>3 DEF Least
  <2>2. f = [cells |-> f.cells, size |-> f.size, filled |-> f.filled, read |-> f.read,
          write |-> f.write]
    BY <1>3 DEF Buffers
  <2>3. g.filled = f.filled - f.filled
    BY <2>1, <2>2 DEF AfterRead
  <2> QED BY <1>3, <2>3
<1>6. chunking'.fifo = g /\ chunking'.value = <<>> /\ chunking'.done = TRUE
  BY <1>1, <1>2 DEF TypeOK
<1>7. BufferSize' = BufferSize
  BY <1>2 DEF BufferSize, SameParts
<1>8. x \in Data /\ Len(x) = f.filled /\ Waiting \in Data
  BY <1>1, StagesType
<1> HIDE DEF f, g, x
<1>9. Contents(g) = <<>>
  <2>1. Contents(g) \in Seq(Symbols) /\ Len(Contents(g)) = 0
    BY <1>3, <1>4, <1>5, ContentsAt
  <2> QED BY <2>1
<1>10. TypeOK'
  <2>1. chunking' \in [fifo : Buffers(Symbols, BufferSize), value : Data, done : BOOLEAN]
    BY <1>1, <1>2, <1>4 DEF TypeOK
  <2>2. chunks' \in Seq(Data)
    BY <1>1, <1>2, <1>8, AppendAt DEF TypeOK
  <2> QED BY <1>1, <1>2, <1>4, <1>6, <1>7, <2>1, <2>2 DEF TypeOK, SameParts
<1>11. Buffered = x /\ Buffered' = <<>> /\ Waiting' = Waiting
  <2>1. Buffered = Cat(x, <<>>) /\ Buffered' = Cat(<<>>, <<>>) /\ <<>> \in Seq(Symbols)
    BY <1>1, <1>6, <1>9 DEF Buffered, f, x
  <2>2. Waiting' = Waiting
    BY <1>2 DEF Waiting
  <2> QED BY <1>8, <2>1, <2>2, CatNothing DEF Data
<1>12. PICK a \in Seq(Data) : CutInto(a) /\ Sends(a)
  BY <1>1 DEF IInv, Uncut
<1>13. /\ source' = <<>> /\ limiter'.value = <<>> /\ pieces' = <<>>
       /\ chunking'.value = <<>> /\ chunking'.fifo.filled = 0
  BY <1>1, <1>2, <1>5, <1>6
<1>14. CASE f.filled = 0
  <2>1. x = <<>>
    BY <1>8, <1>14 DEF Data
  <2>2. Cat(Buffered, Waiting)' = Cat(Buffered, Waiting)
    BY <1>11, <2>1
  <2>3. chunks' = chunks /\ ChunkSize' = ChunkSize /\ setup' = setup /\ start' = start
    BY <1>2, <1>14 DEF SameParts, ChunkSize
  <2>4. \A i \in 1..Len(a) : Len(a[i]) \in 1..ChunkSize' /\ Len(a[i]) = ChunkSize'
    BY <1>1, <1>12, <2>3 DEF CutInto
  <2>5. CutInto(a)'
    BY <1>12, <1>13, <2>2, <2>3, <2>4 DEF CutInto
  <2>6. Sends(a)' /\ Replaced'
    BY <1>2, <1>12, SendsAlone DEF IInv
  <2> QED BY <1>10, <2>5, <2>6 DEF IInv, Uncut
<1>15. CASE f.filled # 0
  <2>1. Len(x) \in 1..ChunkSize
    BY <1>1, <1>3, <1>8, <1>15 DEF f
  <2>2. Cat(FlattenSeq(Append(a, x)), Cat(Buffered, Waiting)') = New[setup]
    <3> DEFINE none == <<>>
    <3>1. none \in Seq(Symbols)
      OBVIOUS
    <3> HIDE DEF none
    <3>2. Cat(FlattenSeq(Append(a, x)), Cat(none, Waiting))
            = Cat(FlattenSeq(a), Cat(Cat(x, none), Waiting))
      BY <1>8, <3>1, StreamChunk DEF Data
    <3> USE DEF none
    <3>3. Cat(x, <<>>) = x
      BY <1>8, CatNothing DEF Data
    <3> QED BY <1>11, <1>12, <3>2, <3>3 DEF CutInto
  <2>3. chunks' = Append(chunks, x)
    BY <1>2, <1>15
  <2> QED BY <1>1, <1>2, <1>6, <1>8, <1>10, <1>12, <1>13, <2>1, <2>2, <2>3, ChunkMore
<1> QED BY <1>14, <1>15

-----------------------------------------------------------------------------
(* The parts.                                                               *)

\* What a step leaves alone of the stream and the chunks.
SameStream ==
    /\ setup' = setup /\ source' = source /\ limiter' = limiter /\ clock' = clock
    /\ pieces' = pieces /\ chunking' = chunking

LEMMA StreamAlone ==
    ASSUME SameStream, chunks' = chunks, start' = start, NEW a, CutInto(a)
    PROVE  CutInto(a)'
<1>1. ChunkSize' = ChunkSize /\ Buffered' = Buffered /\ Waiting' = Waiting
  BY DEF SameStream, ChunkSize, Buffered, Waiting
<1> QED BY <1>1 DEF CutInto, SameStream

LEMMA StartUploadKeeps ==
    ASSUME IInv, StartUpload
    PROVE  IInv'
<1> DEFINE started == start.upload \/ Len(Head(chunks)) = ChunkSize
           part == [data |-> Head(chunks), upload |-> started, index |-> start.index]
<1>1. upload = "running" /\ chunks # <<>> /\ TypeOK
  BY DEF IInv, StartUpload, Running
<1>2. /\ start' = [upload |-> started, index |-> start.index + 1]
      /\ parts' = Append(parts, part) /\ chunks' = Tail(chunks)
      /\ SameStream /\ working' = working /\ completing' = completing /\ recorded' = recorded
      /\ stored' = stored /\ object' = object /\ local' = local /\ upload' = upload
           /\ faults' = faults
  BY DEF StartUpload, SameStream, limiterVars, s3Vars, endVars
<1>3. PICK a \in Seq(Data) : CutInto(a) /\ Sends(a)
  BY <1>1 DEF IInv, Uncut
<1>4. /\ chunks \in Seq(Data) /\ Head(chunks) = chunks[1] /\ Head(chunks) \in Data
      /\ Tail(chunks) \in Seq(Data) /\ Len(Tail(chunks)) = Len(chunks) - 1
           /\ Len(chunks) \in Nat \ {0}
      /\ \A i \in 1..Len(Tail(chunks)) : Tail(chunks)[i] = chunks[i + 1]
  BY <1>1 DEF TypeOK
<1>5. /\ start.index \in Nat /\ Len(a) = start.index + Len(chunks) /\ Len(a) \in Nat
      /\ a # <<>> /\ Head(chunks) = a[start.index + 1]
      /\ \A i \in 1..Len(a) : Len(a[i]) \in 1..ChunkSize /\ (i < Len(a) => Len(a[i]) = ChunkSize)
  <2>1. start.index \in Nat /\ Len(a) = start.index + Len(chunks) /\ Len(a) \in Nat
    BY <1>1, <1>3 DEF TypeOK, CutInto
  <2>2. a # <<>>
    BY <1>4, <2>1
  <2>3. chunks[1] = a[start.index + 1]
    BY <1>3, <1>4 DEF CutInto
  <2>4. \A i \in 1..Len(a) : Len(a[i]) \in 1..ChunkSize /\ (i < Len(a) => Len(a[i]) = ChunkSize)
    BY <1>3 DEF CutInto
  <2> QED BY <1>4, <2>1, <2>2, <2>3, <2>4
<1>6. started = Multi(a)
  <2>1. start.upload = (start.index > 0 /\ Multi(a))
    BY <1>3 DEF Sends
  <2>2. CASE start.index = 0
    <3>1. Head(chunks) = a[1] /\ ~(start.index > 0)
      BY <1>5, <2>2
    <3> QED BY <1>5, <2>1, <3>1, Zenon DEF Multi
  <2>3. CASE start.index # 0
    <3>1. start.index > 0 /\ 1 \in 1..Len(a) /\ 1 < Len(a)
      BY <1>4, <1>5, <2>3
    <3>2. Multi(a)
      BY <1>5, <3>1 DEF Multi
    <3> QED BY <2>1, <3>1, <3>2, Zenon
  <2> QED BY <2>2, <2>3
<1>7. part = PartOf(a, start.index + 1)
  <2>1. start.index + 1 - 1 = start.index
    BY <1>5
  <2> QED BY <1>5, <1>6, <2>1 DEF PartOf
<1>8. part \in UploadingPart /\ started \in BOOLEAN
  <2>1. started \in BOOLEAN
    BY <1>1 DEF TypeOK
  <2> HIDE DEF started
  <2> QED BY <1>4, <1>5, <2>1 DEF UploadingPart, Data
<1> HIDE DEF started, part
<1>9. parts \in Seq(UploadingPart) /\ Len(parts) \in Nat
  BY <1>1 DEF TypeOK
<1>10. /\ Len(parts') = Len(parts) + 1 /\ parts'[Len(parts) + 1] = part
       /\ parts' \in Seq(UploadingPart) /\ \A i \in 1..Len(parts) : parts'[i] = parts[i]
  BY <1>2, <1>8, <1>9, AppendAt
<1>11. start'.index = start.index + 1 /\ start'.upload = started
  BY <1>2
<1>12. Taken' = Taken /\ Taken + Len(parts) = start.index /\ Taken \in Nat
  <2>1. Len(parts) <= start.index
    BY <1>3 DEF Sends
  <2>2. start.index - Len(parts) \in Nat
          /\ (start.index + 1) - (Len(parts) + 1) = start.index - Len(parts)
        /\ (start.index - Len(parts)) + Len(parts) = start.index
    <3> DEFINE l == Len(parts)
               s == start.index
    <3>1. l \in Nat /\ s \in Nat /\ l <= s
      BY <1>5, <1>9, <2>1
    <3> HIDE DEF l, s
    <3>2. s - l \in Nat /\ (s + 1) - (l + 1) = s - l /\ (s - l) + l = s
      BY <3>1
    <3> QED BY <3>2 DEF l, s
  <2> QED BY <1>10, <1>11, <2>2 DEF Taken
<1>13. BufferSize' = BufferSize /\ ChunkSize' = ChunkSize
  BY <1>2 DEF BufferSize, ChunkSize, SameStream
<1>14. TypeOK'
  <2>1. start' \in [upload : BOOLEAN, index : Nat]
    BY <1>2, <1>5, <1>8
  <2> QED BY <1>1, <1>2, <1>4, <1>10, <1>13, <2>1 DEF TypeOK, SameStream
<1>15. CutInto(a)'
  <2>1. Buffered' = Buffered /\ Waiting' = Waiting
    BY <1>2 DEF Buffered, Waiting, SameStream
  <2>2. Len(a) = start'.index + Len(chunks')
    BY <1>2, <1>4, <1>5, <1>11
  <2>3. \A i \in 1..Len(chunks') : chunks'[i] = a[start'.index + i]
    <3> DEFINE n == Len(chunks) - 1
               l == Len(chunks)
               k == start.index
    <3>0. l \in Nat /\ n = l - 1 /\ k \in Nat
      BY <1>4, <1>5
    <3> HIDE DEF n, l, k
    <3>1. ASSUME NEW i \in 1..n PROVE Tail(chunks)[i] = a[(start.index + 1) + i]
      <4>0. i + 1 \in 1..l /\ k + (i + 1) = (k + 1) + i
        BY <3>0
      <4>1. i + 1 \in 1..Len(chunks) /\ start.index + (i + 1) = (start.index + 1) + i
        BY <4>0 DEF l, k
      <4>2. chunks[i + 1] = a[start.index + (i + 1)]
        BY <1>3, <4>1 DEF CutInto
      <4>3. Tail(chunks)[i] = chunks[i + 1]
        BY <1>4 DEF n
      <4> QED BY <4>1, <4>2, <4>3
    <3> QED BY <1>2, <1>4, <1>11, <3>1 DEF n
  <2> QED BY <1>2, <1>3, <1>13, <2>1, <2>2, <2>3 DEF CutInto, SameStream
<1>16. Multi(a)' = Multi(a) /\ (\A k : PartOf(a, k)' = PartOf(a, k))
         /\ (\A k : Put(a, k)' = Put(a, k))
  <2>1. Multi(a)' = Multi(a)
    BY <1>13 DEF Multi
  <2> QED BY <1>2, <2>1 DEF PartOf, Put
<1>17. Sends(a)'
  <2>1. start'.upload = (start'.index > 0 /\ Multi(a)')
    <3>1. start'.index > 0
      BY <1>5, <1>11
    <3>2. started = Multi(a)'
      BY <1>6, <1>16, Zenon
    <3>3. started = (start'.index > 0 /\ Multi(a)')
      BY <3>1, <3>2, <1>8, Zenon
    <3> QED BY <1>11, <3>3, Zenon
  <2>2. Len(parts') <= start'.index
    BY <1>10, <1>11, <1>12, <1>5, <1>9
  <2>3. \A i \in 1..Len(parts') : parts'[i] = PartOf(a, Taken + i)
    <3>1. \A i \in 1..Len(parts') : i \in 1..Len(parts) \/ i = Len(parts) + 1
      BY <1>9, <1>10
    <3>2. \A i \in 1..Len(parts) : parts[i] = PartOf(a, Taken + i)
      BY <1>3 DEF Sends
    <3>3. Taken + (Len(parts) + 1) = start.index + 1
      BY <1>5, <1>9, <1>12
    <3>4. parts'[Len(parts) + 1] = PartOf(a, Taken + (Len(parts) + 1))
      BY <1>7, <1>10, <3>3
    <3> QED BY <1>10, <3>1, <3>2, <3>4
  <2>4. \A i \in 1..Len(parts') : parts'[i] = PartOf(a, Taken + i)'
    BY <1>12, <1>16, <2>3 DEF PartOf
  <2> QED BY <1>2, <1>3, <1>12, <1>16, <2>1, <2>2, <2>4 DEF Sends
<1>18. Replaced'
  BY <1>2 DEF IInv, Replaced, SameStream
<1> QED BY <1>14, <1>15, <1>17, <1>18 DEF IInv, Uncut

\* A part is no idle worker, and of two parts of one number there is one.
LEMMA PartOfType ==
    ASSUME NEW a \in Seq(Data), NEW k \in 1..Len(a)
    PROVE  PartOf(a, k) \in UploadingPart /\ PartOf(a, k) # Idle
<1>1. a[k] \in Data /\ k - 1 \in Nat
  OBVIOUS
<1>2. Multi(a) \in BOOLEAN
  BY DEF Multi
<1>3. PartOf(a, k) \in UploadingPart
  <2> DEFINE m == Multi(a)
  <2>1. m \in BOOLEAN
    BY <1>2
  <2> HIDE DEF m
  <2>2. [data |-> a[k], upload |-> m, index |-> k - 1] \in UploadingPart
    BY <1>1, <2>1 DEF UploadingPart, Data
  <2> QED BY <2>2 DEF PartOf, m
<1> QED BY <1>3, IdleAssumption

LEMMA PartOfOnce ==
    ASSUME NEW a, NEW j \in Nat, NEW k \in Nat, PartOf(a, j) = PartOf(a, k)
    PROVE  j = k
<1>1. PartOf(a, j).index = j - 1 /\ PartOf(a, k).index = k - 1
  BY DEF PartOf
<1> QED BY <1>1

\* How far the parts have got.
LEMMA TakenParts ==
    ASSUME TypeOK, NEW a \in Seq(Data), CutInto(a), Sends(a)
    PROVE  /\ Taken \in Nat /\ Taken + Len(parts) = start.index /\ Taken <= Len(a) /\ Len(a) \in Nat
           /\ \A k \in 1..Taken : k \in Nat /\ k \in 1..Len(a)
<1>1. start.index \in Nat /\ Len(parts) \in Nat /\ Len(chunks) \in Nat /\ Len(a) \in Nat
  BY DEF TypeOK
<1>2. Len(parts) <= start.index /\ Len(a) = start.index + Len(chunks)
  BY DEF Sends, CutInto
<1> QED BY <1>1, <1>2 DEF Taken

LEMMA TakeKeeps ==
    ASSUME IInv, NEW w \in Workers, Take(w)
    PROVE  IInv'
<1>1. upload = "running" /\ working[w] = Idle /\ parts # <<>> /\ TypeOK
  BY DEF IInv, Take, Running
<1>2. /\ working' = [working EXCEPT ![w] = Head(parts)] /\ parts' = Tail(parts)
      /\ SameStream /\ chunks' = chunks /\ start' = start /\ completing' = completing
      /\ recorded' = recorded /\ stored' = stored /\ object' = object /\ local' = local
      /\ upload' = upload /\ faults' = faults
  BY DEF Take, SameStream, limiterVars, s3Vars, endVars
<1>3. PICK a \in Seq(Data) : CutInto(a) /\ Sends(a)
  BY <1>1 DEF IInv, Uncut
<1> DEFINE n == Len(parts)
           part == Head(parts)
           t == Taken
<1>4. /\ part = parts[1] /\ part \in UploadingPart /\ n \in Nat \ {0}
      /\ Tail(parts) \in Seq(UploadingPart) /\ Len(Tail(parts)) = n - 1
      /\ \A i \in 1..n - 1 : Tail(parts)[i] = parts[i + 1]
  BY <1>1 DEF TypeOK
<1>5. t \in Nat /\ t + n = start.index /\ \A k \in 1..t : k \in Nat /\ k \in 1..Len(a)
  BY <1>1, <1>3, TakenParts
<1>6. start.index <= Len(a) /\ Len(a) \in Nat
  <2>1. start.index \in Nat /\ Len(chunks) \in Nat /\ Len(a) \in Nat
          /\ Len(a) = start.index + Len(chunks)
    BY <1>1, <1>3 DEF TypeOK, CutInto
  <2> QED BY <2>1
<1> HIDE DEF n, part, t
<1>7. part = PartOf(a, t + 1)
  <2>1. 1 \in 1..n
    BY <1>4
  <2>2. parts[1] = PartOf(a, t + 1)
    BY <1>3, <2>1 DEF Sends, n, t
  <2> QED BY <1>4, <2>2
<1>8. Taken' = t + 1
  <2>1. Len(parts') = n - 1 /\ start'.index = start.index
    BY <1>2, <1>4
  <2>2. start.index - (n - 1) = t + 1
    BY <1>4, <1>5
  <2> QED BY <2>1, <2>2 DEF Taken
<1>9. /\ Multi(a)' = Multi(a) /\ (\A k : PartOf(a, k)' = PartOf(a, k))
      /\ (\A k : Put(a, k)' = Put(a, k))
  <2>1. Multi(a)' = Multi(a)
    BY <1>2 DEF Multi, ChunkSize, SameStream
  <2> QED BY <1>2, <2>1 DEF PartOf, Put
<1>10. working' \in [Workers -> UploadingPart \union {Idle}] /\ working'[w] = part
       /\ \A v \in Workers : v # w => working'[v] = working[v]
  BY <1>1, <1>2, <1>4 DEF TypeOK, part
<1>11. \A v \in Workers : working[v] # Idle =>
          \E k \in 1..t : working[v] = PartOf(a, k) /\ k \notin ToSet(recorded)
  BY <1>3 DEF Sends, t
<1>12. t + 1 \notin ToSet(recorded) /\ t + 1 \in 1..t + 1 /\ t + 1 \in Nat
  <2>1. t + 1 \notin 1..t /\ t + 1 \in 1..t + 1 /\ t + 1 \in Nat
    BY <1>5
  <2> QED BY <1>3, <2>1 DEF Sends, t
<1>13. \A k \in 1..t : k \in 1..t + 1 /\ k # t + 1
  BY <1>5
<1>14. \A k \in 1..t + 1 : k = t + 1 \/ k \in 1..t
  BY <1>5
<1>15. TypeOK'
  <2>1. BufferSize' = BufferSize
    BY <1>2 DEF BufferSize, SameStream
  <2> QED BY <1>1, <1>2, <1>4, <1>10, <2>1 DEF TypeOK, SameStream
<1>16. Sends(a)'
  <2>1. start'.upload = (start'.index > 0 /\ Multi(a)')
    <3>1. start.upload = (start.index > 0 /\ Multi(a))
      BY <1>3 DEF Sends
    <3> QED BY <1>2, <1>9, <3>1, Zenon
  <2>2. Len(parts') <= start'.index
    BY <1>2, <1>4, <1>5
  <2>3. \A i \in 1..Len(parts') : parts'[i] = PartOf(a, Taken + i)'
    <3>1. ASSUME NEW i \in 1..n - 1 PROVE parts'[i] = PartOf(a, (t + 1) + i)
      <4>1. i + 1 \in 1..n /\ t + (i + 1) = (t + 1) + i
        BY <1>4, <1>5
      <4>2. parts[i + 1] = PartOf(a, t + (i + 1))
        BY <1>3, <4>1 DEF Sends, n, t
      <4> QED BY <1>2, <1>4, <4>1, <4>2
    <3>2. Len(parts') = n - 1
      BY <1>2, <1>4
    <3> QED BY <1>8, <1>9, <3>1, <3>2 DEF PartOf
  <2>4. \A v \in Workers : working'[v] # Idle =>
           \E k \in 1..t + 1 : working'[v] = PartOf(a, k) /\ k \notin ToSet(recorded)
    BY <1>7, <1>10, <1>11, <1>12, <1>13
  <2>5. \A u, v \in Workers : working'[u] = working'[v] /\ working'[u] # Idle => u = v
    <3>1. ASSUME NEW v \in Workers, working[v] # Idle PROVE working[v] # part
      <4>1. PICK k \in 1..t : working[v] = PartOf(a, k)
        BY <1>11, <3>1
      <4>2. k \in Nat /\ k # t + 1
        BY <1>5, <1>13
      <4> QED BY <1>7, <1>12, <4>1, <4>2, PartOfOnce
    <3>2. part # Idle
      BY <1>4, IdleAssumption
    <3>3. \A u, v \in Workers : working[u] = working[v] /\ working[u] # Idle => u = v
      BY <1>3 DEF Sends
    <3> QED BY <1>10, <3>1, <3>2, <3>3
  <2>6. \A k \in 1..t + 1 : (\E v \in Workers : working'[v] = PartOf(a, k)) \/ Put(a, k)
    <3>1. ASSUME NEW k \in 1..t, NEW v \in Workers, working[v] = PartOf(a, k)
          PROVE  working'[v] = PartOf(a, k)
      <4>1. PartOf(a, k) # Idle
        BY <1>5, PartOfType
      <4> QED BY <1>1, <1>10, <3>1, <4>1
    <3>2. \A k \in 1..t : (\E v \in Workers : working[v] = PartOf(a, k)) \/ Put(a, k)
      BY <1>3 DEF Sends, t
    <3> QED BY <1>7, <1>10, <1>14, <3>1, <3>2
  <2>7. \A k \in ToSet(recorded) :
           k \in 1..t + 1 /\ k \in DOMAIN stored /\ stored[k] = a[k] /\ Multi(a)
    BY <1>3, <1>13 DEF Sends, t
  <2>8. /\ \A i, j \in 1..Len(recorded) : recorded[i] = recorded[j] => i = j
        /\ completing = (recorded # <<>>)
    BY <1>3 DEF Sends
  <2> QED BY <1>2, <1>8, <1>9, <2>1, <2>2, <2>3, <2>4, <2>5, <2>6, <2>7, <2>8 DEF Sends
<1>17. CutInto(a)'
  BY <1>2, <1>3, StreamAlone
<1>18. Replaced'
  BY <1>2 DEF IInv, Replaced, SameStream
<1> QED BY <1>3, <1>15, <1>16, <1>17, <1>18 DEF IInv, Uncut

LEMMA FlattenOne ==
    ASSUME NEW S, NEW x \in Seq(S)
    PROVE  FlattenSeq(<<x>>) = x
<1> DEFINE none == <<>>
<1>1. none \in Seq(Seq(S)) /\ Append(none, x) = <<x>>
  OBVIOUS
<1>2. FlattenSeq(none) = <<>>
  BY FlattenNothing
<1> HIDE DEF none
<1>3. FlattenSeq(Append(none, x)) = Cat(FlattenSeq(none), x)
  BY <1>1, FlattenAppend DEF Cat
<1> QED BY <1>1, <1>2, <1>3, CatNothing

\* When chunking has ended, the chunks are the whole object to be.
LEMMA CutWhole ==
    ASSUME TypeOK, NEW a \in Seq(Data), CutInto(a), chunking.done
    PROVE  FlattenSeq(a) = New[setup]
<1>1. /\ source = <<>> /\ limiter.value = <<>> /\ pieces = <<>>
      /\ chunking.value = <<>> /\ chunking.fifo.filled = 0
  BY DEF CutInto
<1>2. <<>> \in Seq(Symbols)
  OBVIOUS
<1>3. Contents(chunking.fifo) = <<>>
  BY <1>1, StagesType DEF Data
<1>4. Buffered = <<>> /\ Waiting = <<>>
  BY <1>1, <1>2, <1>3, FlattenNothing, CatNothing DEF Buffered, Waiting
<1>5. FlattenSeq(a) \in Seq(Symbols)
  BY FlattenType DEF Data
<1> QED BY <1>2, <1>4, <1>5, CatNothing DEF CutInto

\* A step that puts the object puts the whole of it.
Puts == object' = object \/ (object' = New[setup] /\ object' # <<>>)

\* An object put at once is the whole of its only chunk.
LEMMA OnlyChunk ==
    ASSUME TypeOK, NEW a \in Seq(Data), CutInto(a), a # <<>>, ~Multi(a)
    PROVE  Len(a) = 1 /\ a[1] = New[setup] /\ a[1] # <<>>
<1>1. Len(a) \in Nat /\ 1 \in 1..Len(a)
  OBVIOUS
<1>2. ~(1 < Len(a) \/ ~chunking.done)
  BY <1>1 DEF CutInto, Multi
<1>3. Len(a) = 1
  <2> DEFINE n == Len(a)
  <2>1. n \in Nat /\ 1 \in 1..n /\ ~(1 < n)
    BY <1>1, <1>2
  <2> HIDE DEF n
  <2>2. n = 1
    BY <2>1
  <2> QED BY <2>2 DEF n
<1>4. a = <<a[1]>> /\ a[1] \in Data
  BY <1>3
<1> DEFINE x == a[1]
<1> HIDE DEF x
<1>5. FlattenSeq(<<x>>) = x
  BY <1>4, FlattenOne DEF x, Data
<1>6. Len(x) # 0
  BY <1>1, Sizes DEF CutInto, x
<1>7. x # <<>>
  BY <1>6
<1> QED BY <1>2, <1>3, <1>4, <1>5, <1>7, CutWhole DEF x

LEMMA ToSetAppend ==
    ASSUME NEW S, NEW s \in Seq(S), NEW x \in S
    PROVE  ToSet(Append(s, x)) = ToSet(s) \union {x}
<1> DEFINE t == Append(s, x)
<1>1. /\ Len(t) = Len(s) + 1 /\ t[Len(s) + 1] = x /\ \A i \in 1..Len(s) : t[i] = s[i]
      /\ DOMAIN t = 1..Len(s) + 1 /\ DOMAIN s = 1..Len(s) /\ Len(s) \in Nat
  OBVIOUS
<1> HIDE DEF t
<1>2. \A i \in 1..Len(s) + 1 : i \in 1..Len(s) \/ i = Len(s) + 1
  BY <1>1
<1>3. \A i \in 1..Len(s) : i \in 1..Len(s) + 1
  BY <1>1
<1>4. Len(s) + 1 \in 1..Len(s) + 1
  BY <1>1
<1>5. ToSet(t) = ToSet(s) \union {x}
  BY <1>1, <1>2, <1>3, <1>4 DEF ToSet
<1> QED BY <1>5 DEF t

LEMMA PutPartKeeps ==
    ASSUME IInv, NEW w \in Workers, PutPart(w)
    PROVE  IInv' /\ Puts
<1> DEFINE part == working[w]
<1>1. upload = "running" /\ part # Idle /\ TypeOK
  BY DEF IInv, PutPart, Running
<1>2. /\ working' = [working EXCEPT ![w] = Idle]
      /\ SameStream /\ chunks' = chunks /\ start' = start /\ parts' = parts /\ local' = local
      /\ faults' = faults
  BY DEF PutPart, SameStream, limiterVars
<1>3. PICK a \in Seq(Data) : CutInto(a) /\ Sends(a)
  BY <1>1 DEF IInv, Uncut
<1>4. PICK k \in 1..Taken : part = PartOf(a, k) /\ k \notin ToSet(recorded)
  BY <1>1, <1>3 DEF Sends
<1>5. /\ k \in Nat /\ k \in 1..Len(a) /\ a[k] \in Data
      /\ Taken \in Nat /\ Taken <= Len(a) /\ Len(a) \in Nat /\ \A j \in 1..Taken : j \in Nat
           /\ j \in 1..Len(a)
  BY <1>1, <1>3, <1>4, TakenParts
<1>6. part.data = a[k] /\ part.upload = Multi(a) /\ PartNumber(part) = k
  <2>1. part.index = k - 1 /\ k - 1 + 1 = k
    BY <1>4, <1>5 DEF PartOf
  <2> QED BY <1>4, <2>1 DEF PartOf, PartNumber
<1>7. \/ /\ Multi(a) /\ k <= MaxChunkCount
         /\ stored' = [number \in DOMAIN stored \union {k} |->
                         IF number = k THEN a[k] ELSE stored[number]]
         /\ recorded' = Append(recorded, k) /\ completing' = TRUE /\ object' = object
              /\ upload' = upload
      \/ /\ Multi(a) /\ k > MaxChunkCount /\ upload' = "failed" /\ UNCHANGED s3Vars
      \/ /\ ~Multi(a) /\ object' = a[k] /\ UNCHANGED <<completing, recorded, stored, upload>>
  <2>1. MaxChunkCount \in Nat
    BY <1>1, Sizes
  <2>2. \/ /\ part.upload /\ PartNumber(part) <= MaxChunkCount
           /\ stored' = [number \in DOMAIN stored \union {PartNumber(part)} |->
                            IF number = PartNumber(part) THEN part.data ELSE stored[number]]
           /\ recorded' = Append(recorded, PartNumber(part))
           /\ completing' = TRUE /\ UNCHANGED <<object, upload>>
        \/ /\ part.upload /\ PartNumber(part) > MaxChunkCount /\ upload' = "failed"
             /\ UNCHANGED s3Vars
        \/ /\ ~part.upload /\ object' = part.data
             /\ UNCHANGED <<completing, recorded, stored, upload>>
    <3> DEFINE number == PartNumber(part)
               kept == [n \in DOMAIN stored \union {number} |->
                            IF n = number THEN part.data ELSE stored[n]]
               longer == Append(recorded, number)
               A == stored' = kept /\ recorded' = longer /\ completing' = TRUE
                 /\ UNCHANGED <<object, upload>>
               B == upload' = "failed" /\ UNCHANGED s3Vars
               C == object' = part.data /\ UNCHANGED <<completing, recorded, stored, upload>>
    <3>1. (CASE part.upload /\ number <= MaxChunkCount -> A
             [] part.upload /\ number > MaxChunkCount -> B
             [] ~part.upload -> C)
      BY DEF PutPart
    <3>2. number \in Nat
      BY <1>5, <1>6
    <3> DEFINE few == number <= MaxChunkCount
               many == number > MaxChunkCount
    <3>3. many <=> ~few
      BY <2>1, <3>2
    <3> HIDE DEF A, B, C, number, few, many
    <3>4. (CASE part.upload /\ few -> A [] part.upload /\ many -> B [] ~part.upload -> C)
      BY <3>1 DEF few, many
    <3>5. ASSUME part.upload, few PROVE A
      BY <3>3, <3>4, <3>5
    <3>6. ASSUME part.upload, many PROVE B
      BY <3>3, <3>4, <3>6
    <3>7. ASSUME ~part.upload PROVE C
      BY <3>3, <3>4, <3>7
    <3> QED BY <3>3, <3>5, <3>6, <3>7 DEF A, B, C, number, few, many
  <2> QED BY <1>6, <2>2
<1>8. /\ working' \in [Workers -> UploadingPart \union {Idle}] /\ working'[w] = Idle
      /\ \A v \in Workers : v # w => working'[v] = working[v]
  BY <1>1, <1>2 DEF TypeOK
<1>9. BufferSize' = BufferSize /\ ChunkSize' = ChunkSize /\ Taken' = Taken
  BY <1>2 DEF BufferSize, ChunkSize, Taken, SameStream
<1>10. Multi(a)' = Multi(a) /\ (\A j : PartOf(a, j)' = PartOf(a, j))
  <2>1. Multi(a)' = Multi(a)
    BY <1>9 DEF Multi
  <2> QED BY <2>1 DEF PartOf
<1>11. CutInto(a)'
  BY <1>2, <1>3, StreamAlone
<1>12. /\ \A v \in Workers : working[v] # Idle =>
             \E j \in 1..Taken : working[v] = PartOf(a, j) /\ j \notin ToSet(recorded)
       /\ \A u, v \in Workers : working[u] = working[v] /\ working[u] # Idle => u = v
       /\ \A j \in 1..Taken : (\E v \in Workers : working[v] = PartOf(a, j)) \/ Put(a, j)
       /\ \A j \in ToSet(recorded) : j \in 1..Taken /\ j \in DOMAIN stored /\ stored[j] = a[j]
            /\ Multi(a)
  BY <1>3 DEF Sends
<1>13. ASSUME NEW v \in Workers, working'[v] # Idle
       PROVE  \E j \in 1..Taken : working'[v] = PartOf(a, j) /\ j \notin ToSet(recorded) /\ j # k
  <2>1. v # w /\ working'[v] = working[v]
    BY <1>8, <1>13
  <2>2. PICK j \in 1..Taken : working[v] = PartOf(a, j) /\ j \notin ToSet(recorded)
    BY <1>12, <1>13, <2>1
  <2>3. j # k
    BY <1>1, <1>4, <1>12, <2>1, <2>2
  <2> QED BY <2>1, <2>2, <2>3
<1>14. \A u, v \in Workers : working'[u] = working'[v] /\ working'[u] # Idle => u = v
  BY <1>8, <1>12
<1>15. ASSUME NEW j \in 1..Taken, j # k
       PROVE  (\E v \in Workers : working'[v] = PartOf(a, j)) \/ Put(a, j)
  <2>1. ASSUME NEW v \in Workers, working[v] = PartOf(a, j) PROVE v # w
    BY <1>4, <1>5, <1>15, <2>1, PartOfOnce
  <2> QED BY <1>8, <1>12, <2>1
<1>16. /\ start'.upload = (start'.index > 0 /\ Multi(a)')
       /\ Len(parts') <= start'.index
       /\ \A i \in 1..Len(parts') : parts'[i] = PartOf(a, Taken + i)'
  <2>1. start.upload = (start.index > 0 /\ Multi(a))
    BY <1>3 DEF Sends
  <2>2. start'.upload = (start'.index > 0 /\ Multi(a)')
    BY <1>2, <1>10, <2>1, Zenon
  <2>3. Len(parts) <= start.index /\ \A i \in 1..Len(parts) : parts[i] = PartOf(a, Taken + i)
    BY <1>3 DEF Sends
  <2> QED BY <1>2, <1>9, <1>10, <2>2, <2>3 DEF PartOf
<1> HIDE DEF part
<1>17. CASE /\ Multi(a) /\ k <= MaxChunkCount
            /\ stored' = [number \in DOMAIN stored \union {k} |->
                            IF number = k THEN a[k] ELSE stored[number]]
            /\ recorded' = Append(recorded, k) /\ completing' = TRUE /\ object' = object
                 /\ upload' = upload
  <2>1. recorded \in Seq(Nat) /\ Len(recorded) \in Nat
    BY <1>1 DEF TypeOK
  <2>2. /\ recorded' \in Seq(Nat) /\ Len(recorded') = Len(recorded) + 1
             /\ recorded'[Len(recorded) + 1] = k
        /\ \A i \in 1..Len(recorded) : recorded'[i] = recorded[i]
    BY <1>5, <1>17, <2>1, AppendAt
  <2>3. ToSet(recorded') = ToSet(recorded) \union {k}
    BY <1>5, <1>17, <2>1, ToSetAppend
  <2>4. /\ DOMAIN stored' = DOMAIN stored \union {k} /\ stored'[k] = a[k]
        /\ \A j \in DOMAIN stored : j # k => stored'[j] = stored[j]
    BY <1>17
  <2>5. TypeOK'
    BY <1>1, <1>2, <1>8, <1>9, <1>17, <2>2 DEF TypeOK, SameStream
  <2>6. \A v \in Workers : working'[v] # Idle =>
           \E j \in 1..Taken : working'[v] = PartOf(a, j) /\ j \notin ToSet(recorded')
    BY <1>13, <2>3
  <2>7. \A j \in 1..Taken : (\E v \in Workers : working'[v] = PartOf(a, j)) \/ Put(a, j)'
    <3>1. \A j \in 1..Taken : Put(a, j)' <=> j \in ToSet(recorded')
      BY <1>10, <1>17 DEF Put
    <3>2. \A j \in 1..Taken : Put(a, j) <=> j \in ToSet(recorded)
      BY <1>17 DEF Put
    <3> QED BY <1>15, <2>3, <3>1, <3>2
  <2>8. \A j \in ToSet(recorded') :
           j \in 1..Taken /\ j \in DOMAIN stored' /\ stored'[j] = a[j] /\ Multi(a)
    BY <1>4, <1>12, <1>17, <2>3, <2>4
  <2>9. \A i, j \in 1..Len(recorded') : recorded'[i] = recorded'[j] => i = j
    <3>1. \A i \in 1..Len(recorded') : i \in 1..Len(recorded) \/ i = Len(recorded) + 1
      BY <2>1, <2>2
    <3>2. \A i \in 1..Len(recorded) : recorded[i] # k
      BY <1>4, <2>1 DEF ToSet
    <3>3. \A i, j \in 1..Len(recorded) : recorded[i] = recorded[j] => i = j
      BY <1>3 DEF Sends
    <3> QED BY <2>2, <3>1, <3>2, <3>3
  <2>10. completing' = (recorded' # <<>>)
    <3>1. recorded' # <<>>
      BY <2>1, <2>2
    <3> QED BY <1>17, <3>1
  <2>11. Sends(a)'
    BY <1>9, <1>10, <1>14, <1>16, <2>6, <2>7, <2>8, <2>9, <2>10 DEF Sends
  <2>12. Replaced'
    BY <1>2, <1>17 DEF IInv, Replaced, SameStream
  <2> QED BY <1>11, <1>17, <2>5, <2>11, <2>12 DEF IInv, Uncut, Puts
<1>18. CASE Multi(a) /\ k > MaxChunkCount /\ upload' = "failed" /\ UNCHANGED s3Vars
  <2>1. TypeOK'
    BY <1>1, <1>2, <1>8, <1>9, <1>18 DEF TypeOK, SameStream, s3Vars
  <2>2. Replaced' /\ Uncut' /\ object' = object
    BY <1>1, <1>2, <1>18 DEF IInv, Replaced, Uncut, SameStream, s3Vars
  <2> QED BY <2>1, <2>2 DEF IInv, Puts
<1>19. CASE ~Multi(a) /\ object' = a[k] /\ UNCHANGED <<completing, recorded, stored, upload>>
  <2>1. Len(a) = 1 /\ a[1] = New[setup] /\ a[1] # <<>>
    <3>1. a # <<>>
      BY <1>5
    <3> QED BY <1>1, <1>3, <1>19, <3>1, OnlyChunk
  <2>2. k = 1 /\ \A j \in 1..Taken : j = k
    BY <1>5, <2>1
  <2>3. object' = New[setup] /\ object' # <<>>
    BY <1>19, <2>1, <2>2
  <2>4. TypeOK'
    BY <1>1, <1>2, <1>5, <1>8, <1>9, <1>19 DEF TypeOK, SameStream
  <2>5. Put(a, k)'
    BY <1>10, <1>19 DEF Put
  <2>6. \A j \in 1..Taken : (\E v \in Workers : working'[v] = PartOf(a, j)) \/ Put(a, j)'
    BY <2>2, <2>5
  <2>7. Sends(a)'
    BY <1>3, <1>9, <1>10, <1>12, <1>13, <1>14, <1>16, <1>19, <2>6 DEF Sends
  <2>8. Replaced'
    BY <1>1, <1>2, <1>19, <2>3 DEF IInv, Replaced, SameStream
  <2> QED BY <1>11, <2>3, <2>4, <2>7, <2>8 DEF IInv, Uncut, Puts
<1> QED BY <1>7, <1>17, <1>18, <1>19

-----------------------------------------------------------------------------
(* The list of parts.                                                       *)

\* Numbers that are all of 1..n and none twice are as many.
LEMMA AsMany ==
    ASSUME NEW n \in Nat, NEW s \in Seq(Nat), ToSet(s) = 1..n,
           \A i, j \in 1..Len(s) : s[i] = s[j] => i = j
    PROVE  Len(s) = n
<1> DEFINE m == Len(s)
<1>1. m \in Nat /\ DOMAIN s = 1..m /\ s \in [1..m -> Nat]
  OBVIOUS
<1> HIDE DEF m
<1>2. s \in [1..m -> 1..n] /\ \A k \in 1..n : \E i \in 1..m : s[i] = k
  BY <1>1 DEF ToSet
<1>3. \A i, j \in 1..m : s[i] = s[j] => i = j
  BY DEF m
<1>4. s \in Bijection(1..m, 1..n)
  BY <1>1, <1>2, <1>3 DEF Bijection, Injection, Surjection, IsInjective
<1>5. ExistsBijection(1..m, 1..n)
  BY <1>4 DEF ExistsBijection
<1>6. /\ IsFiniteSet(1..m) /\ Cardinality(1..m) = IF 1 > m THEN 0 ELSE m - 1 + 1
      /\ Cardinality(1..n) = IF 1 > n THEN 0 ELSE n - 1 + 1
  BY <1>1, FS_Interval
<1>7. Cardinality(1..n) = Cardinality(1..m)
  BY <1>5, <1>6, FS_Bijection
<1>8. Cardinality(1..m) = m
  BY <1>1, <1>6
<1>9. Cardinality(1..n) = n
  BY <1>6
<1> QED BY <1>7, <1>8, <1>9 DEF m

\* In ascending order they are 1, 2, ..., n.
LEMMA AscendingIs ==
    ASSUME NEW n \in Nat, NEW list \in [1..n -> 1..n], \A k \in 1..n : \E i \in 1..n : list[i] = k,
           \A i, j \in 1..n : i < j => list[i] <= list[j]
    PROVE  \A i \in 1..n : list[i] = i
<1>1. \A i \in 1..n : list[i] \in 1..n /\ i \in Nat
  OBVIOUS
<1> DEFINE high == {i \in 1..n : list[i] > i}
           low == {m \in 0..n - 1 : list[n - m] < n - m}
<1>2. high = {}
  <2> SUFFICES ASSUME high # {} PROVE FALSE
    OBVIOUS
  <2>1. PICK i \in high : \A j \in high : ~(<<j, i>> \in OpToRel(<, Nat))
    <3>1. high \subseteq Nat
      BY <1>1
    <3> HIDE DEF high
    <3> QED BY <3>1, NatLessThanWellFounded, WFMin
  <2>2. i \in 1..n /\ i \in Nat /\ list[i] > i /\ list[i] \in 1..n
    BY <1>1
  <2>3. PICK j \in 1..n : list[j] = i
    BY <2>2
  <2>4. j \in Nat /\ j # i
    BY <1>1, <2>2, <2>3
  <2>5. CASE j < i
    <3>1. <<j, i>> \in OpToRel(<, Nat)
      BY <2>2, <2>4, <2>5 DEF OpToRel
    <3>2. ~(list[j] > j)
      BY <2>1, <3>1
    <3> QED BY <2>2, <2>3, <2>4, <2>5, <3>2
  <2>6. CASE j > i
    <3>1. list[i] <= list[j]
      BY <2>2, <2>6
    <3> QED BY <2>2, <2>3, <3>1
  <2> QED BY <2>2, <2>4, <2>5, <2>6
<1>3. low = {}
  <2> SUFFICES ASSUME low # {} PROVE FALSE
    OBVIOUS
  <2>1. PICK m \in low : \A j \in low : ~(<<j, m>> \in OpToRel(<, Nat))
    <3>1. low \subseteq Nat
      <4>1. 0..n - 1 \subseteq Nat
        OBVIOUS
      <4> QED BY <4>1
    <3> HIDE DEF low
    <3> QED BY <3>1, NatLessThanWellFounded, WFMin
  <2> DEFINE i == n - m
  <2>2. m \in Nat /\ m \in 0..n - 1 /\ i \in 1..n /\ i \in Nat /\ list[i] < i /\ list[i] \in 1..n
    BY <1>1
  <2>3. PICK j \in 1..n : list[j] = i
    BY <2>2
  <2>4. j \in Nat /\ j # i
    <3> HIDE DEF i
    <3>1. list[j] = i /\ list[i] # i
      BY <2>2, <2>3
    <3> QED BY <2>3, <3>1
  <2>5. CASE j > i
    <3>1. n - j \in Nat /\ n - j \in 0..n - 1 /\ n - j < m /\ n - (n - j) = j
      BY <2>2, <2>4, <2>5
    <3>2. <<n - j, m>> \in OpToRel(<, Nat)
      BY <2>2, <3>1 DEF OpToRel
    <3>3. ~(list[n - (n - j)] < n - (n - j))
      BY <2>1, <3>1, <3>2
    <3>4. ~(list[j] < j)
      BY <3>1, <3>3
    <3> HIDE DEF i
    <3> QED BY <2>2, <2>3, <2>4, <2>5, <3>4
  <2>6. CASE j < i
    <3>1. list[j] <= list[i]
      BY <2>2, <2>6
    <3> HIDE DEF i
    <3> QED BY <2>2, <2>3, <3>1
  <2> HIDE DEF i
  <2> QED BY <2>2, <2>4, <2>5, <2>6
<1>4. ASSUME NEW i \in 1..n PROVE list[i] = i
  <2>1. ~(list[i] > i)
    BY <1>2
  <2>2. n - i \in 0..n - 1 /\ n - (n - i) = i
    BY <1>1
  <2>3. ~(list[n - (n - i)] < n - (n - i))
    BY <1>3, <2>2
  <2>4. list[i] \in 1..n /\ i \in Nat
    BY <1>1
  <2> QED BY <2>1, <2>2, <2>3, <2>4
<1> QED BY <1>4

\* When everything is put, the list of parts has all of them, in order.
LEMMA PartsListed ==
    ASSUME TypeOK, NEW a \in Seq(Data), CutInto(a), Sends(a), AllPut, completing
    PROVE  /\ PartList = [i \in 1..Len(a) |-> i]
           /\ Ascending(PartList) /\ Assembled = New[setup] /\ New[setup] # <<>>
<1> DEFINE n == Len(a)
<1>1. /\ chunking.done /\ chunks = <<>> /\ parts = <<>> /\ \A w \in Workers : working[w] = Idle
  BY DEF AllPut
<1>2. Taken = n /\ n \in Nat /\ \A k \in 1..n : k \in Nat
  <2>1. Taken \in Nat /\ Taken + Len(parts) = start.index
    BY TakenParts
  <2>2. n = start.index + Len(chunks) /\ Len(chunks) = 0 /\ Len(parts) = 0 /\ start.index \in Nat
          /\ n \in Nat
    BY <1>1 DEF CutInto, TypeOK
  <2> QED BY <2>1, <2>2
<1>3. recorded \in Seq(Nat) /\ recorded # <<>> /\ DOMAIN recorded = 1..Len(recorded)
  <2>1. completing = (recorded # <<>>)
    BY DEF Sends
  <2>2. recorded # <<>>
    BY <2>1, Zenon
  <2> QED BY <2>2 DEF TypeOK
<1>4. Multi(a) /\ \A k \in ToSet(recorded) : k \in 1..n /\ k \in DOMAIN stored /\ stored[k] = a[k]
  <2>1. recorded[1] \in ToSet(recorded)
    BY <1>3 DEF ToSet
  <2> QED BY <1>2, <2>1 DEF Sends
<1>5. ToSet(recorded) = 1..n
  <2>1. ASSUME NEW k \in 1..n PROVE k \in ToSet(recorded)
    <3>1. \A w \in Workers : working[w] # PartOf(a, k)
      BY <1>1, PartOfType
    <3>2. Put(a, k)
      BY <1>2, <3>1 DEF Sends
    <3> QED BY <1>4, <3>2 DEF Put
  <2> QED BY <1>4, <2>1
<1>6. Len(recorded) = n
  <2>1. \A i, j \in 1..Len(recorded) : recorded[i] = recorded[j] => i = j
    BY DEF Sends
  <2> QED BY <1>2, <1>3, <1>5, <2>1, AsMany
<1> HIDE DEF n
<1> DEFINE Sorted(list) == /\ ToSet(list) = 1..n
                           /\ \A i, j \in 1..n : i < j => list[i] <= list[j]
           id == [i \in 1..n |-> i]
<1>7. id \in [1..n -> 1..n] /\ Sorted(id)
  <2>1. ToSet(id) = 1..n
    BY DEF ToSet
  <2> QED BY <1>2, <2>1
<1>8. PartList = CHOOSE list \in [1..n -> 1..n] : Sorted(list)
  BY <1>5, <1>6 DEF PartList
<1>9. PartList \in [1..n -> 1..n] /\ Sorted(PartList)
  <2> HIDE DEF Sorted, id
  <2> QED BY <1>7, <1>8
<1>10. \A k \in 1..n : \E i \in 1..n : PartList[i] = k
  <2>1. DOMAIN PartList = 1..n
    BY <1>9
  <2> QED BY <1>9, <2>1 DEF ToSet
<1>11. \A i \in 1..n : PartList[i] = i
  BY <1>2, <1>9, <1>10, AscendingIs
<1>12. PartList = id /\ DOMAIN PartList = 1..n
  BY <1>9, <1>11
<1>13. Ascending(PartList)
  <2>1. Len(id) = n
    BY <1>2
  <2>2. \A i \in 1..n - 1 : i \in 1..n /\ i + 1 \in 1..n /\ i < i + 1
    BY <1>2
  <2> QED BY <1>12, <2>1, <2>2 DEF Ascending
<1>14. Assembled = FlattenSeq(a)
  <2>1. \A i \in 1..n : stored[PartList[i]] = a[i]
    BY <1>4, <1>5, <1>11
  <2>2. [i \in DOMAIN PartList |-> stored[PartList[i]]] = [i \in 1..n |-> a[i]]
    BY <1>12, <2>1
  <2>3. a = [i \in 1..n |-> a[i]]
    BY DEF n
  <2> QED BY <2>2, <2>3 DEF Assembled
<1>15. New[setup] = FlattenSeq(a)
  BY <1>1, CutWhole
<1>16. New[setup] # <<>>
  <2> DEFINE x == Head(a)
             r == FlattenSeq(Tail(a))
  <2>1. a # <<>> /\ x = a[1] /\ x \in Seq(Symbols) /\ Tail(a) \in Seq(Seq(Symbols))
    BY <1>4 DEF Multi, Data
  <2>2. New[setup] = Cat(x, r)
    BY <1>15, <2>1, FlattenHead DEF Cat, Data
  <2>3. r \in Seq(Symbols)
    BY <2>1, FlattenType
  <2>4. Len(x) # 0
    BY <1>4, <2>1, Sizes DEF Multi
  <2> HIDE DEF x, r
  <2>5. Len(New[setup]) = Len(x) + Len(r)
    BY <2>1, <2>2, <2>3, CatType
  <2>6. Len(New[setup]) # 0
    BY <2>1, <2>3, <2>4, <2>5
  <2> QED BY <2>6
<1> QED BY <1>12, <1>13, <1>14, <1>15, <1>16 DEF n

\* Otherwise the object has been put at once, unless there is nothing of it.
LEMMA PutAtOnce ==
    ASSUME TypeOK, NEW a \in Seq(Data), CutInto(a), Sends(a), AllPut, ~completing, New[setup] # <<>>
    PROVE  object = New[setup]
<1>1. /\ chunking.done /\ chunks = <<>> /\ parts = <<>> /\ \A w \in Workers : working[w] = Idle
  BY DEF AllPut
<1>2. a # <<>>
  BY <1>1, CutWhole, FlattenNothing
<1>3. Taken = Len(a) /\ 1 \in 1..Len(a)
  <2>1. Taken \in Nat /\ Taken + Len(parts) = start.index
    BY TakenParts
  <2>2. /\ Len(a) = start.index + Len(chunks) /\ Len(chunks) = 0 /\ Len(parts) = 0
        /\ start.index \in Nat /\ Len(a) \in Nat
    BY <1>1 DEF CutInto, TypeOK
  <2>3. 1 \in 1..Len(a)
    BY <1>2
  <2> QED BY <2>1, <2>2, <2>3
<1>4. \A w \in Workers : working[w] # PartOf(a, 1)
  BY <1>1, <1>3, PartOfType
<1>5. Put(a, 1)
  BY <1>3, <1>4 DEF Sends
<1>6. recorded = <<>>
  BY DEF Sends
<1>7. ToSet(recorded) = {}
  BY <1>6 DEF ToSet
<1>8. ~Multi(a) /\ object = a[1]
  BY <1>5, <1>7 DEF Put
<1> QED BY <1>2, <1>8, OnlyChunk

LEMMA CompleteKeeps ==
    ASSUME IInv, Complete
    PROVE  IInv' /\ Puts
<1>1. upload = "running" /\ AllPut /\ TypeOK
  BY DEF IInv, Complete, Running
<1>2. /\ SameStream /\ chunks' = chunks /\ start' = start /\ parts' = parts /\ working' = working
      /\ completing' = completing /\ recorded' = recorded /\ stored' = stored /\ local' = local
      /\ faults' = faults
  BY DEF Complete, SameStream, limiterVars
<1>3. PICK a \in Seq(Data) : CutInto(a) /\ Sends(a)
  BY <1>1 DEF IInv, Uncut
<1>4. setup \in Setups /\ local = DOMAIN setup.files /\ object \in {Old[setup], New[setup]}
  BY <1>1 DEF IInv, TypeOK, Replaced
<1>5. /\ object' = IF completing THEN New[setup] ELSE object
      /\ upload' = IF setup.delete_after THEN "deleting" ELSE "done"
      /\ completing => New[setup] # <<>>
  <2>1. CASE completing
    BY <1>1, <1>3, <2>1, PartsListed DEF Complete
  <2>2. CASE ~completing
    BY <2>2 DEF Complete
  <2> QED BY <2>1, <2>2
<1>6. setup.delete_after => object' = New[setup]
  <2>1. setup.delete_after => New[setup] # <<>>
    BY <1>4, DeletedAssumption
  <2> QED BY <1>1, <1>3, <1>5, <2>1, PutAtOnce
<1>7. New[setup] \in Data /\ Old[setup] \in Data
  BY <1>4, StreamType DEF Data
<1>8. object' \in {Old[setup], New[setup]} /\ upload' \in {"deleting", "done"}
  BY <1>4, <1>5
<1>9. BufferSize' = BufferSize
  BY <1>2 DEF BufferSize, SameStream
<1>10. TypeOK'
  BY <1>1, <1>2, <1>7, <1>8, <1>9 DEF TypeOK, SameStream
<1>11. Replaced'
  BY <1>2, <1>4, <1>5, <1>6, <1>8 DEF Replaced, SameStream
<1> QED BY <1>5, <1>8, <1>10, <1>11 DEF IInv, Uncut, Puts

LEMMA DeleteLocalKeeps ==
    ASSUME IInv, DeleteLocal
    PROVE  IInv'
<1>1. upload = "deleting" /\ TypeOK /\ object = New[setup]
  BY DEF IInv, DeleteLocal, Replaced
<1>2. /\ SameStream /\ chunks' = chunks /\ start' = start /\ parts' = parts /\ working' = working
      /\ completing' = completing /\ recorded' = recorded /\ stored' = stored /\ object' = object
      /\ faults' = faults /\ upload' \in {"deleting", "done"}
  BY <1>1 DEF DeleteLocal, SameStream, limiterVars, s3Vars
<1>3. BufferSize' = BufferSize
  BY <1>2 DEF BufferSize, SameStream
<1>4. TypeOK'
  BY <1>1, <1>2, <1>3 DEF TypeOK, SameStream
<1>5. Replaced'
  BY <1>1, <1>2 DEF Replaced, SameStream
<1> QED BY <1>2, <1>4, <1>5 DEF IInv, Uncut

LEMMA UploadFailsKeeps ==
    ASSUME IInv, UploadFails
    PROVE  IInv'
<1>1. upload \in {"running", "deleting"} /\ TypeOK
  BY DEF IInv, UploadFails
<1>2. /\ SameStream /\ chunks' = chunks /\ start' = start /\ parts' = parts /\ working' = working
      /\ completing' = completing /\ recorded' = recorded /\ stored' = stored /\ object' = object
      /\ local' = local /\ faults' = faults + 1 /\ upload' = "failed"
  BY DEF UploadFails, SameStream, limiterVars, s3Vars
<1>3. BufferSize' = BufferSize
  BY <1>2 DEF BufferSize, SameStream
<1>4. TypeOK'
  BY <1>1, <1>2, <1>3 DEF TypeOK, SameStream
<1>5. Replaced'
  BY <1>2 DEF IInv, Replaced, SameStream
<1> QED BY <1>2, <1>4, <1>5 DEF IInv, Uncut

LEMMA CompleteUnansweredKeeps ==
    ASSUME IInv, CompleteUnanswered
    PROVE  IInv' /\ Puts
<1>1. upload = "running" /\ AllPut /\ completing /\ TypeOK
  BY DEF IInv, CompleteUnanswered, Running
<1>2. /\ SameStream /\ chunks' = chunks /\ start' = start /\ parts' = parts /\ working' = working
      /\ completing' = completing /\ recorded' = recorded /\ stored' = stored /\ object' = Assembled
      /\ local' = local /\ faults' = faults + 1 /\ upload' = "failed"
  BY DEF CompleteUnanswered, SameStream, limiterVars
<1>3. PICK a \in Seq(Data) : CutInto(a) /\ Sends(a)
  BY <1>1 DEF IInv, Uncut
<1>4. object' = New[setup] /\ New[setup] \in Data /\ New[setup] # <<>>
  BY <1>1, <1>2, <1>3, PartsListed, StreamType DEF TypeOK, Data
<1>5. BufferSize' = BufferSize
  BY <1>2 DEF BufferSize, SameStream
<1>6. TypeOK'
  BY <1>1, <1>2, <1>4, <1>5 DEF TypeOK, SameStream
<1>7. Replaced'
  BY <1>1, <1>2, <1>4 DEF IInv, Replaced, SameStream
<1> QED BY <1>2, <1>4, <1>6, <1>7 DEF IInv, Uncut, Puts

-----------------------------------------------------------------------------
(* All steps.                                                               *)

\* Downloads leave the upload alone, but for the count of faults.
LEMMA DownloadKeeps ==
    ASSUME IInv, SameStream, chunks' = chunks, start' = start, parts' = parts, working' = working,
           completing' = completing, recorded' = recorded, stored' = stored, object' = object,
           local' = local, upload' = upload, faults' \in Nat
    PROVE  IInv'
<1>1. BufferSize' = BufferSize /\ ChunkSize' = ChunkSize /\ Taken' = Taken
  BY DEF BufferSize, ChunkSize, Taken, SameStream
<1>2. TypeOK'
  BY <1>1 DEF IInv, TypeOK, SameStream
<1>3. Replaced'
  BY DEF IInv, Replaced, SameStream
<1>4. ASSUME upload = "running" PROVE Uncut'
  <2>1. PICK a \in Seq(Data) : CutInto(a) /\ Sends(a)
    BY <1>4 DEF IInv, Uncut
  <2>2. CutInto(a)'
    BY <2>1, StreamAlone
  <2>3. Multi(a)' = Multi(a)
    BY <1>1 DEF Multi
  <2>4. (\A k : PartOf(a, k)' = PartOf(a, k)) /\ (\A k : Put(a, k)' = Put(a, k))
    BY <2>3 DEF PartOf, Put
  <2>5. Sends(a)'
    BY <1>1, <2>1, <2>3, <2>4 DEF Sends
  <2> QED BY <2>2, <2>5 DEF Uncut
<1>5. upload # "running" => Uncut'
  BY DEF Uncut
<1> QED BY <1>2, <1>3, <1>4, <1>5 DEF IInv

LEMMA StepKeeps ==
    ASSUME IInv, [Next]_vars
    PROVE  IInv' /\ Puts
<1>1. CASE NextValue
  BY <1>1, NextValueKeeps DEF NextValue, s3Vars, Puts
<1>2. CASE Limit
  BY <1>2, LimitKeeps DEF Limit, s3Vars, Puts
<1>3. CASE Tick
  BY <1>3, TickKeeps DEF Tick, s3Vars, Puts
<1>4. CASE NextPiece
  BY <1>4, NextPieceKeeps DEF NextPiece, s3Vars, Puts
<1>5. CASE Chunk
  BY <1>5, ChunkKeeps DEF Chunk, s3Vars, Puts
<1>6. CASE ChunkRest
  BY <1>6, ChunkRestKeeps DEF ChunkRest, s3Vars, Puts
<1>7. CASE StartUpload
  BY <1>7, StartUploadKeeps DEF StartUpload, s3Vars, Puts
<1>8. ASSUME NEW w \in Workers, Take(w) PROVE IInv' /\ Puts
  BY <1>8, TakeKeeps DEF Take, s3Vars, Puts
<1>9. ASSUME NEW w \in Workers, PutPart(w) PROVE IInv' /\ Puts
  BY <1>9, PutPartKeeps
<1>10. CASE Complete
  BY <1>10, CompleteKeeps
<1>11. CASE DeleteLocal
  BY <1>11, DeleteLocalKeeps DEF DeleteLocal, s3Vars, Puts
<1>12. CASE UploadFails
  BY <1>12, UploadFailsKeeps DEF UploadFails, s3Vars, Puts
<1>13. CASE CompleteUnanswered
  BY <1>13, CompleteUnansweredKeeps
<1>14. ASSUME UNCHANGED uploadVars PROVE IInv' /\ Puts
  <2>1. /\ SameStream /\ chunks' = chunks /\ start' = start /\ parts' = parts /\ working' = working
        /\ completing' = completing /\ recorded' = recorded /\ stored' = stored /\ object' = object
        /\ local' = local /\ upload' = upload /\ faults' = faults
    BY <1>14 DEF uploadVars, SameStream
  <2>2. faults' \in Nat
    BY <2>1 DEF IInv, TypeOK
  <2> QED BY <2>1, <2>2, DownloadKeeps DEF Puts
<1>15. ASSUME DownloadFails,
              UNCHANGED <<setup, limiterVars, pieces, chunking, chunks, start, parts, working,
                s3Vars,
                          local, upload>>
       PROVE  IInv' /\ Puts
  <2>1. /\ SameStream /\ chunks' = chunks /\ start' = start /\ parts' = parts /\ working' = working
        /\ completing' = completing /\ recorded' = recorded /\ stored' = stored /\ object' = object
        /\ local' = local /\ upload' = upload /\ faults' = faults + 1
    BY <1>15 DEF DownloadFails, limiterVars, s3Vars, SameStream
  <2>2. faults' \in Nat
    BY <2>1 DEF IInv, TypeOK
  <2> QED BY <2>1, <2>2, DownloadKeeps DEF Puts
<1>16. CASE Uploading
  BY <1>1, <1>2, <1>4, <1>5, <1>6, <1>7, <1>8, <1>9, <1>10, <1>11, <1>16 DEF Uploading, UploadStep
<1>17. CASE Downloading \/ Asking
  BY <1>14, <1>17 DEF Downloading, Asking
<1>18. CASE TimePasses
  BY <1>3, <1>18 DEF TimePasses
<1>19. CASE Faulty
  BY <1>12, <1>13, <1>15, <1>19 DEF Faulty
<1>20. CASE Ended \/ UNCHANGED vars
  BY <1>14, <1>20 DEF Ended, vars
<1> QED BY <1>16, <1>17, <1>18, <1>19, <1>20 DEF Next

\* The chunks cut so far and what the stages hold are the object to be, each
\* chunk started is a part in the queue, with one worker or put, and the object
\* is the one before or the one to be.
THEOREM Invariance == Spec => []IInv
<1>1. Init => IInv
  BY Initially
<1>2. IInv /\ [Next]_vars => IInv'
  BY StepKeeps
<1> QED BY <1>1, <1>2, PTL DEF Spec

\* DeleteFilesStage (delete_after) runs when the stages before it have ended:
\* by then CompleteMultipartUploadStage has made all chunks, in their order, the
\* object, or the only chunk has been put, whatever the number of workers.
THEOREM NothingLost == Spec => []DeletesOnlyStored
<1>1. IInv => DeletesOnlyStored
  BY DEF IInv, Replaced, DeletesOnlyStored
<1> QED BY <1>1, Invariance, PTL

\* No step tears the object: it is replaced by the whole of the new one.
THEOREM ReplacedAtOnce == Spec => [][object' = object \/ object' = New[setup]]_vars
<1>1. IInv /\ [Next]_vars => [object' = object \/ object' = New[setup]]_vars
  BY StepKeeps DEF Puts, vars, uploadVars
<1> QED BY <1>1, Invariance, PTL DEF Spec

-----------------------------------------------------------------------------
(* The rate.                                                                *)

Passed == Len(New[setup]) - Len(FlattenSeq(source)) - Len(limiter.value)

\* The bucket and the time since it was last looked at count against the limit
\* as what has passed does, until the clock stops.
Rate ==
    setup.limit > 0 =>
        \/ clock = LastTick(setup)
        \/ (Passed + limiter.tokens) * PollsPerSecond + limiter.lapse * setup.limit
              <= setup.limit * (PollsPerSecond + clock)

LEMMA AtMost ==
    ASSUME NEW p \in Int, NEW q \in Int, p <= q, NEW n \in Nat
    PROVE  p * n <= q * n
<1>1. (q - p) * n >= 0
  BY q - p \in Nat
<1>2. (q - p) * n = q * n - p * n
  OBVIOUS
<1>3. p * n \in Int /\ q * n \in Int
  OBVIOUS
<1> QED BY <1>1, <1>2, <1>3

LEMMA WholeTokens ==
    ASSUME NEW a \in Nat, NEW b \in Nat \ {0}
    PROVE  a \div b \in Nat /\ (a \div b) * b <= a
OBVIOUS

LEMMA EnoughTicks ==
    ASSUME NEW a \in Nat, NEW b \in Nat \ {0}
    PROVE  Ceiling(a, b) \in Nat /\ a <= b * Ceiling(a, b)
<1> DEFINE q == (a + b - 1) \div b
           r == (a + b - 1) % b
<1>1. a + b - 1 \in Nat
  OBVIOUS
<1>2. q \in Nat /\ r \in 0..b - 1 /\ a + b - 1 = b * q + r
  BY <1>1
<1>3. Ceiling(a, b) = q
  BY DEF Ceiling
<1> HIDE DEF q, r
<1>4. b * q \in Nat
  BY <1>2
<1>5. a <= b * q
  BY <1>2, <1>4
<1> QED BY <1>2, <1>3, <1>5

\* What a look at the bucket lets pass.
LEMMA RateLimit ==
    ASSUME NEW p \in Int, NEW t \in Nat, NEW l \in Nat, NEW limit \in Nat, NEW polls \in Nat \ {0},
           NEW most \in Int, NEW r \in Nat, NEW n \in Int, r <= t + ((l * limit) \div polls),
           (p + t) * polls + l * limit <= most
    PROVE  ((p + n) + (r - n)) * polls + 0 * limit <= most
<1> DEFINE w == l * limit
           q == w \div polls
<1>1. w \in Nat
  OBVIOUS
<1> HIDE DEF w
<1>2. q \in Nat /\ q * polls <= w
  BY <1>1, WholeTokens
<1>3. r <= t + q
  BY DEF w
<1> HIDE DEF q
<1>4. r * polls <= (t + q) * polls
  BY <1>2, <1>3, AtMost
<1>5. (t + q) * polls = t * polls + q * polls /\ (p + t) * polls = p * polls + t * polls
      /\ (p + r) * polls = p * polls + r * polls
  BY <1>2
<1>6. p * polls \in Int /\ t * polls \in Int /\ q * polls \in Int /\ r * polls \in Int
  BY <1>2
<1>7. (p + t) * polls + w <= most
  BY DEF w
<1>8. (p + r) * polls <= most
  BY <1>1, <1>2, <1>4, <1>5, <1>6, <1>7
<1>9. (p + n) + (r - n) = p + r /\ 0 * limit = 0
  OBVIOUS
<1> QED BY <1>5, <1>6, <1>8, <1>9

\* What an interval adds.
LEMMA RateTick ==
    ASSUME NEW p \in Int, NEW l \in Nat, NEW k \in Nat, k <= l + 1, NEW limit \in Nat,
           NEW polls \in Nat, NEW c \in Nat, p + l * limit <= limit * (polls + c)
    PROVE  p + k * limit <= limit * (polls + (c + 1))
<1>1. k * limit <= (l + 1) * limit
  BY AtMost
<1>2. (l + 1) * limit = l * limit + limit
  OBVIOUS
<1>3. limit * (polls + (c + 1)) = limit * (polls + c) + limit
  OBVIOUS
<1>4. k * limit \in Int /\ l * limit \in Int /\ limit * (polls + c) \in Int
  OBVIOUS
<1> QED BY <1>1, <1>2, <1>3, <1>4

LEMMA RateType ==
    ASSUME TypeOK
    PROVE  /\ Len(New[setup]) \in Nat /\ Len(FlattenSeq(source)) \in Nat
                /\ Len(limiter.value) \in Nat
           /\ Passed \in Int /\ Passed <= Len(New[setup]) /\ LastTick(setup) \in Nat
           /\ setup.limit \in Nat /\ limiter.tokens \in Nat /\ limiter.lapse \in Nat
                /\ clock \in Nat
<1>1. setup \in Setups /\ source \in Seq(Seq(Symbols)) /\ limiter.value \in Seq(Symbols)
  BY DEF TypeOK, Data
<1>2. New[setup] \in Seq(Symbols) /\ FlattenSeq(source) \in Seq(Symbols)
  BY <1>1, StreamType, FlattenType
<1>3. Len(New[setup]) \in Nat /\ Len(FlattenSeq(source)) \in Nat /\ Len(limiter.value) \in Nat
  BY <1>1, <1>2
<1>4. Passed \in Int /\ Passed <= Len(New[setup])
  <2> DEFINE x == Len(New[setup])
             y == Len(FlattenSeq(source))
             z == Len(limiter.value)
  <2>1. x \in Nat /\ y \in Nat /\ z \in Nat
    BY <1>3
  <2> HIDE DEF x, y, z
  <2>2. x - y - z \in Int /\ x - y - z <= x
    BY <2>1
  <2> QED BY <2>2 DEF Passed, x, y, z
<1>5. setup.limit \in Nat
  BY <1>1, SetupsAssumption
<1>6. limiter.tokens \in Nat /\ limiter.lapse \in Nat /\ clock \in Nat
  BY <1>5 DEF TypeOK
<1>7. LastTick(setup) \in Nat
  <2>1. setup.limit # 0 => Ceiling(Len(New[setup]), setup.limit) \in Nat
    BY <1>3, <1>5, CeilingType
  <2>2. PollsPerSecond \in Nat
    BY Sizes
  <2> QED BY <1>5, <2>1, <2>2 DEF LastTick
<1> QED BY <1>3, <1>4, <1>5, <1>6, <1>7

LEMMA RateInit == Init => Rate
<1> SUFFICES ASSUME Init PROVE Rate
  OBVIOUS
<1>1. TypeOK
  BY Initially DEF IInv
<1>2. PICK s \in Setups : setup = s /\ source = Encrypted(s, Read(s, s.files))
                          /\ limiter = [value |-> <<>>, tokens |-> s.limit, lapse |-> 0,
                               asleep |-> FALSE]
                          /\ clock = 0
  BY DEF Init, UploadInit
<1>3. Passed = 0
  <2>1. FlattenSeq(source) = New[setup]
    BY <1>2, StreamType
  <2>2. Len(limiter.value) = 0
    BY <1>2
  <2> QED BY <1>1, <2>1, <2>2, RateType DEF Passed
<1>4. limiter.tokens = setup.limit /\ limiter.lapse = 0 /\ clock = 0
  BY <1>2
<1>5. setup.limit \in Nat /\ PollsPerSecond \in Nat
  BY <1>1, RateType, Sizes
<1>6. (0 + setup.limit) * PollsPerSecond + 0 * setup.limit <= setup.limit * (PollsPerSecond + 0)
  BY <1>5
<1> QED BY <1>3, <1>4, <1>6 DEF Rate

LEMMA RateKeeps ==
    ASSUME TypeOK, TypeOK', Rate, [Next]_vars
    PROVE  Rate'
<1>1. CASE NextValue
  <2>1. /\ limiter.value = <<>> /\ source # <<>> /\ setup' = setup /\ clock' = clock
        /\ limiter' = [limiter EXCEPT !.value = Head(source), !.asleep = FALSE]
             /\ source' = Tail(source)
    BY <1>1 DEF NextValue
  <2>2. limiter'.value = Head(source) /\ limiter'.tokens = limiter.tokens
          /\ limiter'.lapse = limiter.lapse
    BY <2>1 DEF TypeOK
  <2> DEFINE h == Head(source)
             r == FlattenSeq(Tail(source))
  <2>3. h \in Seq(Symbols) /\ r \in Seq(Symbols) /\ FlattenSeq(source) = Cat(h, r)
    <3>1. Head(source) \in Seq(Symbols) /\ Tail(source) \in Seq(Seq(Symbols))
            /\ source \in Seq(Seq(Symbols))
      BY <2>1 DEF TypeOK, Data
    <3> QED BY <2>1, <3>1, FlattenType, FlattenHead DEF Cat
  <2> HIDE DEF h, r
  <2>4. Len(FlattenSeq(source)) = Len(h) + Len(r) /\ Len(h) \in Nat /\ Len(r) \in Nat
    <3>1. Len(Cat(h, r)) = Len(h) + Len(r)
      BY <2>3, CatType
    <3> QED BY <2>3, <3>1
  <2>5. Len(limiter.value) = 0
    BY <2>1
  <2>6. Passed' = Passed
    <3>1. Passed' = Len(New[setup]) - Len(r) - Len(h)
      BY <2>1, <2>2 DEF Passed, h, r
    <3> DEFINE x == Len(New[setup])
               y == Len(r)
               z == Len(h)
    <3>2. x \in Nat /\ y \in Nat /\ z \in Nat
      BY <2>4, RateType
    <3>3. Passed = x - (z + y) - 0 /\ Passed' = x - y - z
      BY <2>4, <2>5, <3>1 DEF Passed
    <3> HIDE DEF x, y, z
    <3> QED BY <3>2, <3>3
  <2> QED BY <2>1, <2>2, <2>6 DEF Rate
<1>2. CASE Limit
  <2> DEFINE v == limiter.value
             n == Extracted
             r == Replenished(limiter)
  <2>1. /\ limiter' = [value |-> SubSeq(v, n + 1, Len(v)),
                       tokens |-> IF setup.limit = 0 THEN 0 ELSE r - n,
                       lapse |-> 0, asleep |-> n < Len(v)]
        /\ setup' = setup /\ source' = source /\ clock' = clock
    BY <1>2 DEF Limit, Extracted
  <2>2. SUFFICES ASSUME setup.limit > 0 PROVE Rate'
    BY <2>1 DEF Rate
  <2>3. r \in Nat /\ r <= limiter.tokens + ((limiter.lapse * setup.limit) \div PollsPerSecond)
    <3> DEFINE q == (limiter.lapse * setup.limit) \div PollsPerSecond
    <3>1. q \in Nat
      <4>1. limiter.lapse * setup.limit \in Nat
        BY RateType
      <4> QED BY <4>1, Sizes
    <3> HIDE DEF q
    <3>2. r = Least(setup.limit, limiter.tokens + q)
      BY DEF Replenished, q
    <3>3. r \in Nat /\ r <= limiter.tokens + q
      BY <3>1, <3>2, RateType DEF Least
    <3> QED BY <3>3 DEF q
  <2>4. n \in 0..Len(v)
    BY <2>2, <2>3, RateType DEF Extracted, Least
  <2>5. Len(limiter'.value) = Len(v) - n
    <3>1. v \in Seq(Symbols)
      BY DEF TypeOK, Data
    <3>2. Len(SubSeq(v, n + 1, Len(v))) = Len(v) - n
      <4> HIDE DEF n, v
      <4> QED BY <2>4, <3>1
    <3> QED BY <2>1, <3>2
  <2> HIDE DEF v, n, r
  <2>6. limiter'.tokens = r - n /\ limiter'.lapse = 0
    BY <2>1, <2>2, RateType
  <2>7. Passed' = Passed + n
    <3>1. Passed' = Len(New[setup]) - Len(FlattenSeq(source)) - (Len(v) - n)
      BY <2>1, <2>5 DEF Passed
    <3> DEFINE x == Len(New[setup])
               y == Len(FlattenSeq(source))
               z == Len(v)
    <3>2. x \in Nat /\ y \in Nat /\ z \in Nat
      BY RateType DEF v
    <3>3. Passed = x - y - z /\ Passed' = x - y - (z - n)
      BY <3>1 DEF Passed, v
    <3> HIDE DEF x, y, z
    <3> QED BY <2>4, <3>2, <3>3
  <2>8. ASSUME (Passed + limiter.tokens) * PollsPerSecond + limiter.lapse * setup.limit
                  <= setup.limit * (PollsPerSecond + clock)
        PROVE  ((Passed + n) + (r - n)) * PollsPerSecond + 0 * setup.limit
                  <= setup.limit * (PollsPerSecond + clock)
    <3> DEFINE most == setup.limit * (PollsPerSecond + clock)
    <3>1. most \in Int
      BY RateType, Sizes
    <3>2. n \in Int
      BY <2>4, RateType DEF v
    <3>3. (Passed + limiter.tokens) * PollsPerSecond + limiter.lapse * setup.limit <= most
      BY <2>8
    <3> HIDE DEF most
    <3>4. PollsPerSecond \in Nat \ {0}
      BY Sizes
    <3>5. ((Passed + n) + (r - n)) * PollsPerSecond + 0 * setup.limit <= most
      BY <2>3, <3>1, <3>2, <3>3, <3>4, RateType, RateLimit
    <3> QED BY <3>5 DEF most
  <2> QED BY <2>1, <2>2, <2>6, <2>7, <2>8 DEF Rate
<1>3. CASE Tick
  <2> DEFINE lapse == Least(limiter.lapse + 1, PollsPerSecond)
             l == setup.limit
             p == (Passed + limiter.tokens) * PollsPerSecond
  <2>1. /\ setup' = setup /\ source' = source /\ clock' = Least(clock + 1, LastTick(setup))
        /\ limiter' = [limiter EXCEPT !.lapse = lapse, !.asleep = FALSE] /\ setup.limit > 0
    BY <1>3 DEF Tick
  <2>2. lapse \in Nat /\ lapse <= limiter.lapse + 1
    <3>1. PollsPerSecond \in Nat
      BY Sizes
    <3>2. limiter.lapse \in Nat
      BY RateType
    <3> QED BY <3>1, <3>2 DEF Least
  <2>3. limiter'.value = limiter.value /\ limiter'.tokens = limiter.tokens /\ limiter'.lapse = lapse
    <3> HIDE DEF lapse
    <3> QED BY <2>1 DEF TypeOK
  <2>4. Passed' = Passed /\ LastTick(setup)' = LastTick(setup)
    BY <2>1, <2>3 DEF Passed
  <2>5. CASE clock + 1 <= LastTick(setup) /\ clock # LastTick(setup)
    <3>1. clock' = clock + 1
      BY <2>1, <2>5, RateType DEF Least
    <3>2. p + limiter.lapse * l <= l * (PollsPerSecond + clock)
      BY <2>1, <2>5 DEF Rate
    <3>3. p \in Int
      BY RateType, Sizes
    <3>4. PollsPerSecond \in Nat
      BY Sizes
    <3> HIDE DEF p, lapse, l
    <3>5. p + lapse * l <= l * (PollsPerSecond + (clock + 1))
      BY <2>2, <3>2, <3>3, <3>4, RateType, RateTick DEF l
    <3> QED BY <2>1, <2>3, <2>4, <3>1, <3>5 DEF Rate, p, l
  <2>6. CASE ~(clock + 1 <= LastTick(setup)) \/ clock = LastTick(setup)
    <3>1. clock' = LastTick(setup)
      BY <2>1, <2>6, RateType DEF Least
    <3> QED BY <2>4, <3>1 DEF Rate
  <2> QED BY <2>5, <2>6
<1>4. ASSUME setup' = setup, source' = source, limiter' = limiter, clock' = clock PROVE Rate'
  BY <1>4 DEF Rate, Passed
<1>5. CASE NextPiece \/ Chunk \/ ChunkRest
  BY <1>4, <1>5 DEF NextPiece, Chunk, ChunkRest, limiterVars
<1>6. CASE StartUpload \/ (\E w \in Workers : Take(w) \/ PutPart(w))
  BY <1>4, <1>6 DEF StartUpload, Take, PutPart, limiterVars
<1>7. CASE Complete \/ DeleteLocal \/ UploadFails \/ CompleteUnanswered
  BY <1>4, <1>7 DEF Complete, DeleteLocal, UploadFails, CompleteUnanswered, limiterVars
<1>8. CASE Downloading \/ Asking \/ Ended \/ UNCHANGED vars
  BY <1>4, <1>8 DEF Downloading, Asking, Ended, vars, uploadVars
<1>9. CASE DownloadFails /\ UNCHANGED <<setup, limiterVars>>
  BY <1>4, <1>9 DEF limiterVars
<1> QED BY <1>1, <1>2, <1>3, <1>5, <1>6, <1>7, <1>8, <1>9
    DEF Next, Uploading, UploadStep, TimePasses, Faulty

\* What has passed the limiter, of the tokens a bucket can hold and those of the
\* time gone by, whatever the limit, the retry interval and the sizes of the
\* values: tokens are not gained by looking often, nor by rounding.
THEOREM RateKept == Spec => []WithinRate
<1>1. Init => TypeOK /\ Rate
  BY Initially, RateInit DEF IInv
<1>2. IInv /\ IInv' /\ Rate /\ [Next]_vars => Rate'
  BY RateKeeps DEF IInv
<1>3. IInv /\ Rate => WithinRate
  <2> SUFFICES ASSUME TypeOK, Rate, setup.limit > 0
               PROVE  Passed * PollsPerSecond <= setup.limit * (PollsPerSecond + clock)
    BY DEF WithinRate, Passed, IInv
  <2> DEFINE p == Passed
             l == setup.limit
             s == PollsPerSecond
             t == limiter.tokens
             e == limiter.lapse
             c == clock
  <2>1. p \in Int /\ l \in Nat /\ s \in Nat /\ t \in Nat /\ e \in Nat /\ c \in Nat
    BY RateType, Sizes
  <2>2. CASE clock = LastTick(setup)
    <3> DEFINE q == Ceiling(Len(New[setup]), l)
    <3>1. c = s * q /\ q \in Nat /\ Len(New[setup]) <= l * q
      <4>1. Len(New[setup]) \in Nat /\ setup.limit \in Nat \ {0}
        BY RateType
      <4>2. q \in Nat /\ Len(New[setup]) <= l * q
        BY <4>1, EnoughTicks
      <4>3. LastTick(setup) = s * q
        BY <4>1 DEF LastTick
      <4> QED BY <2>2, <4>2, <4>3
    <3>2. p <= Len(New[setup]) /\ Len(New[setup]) \in Nat
      BY RateType
    <3> HIDE DEF q, p, l, s, c
    <3>3. l * q \in Nat /\ p <= l * q
      BY <2>1, <3>1, <3>2
    <3>4. p * s <= (l * q) * s
      BY <2>1, <3>3, AtMost
    <3>5. (l * q) * s <= l * (s + c)
      BY <2>1, <3>1
    <3>6. p * s \in Int /\ (l * q) * s \in Int /\ l * (s + c) \in Int
      BY <2>1, <3>1
    <3>7. p * s <= l * (s + c)
      BY <3>4, <3>5, <3>6
    <3> QED BY <3>7 DEF p, l, s, c
  <2>3. CASE clock # LastTick(setup)
    <3>1. (p + t) * s + e * l <= l * (s + c)
      BY <2>3 DEF Rate
    <3> HIDE DEF p, l, s, t, e, c
    <3>2. p * s <= (p + t) * s
      BY <2>1, AtMost
    <3>3. e * l >= 0 /\ e * l \in Int /\ p * s \in Int /\ (p + t) * s \in Int /\ l * (s + c) \in Int
      BY <2>1
    <3>4. p * s <= l * (s + c)
      BY <3>1, <3>2, <3>3
    <3> QED BY <3>4 DEF p, l, s, c
  <2> QED BY <2>2, <2>3
<1> QED BY <1>1, <1>2, <1>3, Invariance, PTL DEF Spec

-----------------------------------------------------------------------------
(* Lengths.                                                                 *)

\* What 0 has, and i has when i - 1 has it, all have.
LEMMA UpTo ==
    ASSUME NEW n \in Nat, NEW Q, 0 \in Q, \A i \in 1..n : i - 1 \in Q => i \in Q
    PROVE  \A i \in 0..n : i \in Q
<1> DEFINE bad == {i \in 0..n : i \notin Q}
<1>1. bad = {}
  <2> SUFFICES ASSUME bad # {} PROVE FALSE
    OBVIOUS
  <2>1. PICK i \in bad : \A j \in bad : ~(<<j, i>> \in OpToRel(<, Nat))
    <3>1. bad \subseteq Nat
      <4>1. 0..n \subseteq Nat
        OBVIOUS
      <4> QED BY <4>1
    <3> HIDE DEF bad
    <3> QED BY <3>1, NatLessThanWellFounded, WFMin
  <2>2. i \in 1..n /\ i \in Nat /\ i - 1 \in Nat /\ i - 1 \in 0..n /\ i - 1 < i
    OBVIOUS
  <2>3. <<i - 1, i>> \in OpToRel(<, Nat)
    BY <2>2 DEF OpToRel
  <2>4. i - 1 \in Q
    BY <2>1, <2>2, <2>3
  <2> QED BY <2>2, <2>4
<1> QED BY <1>1

\* The sums of the first sizes.
Sums(f, sizes) ==
    /\ f \in [0..Len(sizes) -> Nat] /\ Total(sizes) = f[Len(sizes)] /\ Len(sizes) \in Nat
    /\ f[0] = 0 /\ \A i \in 1..Len(sizes) : f[i] = f[i - 1] + sizes[i] /\ sizes[i] \in Nat

LEMMA Summing ==
    ASSUME NEW sizes \in Seq(Nat)
    PROVE  \E f : Sums(f, sizes)
<1>1. \A i \in 1..Len(sizes) : sizes[i] \in Nat
  OBVIOUS
<1>2. Len(sizes) \in Nat
  OBVIOUS
<1> QED BY <1>1, <1>2, StepsOfTotal DEF Sums

LEMMA SumsAt ==
    ASSUME NEW f, NEW sizes, Sums(f, sizes), NEW i \in 1..Len(sizes)
    PROVE  /\ i - 1 \in 0..Len(sizes) /\ i \in 0..Len(sizes) /\ i \in Nat /\ i - 1 \in Nat
           /\ f[i - 1] \in Nat /\ f[i] \in Nat /\ sizes[i] \in Nat /\ f[i] = f[i - 1] + sizes[i]
<1> DEFINE n == Len(sizes)
<1>1. n \in Nat
  BY DEF Sums
<1> HIDE DEF n
<1>2. i - 1 \in 0..n /\ i \in 0..n /\ i \in Nat /\ i - 1 \in Nat
  BY <1>1 DEF n
<1> QED BY <1>2 DEF Sums, n

LEMMA SumsFollow ==
    ASSUME NEW f, NEW sizes, Sums(f, sizes)
    PROVE  \A i \in 1..Len(sizes) :
              f[i - 1] \in Nat /\ sizes[i] \in Nat /\ f[i] = f[i - 1] + sizes[i]
BY SumsAt

LEMMA TotalAtMost ==
    ASSUME NEW x \in Seq(Nat), NEW y \in Seq(Nat), Len(x) = Len(y),
             \A i \in 1..Len(x) : x[i] <= y[i]
    PROVE  Total(x) <= Total(y)
<1>1. PICK f : Sums(f, x)
  BY Summing
<1>2. PICK g : Sums(g, y)
  BY Summing
<1> DEFINE n == Len(x)
           Q == {i \in 0..n : f[i] <= g[i]}
<1>3. n \in Nat /\ n \in 0..n
  OBVIOUS
<1>4. 0 \in Q
  BY <1>1, <1>2, <1>3 DEF Sums
<1>5. ASSUME NEW i \in 1..n, i - 1 \in Q PROVE i \in Q
  <2>1. /\ i \in 0..n /\ f[i - 1] \in Nat /\ x[i] \in Nat /\ f[i] = f[i - 1] + x[i]
        /\ g[i - 1] \in Nat /\ y[i] \in Nat /\ g[i] = g[i - 1] + y[i]
    BY <1>1, <1>2, SumsAt
  <2>2. f[i - 1] <= g[i - 1] /\ x[i] <= y[i]
    BY <1>5
  <2> HIDE DEF n
  <2>3. f[i] <= g[i]
    BY <2>1, <2>2
  <2> QED BY <2>1, <2>3
<1> HIDE DEF Q
<1>6. n \in Q
  BY <1>3, <1>4, <1>5, UpTo
<1> QED BY <1>1, <1>2, <1>6 DEF Q, Sums

LEMMA TotalOfSums ==
    ASSUME NEW x \in Seq(Nat), NEW y \in Seq(Nat), NEW z \in Seq(Nat), Len(x) = Len(z),
             Len(y) = Len(z),
           \A i \in 1..Len(z) : z[i] = x[i] + y[i]
    PROVE  Total(z) = Total(x) + Total(y)
<1>1. PICK f : Sums(f, x)
  BY Summing
<1>2. PICK g : Sums(g, y)
  BY Summing
<1>3. PICK h : Sums(h, z)
  BY Summing
<1> DEFINE n == Len(z)
           Q == {i \in 0..n : h[i] = f[i] + g[i]}
<1>4. /\ n \in Nat /\ n \in 0..n
      /\ \A i \in 1..Len(x) : f[i - 1] \in Nat /\ x[i] \in Nat /\ f[i] = f[i - 1] + x[i]
      /\ \A i \in 1..Len(y) : g[i - 1] \in Nat /\ y[i] \in Nat /\ g[i] = g[i - 1] + y[i]
      /\ \A i \in 1..Len(z) : h[i - 1] \in Nat /\ z[i] \in Nat /\ h[i] = h[i - 1] + z[i]
  <2>1. n \in Nat /\ n \in 0..n
    OBVIOUS
  <2>2. \A i \in 1..Len(x) : f[i - 1] \in Nat /\ x[i] \in Nat /\ f[i] = f[i - 1] + x[i]
    BY <1>1, SumsFollow
  <2>3. \A i \in 1..Len(y) : g[i - 1] \in Nat /\ y[i] \in Nat /\ g[i] = g[i - 1] + y[i]
    BY <1>2, SumsFollow
  <2>4. \A i \in 1..Len(z) : h[i - 1] \in Nat /\ z[i] \in Nat /\ h[i] = h[i - 1] + z[i]
    BY <1>3, SumsFollow
  <2> QED BY <2>1, <2>2, <2>3, <2>4
<1>5. 0 \in Q
  BY <1>1, <1>2, <1>3, <1>4 DEF Sums
<1>6. ASSUME NEW i \in 1..n, i - 1 \in Q PROVE i \in Q
  <2>1. /\ i \in 0..n /\ f[i - 1] \in Nat /\ x[i] \in Nat /\ f[i] = f[i - 1] + x[i]
        /\ g[i - 1] \in Nat /\ y[i] \in Nat /\ g[i] = g[i - 1] + y[i]
        /\ h[i - 1] \in Nat /\ z[i] \in Nat /\ h[i] = h[i - 1] + z[i]
    <3>1. i \in 1..Len(x) /\ i \in 1..Len(y) /\ i \in 1..Len(z) /\ i \in 0..n
      BY <1>4
    <3> HIDE DEF n, Q
    <3>2. f[i - 1] \in Nat /\ x[i] \in Nat /\ f[i] = f[i - 1] + x[i]
      BY <1>4, <3>1
    <3>3. g[i - 1] \in Nat /\ y[i] \in Nat /\ g[i] = g[i - 1] + y[i]
      BY <1>4, <3>1
    <3>4. h[i - 1] \in Nat /\ z[i] \in Nat /\ h[i] = h[i - 1] + z[i]
      BY <1>4, <3>1
    <3> QED BY <3>1, <3>2, <3>3, <3>4
  <2>2. h[i - 1] = f[i - 1] + g[i - 1] /\ z[i] = x[i] + y[i]
    BY <1>6
  <2> DEFINE a == f[i - 1]
             b == g[i - 1]
             c == x[i]
             d == y[i]
  <2>3. a \in Nat /\ b \in Nat /\ c \in Nat /\ d \in Nat
    BY <2>1
  <2>4. f[i] = a + c /\ g[i] = b + d /\ h[i] = (a + b) + (c + d)
    BY <2>1, <2>2
  <2> HIDE DEF a, b, c, d
  <2>5. h[i] = f[i] + g[i]
    BY <2>3, <2>4
  <2> QED BY <2>1, <2>5
<1> HIDE DEF Q
<1>7. n \in Q
  BY <1>4, <1>5, <1>6, UpTo
<1> QED BY <1>1, <1>2, <1>3, <1>7 DEF Q, Sums

LEMMA TotalOfSame ==
    ASSUME NEW n \in Nat, NEW c \in Nat, NEW x \in Seq(Nat), Len(x) = n, \A i \in 1..n : x[i] = c
    PROVE  Total(x) = n * c
<1>1. PICK f : Sums(f, x)
  BY Summing
<1> DEFINE Q == {i \in 0..n : f[i] = i * c}
<1>2. 0 \in Q
  <2>1. f[0] = 0 /\ 0 * c = 0 /\ 0 \in 0..n
    BY <1>1 DEF Sums
  <2> QED BY <2>1
<1>3. ASSUME NEW i \in 1..n, i - 1 \in Q PROVE i \in Q
  <2>1. i \in 0..n /\ i - 1 \in Nat /\ i \in Nat /\ f[i] = f[i - 1] + c
    BY <1>1, SumsAt
  <2>2. f[i - 1] = (i - 1) * c
    BY <1>3
  <2>3. (i - 1) * c + c = i * c
    BY <2>1
  <2> QED BY <2>1, <2>2, <2>3
<1> HIDE DEF Q
<1>4. n \in Q
  <2>1. n \in 0..n
    OBVIOUS
  <2> QED BY <1>2, <1>3, <2>1, UpTo
<1> QED BY <1>1, <1>4 DEF Q, Sums

Lengths(s) == [i \in 1..Len(s) |-> Len(s[i])]

LEMMA LengthsType ==
    ASSUME NEW S, NEW s \in Seq(Seq(S))
    PROVE  /\ Lengths(s) \in Seq(Nat) /\ Len(Lengths(s)) = Len(s) /\ Len(s) \in Nat
           /\ \A i \in 1..Len(s) : Lengths(s)[i] = Len(s[i]) /\ Len(s[i]) \in Nat /\ s[i] \in Seq(S)
<1>1. \A i \in 1..Len(s) : s[i] \in Seq(S)
  OBVIOUS
<1>2. \A i \in 1..Len(s) : Len(s[i]) \in Nat
  BY <1>1
<1>3. Len(s) \in Nat
  OBVIOUS
<1> QED BY <1>1, <1>2, <1>3 DEF Lengths

\* Joined values are as long as all of them.
LEMMA FlattenLength ==
    ASSUME NEW S, NEW s \in Seq(Seq(S))
    PROVE  Len(FlattenSeq(s)) = Total(Lengths(s))
<1>1. PICK f : Sums(f, Lengths(s))
  BY LengthsType, Summing
<1>2. PICK g : Joins(g, s, S)
  BY Joining
<1> DEFINE n == Len(s)
           Q == {i \in 0..n : Len(g[i]) = f[i]}
<1>3. n \in Nat /\ n \in 0..n /\ n = Len(Lengths(s))
  BY LengthsType
<1>4. 0 \in Q
  <2>1. Len(g[0]) = 0 /\ f[0] = 0
    BY <1>1, <1>2 DEF Sums, Joins
  <2> QED BY <1>3, <2>1
<1>5. ASSUME NEW i \in 1..n, i - 1 \in Q PROVE i \in Q
  <2>1. i \in 0..n /\ i - 1 \in 0..n /\ f[i] = f[i - 1] + Len(s[i]) /\ s[i] \in Seq(S)
    BY <1>1, <1>3, SumsAt, LengthsType
  <2>2. g[i - 1] \in Seq(S) /\ g[i] = Cat(g[i - 1], s[i])
    BY <1>2, <2>1 DEF Joins, Cat
  <2>3. Len(Cat(g[i - 1], s[i])) = Len(g[i - 1]) + Len(s[i])
    BY <2>1, <2>2, CatType
  <2>4. Len(g[i - 1]) = f[i - 1]
    BY <1>5
  <2> QED BY <2>1, <2>2, <2>3, <2>4
<1> HIDE DEF Q
<1>6. n \in Q
  BY <1>3, <1>4, <1>5, UpTo
<1>7. FlattenSeq(s) = g[n]
  BY <1>2, FlattenIs
<1> QED BY <1>1, <1>3, <1>6, <1>7 DEF Q, Sums

-----------------------------------------------------------------------------
(* Estimates.                                                               *)

\* Sequences of values, one after the other.
LEMMA FlattenCat ==
    ASSUME NEW S, NEW a \in Seq(Seq(S)), NEW b \in Seq(Seq(S))
    PROVE  FlattenSeq(Cat(a, b)) = Cat(FlattenSeq(a), FlattenSeq(b))
<1> DEFINE n == Len(b)
           first(i) == SubSeq(b, 1, i)
           Q == {i \in 0..n : FlattenSeq(Cat(a, first(i)))
             = Cat(FlattenSeq(a), FlattenSeq(first(i)))}
<1>1. n \in Nat /\ n \in 0..n /\ first(n) = b /\ first(0) = <<>>
  OBVIOUS
<1>2. 0 \in Q
  <2>1. Cat(a, <<>>) = a /\ Cat(FlattenSeq(a), <<>>) = FlattenSeq(a)
    BY FlattenType, CatNothing
  <2>2. FlattenSeq(Cat(a, first(0))) = Cat(FlattenSeq(a), FlattenSeq(first(0)))
    BY <1>1, <2>1, FlattenNothing
  <2>3. 0 \in 0..n
    BY <1>1
  <2> QED BY <2>2, <2>3
<1>3. ASSUME NEW i \in 1..n, i - 1 \in Q PROVE i \in Q
  <2> DEFINE x == first(i - 1)
             e == b[i]
  <2>1. i \in 0..n /\ i \in Nat /\ i - 1 \in Nat /\ i - 1 <= n
    OBVIOUS
  <2>2. x \in Seq(Seq(S)) /\ Len(x) = i - 1 /\ e \in Seq(S)
    BY <2>1
  <2>3. first(i) = Append(x, e)
    <3>1. first(i) \in Seq(Seq(S)) /\ Len(first(i)) = i
      BY <2>1
    <3>2. Append(x, e) \in Seq(Seq(S)) /\ Len(Append(x, e)) = i
      BY <2>1, <2>2
    <3>3. ASSUME NEW j \in 1..i PROVE first(i)[j] = Append(x, e)[j]
      <4>1. CASE j = i
        BY <2>1, <2>2, <4>1
      <4>2. CASE j # i
        BY <2>1, <2>2, <4>2
      <4> QED BY <4>1, <4>2
    <3> DEFINE l == first(i)
               r == Append(x, e)
    <3> HIDE DEF l, r
    <3>4. l \in Seq(Seq(S)) /\ r \in Seq(Seq(S)) /\ Len(l) = i /\ Len(r) = i
      BY <3>1, <3>2 DEF l, r
    <3>5. \A j \in 1..i : l[j] = r[j]
      BY <3>3 DEF l, r
    <3>6. l = r
      BY <3>4, <3>5
    <3> QED BY <3>6 DEF l, r
  <2> HIDE DEF first
  <2>4. FlattenSeq(Cat(a, x)) = Cat(FlattenSeq(a), FlattenSeq(x))
    BY <1>3
  <2> HIDE DEF x, e
  <2>5. Cat(a, Append(x, e)) = Append(Cat(a, x), e) /\ Cat(a, x) \in Seq(Seq(S))
    <3>1. a \in Seq(Seq(S)) /\ x \in Seq(Seq(S)) /\ e \in Seq(S)
      BY <2>2
    <3>2. Append(x, e) \in Seq(Seq(S)) /\ Append(x, e) = Cat(x, <<e>>) /\ <<e>> \in Seq(Seq(S))
      BY <3>1, AppendProperties, AppendIsConcat DEF Cat
    <3>3. Cat(a, x) \in Seq(Seq(S))
      BY <3>1, CatType
    <3>4. Append(Cat(a, x), e) = Cat(Cat(a, x), <<e>>)
      BY <3>1, <3>3, AppendIsConcat DEF Cat
    <3>5. Cat(Cat(a, x), <<e>>) = Cat(a, Cat(x, <<e>>))
      <4> DEFINE one == <<e>>
      <4>1. one \in Seq(Seq(S))
        BY <3>2
      <4> HIDE DEF one
      <4>2. Cat(Cat(a, x), one) = Cat(a, Cat(x, one))
        BY <3>1, <4>1, CatAssociative
      <4> QED BY <4>2 DEF one
    <3> QED BY <3>2, <3>3, <3>4, <3>5
  <2>6. FlattenSeq(Append(Cat(a, x), e)) = Cat(FlattenSeq(Cat(a, x)), e)
    BY <2>2, <2>5, FlattenAppend DEF Cat
  <2>7. FlattenSeq(Append(x, e)) = Cat(FlattenSeq(x), e)
    BY <2>2, FlattenAppend DEF Cat
  <2>8. Cat(Cat(FlattenSeq(a), FlattenSeq(x)), e) = Cat(FlattenSeq(a), Cat(FlattenSeq(x), e))
    BY <2>2, FlattenType, CatAssociative
  <2>9. FlattenSeq(Cat(a, first(i))) = Cat(FlattenSeq(a), FlattenSeq(first(i)))
    BY <2>3, <2>4, <2>5, <2>6, <2>7, <2>8
  <2> QED BY <2>1, <2>9
<1> HIDE DEF Q
<1>4. n \in Q
  BY <1>1, <1>2, <1>3, UpTo
<1> QED BY <1>1, <1>4 DEF Q

\* Values that are read one after the other, of one thing after the other.
LEMMA FlattenTwice ==
    ASSUME NEW S, NEW s \in Seq(Seq(Seq(S)))
    PROVE  /\ [i \in 1..Len(s) |-> Len(FlattenSeq(s[i]))] \in Seq(Nat)
           /\ Len(FlattenSeq(FlattenSeq(s))) = Total([i \in 1..Len(s) |-> Len(FlattenSeq(s[i]))])
<1> DEFINE n == Len(s)
           length(i) == Len(FlattenSeq(s[i]))
           sizes == [i \in 1..n |-> length(i)]
<1>1. n \in Nat /\ n \in 0..n
  OBVIOUS
<1>2. \A i \in 1..n : s[i] \in Seq(Seq(S))
  OBVIOUS
<1>3. \A i \in 1..n : FlattenSeq(s[i]) \in Seq(S) /\ length(i) \in Nat
  <2>1. \A i \in 1..n : FlattenSeq(s[i]) \in Seq(S)
    BY <1>2, FlattenType
  <2> QED BY <2>1
<1> HIDE DEF length
<1>4. sizes \in Seq(Nat) /\ Len(sizes) = n /\ \A i \in 1..n : sizes[i] = length(i)
  BY <1>1, <1>3
<1> HIDE DEF sizes
<1>5. PICK f : Sums(f, sizes)
  BY <1>4, Summing
<1>6. PICK g : Joins(g, s, Seq(S))
  BY Joining
<1> DEFINE Q == {i \in 0..n : Len(FlattenSeq(g[i])) = f[i]}
<1>7. 0 \in Q
  <2>1. FlattenSeq(g[0]) = <<>> /\ f[0] = 0 /\ Len(<<>>) = 0
    BY <1>5, <1>6, FlattenNothing DEF Sums, Joins
  <2> QED BY <1>1, <2>1
<1>8. ASSUME NEW i \in 1..n, i - 1 \in Q PROVE i \in Q
  <2>1. i \in 0..n /\ i - 1 \in 0..n /\ f[i] = f[i - 1] + sizes[i]
    BY <1>4, <1>5, SumsAt
  <2>2. g[i - 1] \in Seq(Seq(S)) /\ g[i] = Cat(g[i - 1], s[i])
    BY <1>6, <2>1 DEF Joins, Cat
  <2>3. FlattenSeq(g[i]) = Cat(FlattenSeq(g[i - 1]), FlattenSeq(s[i]))
    BY <1>2, <2>2, FlattenCat
  <2>4. Len(FlattenSeq(g[i])) = Len(FlattenSeq(g[i - 1])) + length(i)
    <3>1. FlattenSeq(g[i - 1]) \in Seq(S) /\ FlattenSeq(s[i]) \in Seq(S)
      BY <1>2, <2>2, FlattenType
    <3>2. Len(Cat(FlattenSeq(g[i - 1]), FlattenSeq(s[i])))
            = Len(FlattenSeq(g[i - 1])) + Len(FlattenSeq(s[i]))
      BY <3>1, CatType
    <3> QED BY <2>3, <3>2 DEF length
  <2>5. Len(FlattenSeq(g[i - 1])) = f[i - 1]
    BY <1>8
  <2> QED BY <1>4, <2>1, <2>4, <2>5
<1> HIDE DEF Q
<1>9. n \in Q
  BY <1>1, <1>7, <1>8, UpTo
<1>10. FlattenSeq(s) = g[n]
  BY <1>6, FlattenIs
<1>11. Len(FlattenSeq(FlattenSeq(s))) = Total(sizes)
  BY <1>4, <1>5, <1>9, <1>10 DEF Q, Sums
<1> QED BY <1>4, <1>11 DEF sizes, length

\* What a stage cuts into chunks is what it was given.
LEMMA ByChunksKeeps ==
    ASSUME NEW S, NEW s \in Seq(S), NEW n \in Nat \ {0}
    PROVE  FlattenSeq(ReadByChunks(s, n)) = s
<1> DEFINE l == Len(s)
           m == Ceiling(l, n)
           cut == ReadByChunks(s, n)
           end(k) == Least(k * n, l)
<1>1. l \in Nat /\ m \in Nat /\ m \in 0..m /\ l <= n * m /\ cut \in Seq(Seq(S))
  <2>1. l \in Nat
    OBVIOUS
  <2>2. cut \in Seq(Seq(S))
    BY ByChunksType
  <2> HIDE DEF l, cut
  <2>3. m \in Nat /\ l <= n * m
    BY <2>1, EnoughTicks
  <2> QED BY <2>1, <2>2, <2>3
<1>2. Len(cut) = m /\ \A k \in 1..m : cut[k] = SubSeq(s, (k - 1) * n + 1, end(k))
  <2> DEFINE piece(k) == SubSeq(s, (k - 1) * n + 1, end(k))
  <2>1. cut = [k \in 1..m |-> piece(k)]
    BY DEF ReadByChunks
  <2> HIDE DEF cut, m, piece
  <2>2. Len(cut) = m /\ \A k \in 1..m : cut[k] = piece(k)
    BY <1>1, <2>1
  <2> QED BY <2>2 DEF piece
<1>3. ASSUME NEW k \in 1..m
      PROVE  /\ k \in Nat /\ k - 1 \in Nat /\ (k - 1) * n \in 0..l /\ (k - 1) * n <= end(k)
                  /\ end(k) \in 0..l
             /\ end(k - 1) = (k - 1) * n
  <2>1. k \in Nat /\ k - 1 \in Nat /\ k <= m
    BY <1>1
  <2>2. m * n <= l + n - 1 /\ m * n \in Nat
    BY <1>1, WholeTokens DEF Ceiling
  <2>3. k * n <= m * n
    <3> HIDE DEF m
    <3>1. k \in Int /\ m \in Int /\ n \in Nat
      BY <1>1, <2>1
    <3> QED BY <2>1, <3>1, AtMost
  <2>4. k * n = (k - 1) * n + n /\ (k - 1) * n \in Nat /\ k * n \in Nat
    BY <2>1
  <2> DEFINE x == (k - 1) * n
             y == k * n
             z == m * n
  <2>5. x \in Nat /\ y \in Nat /\ z \in Nat /\ y = x + n /\ y <= z /\ z <= l + n - 1
    BY <2>2, <2>3, <2>4
  <2> HIDE DEF x, y, z, l
  <2>6. x \in 0..l /\ x <= Least(y, l) /\ Least(y, l) \in 0..l /\ Least(x, l) = x
    BY <1>1, <2>5 DEF Least
  <2> QED BY <2>1, <2>6 DEF x, y
<1> HIDE DEF cut, m
<1>4. PICK g : Joins(g, cut, S)
  BY <1>1, Joining
<1> DEFINE P == {k \in 0..m : g[k] = SubSeq(s, 1, end(k))}
<1>5. 0 \in P
  <2>1. g[0] = <<>> /\ 0 * n = 0
    BY <1>4 DEF Joins
  <2>2. end(0) = 0
    BY <1>1, <2>1 DEF Least
  <2>3. SubSeq(s, 1, 0) = <<>>
    OBVIOUS
  <2>4. 0 \in 0..m
    BY <1>1
  <2> HIDE DEF end
  <2> QED BY <2>1, <2>2, <2>3, <2>4
<1>6. ASSUME NEW k \in 1..m, k - 1 \in P PROVE k \in P
  <2>1. k \in 0..m /\ g[k] = Cat(g[k - 1], cut[k])
    <3>1. k \in 1..Len(cut)
      BY <1>2
    <3>2. g[k] = Cat(g[k - 1], cut[k])
      BY <1>4, <3>1 DEF Joins, Cat
    <3>3. k \in 0..m
      BY <1>1
    <3> QED BY <3>2, <3>3
  <2>2. g[k - 1] = SubSeq(s, 1, (k - 1) * n)
    BY <1>3, <1>6
  <2> DEFINE x == (k - 1) * n
             y == end(k)
  <2>3. x \in 0..Len(s) /\ y \in 0..Len(s) /\ x <= y
    BY <1>3
  <2>4. cut[k] = SubSeq(s, x + 1, y)
    BY <1>2
  <2> HIDE DEF x, y
  <2>5. Cat(SubSeq(s, 1, x), SubSeq(s, x + 1, y)) = SubSeq(s, 1, y)
    BY <2>3, NextRange
  <2>6. g[k] = SubSeq(s, 1, y)
    BY <2>1, <2>2, <2>4, <2>5 DEF x
  <2> QED BY <2>1, <2>6 DEF y
<1> HIDE DEF P
<1>7. m \in P
  BY <1>1, <1>5, <1>6, UpTo
<1>8. end(m) = l
  <2>1. n * m = m * n /\ m * n \in Nat
    BY <1>1
  <2> HIDE DEF l
  <2> QED BY <1>1, <2>1 DEF Least
<1>9. FlattenSeq(cut) = g[m]
  BY <1>1, <1>2, <1>4, FlattenIs
<1>10. SubSeq(s, 1, l) = s
  OBVIOUS
<1>11. g[m] = SubSeq(s, 1, l)
  BY <1>7, <1>8 DEF P
<1> QED BY <1>9, <1>10, <1>11 DEF cut

\* The only quotient and remainder.
LEMMA DivModIs ==
    ASSUME NEW a \in Nat, NEW b \in Nat \ {0}, NEW q \in Nat, NEW r \in 0..b - 1, a = q * b + r
    PROVE  a \div b = q /\ a % b = r
<1> DEFINE p == a \div b
           m == a % b
<1>1. p \in Nat /\ m \in 0..b - 1 /\ a = b * p + m
  OBVIOUS
<1> HIDE DEF p, m
<1>2. b * p = p * b /\ p * b \in Nat /\ q * b \in Nat
  BY <1>1
<1>3. p = q
  <2>1. ASSUME p < q PROVE FALSE
    <3>1. (p + 1) * b <= q * b
      BY <1>1, <2>1, AtMost
    <3>2. (p + 1) * b = p * b + b
      BY <1>1
    <3> QED BY <1>1, <1>2, <3>1, <3>2
  <2>2. ASSUME q < p PROVE FALSE
    <3>1. (q + 1) * b <= p * b
      BY <1>1, <2>2, AtMost
    <3>2. (q + 1) * b = q * b + b
      OBVIOUS
    <3> QED BY <1>1, <1>2, <3>1, <3>2
  <2> QED BY <1>1, <2>1, <2>2
<1>4. m = r
  BY <1>1, <1>2, <1>3
<1> QED BY <1>3, <1>4 DEF p, m

LEMMA CeilingMonotone ==
    ASSUME NEW a \in Nat, NEW b \in Nat, a <= b, NEW n \in Nat \ {0}
    PROVE  Ceiling(a, n) <= Ceiling(b, n)
<1> DEFINE x == Ceiling(a, n)
           y == Ceiling(b, n)
<1>1. x \in Nat /\ y \in Nat /\ x * n <= a + n - 1 /\ b <= n * y
  <2>1. a + n - 1 \in Nat
    OBVIOUS
  <2> QED BY <2>1, WholeTokens, EnoughTicks DEF Ceiling
<1> HIDE DEF x, y
<1>2. ASSUME y < x PROVE FALSE
  <2>1. (y + 1) * n <= x * n
    BY <1>1, <1>2, AtMost
  <2>2. (y + 1) * n = n * y + n /\ n * y \in Nat /\ x * n \in Nat
    BY <1>1
  <2> QED BY <1>1, <2>1, <2>2
<1> QED BY <1>1, <1>2 DEF x, y

\* The byte that ends a long name is in a block that the name has begun.
LongNameFits(file) == file.length <= LengthName \/ file.length % BlockSize # 0

\* calc_tarball_size counts a header in full.
LEMMA HeaderFits ==
    ASSUME NEW file \in File, LongNameFits(file)
    PROVE  Len(Header(file)) <= HeaderSize(file) /\ Len(Header(file)) \in Nat
<1> DEFINE l == file.length
           b == BlockSize
           c == Ceiling(l, b)
           pad == Len(Padding(l + 1))
<1>1. l \in Nat \ {0} /\ b \in Nat \ {0} /\ LengthName \in Nat
  BY BlockAssumption DEF File
<1>2. CASE l <= LengthName
  BY <1>1, <1>2, HeaderType DEF HeaderSize
<1>3. CASE l > LengthName
  <2>1. Len(Header(file)) = 2 * b + l + 1 + pad /\ HeaderSize(file) = b * (c + 2)
    BY <1>1, <1>3, HeaderType DEF HeaderSize
  <2>2. pad = IF (l + 1) % b = 0 THEN 0 ELSE b - ((l + 1) % b)
    <3>1. l + 1 \in Nat
      BY <1>1
    <3> HIDE DEF l
    <3> QED BY <3>1, PaddingType
  <2>3. c \in Nat /\ l <= b * c
    BY <1>1, EnoughTicks
  <2> DEFINE q == l \div b
             r == l % b
  <2>4. q \in Nat /\ r \in 0..b - 1 /\ l = b * q + r
    <3> HIDE DEF l, b
    <3>1. l \in Nat /\ b \in Nat \ {0}
      BY <1>1
    <3> QED BY <3>1
  <2>5. r # 0
    BY <1>1, <1>3 DEF LongNameFits
  <2> HIDE DEF q, r, c, pad, l, b
  <2>6. b * q = q * b /\ q * b \in Nat /\ (q + 1) * b = q * b + b /\ b * c = c * b /\ c * b \in Nat
    BY <1>1, <2>3, <2>4
  <2>7. l + 1 + pad = (q + 1) * b /\ pad \in Nat
    <3>1. CASE r + 1 < b
      <4>1. (l + 1) % b = r + 1
        <5>1. l + 1 \in Nat /\ r + 1 \in 0..b - 1 /\ l + 1 = q * b + (r + 1)
          BY <1>1, <2>4, <2>6, <3>1
        <5> QED BY <1>1, <2>4, <5>1, DivModIs
      <4> QED BY <1>1, <2>2, <2>4, <2>6, <3>1, <4>1
    <3>2. CASE r + 1 = b
      <4>1. (l + 1) % b = 0
        <5>1. l + 1 \in Nat /\ 0 \in 0..b - 1 /\ q + 1 \in Nat /\ l + 1 = (q + 1) * b + 0
          BY <1>1, <2>4, <2>6, <3>2
        <5> QED BY <1>1, <5>1, DivModIs
      <4> QED BY <1>1, <2>2, <2>4, <2>6, <3>2, <4>1
    <3> QED BY <1>1, <2>4, <3>1, <3>2
  <2>8. (q + 1) * b <= c * b
    <3>1. ASSUME c <= q PROVE FALSE
      <4>1. c * b <= q * b
        BY <1>1, <2>3, <2>4, <3>1, AtMost
      <4> QED BY <1>1, <2>3, <2>4, <2>5, <2>6, <4>1
    <3>2. q + 1 <= c
      BY <2>3, <2>4, <3>1
    <3> QED BY <1>1, <2>3, <2>4, <3>2, AtMost
  <2>9. b * (c + 2) = c * b + 2 * b
    BY <1>1, <2>3
  <2>10. 2 * b + (q + 1) * b <= b * (c + 2)
    BY <1>1, <2>3, <2>4, <2>6, <2>8, <2>9
  <2>11. 2 * b + l + 1 + pad = 2 * b + (q + 1) * b
    BY <1>1, <2>4, <2>6, <2>7
  <2>12. 2 * b + l + 1 + pad \in Nat
    BY <1>1, <2>7
  <2> QED BY <2>1, <2>10, <2>11, <2>12
<1> QED BY <1>1, <1>2, <1>3

LEMMA MemberLength ==
    ASSUME NEW file \in File, NEW n \in Nat \ {0}
    PROVE  Len(FlattenSeq(Member(file, n)))
              = Len(Header(file)) + (file.size + Len(Padding(file.size)))
<1> DEFINE head == <<Header(file)>>
           body == ReadByChunks(Content(file), n)
           end == IF file.size % BlockSize = 0 THEN <<>> ELSE <<Padding(file.size)>>
<1>1. file.size \in Nat
  BY DEF File
<1>2. /\ Header(file) \in Seq(Symbols) /\ Padding(file.size) \in Seq(Symbols)
      /\ Content(file) \in Seq(Symbols) /\ Len(Content(file)) = file.size
  BY <1>1, HeaderType, PaddingType, ContentType
<1>3. head \in Seq(Seq(Symbols)) /\ FlattenSeq(head) = Header(file)
  BY <1>2, FlattenOne
<1>4. body \in Seq(Seq(Symbols)) /\ FlattenSeq(body) = Content(file)
  BY <1>2, ByChunksType, ByChunksKeeps
<1>5. end \in Seq(Seq(Symbols)) /\ FlattenSeq(end) = Padding(file.size)
  <2>1. CASE file.size % BlockSize = 0
    BY <2>1, FlattenNothing DEF Padding
  <2>2. CASE file.size % BlockSize # 0
    BY <1>2, <2>2, FlattenOne
  <2> QED BY <2>1, <2>2
<1>6. Member(file, n) = Cat(Cat(head, body), end)
  BY DEF Member, Cat
<1> HIDE DEF head, body, end
<1>7. Cat(head, body) \in Seq(Seq(Symbols))
  BY <1>3, <1>4, CatType
<1>8. FlattenSeq(Member(file, n)) = Cat(Cat(Header(file), Content(file)), Padding(file.size))
  <2>1. FlattenSeq(Cat(Cat(head, body), end)) = Cat(FlattenSeq(Cat(head, body)), FlattenSeq(end))
    BY <1>5, <1>7, FlattenCat
  <2>2. FlattenSeq(Cat(head, body)) = Cat(FlattenSeq(head), FlattenSeq(body))
    BY <1>3, <1>4, FlattenCat
  <2> QED BY <1>3, <1>4, <1>5, <1>6, <2>1, <2>2
<1> DEFINE a == Header(file)
           b == Content(file)
           c == Padding(file.size)
<1> HIDE DEF a, b, c
<1>9. a \in Seq(Symbols) /\ b \in Seq(Symbols) /\ c \in Seq(Symbols)
  BY <1>2 DEF a, b, c
<1>10. Cat(a, b) \in Seq(Symbols) /\ Len(Cat(a, b)) = Len(a) + Len(b)
  BY <1>9, CatType
<1>11. Len(Cat(Cat(a, b), c)) = Len(Cat(a, b)) + Len(c)
  BY <1>9, <1>10, CatType
<1>12. Len(a) \in Nat /\ Len(b) \in Nat /\ Len(c) \in Nat
  BY <1>9
<1>13. Len(Cat(Cat(a, b), c)) = Len(a) + (Len(b) + Len(c))
  BY <1>10, <1>11, <1>12
<1> QED BY <1>2, <1>8, <1>13 DEF a, b, c

\* A tarball is no longer than calc_tarball_size says.
LEMMA TarballFits ==
    ASSUME NEW files \in Seq(File), NEW n \in Nat \ {0},
             \A i \in 1..Len(files) : LongNameFits(files[i])
    PROVE  Len(FlattenSeq(ReadTarball(files, n))) <= CalcTarballSize(files)
<1> DEFINE m == Len(files)
           head(i) == Len(Header(files[i]))
           rest(i) == files[i].size + Len(Padding(files[i].size))
           size(i) == HeaderSize(files[i])
           member(i) == Member(files[i], n)
           heads == [i \in 1..m |-> head(i)]
           rests == [i \in 1..m |-> rest(i)]
           sizes == [i \in 1..m |-> size(i)]
           members == [i \in 1..m |-> member(i)]
           both == [i \in 1..m |-> Len(FlattenSeq(member(i)))]
<1>1. m \in Nat /\ DOMAIN files = 1..m /\ \A i \in 1..m : files[i] \in File
  OBVIOUS
<1>2. \A i \in 1..m : head(i) \in Nat /\ size(i) \in Nat /\ head(i) <= size(i)
  BY <1>1, HeaderFits, HeaderSizeType
<1>3. ASSUME NEW i \in 1..m PROVE rest(i) \in Nat
  <2>1. files[i].size \in Nat
    BY <1>1 DEF File
  <2>2. Padding(files[i].size) \in Seq(Symbols)
    BY <2>1, PaddingType
  <2>3. Len(Padding(files[i].size)) \in Nat
    BY <2>2
  <2> QED BY <2>1, <2>3
<1>4. \A i \in 1..m : member(i) \in Seq(Seq(Symbols))
        /\ Len(FlattenSeq(member(i))) = head(i) + rest(i)
  BY <1>1, MemberType, MemberLength
<1>5. FlattenSeq(members) = ReadTarball(files, n)
  BY <1>1 DEF ReadTarball, Member
<1>6. CalcTarballSize(files) = Total(rests) + Total(sizes)
  BY <1>1 DEF CalcTarballSize, CalcAlignedSize
<1> HIDE DEF head, rest, size, member
<1>7. members \in Seq(Seq(Seq(Symbols))) /\ Len(members) = m
        /\ \A i \in 1..m : members[i] = member(i)
  BY <1>1, <1>4
<1>8. /\ heads \in Seq(Nat) /\ Len(heads) = m /\ (\A i \in 1..m : heads[i] = head(i))
      /\ rests \in Seq(Nat) /\ Len(rests) = m /\ (\A i \in 1..m : rests[i] = rest(i))
      /\ sizes \in Seq(Nat) /\ Len(sizes) = m /\ (\A i \in 1..m : sizes[i] = size(i))
  BY <1>1, <1>2, <1>3
<1>9. /\ both \in Seq(Nat) /\ Len(both) = m /\ (\A i \in 1..m : both[i] = head(i) + rest(i))
      /\ Len(FlattenSeq(FlattenSeq(members))) = Total(both)
  <2> DEFINE found == [i \in 1..Len(members) |-> Len(FlattenSeq(members[i]))]
  <2>1. found \in Seq(Nat) /\ Len(FlattenSeq(FlattenSeq(members))) = Total(found)
    BY <1>7, FlattenTwice
  <2>2. found = both
    <3> HIDE DEF members
    <3> QED BY <1>7
  <2>3. \A i \in 1..m : both[i] = head(i) + rest(i)
    BY <1>4
  <2>4. Len(both) = m
    BY <1>1
  <2> HIDE DEF both, found
  <2> QED BY <2>1, <2>2, <2>3, <2>4
<1> HIDE DEF heads, rests, sizes, both, members
<1>10. Total(both) = Total(heads) + Total(rests)
  <2> HIDE DEF m
  <2>1. /\ Len(heads) = Len(both) /\ Len(rests) = Len(both)
        /\ \A i \in 1..Len(both) : both[i] = heads[i] + rests[i]
    BY <1>8, <1>9
  <2>2. heads \in Seq(Nat) /\ rests \in Seq(Nat) /\ both \in Seq(Nat)
    BY <1>8, <1>9
  <2> QED BY <2>1, <2>2, TotalOfSums
<1>11. Total(heads) <= Total(sizes)
  <2>1. \A i \in 1..Len(heads) : heads[i] <= sizes[i]
    BY <1>2, <1>8
  <2> QED BY <1>8, <2>1, TotalAtMost
<1>12. Total(heads) \in Nat /\ Total(rests) \in Nat /\ Total(sizes) \in Nat
  BY <1>8, TotalType
<1> QED BY <1>5, <1>6, <1>9, <1>10, <1>11, <1>12

\* Encryption adds what calc_encrypted_size says.
LEMMA EncryptedLength ==
    ASSUME NEW s \in Setups, NEW values \in Seq(Seq(Symbols))
    PROVE  Len(FlattenSeq(Encrypted(s, values)))
              = IF s.encrypt THEN CalcEncryptedSize(Len(FlattenSeq(values)), EncryptChunk)
                ELSE Len(FlattenSeq(values))
<1> DEFINE f == FlattenSeq(values)
           l == Len(f)
           cut == ReadByChunks(f, EncryptChunk)
           m == Ceiling(l, EncryptChunk)
           boxes == [i \in 1..m |-> Encrypt(cut[i])]
           metas == [i \in 1..m |-> MetaSize]
<1>1. f \in Seq(Symbols) /\ l \in Nat /\ EncryptChunk \in Nat \ {0} /\ MetaSize \in Nat
  <2>1. f \in Seq(Symbols)
    BY FlattenType
  <2> HIDE DEF f
  <2> QED BY <2>1, TransferAssumption, BlockAssumption
<1> HIDE DEF f
<1>2. cut \in Seq(Seq(Symbols)) /\ FlattenSeq(cut) = f /\ m \in Nat
  BY <1>1, ByChunksType, ByChunksKeeps, CeilingType
<1> HIDE DEF l
<1>3. Len(cut) = m /\ DOMAIN cut = 1..m
  <2> HIDE DEF m
  <2>1. DOMAIN cut = 1..m
    BY DEF ReadByChunks, m, l
  <2> HIDE DEF cut
  <2> QED BY <1>2, <2>1
<1> HIDE DEF cut, m
<1>4. ASSUME NEW i \in 1..m
      PROVE  /\ cut[i] \in Seq(Symbols) /\ Len(cut[i]) \in Nat /\ Encrypt(cut[i]) \in Seq(Symbols)
             /\ Len(Encrypt(cut[i])) = MetaSize + Len(cut[i])
  <2>1. cut[i] \in Seq(Symbols)
    BY <1>2, <1>3
  <2>2. Len(cut[i]) \in Nat
    BY <2>1
  <2> QED BY <2>1, <2>2, EncryptType
<1>5. boxes \in Seq(Seq(Symbols)) /\ Len(boxes) = m /\ \A i \in 1..m : boxes[i] = Encrypt(cut[i])
  BY <1>2, <1>4
<1>6. metas \in Seq(Nat) /\ Len(metas) = m /\ \A i \in 1..m : metas[i] = MetaSize
  BY <1>1, <1>2
<1>7. s.encrypt => Encrypted(s, values) = boxes
  BY <1>3 DEF Encrypted, Chunked, cut, f
<1> HIDE DEF boxes, metas
<1>8. Len(FlattenSeq(boxes)) = l + m * MetaSize
  <2>1. /\ Lengths(boxes) \in Seq(Nat) /\ Len(Lengths(boxes)) = m
        /\ \A i \in 1..m : Lengths(boxes)[i] = MetaSize + Len(cut[i])
    BY <1>4, <1>5, LengthsType
  <2>2. /\ Lengths(cut) \in Seq(Nat) /\ Len(Lengths(cut)) = m
        /\ \A i \in 1..m : Lengths(cut)[i] = Len(cut[i])
    BY <1>2, <1>3, LengthsType
  <2>3. Total(Lengths(boxes)) = Total(metas) + Total(Lengths(cut))
    <3> DEFINE x == Lengths(cut)
               z == Lengths(boxes)
    <3>1. x \in Seq(Nat) /\ z \in Seq(Nat)
      BY <2>1, <2>2
    <3>2. /\ Len(metas) = Len(z) /\ Len(x) = Len(z)
          /\ \A i \in 1..Len(z) : z[i] = metas[i] + x[i]
      BY <1>6, <2>1, <2>2
    <3> HIDE DEF x, z
    <3>3. Total(z) = Total(metas) + Total(x)
      BY <1>6, <3>1, <3>2, TotalOfSums
    <3> QED BY <3>3 DEF x, z
  <2>4. Total(metas) = m * MetaSize
    BY <1>1, <1>2, <1>6, TotalOfSame
  <2>5. Total(Lengths(cut)) = l
    BY <1>2, FlattenLength DEF l
  <2>6. Len(FlattenSeq(boxes)) = Total(Lengths(boxes))
    BY <1>5, FlattenLength
  <2>7. m * MetaSize \in Nat
    BY <1>1, <1>2
  <2> QED BY <1>1, <2>3, <2>4, <2>5, <2>6, <2>7
<1>9. CalcEncryptedSize(l, EncryptChunk) = l + m * MetaSize
  BY DEF CalcEncryptedSize, m
<1>10. ~s.encrypt => Encrypted(s, values) = values
  BY DEF Encrypted
<1> QED BY <1>7, <1>8, <1>9, <1>10 DEF l, f

LEMMA EncryptedMonotone ==
    ASSUME NEW a \in Nat, NEW b \in Nat, a <= b
    PROVE  CalcEncryptedSize(a, EncryptChunk) <= CalcEncryptedSize(b, EncryptChunk)
<1> DEFINE x == Ceiling(a, EncryptChunk)
           y == Ceiling(b, EncryptChunk)
<1>1. x \in Nat /\ y \in Nat /\ x <= y /\ MetaSize \in Nat
  BY TransferAssumption, BlockAssumption, CeilingType, CeilingMonotone
<1> HIDE DEF x, y
<1>2. x * MetaSize <= y * MetaSize /\ x * MetaSize \in Nat /\ y * MetaSize \in Nat
  BY <1>1, AtMost
<1> QED BY <1>2 DEF CalcEncryptedSize, x, y

\* calc_tarball_size forgets the block of the byte that ends a long name when the
\* name ends at the end of a block.
LongNamesFit ==
    \A s \in Setups : s.kind \in {"tarball", "members"} =>
        \A i \in 1..Len(s.files) : LongNameFits(s.files[i])

\* The estimate is enough, for each of the uploads.
EstimatesAreEnough == \A s \in Setups : Len(New[s]) <= EstimatedSize(s)

\* What build_uploading_stage is told of an upload is no less than what the
\* stages before it make of the files.
THEOREM EstimateIsEnough ==
    ASSUME LongNamesFit
    PROVE  EstimatesAreEnough
<1> SUFFICES ASSUME NEW s \in Setups PROVE Len(New[s]) <= EstimatedSize(s)
  BY DEF EstimatesAreEnough
<1> DEFINE files == s.files
           values == Read(s, files)
           read == Len(FlattenSeq(values))
           size == IF s.kind \in {"data", "file"} THEN files[1].size ELSE CalcTarballSize(files)
<1>1. files \in Seq(File) \ {<<>>} /\ s.kind \in Kinds
  BY SetupsAssumption DEF Files, File
<1>2. /\ ReadChunk \in Nat \ {0} /\ values \in Seq(Seq(Symbols))
      /\ FlattenSeq(values) \in Seq(Symbols)
  BY <1>1, TransferAssumption, ReadType, FlattenType
<1>3. read \in Nat
  BY <1>2
<1>4. read <= size /\ size \in Nat
  <2> DEFINE data == Content(files[1])
  <2>1. files[1] \in File /\ files[1].size \in Nat
    <3>1. files[1] \in File
      BY <1>1
    <3> QED BY <3>1 DEF File
  <2>2. data \in Seq(Symbols) /\ Len(data) = files[1].size
    BY <2>1, ContentType
  <2>3. CASE s.kind = "data"
    <3>1. values = <<data>>
      BY <2>3 DEF Read
    <3>2. FlattenSeq(<<data>>) = data
      BY <2>2, FlattenOne
    <3> QED BY <2>1, <2>2, <2>3, <3>1, <3>2
  <2>4. CASE s.kind = "file"
    <3>1. values = ReadByChunks(data, ReadChunk)
      BY <2>4 DEF Read
    <3>2. FlattenSeq(ReadByChunks(data, ReadChunk)) = data
      BY <1>2, <2>2, ByChunksKeeps
    <3> QED BY <2>1, <2>2, <2>4, <3>1, <3>2
  <2>5. CASE s.kind \in {"tarball", "members"}
    <3>1. values = ReadTarball(files, ReadChunk)
      BY <2>5 DEF Read
    <3>2. \A i \in 1..Len(files) : LongNameFits(files[i])
      BY <2>5 DEF LongNamesFit
    <3>3. Len(FlattenSeq(ReadTarball(files, ReadChunk))) <= CalcTarballSize(files)
      BY <1>1, <1>2, <3>2, TarballFits
    <3>4. CalcTarballSize(files) \in Nat
      BY <1>1, TarballSizeType
    <3> QED BY <2>5, <3>1, <3>3, <3>4
  <2> QED BY <1>1, <2>3, <2>4, <2>5 DEF Kinds
<1>5. /\ New[s] = FlattenSeq(Encrypted(s, values))
      /\ EstimatedSize(s) = IF s.encrypt THEN CalcEncryptedSize(size, EncryptChunk) ELSE size
  BY StreamType DEF EstimatedSize
<1>6. Len(New[s]) = IF s.encrypt THEN CalcEncryptedSize(read, EncryptChunk) ELSE read
  BY <1>2, <1>5, EncryptedLength
<1> HIDE DEF read, size
<1>7. CalcEncryptedSize(read, EncryptChunk) <= CalcEncryptedSize(size, EncryptChunk)
  BY <1>3, <1>4, EncryptedMonotone
<1> QED BY <1>4, <1>5, <1>6, <1>7

-----------------------------------------------------------------------------
(* The number of parts.                                                     *)

\* The chunks are as many as the size of the parts allows.
LEMMA ChunksFit ==
    ASSUME NEW S, NEW a \in Seq(Seq(S)), NEW c \in Nat \ {0}, NEW most \in Nat,
           \A i \in 1..Len(a) : Len(a[i]) \in 1..c /\ (i < Len(a) => Len(a[i]) = c),
           Len(FlattenSeq(a)) <= c * most
    PROVE  Len(a) <= most
<1> DEFINE n == Len(a)
<1>1. n \in Nat
  OBVIOUS
<1>2. SUFFICES ASSUME n # 0 PROVE n <= most
  BY <1>1
<1>3. PICK f : Sums(f, Lengths(a))
  BY LengthsType, Summing
<1>4. \A i \in 1..n : i \in 1..Len(Lengths(a)) /\ Lengths(a)[i] = Len(a[i])
  BY LengthsType
<1> DEFINE Q == {i \in 0..(n - 1) : f[i] = i * c}
<1>5. 0 \in Q
  <2>1. f[0] = 0 /\ 0 * c = 0 /\ 0 \in 0..(n - 1)
    BY <1>1, <1>2, <1>3 DEF Sums
  <2> QED BY <2>1
<1>6. ASSUME NEW i \in 1..(n - 1), i - 1 \in Q PROVE i \in Q
  <2>1. i \in 1..n /\ i < n /\ i \in 0..(n - 1) /\ i \in Nat /\ i - 1 \in Nat
    BY <1>1
  <2>2. f[i] = f[i - 1] + c
    <3>1. i \in 1..Len(Lengths(a)) /\ Lengths(a)[i] = Len(a[i])
      BY <1>4, <2>1
    <3>2. f[i] = f[i - 1] + Lengths(a)[i]
      BY <1>3, <3>1, SumsAt
    <3>3. Len(a[i]) = c
      BY <2>1
    <3> QED BY <3>1, <3>2, <3>3
  <2>3. f[i - 1] = (i - 1) * c
    BY <1>6
  <2>4. (i - 1) * c + c = i * c
    BY <2>1
  <2> QED BY <2>1, <2>2, <2>3, <2>4
<1> HIDE DEF Q
<1>7. n - 1 \in Q
  <2>1. n - 1 \in Nat /\ n - 1 \in 0..(n - 1)
    BY <1>1, <1>2
  <2> QED BY <1>5, <1>6, <2>1, UpTo
<1>8. f[n] = (n - 1) * c + Len(a[n]) /\ Len(a[n]) \in Nat /\ Len(a[n]) >= 1
  <2>1. n \in 1..n /\ n \in 1..Len(Lengths(a)) /\ Lengths(a)[n] = Len(a[n])
    BY <1>1, <1>2, <1>4
  <2>2. f[n] = f[n - 1] + Lengths(a)[n]
    <3> HIDE DEF n
    <3> QED BY <1>3, <2>1, SumsAt
  <2>3. Len(a[n]) \in 1..c
    BY <2>1
  <2>4. f[n - 1] = (n - 1) * c
    BY <1>7 DEF Q
  <2> DEFINE l == Len(a[n])
  <2>5. l \in Nat /\ l >= 1
    <3> HIDE DEF l
    <3>1. l \in 1..c
      BY <2>3 DEF l
    <3> QED BY <3>1
  <2>6. f[n] = (n - 1) * c + l
    BY <2>1, <2>2, <2>4
  <2> QED BY <2>5, <2>6
<1>9. Len(FlattenSeq(a)) = f[n]
  BY <1>3, FlattenLength, LengthsType DEF Sums
<1> DEFINE l == Len(a[n])
<1>10. (n - 1) * c + l <= c * most /\ l \in Nat /\ l >= 1
  BY <1>8, <1>9
<1> HIDE DEF n, l
<1>11. SUFFICES ASSUME n > most PROVE FALSE
  BY <1>1 DEF n
<1>12. most * c <= (n - 1) * c
  BY <1>1, <1>11, AtMost
<1>13. most * c = c * most /\ most * c \in Int /\ (n - 1) * c \in Int
  BY <1>1
<1> QED BY <1>10, <1>12, <1>13

\* build_uploading_stage: as many chunks as S3 takes hold what is estimated.
LEMMA EstimateFits ==
    ASSUME NEW s \in Setups
    PROVE  EstimatedSize(s) <= (UploadChunk * Multiplier(s)) * MaxChunkCount
<1> DEFINE e == EstimatedSize(s)
           u == UploadChunk
           c == MaxChunkCount
           m == Multiplier(s)
           most == u * c
<1>1. e \in Nat /\ u \in Nat \ {0} /\ c \in Nat \ {0} /\ m \in Nat
  BY EstimateType, MultiplierType, TransferAssumption
<1>2. m = IF e > u /\ e > most THEN Ceiling(e, most) ELSE 1
  BY DEF Multiplier
<1> HIDE DEF e, u, c, m
<1>3. most \in Nat \ {0} /\ u <= most
  <2>1. u * c \in Nat \ {0}
    BY <1>1
  <2>2. 1 * u <= c * u
    BY <1>1, AtMost
  <2>3. 1 * u = u /\ c * u = u * c
    BY <1>1
  <2> QED BY <2>1, <2>2, <2>3
<1>4. (u * m) * c = most * m
  BY <1>1
<1> HIDE DEF most
<1>5. e <= most * m
  <2>1. CASE e > u /\ e > most
    BY <1>1, <1>2, <1>3, <2>1, EnoughTicks
  <2>2. CASE ~(e > u /\ e > most)
    <3>1. m = 1 /\ e <= most
      BY <1>1, <1>2, <1>3, <2>2
    <3>2. most * 1 = most
      BY <1>3
    <3> QED BY <3>1, <3>2
  <2> QED BY <2>1, <2>2
<1>6. e <= (u * m) * c
  BY <1>4, <1>5
<1> QED BY <1>6 DEF e, u, m, c

\* What is cut so far is no longer than the object to be.
LEMMA CutLength ==
    ASSUME TypeOK, NEW a \in Seq(Data), CutInto(a)
    PROVE  Len(FlattenSeq(a)) <= Len(New[setup])
<1> DEFINE f == FlattenSeq(a)
           r == Cat(Buffered, Waiting)
<1>1. f \in Seq(Symbols) /\ r \in Seq(Symbols)
  BY FlattenType, StagesType, CatType DEF Data
<1>2. New[setup] = Cat(f, r)
  BY DEF CutInto
<1> HIDE DEF f, r
<1>3. Len(Cat(f, r)) = Len(f) + Len(r) /\ Len(f) \in Nat /\ Len(r) \in Nat
  <2>1. Len(Cat(f, r)) = Len(f) + Len(r)
    BY <1>1, CatType
  <2>2. Len(f) \in Nat /\ Len(r) \in Nat
    BY <1>1
  <2> QED BY <2>1, <2>2
<1>4. Len(f) <= Len(f) + Len(r)
  BY <1>3
<1> QED BY <1>2, <1>3, <1>4 DEF f

\* A part that a worker holds has a number that S3 takes.
LEMMA PartsTaken ==
    ASSUME EstimatesAreEnough, IInv, upload = "running", NEW w \in Workers, working[w] # Idle
    PROVE  PartNumber(working[w]) <= MaxChunkCount
<1>1. PICK a \in Seq(Data) : CutInto(a) /\ Sends(a)
  BY DEF IInv, Uncut
<1>2. TypeOK /\ setup \in Setups
  BY DEF IInv, TypeOK
<1>3. PICK k \in 1..Taken : working[w] = PartOf(a, k)
  BY <1>1 DEF Sends
<1>4. k \in Nat /\ k \in 1..Len(a) /\ Len(a) \in Nat
  BY <1>1, <1>2, <1>3, TakenParts
<1>5. PartNumber(working[w]) = k
  <2>1. working[w].index = k - 1 /\ k - 1 + 1 = k
    BY <1>3, <1>4 DEF PartOf
  <2> QED BY <2>1 DEF PartNumber
<1>6. Len(a) <= MaxChunkCount
  <2>1. ChunkSize \in Nat \ {0} /\ MaxChunkCount \in Nat
    BY <1>2, Sizes
  <2>2. Len(FlattenSeq(a)) <= Len(New[setup])
    BY <1>1, <1>2, CutLength
  <2>3. Len(New[setup]) <= EstimatedSize(setup)
    BY <1>2 DEF EstimatesAreEnough
  <2>4. EstimatedSize(setup) <= ChunkSize * MaxChunkCount
    BY <1>2, EstimateFits DEF ChunkSize
  <2> DEFINE x == Len(FlattenSeq(a))
             y == Len(New[setup])
             z == EstimatedSize(setup)
             most == ChunkSize * MaxChunkCount
  <2>5. x \in Nat /\ y \in Nat /\ z \in Nat /\ most \in Nat
    <3>1. FlattenSeq(a) \in Seq(Symbols) /\ New[setup] \in Seq(Symbols)
      BY <1>2, FlattenType, StreamType DEF Data
    <3>2. most \in Nat
      BY <2>1
    <3> QED BY <1>2, <3>1, <3>2, EstimateType
  <2>6. x <= most
    <3>1. x <= y /\ y <= z /\ z <= most
      BY <2>2, <2>3, <2>4
    <3> HIDE DEF x, y, z, most
    <3> QED BY <2>5, <3>1
  <2>7. \A i \in 1..Len(a) : Len(a[i]) \in 1..ChunkSize /\ (i < Len(a) => Len(a[i]) = ChunkSize)
    BY <1>1 DEF CutInto
  <2> QED BY <2>1, <2>6, <2>7, ChunksFit DEF Data
<1> QED BY <1>4, <1>5, <1>6, Sizes, <1>2

\* FailsOnlyByFaults of the upload: complete_multipart_upload is given the parts
\* in ascending order, each once, and none has a number that S3 refuses.
THEOREM UploadFailsOnlyByFaults ==
    ASSUME LongNamesFit
    PROVE  Spec => [](upload = "failed" => faults > 0)
<1> DEFINE Faulted == upload = "failed" => faults > 0
<1>1. Init => Faulted
  BY DEF Init, UploadInit
<1>2. IInv /\ Faulted /\ [Next]_vars => Faulted'
  <2> SUFFICES ASSUME IInv, Faulted, [Next]_vars, upload' = "failed" PROVE faults' > 0
    OBVIOUS
  <2>1. faults \in Nat /\ TypeOK
    BY DEF IInv, TypeOK
  <2>2. ASSUME upload' = upload, faults' = faults \/ faults' = faults + 1 PROVE faults' > 0
    BY <2>1, <2>2
  <2>3. CASE NextValue \/ Limit \/ NextPiece \/ Chunk \/ ChunkRest \/ StartUpload \/ Tick
    BY <2>2, <2>3 DEF NextValue, Limit, NextPiece, Chunk, ChunkRest, StartUpload, Tick, endVars
  <2>4. ASSUME NEW w \in Workers, Take(w) PROVE faults' > 0
    BY <2>2, <2>4 DEF Take, endVars
  <2>5. ASSUME NEW w \in Workers, PutPart(w) PROVE faults' > 0
    <3>1. upload = "running" /\ working[w] # Idle /\ faults' = faults
      BY <2>5 DEF PutPart, Running
    <3>2. PartNumber(working[w]) <= MaxChunkCount
      BY <3>1, EstimateIsEnough, PartsTaken
    <3>3. MaxChunkCount \in Nat /\ PartNumber(working[w]) \in Nat
      <4>1. working[w] \in UploadingPart
        BY <2>1, <3>1 DEF TypeOK
      <4> QED BY <2>1, <4>1, Sizes DEF PartNumber, UploadingPart
    <3>4. upload' = upload
      <4> DEFINE part == working[w]
                 few == PartNumber(part) <= MaxChunkCount
                 many == PartNumber(part) > MaxChunkCount
                 number == PartNumber(part)
                 A == /\ stored' = [n \in DOMAIN stored \union {number} |->
                                       IF n = number THEN part.data ELSE stored[n]]
                      /\ recorded' = Append(recorded, number)
                      /\ completing' = TRUE /\ UNCHANGED <<object, upload>>
                 B == upload' = "failed" /\ UNCHANGED s3Vars
                 C == object' = part.data /\ UNCHANGED <<completing, recorded, stored, upload>>
      <4>1. (CASE part.upload /\ few -> A [] part.upload /\ many -> B [] ~part.upload -> C)
        BY <2>5 DEF PutPart
      <4>2. few /\ ~many
        BY <3>2, <3>3
      <4>3. A => upload' = upload
        OBVIOUS
      <4>4. C => upload' = upload
        OBVIOUS
      <4> HIDE DEF A, B, C, few, many
      <4>5. ASSUME part.upload PROVE A
        BY <4>1, <4>2, <4>5
      <4>6. ASSUME ~part.upload PROVE C
        BY <4>1, <4>2, <4>6
      <4> QED BY <4>3, <4>4, <4>5, <4>6
    <3> QED BY <2>2, <3>1, <3>4
  <2>6. CASE Complete
    <3>1. upload = "running" /\ AllPut
      BY <2>6 DEF Complete, Running
    <3>2. PICK a \in Seq(Data) : CutInto(a) /\ Sends(a)
      BY <3>1 DEF IInv, Uncut
    <3>3. completing => Ascending(PartList)
      BY <2>1, <3>1, <3>2, PartsListed
    <3>4. upload' = IF setup.delete_after THEN "deleting" ELSE "done"
      BY <2>6, <3>3 DEF Complete
    <3> QED BY <3>4
  <2>7. CASE DeleteLocal
    <3>1. upload = "deleting" /\ upload' \in {"done", upload}
      BY <2>7 DEF DeleteLocal
    <3> QED BY <3>1
  <2>8. CASE UploadFails \/ CompleteUnanswered
    BY <2>1, <2>8 DEF UploadFails, CompleteUnanswered
  <2>9. CASE Downloading \/ Asking \/ Ended \/ UNCHANGED vars
    BY <2>2, <2>9 DEF Downloading, Asking, Ended, vars, uploadVars
  <2>10. CASE DownloadFails /\ UNCHANGED upload
    BY <2>2, <2>10 DEF DownloadFails
  <2> QED BY <2>3, <2>4, <2>5, <2>6, <2>7, <2>8, <2>9, <2>10
      DEF Next, Uploading, UploadStep, TimePasses, Faulty
<1> QED BY <1>1, <1>2, Invariance, PTL DEF Spec

-----------------------------------------------------------------------------
(* Downloads.                                                               *)

\* What a download holds is the beginning of one version of the object, the one
\* of its ETag; nothing is downloaded of an empty object.
DownloadOK ==
    /\ download \in [state : {"none", "open", "read", "done", "failed"}, start : Nat, total : Nat,
                     etag : Data]
    /\ got \in Seq(Data)
    /\ download.state = "none" => download.start = 0 /\ got = <<>>
    /\ download.state # "none" =>
          /\ object # <<>> /\ download.etag \in {Old[setup], New[setup]} /\ download.etag # <<>>
          /\ download.total = Len(download.etag) /\ download.start <= download.total
    /\ download.state \in {"open", "read", "done"} =>
          FlattenSeq(got) = SubSeq(download.etag, 1, download.start)
    /\ download.state \in {"read", "done"} => download.start = download.total

\* What the stages after it do changes of a download only that it may fail.
LEMMA Passes ==
    ASSUME NEW blocks, NEW ended, NEW new, Pass(blocks, ended, new)
    PROVE  got' = blocks /\ download' \in {new, [new EXCEPT !.state = "failed"]}
BY DEF Pass

\* A step of the download leaves the object, and fails it or does not.
LEMMA DownloadAlone ==
    ASSUME DownloadOK, setup' = setup, object' = object \/ object' # <<>>,
           download' = download \/
              (download.state # "none" /\ download' = [download EXCEPT !.state = "failed"]),
           got' = got
    PROVE  DownloadOK'
<1>1. CASE download' = download
  BY <1>1 DEF DownloadOK
<1>2. CASE download.state # "none" /\ download' = [download EXCEPT !.state = "failed"]
  BY <1>2 DEF DownloadOK
<1> QED BY <1>1, <1>2

\* download_part continues the version whose beginning is held, or begins with
\* the one that is there.
LEMMA PartContinues ==
    ASSUME IInv, DownloadOK, UNCHANGED uploadVars, DownloadPart
    PROVE  DownloadOK' /\ (download'.start # 0 \/ download' = [download EXCEPT !.state = "failed"])
           /\ (download.start # 0 => download'.etag = download.etag /\ download'.start # 0)
           /\ download'.state # "done"
           /\ (download.start = 0 /\ download'.start # 0 => download'.etag = object)
<1>1. /\ download.state = "open" /\ download.start < download.total /\ setup' = setup
           /\ object' = object
      /\ setup \in Setups
  BY DEF DownloadPart, uploadVars, IInv, TypeOK
<1>2. CASE ~SameVersion
  <2>1. download' = [download EXCEPT !.state = "failed"] /\ got' = got
    BY <1>2 DEF DownloadPart
  <2>2. DownloadOK'
    BY <1>1, <2>1, DownloadAlone
  <2>3. download'.start = download.start /\ download'.etag = download.etag
          /\ download'.state = "failed"
    BY <2>1 DEF DownloadOK
  <2> QED BY <2>1, <2>2, <2>3
<1>3. CASE SameVersion
  <2> DEFINE p == download.start
             l == Len(object)
             q == Least(Least(p + DownloadChunk, download.total), l)
             part == SubSeq(object, p + 1, q)
             new == [download EXCEPT !.start = @ + Len(part), !.total = l, !.etag = object]
  <2>1. Pass(Append(got, part), FALSE, new)
    BY <1>3 DEF DownloadPart
  <2>2. /\ object \in Data /\ object # <<>> /\ object \in {Old[setup], New[setup]}
             /\ l \in Nat \ {0}
        /\ p \in Nat /\ download.total \in Nat /\ download.etag \in Data /\ got \in Seq(Data)
        /\ download.total = Len(download.etag)
    <3>1. object \in Data /\ object \in {Old[setup], New[setup]}
      BY DEF IInv, TypeOK, Replaced
    <3>2. object # <<>>
      BY <1>1 DEF DownloadOK
    <3>3. Len(object) \in Nat \ {0}
      BY <3>1, <3>2 DEF Data
    <3> QED BY <1>1, <3>1, <3>2, <3>3 DEF DownloadOK
  <2>3. FlattenSeq(got) = SubSeq(object, 1, p) /\ p < l
    <3>1. FlattenSeq(got) = SubSeq(download.etag, 1, p)
      BY <1>1 DEF DownloadOK
    <3>2. CASE object = download.etag
      BY <1>1, <2>2, <3>1, <3>2
    <3>3. CASE p = 0
      <4>1. SubSeq(download.etag, 1, 0) = <<>> /\ SubSeq(object, 1, 0) = <<>>
        OBVIOUS
      <4> QED BY <2>2, <3>1, <3>3, <4>1
    <3> QED BY <1>3, <3>2, <3>3 DEF SameVersion
  <2>4. q \in p + 1..l /\ q \in Nat /\ q \in 0..l /\ p \in 0..l /\ p <= q
    <3>1. DownloadChunk \in Nat \ {0}
      BY TransferAssumption
    <3> HIDE DEF p, l
    <3> DEFINE c == DownloadChunk
               t == download.total
    <3>2. c \in Nat \ {0} /\ t \in Nat /\ p < t /\ p \in Nat /\ l \in Nat /\ p < l
      BY <1>1, <2>2, <2>3, <3>1 DEF p
    <3> HIDE DEF c, t
    <3>3. Least(Least(p + c, t), l) \in p + 1..l
      BY <3>2 DEF Least
    <3>4. q \in p + 1..l
      BY <3>3 DEF c, t
    <3> HIDE DEF q
    <3> QED BY <3>2, <3>4
  <2> HIDE DEF q
  <2>5. /\ part \in Data /\ Len(part) = q - p
        /\ Cat(SubSeq(object, 1, p), part) = SubSeq(object, 1, q)
    BY <2>2, <2>4, NextRange DEF Data
  <2> HIDE DEF part, l
  <2>6. FlattenSeq(Append(got, part)) = SubSeq(object, 1, q)
    <3>1. FlattenSeq(Append(got, part)) = Cat(FlattenSeq(got), part)
      BY <2>2, <2>5, FlattenAppend DEF Cat, Data
    <3> QED BY <2>3, <2>5, <3>1
  <2>7. p + Len(part) = q /\ q # 0
    BY <2>4, <2>5, <2>2
  <2>8. /\ new \in [state : {"none", "open", "read", "done", "failed"}, start : Nat, total : Nat,
                    etag : Data]
        /\ new.state = "open" /\ new.start = q /\ new.total = l /\ new.etag = object
    BY <1>1, <2>2, <2>4, <2>7 DEF DownloadOK
  <2> HIDE DEF new
  <2>9. got' = Append(got, part) /\ download' \in {new, [new EXCEPT !.state = "failed"]}
    BY <2>1, Passes
  <2>10. /\ download' \in [state : {"none", "open", "read", "done", "failed"}, start : Nat,
              total : Nat,
                           etag : Data]
         /\ download'.state \in {"open", "failed"} /\ download'.start = q /\ download'.total = l
         /\ download'.etag = object
    BY <2>8, <2>9
  <2>11. got' \in Seq(Data) /\ FlattenSeq(got') = SubSeq(object, 1, q)
    BY <2>2, <2>5, <2>6, <2>9
  <2>12. object' # <<>> /\ object \in {Old[setup'], New[setup']} /\ object # <<>> /\ q <= l
           /\ l = Len(object)
    BY <1>1, <2>2, <2>4 DEF l
  <2>13. DownloadOK'
    BY <2>10, <2>11, <2>12 DEF DownloadOK
  <2>14. download.start # 0 => download'.etag = download.etag
    BY <1>3, <2>10 DEF SameVersion
  <2> QED BY <2>7, <2>10, <2>13, <2>14
<1> QED BY <1>2, <1>3

\* A download that reaches the end of its version holds all of it.
LEMMA EndHoldsAll ==
    ASSUME DownloadOK, UNCHANGED uploadVars, EndDownload
    PROVE  /\ DownloadOK' /\ download'.state # "done"
           /\ download'.start = download.start /\ download'.etag = download.etag
<1> DEFINE new == [download EXCEPT !.state = "read"]
<1>1. /\ download.state = "open" /\ download.start >= download.total
      /\ setup' = setup /\ object' = object /\ Pass(got, TRUE, new)
  BY DEF EndDownload, uploadVars
<1>2. got' = got /\ download' \in {new, [new EXCEPT !.state = "failed"]}
  BY <1>1, Passes
<1>3. /\ download' \in [state : {"none", "open", "read", "done", "failed"}, start : Nat,
           total : Nat,
                        etag : Data]
      /\ download'.state \in {"read", "failed"} /\ download'.start = download.start
      /\ download'.total = download.total /\ download'.etag = download.etag
  BY <1>2 DEF DownloadOK
<1>4. download.start = download.total
  BY <1>1 DEF DownloadOK
<1>5. DownloadOK'
  BY <1>1, <1>2, <1>3, <1>4 DEF DownloadOK
<1> QED BY <1>3, <1>5

\* The answer is what is held at the end.
LEMMA FinishAnswers ==
    ASSUME DownloadOK, UNCHANGED uploadVars, FinishDownload
    PROVE  /\ DownloadOK' /\ download.state = "read" /\ download'.state = "done" /\ got' = got
           /\ download'.start = download.start /\ download'.etag = download.etag
<1>1. /\ download.state = "read" /\ download' = [download EXCEPT !.state = "done"] /\ got' = got
      /\ setup' = setup /\ object' = object
  BY DEF FinishDownload, uploadVars
<1>2. /\ download' \in [state : {"none", "open", "read", "done", "failed"}, start : Nat,
           total : Nat,
                        etag : Data]
      /\ download'.state = "done" /\ download'.start = download.start
      /\ download'.total = download.total /\ download'.etag = download.etag
  BY <1>1 DEF DownloadOK
<1>3. DownloadOK'
  BY <1>1, <1>2 DEF DownloadOK
<1> QED BY <1>1, <1>2, <1>3

LEMMA AskingStarts ==
    ASSUME IInv, DownloadOK, Asking
    PROVE  /\ DownloadOK' /\ download.state = "none" /\ download'.state = "open"
           /\ download.start = 0 /\ download'.start = 0 /\ setup' = setup /\ object' = object
<1>1. /\ download.state = "none" /\ object # <<>> /\ got' = got /\ setup' = setup
           /\ object' = object
      /\ download' = [state |-> "open", start |-> 0, total |-> Len(object), etag |-> object]
  BY DEF Asking, CreateDownload, uploadVars
<1>2. download.start = 0 /\ got = <<>>
  BY <1>1 DEF DownloadOK
<1>3. object \in Data /\ object \in {Old[setup], New[setup]} /\ Len(object) \in Nat
  <2>1. object \in Data /\ object \in {Old[setup], New[setup]}
    BY DEF IInv, TypeOK, Replaced
  <2> QED BY <2>1 DEF Data
<1>4. FlattenSeq(<<>>) = SubSeq(object, 1, 0)
  <2>1. SubSeq(object, 1, 0) = <<>>
    OBVIOUS
  <2> QED BY <2>1, FlattenNothing
<1>5. DownloadOK'
  BY <1>1, <1>2, <1>3, <1>4 DEF DownloadOK
<1> QED BY <1>1, <1>2, <1>5

\* Other steps of a download may fail it.
LEMMA StageAlone ==
    ASSUME DownloadOK, setup' = setup, object' = object, Feed \/ Turn \/ DownloadFails
    PROVE  /\ DownloadOK' /\ got' = got /\ download.state # "done" /\ download'.state # "done"
           /\ download'.start = download.start /\ download'.etag = download.etag
<1>1. /\ got' = got /\ download.state \in {"open", "read"}
      /\ download' \in {download, [download EXCEPT !.state = "failed"]}
  BY DEF Feed, Turn, DownloadFails, Unpacks, Receiving
<1>2. DownloadOK'
  BY <1>1, DownloadAlone
<1>3. download'.start = download.start /\ download'.etag = download.etag /\ download'.state # "done"
  BY <1>1 DEF DownloadOK
<1> QED BY <1>1, <1>2, <1>3

\* The steps of a system, as those of its object and of its download.
LEMMA StepIs ==
    ASSUME IInv, [Next]_vars
    PROVE  \/ UNCHANGED downloadVars /\ setup' = setup /\ Puts
           \/ Asking
           \/ UNCHANGED uploadVars /\ (DownloadPart \/ EndDownload \/ FinishDownload)
           \/ setup' = setup /\ object' = object /\ (Feed \/ Turn \/ DownloadFails)
<1>1. setup' = setup
  BY DEF Next, vars, uploadVars, Uploading, UploadStep, NextValue, Limit, NextPiece, Chunk,
     ChunkRest,
         StartUpload, Take, PutPart, Complete, DeleteLocal, Downloading, Asking, TimePasses, Tick,
         Faulty, UploadFails, CompleteUnanswered, Ended
<1>2. Puts
  BY StepKeeps
<1>3. CASE Downloading
  BY <1>3 DEF Downloading, DownloadStep, uploadVars
<1>4. CASE DownloadFails /\ UNCHANGED s3Vars
  BY <1>1, <1>4 DEF s3Vars
<1> QED BY <1>1, <1>2, <1>3, <1>4 DEF Next, vars, Uploading, TimePasses, Faulty, Ended

LEMMA DownloadKept ==
    ASSUME IInv, DownloadOK, [Next]_vars
    PROVE  DownloadOK'
<1>1. CASE UNCHANGED downloadVars /\ setup' = setup /\ Puts
  <2>1. download' = download /\ got' = got /\ (object' = object \/ object' # <<>>)
    BY <1>1 DEF downloadVars, Puts
  <2> QED BY <1>1, <2>1, DownloadAlone
<1>2. CASE Asking
  BY <1>2, AskingStarts
<1>3. CASE UNCHANGED uploadVars /\ (DownloadPart \/ EndDownload \/ FinishDownload)
  BY <1>3, PartContinues, EndHoldsAll, FinishAnswers
<1>4. CASE setup' = setup /\ object' = object /\ (Feed \/ Turn \/ DownloadFails)
  BY <1>4, StageAlone
<1> QED BY <1>1, <1>2, <1>3, <1>4, StepIs

\* What a download holds is the beginning of one version, and at the end the
\* whole of it.
THEOREM OneVersion == Spec => [](IInv /\ DownloadOK)
<1>1. Init => DownloadOK
  <2>1. <<>> \in Data /\ <<>> \in Seq(Data)
    BY DEF Data
  <2> QED BY <2>1 DEF Init, DownloadInit, DownloadOK
<1>2. IInv /\ DownloadOK /\ [Next]_vars => DownloadOK'
  BY DownloadKept
<1> QED BY <1>1, <1>2, Invariance, PTL DEF Spec

-----------------------------------------------------------------------------
(* The atomic object.                                                       *)

\* Of a download that has ended, the answer is what it received: what the last
\* stages unpack of it is left to ImplementsAtomicObject.
Received == INSTANCE AtomicObject WITH
    Versions <- {"old", "new"}, None <- "none",
    object <- Version(object),
    taken <- IF download.start = 0 THEN "none" ELSE Version(download.etag),
    answer <- IF download.state = "done" THEN Version(FlattenSeq(got)) ELSE "none"

LEMMA VersionIs ==
    ASSUME NEW data
    PROVE  /\ data \in {Old[setup], New[setup]} => Version(data) \in {"old", "new"}
           /\ Version(data) # "none"
BY DEF Version

\* Uploads and downloads implement the atomic object: an upload puts it at once,
\* the first range takes the version that is there, and the end of a download
\* answers with the whole of that version, whatever is put in between.
THEOREM ReceivedIsAtomic == Spec => Received!Spec
<1>1. Init => Received!Init
  <2> SUFFICES ASSUME Init PROVE Received!Init
    OBVIOUS
  <2>1. object = Old[setup] /\ download.start = 0 /\ download.state = "none"
    BY DEF Init, UploadInit, DownloadInit
  <2> QED BY <2>1, VersionIs DEF Received!Init
<1>2. IInv /\ DownloadOK /\ [Next]_vars => [Received!Next]_Received!vars
  <2> SUFFICES ASSUME IInv, DownloadOK, [Next]_vars
               PROVE  Received!Next \/ UNCHANGED Received!vars
    OBVIOUS
  <2> DEFINE taken == IF download.start = 0 THEN "none" ELSE Version(download.etag)
             answer == IF download.state = "done" THEN Version(FlattenSeq(got)) ELSE "none"
  <2>1. setup' = setup /\ \A data : Version(data)' = Version(data)
    <3>1. setup' = setup
      BY StepIs, AskingStarts DEF uploadVars
    <3> QED BY <3>1 DEF Version
  <2>2. CASE UNCHANGED downloadVars /\ setup' = setup /\ Puts
    <3>1. download' = download /\ got' = got
      BY <2>2 DEF downloadVars
    <3>2. taken' = taken /\ answer' = answer
      BY <2>1, <3>1 DEF Version
    <3>3. CASE object' = object
      BY <2>1, <3>2, <3>3 DEF Received!vars, Version
    <3>4. CASE object' = New[setup]
      <4>1. Version(object)' \in {"old", "new"}
        BY <2>1, <3>4 DEF Version
      <4> QED BY <3>2, <4>1 DEF Received!Next, Received!Put
    <3> QED BY <2>2, <3>3, <3>4 DEF Puts
  <2>3. CASE Asking
    <3>1. /\ object' = object /\ download.start = 0 /\ download'.start = 0
          /\ download.state # "done" /\ download'.state # "done"
      BY <2>3, AskingStarts
    <3> QED BY <2>1, <3>1 DEF Received!vars, Version
  <2>4. CASE UNCHANGED uploadVars /\ DownloadPart
    <3>1. object' = object /\ download.state = "open"
      BY <2>4 DEF uploadVars, DownloadPart
    <3>2. Version(object)' = Version(object) /\ answer = "none" /\ answer' = "none"
      BY <2>1, <2>4, <3>1, PartContinues DEF Version
    <3>3. CASE download.start = 0 /\ download'.start # 0
      <4>1. taken = "none" /\ taken' = Version(object)
        <5>1. download'.etag = object
          BY <2>4, <3>3, PartContinues
        <5> QED BY <2>1, <3>3, <5>1 DEF Version
      <4> QED BY <3>2, <4>1 DEF Received!Next, Received!Take
    <3>4. CASE download.start = 0 /\ download'.start = 0
      BY <3>2, <3>4 DEF Received!vars
    <3>5. CASE download.start # 0
      <4>1. download'.etag = download.etag /\ download'.start # 0
        BY <2>4, <3>5, PartContinues
      <4>2. taken' = taken
        BY <2>1, <3>5, <4>1 DEF Version
      <4> QED BY <3>2, <4>2 DEF Received!vars
    <3> QED BY <3>3, <3>4, <3>5
  <2>5. CASE UNCHANGED uploadVars /\ EndDownload
    <3>1. /\ object' = object /\ download.state # "done" /\ download'.state # "done"
          /\ download'.start = download.start /\ download'.etag = download.etag
      BY <2>5, EndHoldsAll DEF uploadVars, EndDownload
    <3> QED BY <2>1, <3>1 DEF Received!vars, Version
  <2>6. CASE UNCHANGED uploadVars /\ FinishDownload
    <3>1. /\ object' = object /\ download.state = "read" /\ download'.state = "done" /\ got' = got
          /\ download'.start = download.start /\ download'.etag = download.etag
      BY <2>6, FinishAnswers DEF uploadVars
    <3>2. Version(object)' = Version(object) /\ taken' = taken
      BY <2>1, <3>1 DEF Version
    <3>3. download.start # 0 /\ FlattenSeq(got) = download.etag
      <4>1. /\ download.etag \in Data /\ download.etag # <<>>
            /\ download.start = Len(download.etag)
            /\ FlattenSeq(got) = SubSeq(download.etag, 1, download.start)
        BY <3>1 DEF DownloadOK
      <4>2. SubSeq(download.etag, 1, Len(download.etag)) = download.etag /\ Len(download.etag) # 0
        <5> DEFINE e == download.etag
        <5>1. e \in Seq(Symbols) /\ e # <<>>
          BY <4>1 DEF Data
        <5> HIDE DEF e
        <5>2. SubSeq(e, 1, Len(e)) = e /\ Len(e) # 0
          BY <5>1
        <5> QED BY <5>2 DEF e
      <4> QED BY <4>1, <4>2
    <3>4. taken = Version(download.etag) /\ taken # "none"
      BY <3>3, VersionIs
    <3>5. answer = "none" /\ answer' = taken
      BY <2>1, <3>1, <3>3, <3>4 DEF Version
    <3> QED BY <3>2, <3>4, <3>5 DEF Received!Next, Received!Answer
  <2>7. CASE setup' = setup /\ object' = object /\ (Feed \/ Turn \/ DownloadFails)
    <3>1. /\ download.state # "done" /\ download'.state # "done"
          /\ download'.start = download.start /\ download'.etag = download.etag
      BY <2>7, StageAlone
    <3> QED BY <2>1, <2>7, <3>1 DEF Received!vars, Version
  <2> QED BY <2>2, <2>3, <2>4, <2>5, <2>6, <2>7, StepIs
<1> QED BY <1>1, <1>2, OneVersion, PTL DEF Spec, Received!Spec
=============================================================================
