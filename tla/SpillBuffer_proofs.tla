-------------------------- MODULE SpillBuffer_proofs --------------------------
(***************************************************************************)
(* Safety of SpillBuffer for every number of outputs, every chunk size and *)
(* every pair of limits, and that it implements OutputStream.              *)
(***************************************************************************)
EXTENDS SpillBuffer, DataLemmas

USE BuffersAssumption, ChunkSizeAssumption, LimitsAssumption, MaxBytesAssumption

-----------------------------------------------------------------------------
(* The numbered bytes of a stream and the places of the chunks.             *)

LEMMA FirstBytesType ==
  ASSUME NEW n \in Nat
  PROVE  /\ FirstBytes(n) \in Seq(Int) /\ Len(FirstBytes(n)) = n
         /\ FirstBytes(n) # NoFile
<1>1. FirstBytes(n) \in Seq(Int) /\ Len(FirstBytes(n)) = n
  BY DEF FirstBytes
<1>2. ASSUME FirstBytes(n) = NoFile PROVE FALSE
  <2>1. NoFile[1] = -1 /\ Len(NoFile) = 1
    BY DEF NoFile
  <2>2. n = 1
    BY <1>1, <1>2, <2>1
  <2>3. FirstBytes(n)[1] = 1
    BY <2>2 DEF FirstBytes
  <2> QED
    BY <1>2, <2>1, <2>3
<1> QED
  BY <1>1, <1>2

LEMMA FirstBytesNone == FirstBytes(0) = <<>>
BY DEF FirstBytes

\* The next bytes after the first ones.
LEMMA FirstBytesMore ==
  ASSUME NEW m \in Nat, NEW n \in Nat
  PROVE  /\ [i \in 1..n |-> m + i] \in Seq(Int)
         /\ Len([i \in 1..n |-> m + i]) = n
         /\ FirstBytes(m) \o [i \in 1..n |-> m + i] = FirstBytes(m + n)
<1> DEFINE t == [i \in 1..n |-> m + i]
<1>1. t \in Seq(Int) /\ Len(t) = n
  OBVIOUS
<1>2. FirstBytes(m) \in Seq(Int) /\ Len(FirstBytes(m)) = m
  BY FirstBytesType
<1>3. FirstBytes(m + n) \in Seq(Int) /\ Len(FirstBytes(m + n)) = m + n
  BY FirstBytesType
<1>4. FirstBytes(m) \o t \in Seq(Int) /\ Len(FirstBytes(m) \o t) = m + n
  BY <1>1, <1>2
<1>5. ASSUME NEW i \in 1..(m + n) PROVE (FirstBytes(m) \o t)[i] = FirstBytes(m + n)[i]
  <2>1. FirstBytes(m + n)[i] = i
    BY DEF FirstBytes
  <2>2. CASE i <= m
    <3>1. (FirstBytes(m) \o t)[i] = FirstBytes(m)[i]
      <4> HIDE DEF t
      <4> QED
        BY <1>1, <1>2, <2>2
    <3>2. FirstBytes(m)[i] = i
      BY <2>2 DEF FirstBytes
    <3> QED
      BY <2>1, <3>1, <3>2
  <2>3. CASE ~(i <= m)
    <3>1. (FirstBytes(m) \o t)[i] = t[i - m]
      <4> HIDE DEF t
      <4> QED
        BY <1>1, <1>2, <2>3, ConcatProperties
    <3>2. t[i - m] = i
      BY <2>3
    <3> HIDE DEF t
    <3> QED
      BY <2>1, <3>1, <3>2
  <2> QED
    BY <2>2, <2>3, Zenon
<1>6. FirstBytes(m) \o t = FirstBytes(m + n)
  <2> HIDE DEF t
  <2>1. Len(FirstBytes(m) \o t) = Len(FirstBytes(m + n))
    BY <1>3, <1>4
  <2>2. \A i \in 1..Len(FirstBytes(m) \o t) : (FirstBytes(m) \o t)[i] = FirstBytes(m + n)[i]
    BY <1>4, <1>5
  <2> QED
    BY <1>3, <1>4, <2>1, <2>2, SeqEqual, Zenon
<1> QED
  BY <1>1, <1>6

\* A chunk that grows stays in its place.
LEMMA ChunkGrows ==
  ASSUME NEW o \in Int, NEW m \in Nat, NEW n \in Nat
  PROVE  [i \in 1..m |-> o + i] \o [i \in 1..n |-> (o + m) + i]
            = [i \in 1..(m + n) |-> o + i]
<1> DEFINE s == [i \in 1..m |-> o + i]
           t == [i \in 1..n |-> (o + m) + i]
           u == [i \in 1..(m + n) |-> o + i]
<1>1. /\ s \in Seq(Int) /\ Len(s) = m /\ t \in Seq(Int) /\ Len(t) = n
      /\ u \in Seq(Int) /\ Len(u) = m + n
  OBVIOUS
<1>2. ASSUME NEW i \in 1..(m + n) PROVE (s \o t)[i] = u[i]
  <2>1. u[i] = o + i
    OBVIOUS
  <2>2. CASE i <= m
    <3>1. s[i] = o + i
      BY <2>2
    <3> HIDE DEF s, t
    <3> QED
      BY <1>1, <2>1, <2>2, <3>1
  <2>3. CASE i > m
    <3>1. t[i - m] = o + i
      BY <2>3
    <3> HIDE DEF s, t
    <3> QED
      BY <1>1, <2>1, <2>3, <3>1, SMTT(30)
  <2> QED
    BY <2>2, <2>3
<1> HIDE DEF s, t, u
<1>3. s \o t \in Seq(Int) /\ Len(s \o t) = m + n
  BY <1>1, ConcatProperties
<1>4. s \o t = u
  <2>1. Len(s \o t) = Len(u) /\ \A i \in 1..Len(s \o t) : (s \o t)[i] = u[i]
    BY <1>1, <1>2, <1>3
  <2> QED
    BY <1>1, <1>3, <2>1, SeqEqual, Zenon
<1> QED
  BY <1>4 DEF s, t, u

LEMMA BeforeFirst == Before(1) = 0 /\ ChunkSize * 0 = 0
BY DEF Before

LEMMA BeforeNext ==
  ASSUME NEW k \in Nat
  PROVE  /\ Before(k) \in Int /\ Before(k + 1) \in Nat
         /\ Before(k + 1) = Before(k) + ChunkSize
         /\ ChunkSize * k = Before(k + 1)
         /\ ChunkSize * (k + 1) = ChunkSize * k + ChunkSize
<1>1. ChunkSize * k \in Nat /\ Before(k + 1) = ChunkSize * k
  BY DEF Before
<1> QED
  BY <1>1 DEF Before

LEMMA BeforeMonotone ==
  ASSUME NEW j \in Nat, NEW k \in Nat, j < k
  PROVE  Before(j) + ChunkSize <= Before(k)
BY DEF Before

LEMMA ChunkOfOffset ==
  ASSUME NEW k \in Nat \ {0}
  PROVE  Before(k) \div ChunkSize + 1 = k
BY DEF Before

-----------------------------------------------------------------------------
(* A step of one buffer leaves the others alone.                            *)

Values(c) == <<pc[c], sent[c], rest[c], chunks[c], reservedM[c], reservedS[c],
               spilling[c], disk[c], open[c], size[c], err[c], printed[c]>>

Step(b) ==
    \/ \E n \in 1..ChunkSize : Write(b, n)
    \/ CopyToChunk(b) \/ NewChunk(b)
    \/ StartSpill(b) \/ SpillReserve(b) \/ SpillWrite(b)
    \/ SpillUndo(b) \/ SpillDone(b) \/ SpillDrop(b)
    \/ FileReserve(b)
    \/ \E n \in 0..rest[b] : FileWrite(b, n)
    \/ Finalize(b) \/ WriteTo(b) \/ Close(b)
    \/ CloseRelease(b) \/ CloseDrop(b)

LEMMA SameValues ==
  ASSUME NEW c, BufferOK(c), Values(c)' = Values(c)
  PROVE  BufferOK(c)'
<1>1. /\ pc'[c] = pc[c] /\ sent'[c] = sent[c] /\ rest'[c] = rest[c]
      /\ chunks'[c] = chunks[c] /\ reservedM'[c] = reservedM[c]
      /\ reservedS'[c] = reservedS[c] /\ spilling'[c] = spilling[c]
      /\ disk'[c] = disk[c] /\ open'[c] = open[c] /\ size'[c] = size[c]
      /\ err'[c] = err[c] /\ printed'[c] = printed[c]
  BY DEF Values
<1>2. InFile(c)' = InFile(c)
  BY <1>1, Zenon DEF InFile
<1>3. FileKnown(c)' /\ BytesCounted(c)' /\ PrintedWhole(c)'
  BY <1>1 DEF BufferOK, FileKnown, BytesCounted, PrintedWhole, Closing
<1>4. ChunksInOrder(c)'
  BY <1>1, <1>2, Zenon DEF BufferOK, ChunksInOrder, Closing
<1>5. HeldOnce(c)' /\ SharesKnown(c)'
  BY <1>1, <1>2 DEF BufferOK, HeldOnce, SharesKnown, Closing, Dropping
<1>6. SpillInOrder(c)'
  BY <1>1, Zenon DEF BufferOK, SpillInOrder
<1> QED
  BY <1>3, <1>4, <1>5, <1>6 DEF BufferOK

LEMMA OthersSame ==
  ASSUME TypeOK, NEW b \in Buffers, Step(b), NEW c \in Buffers, c # b
  PROVE  Values(c)' = Values(c)
<1>1. ASSUME NEW n, Write(b, n) PROVE Values(c)' = Values(c)
  BY <1>1 DEF TypeOK, Write, Set, Values, budgets, inMemory, onDisk
<1>2. CASE CopyToChunk(b)
  BY <1>2 DEF TypeOK, CopyToChunk, Set, Values, budgets, onDisk
<1>3. CASE NewChunk(b)
  BY <1>3 DEF TypeOK, NewChunk, Set, Values, writer, onDisk
<1>4. CASE StartSpill(b)
  BY <1>4 DEF TypeOK, StartSpill, Set, Values, budgets, inMemory
<1>5. CASE SpillReserve(b)
  BY <1>5 DEF TypeOK, SpillReserve, Set, Values, writer, inMemory
<1>6. CASE SpillWrite(b)
  BY <1>6 DEF TypeOK, SpillWrite, Set, Values, budgets, writer, inMemory
<1>7. CASE SpillUndo(b)
  BY <1>7 DEF TypeOK, SpillUndo, Set, Values, inMemory
<1>8. CASE SpillDone(b)
  BY <1>8 DEF TypeOK, SpillDone, Set, Values, writer
<1>15. CASE SpillDrop(b)
  BY <1>15 DEF TypeOK, SpillDrop, Set, Values, writer, onDisk
<1>9. CASE FileReserve(b)
  BY <1>9 DEF TypeOK, FileReserve, Set, Values, inMemory
<1>10. ASSUME NEW n, FileWrite(b, n) PROVE Values(c)' = Values(c)
  BY <1>10 DEF TypeOK, FileWrite, Set, Values, inMemory
<1>11. CASE Finalize(b)
  BY <1>11 DEF TypeOK, Finalize, Set, Values, budgets, writer, inMemory
<1>12. CASE WriteTo(b)
  BY <1>12 DEF TypeOK, WriteTo, Set, Values, budgets, writer, inMemory, onDisk
<1>13. CASE Close(b)
  BY <1>13 DEF TypeOK, Close, Set, Values, budgets, writer, inMemory
<1>14. CASE CloseRelease(b)
  BY <1>14 DEF TypeOK, CloseRelease, Set, Values, writer, onDisk
<1>16. CASE CloseDrop(b)
  BY <1>16 DEF TypeOK, CloseDrop, Set, Values, writer
<1> QED
  BY <1>1, <1>2, <1>3, <1>4, <1>5, <1>6, <1>7, <1>8, <1>9, <1>10, <1>11,
     <1>12, <1>13, <1>14, <1>15, <1>16 DEF Step

\* A step that leaves its own buffer and the budgets in order leaves all in
\* order.
LEMMA StepFromOwn ==
  ASSUME IInv, NEW b \in Buffers, Step(b), TypeOK', BudgetsOK', BufferOK(b)'
  PROVE  IInv'
<1>1. ASSUME NEW c \in Buffers PROVE BufferOK(c)'
  <2>1. CASE c = b
    BY <2>1
  <2>2. CASE c # b
    BY <2>2, OthersSame, SameValues DEF IInv
  <2> QED
    BY <2>1, <2>2
<1> QED
  BY <1>1 DEF IInv

LEMMA InitIInv == Init => IInv
<1> SUFFICES ASSUME Init PROVE IInv
  OBVIOUS
<1>1. TypeOK
  <2>1. NoFile \in Seq(Int) /\ <<>> \in Seq(Seq(Int))
    BY DEF NoFile
  <2> QED
    BY <2>1 DEF Init, TypeOK
<1>2. BudgetsOK
  <2>1. SumFunction([b \in Buffers |-> 0]) = 0
    BY SumZero
  <2> QED
    BY <2>1 DEF Init, BudgetsOK
<1>3. ASSUME NEW b \in Buffers PROVE BufferOK(b)
  <2>1. /\ pc[b] = "idle" /\ sent[b] = 0 /\ rest[b] = 0 /\ chunks[b] = <<>>
        /\ reservedM[b] = 0 /\ reservedS[b] = 0 /\ spilling[b] = 0
        /\ disk[b] = NoFile /\ open[b] = FALSE /\ size[b] = 0
        /\ err[b] = FALSE /\ printed[b] = NoFile
    BY DEF Init
  <2>2. ~InFile(b)
    BY <2>1 DEF InFile
  <2>3. FileKnown(b) /\ BytesCounted(b) /\ SpillInOrder(b) /\ PrintedWhole(b)
    BY <2>1 DEF FileKnown, BytesCounted, SpillInOrder, PrintedWhole, Writing, Spilling, Closing
  <2>4. ChunksInOrder(b) /\ SharesKnown(b)
    BY <2>1, <2>2, BeforeFirst, BeforeNext DEF ChunksInOrder, SharesKnown, Closing, Dropping
  <2>5. HeldOnce(b)
    BY <2>1, <2>2, FlattenEmpty, FirstBytesNone DEF HeldOnce, Closing, Dropping
  <2> QED
    BY <2>3, <2>4, <2>5 DEF BufferOK
<1> QED
  BY <1>1, <1>2, <1>3 DEF IInv

-----------------------------------------------------------------------------
(* Write and the chunks.                                                    *)

\* Chunks that do not change stay in order.
LEMMA SameChunks ==
  ASSUME NEW b, ChunksInOrder(b), ~InFile(b), pc[b] \notin Closing,
         chunks'[b] = chunks[b], size'[b] = size[b]
  PROVE  ChunksInOrder(b)'
<1>1. \A k \in 1..Len(chunks'[b]) :
          /\ Len(chunks'[b][k]) <= ChunkSize
          /\ k < Len(chunks'[b]) => Len(chunks'[b][k]) = ChunkSize
          /\ chunks'[b][k] = [i \in 1..Len(chunks'[b][k]) |-> Before(k) + i]
  BY Zenon DEF ChunksInOrder, Closing
<1>2. size'[b] = IF chunks'[b] = <<>> THEN 0
                 ELSE Before(Len(chunks'[b])) + Len(Last(chunks'[b]))
  BY Zenon DEF ChunksInOrder, Closing
<1> QED
  BY <1>1, <1>2, Zenon DEF ChunksInOrder, Closing

\* A buffer in its file has no chunks.
LEMMA NoChunksInFile ==
  ASSUME NEW b, InFile(b)', chunks'[b] = <<>>
  PROVE  ChunksInOrder(b)'
BY DEF ChunksInOrder, Closing

\* What the invariant says of one buffer.
LEMMA OwnTypes ==
  ASSUME IInv, NEW b \in Buffers
  PROVE  /\ memory \in Nat /\ spooled \in Nat
         /\ sent[b] \in 0..MaxBytes /\ rest[b] \in Nat /\ size[b] \in Nat
         /\ chunks[b] \in Seq(Seq(Int)) /\ disk[b] \in Seq(Int)
         /\ reservedM[b] \in Nat /\ reservedS[b] \in Nat /\ spilling[b] \in Nat
         /\ open[b] \in BOOLEAN /\ err[b] \in BOOLEAN
         /\ printed[b] \in Seq(Int) /\ Len(chunks[b]) \in Nat
         /\ pc[b] \in {"idle"} \cup Writing \cup Sealed
BY DEF IInv, TypeOK

LEMMA OwnInvariant ==
  ASSUME IInv, NEW b \in Buffers
  PROVE  /\ FileKnown(b) /\ BytesCounted(b) /\ ChunksInOrder(b) /\ HeldOnce(b)
         /\ SpillInOrder(b) /\ SharesKnown(b) /\ PrintedWhole(b)
BY DEF IInv, BufferOK

\* One buffer's share of a budget changes.
LEMMA ShareChanges ==
  ASSUME NEW f \in [Buffers -> Nat], NEW b \in Buffers, NEW v \in Nat
  PROVE  /\ SumFunction(f) \in Nat /\ f[b] <= SumFunction(f)
         /\ SumFunction(Set(f, b, v)) = SumFunction(f) - f[b] + v
         /\ Set(f, b, v) \in [Buffers -> Nat] /\ Set(f, b, v)[b] = v
<1>1. SumFunction(f) \in Nat /\ f[b] <= SumFunction(f)
  BY SumType, SumElement
<1>2. SumFunction([f EXCEPT ![b] = v]) = SumFunction(f) - f[b] + v
  <2>1. f \in [Buffers -> Int] /\ v \in Int
    OBVIOUS
  <2> QED
    BY <2>1, SumChange
<1> QED
  BY <1>1, <1>2 DEF Set

LEMMA ShareBecomes ==
  ASSUME NEW f, f \in [Buffers -> Nat], NEW b \in Buffers, NEW v, v \in Nat,
         NEW g, g = Set(f, b, v)
  PROVE  /\ SumFunction(f) \in Nat /\ f[b] <= SumFunction(f)
         /\ SumFunction(g) = SumFunction(f) - f[b] + v
         /\ g \in [Buffers -> Nat]
BY ShareChanges

\* The bytes of the Write in progress follow what is stored.
LEMMA BytesFollow ==
  ASSUME IInv, NEW b \in Buffers, pc[b] \in Writing, NEW n \in Nat
  PROVE  /\ sent[b] - rest[b] = size[b] /\ size[b] \in Nat /\ rest[b] \in Nat
         /\ Bytes(b, n) = [i \in 1..n |-> size[b] + i]
<1>1. sent[b] - rest[b] = size[b] /\ size[b] \in Nat /\ rest[b] \in Nat
  <2>1. ~err[b] /\ pc[b] # "closed"
    BY DEF IInv, BufferOK, BytesCounted, Writing, Spilling
  <2> QED
    BY <2>1 DEF IInv, TypeOK, BufferOK, BytesCounted
<1> QED
  BY <1>1 DEF Bytes

LEMMA WriteIInv ==
  ASSUME IInv, NEW b \in Buffers, NEW n \in 1..ChunkSize, Write(b, n)
  PROVE  IInv'
<1>1. /\ pc[b] = "idle" /\ rest[b] = 0 /\ printed[b] = NoFile
      /\ sent[b] + n \in 0..MaxBytes /\ n \in Nat
  <2>1. pc[b] = "idle" /\ sent[b] + n <= MaxBytes
    BY DEF Write
  <2>2. BytesCounted(b) /\ PrintedWhole(b)
    BY DEF IInv, BufferOK
  <2>3. rest[b] = 0
    BY <2>1, <2>2 DEF BytesCounted, Writing, Spilling
  <2>4. printed[b] = NoFile
    BY <2>1, <2>2 DEF PrintedWhole, Sealed, Closing
  <2>5. sent[b] \in Nat /\ n \in Nat
    BY DEF IInv, TypeOK
  <2> QED
    BY <2>1, <2>3, <2>4, <2>5
<1>2. /\ UNCHANGED <<budgets, inMemory, onDisk, size, err, printed>>
      /\ sent' = Set(sent, b, sent[b] + n)
  BY DEF Write
<1>3. \/ err[b] /\ pc' = pc /\ rest' = rest
      \/ /\ ~err[b] /\ rest' = Set(rest, b, n)
         /\ pc' = Set(pc, b, IF open[b] THEN "file" ELSE "fill")
  BY DEF Write
<1>4. TypeOK'
  <2>1. sent' \in [Buffers -> 0..MaxBytes]
    BY <1>1, <1>2 DEF IInv, TypeOK, Set
  <2>2. rest' \in [Buffers -> Nat]
    <3>1. rest' = rest \/ rest' = Set(rest, b, n)
      BY <1>3
    <3> QED
      BY <1>1, <3>1 DEF IInv, TypeOK, Set
  <2>3. pc' \in [Buffers -> {"idle"} \cup Writing \cup Sealed]
    <3>1. (IF open[b] THEN "file" ELSE "fill") \in Writing
      BY DEF Writing
    <3>2. pc' = pc \/ pc' = Set(pc, b, IF open[b] THEN "file" ELSE "fill")
      BY <1>3
    <3>3. pc \in [Buffers -> {"idle"} \cup Writing \cup Sealed]
      BY DEF IInv, TypeOK
    <3> QED
      BY <3>1, <3>2, <3>3 DEF Set
  <2> QED
    BY <1>2, <2>1, <2>2, <2>3 DEF IInv, TypeOK, budgets, inMemory, onDisk
<1>5. BudgetsOK'
  BY <1>2 DEF IInv, BudgetsOK, budgets, inMemory, onDisk
<1>6. /\ sent'[b] = sent[b] + n /\ size'[b] = size[b] /\ err'[b] = err[b]
      /\ chunks'[b] = chunks[b] /\ disk'[b] = disk[b] /\ open'[b] = open[b]
      /\ reservedM'[b] = reservedM[b] /\ reservedS'[b] = reservedS[b]
      /\ spilling'[b] = spilling[b] /\ printed'[b] = NoFile
      /\ \/ err[b] /\ pc'[b] = "idle" /\ rest'[b] = 0
         \/ ~err[b] /\ open[b] /\ pc'[b] = "file" /\ rest'[b] = n
         \/ ~err[b] /\ ~open[b] /\ pc'[b] = "fill" /\ rest'[b] = n
  BY <1>1, <1>2, <1>3 DEF IInv, TypeOK, Set, inMemory, onDisk
<1>7. BufferOK(b)'
  <2>1. InFile(b)' <=> InFile(b)
    BY <1>1, <1>6 DEF InFile, Spilling
  <2>2. FileKnown(b)'
    BY <1>1, <1>6 DEF IInv, BufferOK, FileKnown, Closing
  <2>3. BytesCounted(b)'
    <3>1. BytesCounted(b) /\ sent[b] \in Nat /\ size[b] \in Nat
      BY DEF IInv, TypeOK, BufferOK
    <3> QED
      BY <1>1, <1>6, <3>1 DEF BytesCounted, Writing, Spilling
  <2>4. ChunksInOrder(b)'
    <3>1. ChunksInOrder(b) /\ chunks'[b] = chunks[b] /\ size'[b] = size[b]
      BY <1>6, OwnInvariant
    <3>2. CASE InFile(b)
      <4>1. InFile(b)' /\ chunks'[b] = <<>>
        BY <1>1, <2>1, <3>1, <3>2, OwnInvariant DEF HeldOnce, Closing, Dropping
      <4> QED
        BY <4>1, NoChunksInFile
    <3>3. CASE ~InFile(b)
      BY <1>1, <3>1, <3>3, SameChunks DEF Closing
    <3> QED
      BY <3>2, <3>3
  <2>5. HeldOnce(b)'
    BY <1>1, <1>6, <2>1 DEF IInv, BufferOK, HeldOnce, Closing, Dropping
  <2>6. SpillInOrder(b)' /\ PrintedWhole(b)'
    BY <1>6 DEF SpillInOrder, PrintedWhole, Spilling
  <2>7. SharesKnown(b)'
    BY <1>1, <1>6, <2>1 DEF IInv, BufferOK, SharesKnown, Spilling, Closing, Dropping
  <2> QED
    BY <2>2, <2>3, <2>4, <2>5, <2>6, <2>7 DEF BufferOK
<1> QED
  BY <1>4, <1>5, <1>7, StepFromOwn DEF Step

LEMMA CopyToChunkIInv ==
  ASSUME IInv, NEW b \in Buffers, CopyToChunk(b)
  PROVE  IInv'
<1> DEFINE room == ChunkSize - Len(Last(chunks[b]))
           n == IF rest[b] < room THEN rest[b] ELSE room
           N == Len(chunks[b])
           old == Last(chunks[b])
           new == old \o Bytes(b, n)
<1>1. /\ pc[b] = "fill" /\ chunks[b] # <<>> /\ Len(old) < ChunkSize
      /\ chunks' = Set(chunks, b, Front(chunks[b]) \o <<new>>)
      /\ rest' = Set(rest, b, rest[b] - n)
      /\ size' = Set(size, b, size[b] + n)
      /\ pc' = Set(pc, b, IF n = rest[b] THEN "idle" ELSE "fill")
      /\ UNCHANGED <<budgets, sent, reservedM, onDisk, err, printed>>
  BY DEF CopyToChunk, HasRoom
<1>2. /\ chunks[b] \in Seq(Seq(Int)) /\ N \in Nat \ {0}
      /\ old \in Seq(Int) /\ Len(old) \in Nat /\ old = chunks[b][N]
  BY <1>1, SMTT(30) DEF IInv, TypeOK, Last
<1>3. /\ size[b] \in Nat /\ rest[b] \in Nat /\ sent[b] \in Nat
      /\ pc[b] \in Writing /\ ~err[b] /\ ~open[b] /\ disk[b] = NoFile
      /\ printed[b] = NoFile /\ ~InFile(b)
  <2>1. pc[b] \in Writing /\ pc[b] \notin Sealed
    BY <1>1 DEF Writing, Sealed, Closing
  <2>2. ~err[b] /\ ~open[b] /\ disk[b] = NoFile
    BY <1>1, <2>1, OwnInvariant DEF FileKnown, BytesCounted, Closing
  <2>3. printed[b] = NoFile
    BY <2>1, OwnInvariant DEF PrintedWhole
  <2> QED
    BY <2>1, <2>2, <2>3, OwnTypes DEF InFile
<1>4. n \in Nat /\ n <= rest[b] /\ Len(old) + n <= ChunkSize
  <2>1. rest[b] \in Nat /\ Len(old) \in Nat /\ ChunkSize \in Nat /\ Len(old) < ChunkSize
    BY <1>1, <1>2, <1>3, ChunkSizeAssumption
  <2>2. \A m, o, r, c \in Nat :
           o < c /\ m = (IF r < c - o THEN r ELSE c - o) => m <= r /\ o + m <= c
    OBVIOUS
  <2>3. \A o, r, c \in Nat : o < c => (IF r < c - o THEN r ELSE c - o) \in Nat
    OBVIOUS
  <2> HIDE DEF old
  <2>4. n \in Nat
    BY <2>1, <2>3 DEF old
  <2> QED
    BY <2>1, <2>2, <2>4 DEF old
<1> HIDE DEF n, room
<1>5. Bytes(b, n) = [i \in 1..n |-> size[b] + i]
  BY <1>3, <1>4, BytesFollow
<1>6. size[b] = Before(N) + Len(old) /\ old = [i \in 1..Len(old) |-> Before(N) + i]
  <2>1. ChunksInOrder(b) /\ pc[b] # "closing" /\ N \in 1..N
    BY <1>1, <1>2, OwnInvariant
  <2>2. old = [i \in 1..Len(old) |-> Before(N) + i]
    BY <1>2, <2>1, Zenon DEF ChunksInOrder, Closing
  <2>3. size[b] = Before(N) + Len(old)
    BY <1>1, <1>3, <2>1 DEF ChunksInOrder, Closing
  <2> QED
    BY <2>2, <2>3
<1>7. Before(N) \in Int
  BY <1>2, BeforeFirst, BeforeNext
<1>8. new = [i \in 1..(Len(old) + n) |-> Before(N) + i]
  <2>1. [i \in 1..Len(old) |-> Before(N) + i]
            \o [i \in 1..n |-> (Before(N) + Len(old)) + i]
          = [i \in 1..(Len(old) + n) |-> Before(N) + i]
    BY <1>2, <1>4, <1>7, ChunkGrows
  <2> QED
    BY <1>5, <1>6, <2>1, Zenon
<1>9. /\ Bytes(b, n) \in Seq(Int) /\ Len(Bytes(b, n)) = n
      /\ FirstBytes(size[b]) \o Bytes(b, n) = FirstBytes(size[b] + n)
  <2>1. size[b] \in Nat /\ n \in Nat
    BY <1>3, <1>4
  <2>2. \A m \in Nat :
           /\ [i \in 1..n |-> m + i] \in Seq(Int)
           /\ Len([i \in 1..n |-> m + i]) = n
           /\ FirstBytes(m) \o [i \in 1..n |-> m + i] = FirstBytes(m + n)
    BY <2>1, FirstBytesMore
  <2> QED
    BY <1>5, <2>1, <2>2, Zenon
<1>10. new \in Seq(Int) /\ Len(new) = Len(old) + n
  <2>1. \A s, t \in Seq(Int) : s \o t \in Seq(Int) /\ Len(s \o t) = Len(s) + Len(t)
    OBVIOUS
  <2>2. /\ old \in Seq(Int)
        /\ Bytes(b, n) \in Seq(Int) /\ Len(Bytes(b, n)) = n
    BY <1>2, <1>9
  <2> HIDE DEF old
  <2> QED
    BY <2>1, <2>2, Zenon
<1> DEFINE after == Front(chunks[b]) \o <<new>>
<1>11. FlattenSeq(after) = FirstBytes(size[b] + n)
  <2>1. FlattenSeq(after) = FlattenSeq(chunks[b]) \o Bytes(b, n)
    BY <1>1, <1>2, <1>9, FlattenExtendLast
  <2>2. FlattenSeq(chunks[b]) = FirstBytes(size[b])
    BY <1>1, <1>3 DEF IInv, BufferOK, HeldOnce, Closing, Dropping
  <2> QED
    BY <1>9, <2>1, <2>2, Zenon
<1> HIDE DEF old, new
<1>12. /\ after \in Seq(Seq(Int)) /\ Len(after) = N /\ after # <<>>
       /\ after[N] = new
       /\ \A k \in 1..N : k # N => after[k] = chunks[b][k]
  <2>1. Front(chunks[b]) \in Seq(Seq(Int)) /\ Len(Front(chunks[b])) = N - 1
    BY <1>1, <1>2 DEF Front
  <2>2. \A k \in 1..(N - 1) : Front(chunks[b])[k] = chunks[b][k]
    BY <1>1, <1>2 DEF Front
  <2> DEFINE front == Front(chunks[b])
  <2> HIDE DEF front
  <2>3. after = Append(front, new)
    BY <1>10, <2>1, AppendIsConcat DEF front
  <2>4. front \in Seq(Seq(Int)) /\ Len(front) = N - 1 /\ new \in Seq(Int)
    BY <1>10, <2>1 DEF front
  <2>5. /\ Append(front, new) \in Seq(Seq(Int)) /\ Append(front, new) # <<>>
        /\ Len(Append(front, new)) = Len(front) + 1
        /\ \A i \in 1..Len(front) : Append(front, new)[i] = front[i]
        /\ Append(front, new)[Len(front) + 1] = new
    BY <2>4, AppendProperties
  <2>6. \A k \in 1..N : k # N => k \in 1..(N - 1)
    BY <1>2
  <2>7. \A k \in 1..(N - 1) : after[k] = chunks[b][k]
    BY <2>2, <2>3, <2>4, <2>5 DEF front
  <2>8. N = Len(front) + 1
    BY <1>2, <2>4
  <2> QED
    BY <2>3, <2>5, <2>6, <2>7, <2>8
<1> HIDE DEF after
<1>13. /\ chunks'[b] = after /\ rest'[b] = rest[b] - n
       /\ size'[b] = size[b] + n /\ sent'[b] = sent[b]
       /\ pc'[b] = IF n = rest[b] THEN "idle" ELSE "fill"
       /\ reservedM'[b] = reservedM[b] /\ reservedS'[b] = reservedS[b]
       /\ spilling'[b] = spilling[b] /\ disk'[b] = NoFile /\ ~open'[b]
       /\ ~err'[b] /\ printed'[b] = NoFile
  BY <1>1, <1>3 DEF IInv, TypeOK, Set, onDisk, after
<1>14. TypeOK'
  <2>1. rest[b] - n \in Nat /\ size[b] + n \in Nat
    BY <1>3, <1>4
  <2>2. chunks' = Set(chunks, b, after)
    BY <1>1 DEF after
  <2>3. chunks' \in [Buffers -> Seq(Seq(Int))]
    BY <1>12, <2>2 DEF IInv, TypeOK, Set
  <2>4. rest' \in [Buffers -> Nat] /\ size' \in [Buffers -> Nat]
    BY <1>1, <2>1 DEF IInv, TypeOK, Set
  <2>5. pc' \in [Buffers -> {"idle"} \cup Writing \cup Sealed]
    BY <1>1 DEF IInv, TypeOK, Set, Writing
  <2> QED
    BY <1>1, <2>3, <2>4, <2>5 DEF IInv, TypeOK, budgets, onDisk
<1>15. BudgetsOK'
  BY <1>1 DEF IInv, BudgetsOK, budgets, onDisk
<1>16. BufferOK(b)'
  <2>1. ~InFile(b)'
    BY <1>13 DEF InFile
  <2>2. FileKnown(b)' /\ SpillInOrder(b)' /\ PrintedWhole(b)'
    BY <1>13 DEF FileKnown, SpillInOrder, PrintedWhole, Spilling, Closing
  <2>3. BytesCounted(b)'
    <3>1. BytesCounted(b)
      BY DEF IInv, BufferOK
    <3>2. size[b] + rest[b] = sent[b]
      BY <1>1, <1>3, <3>1 DEF BytesCounted
    <3> QED
      BY <1>3, <1>4, <1>13, <3>2 DEF BytesCounted, Writing, Spilling
  <2>4. ChunksInOrder(b)'
    <3>1. ASSUME NEW k \in 1..N
          PROVE  /\ Len(after[k]) <= ChunkSize
                 /\ k < N => Len(after[k]) = ChunkSize
                 /\ after[k] = [i \in 1..Len(after[k]) |-> Before(k) + i]
      <4>1. CASE k = N
        <5>1. after[k] = new /\ Len(new) = Len(old) + n /\ ~(k < N)
          BY <1>2, <1>10, <1>12, <4>1
        <5>2. new = [i \in 1..Len(new) |-> Before(k) + i]
          BY <1>8, <4>1, <5>1, Zenon
        <5>3. after[k] = [i \in 1..Len(after[k]) |-> Before(k) + i]
          BY <5>1, <5>2, Zenon
        <5>4. Len(after[k]) <= ChunkSize
          BY <1>4, <5>1
        <5> QED
          BY <5>1, <5>3, <5>4, Zenon
      <4>2. CASE k # N
        <5>1. after[k] = chunks[b][k] /\ k \in 1..Len(chunks[b])
          BY <1>12, <4>2
        <5>2. ChunksInOrder(b)
          BY OwnInvariant
        <5>3. /\ Len(chunks[b][k]) <= ChunkSize
              /\ k < N => Len(chunks[b][k]) = ChunkSize
              /\ chunks[b][k] = [i \in 1..Len(chunks[b][k]) |-> Before(k) + i]
          BY <5>1, <5>2, Zenon DEF ChunksInOrder, Closing
        <5> QED
          BY <5>1, <5>3
      <4> QED
        BY <4>1, <4>2
    <3>2. size[b] + n = Before(N) + Len(Last(after))
      <4>1. Last(after) = new
        BY <1>2, <1>12 DEF Last
      <4>2. Len(Last(after)) = Len(old) + n
        BY <1>10, <4>1
      <4>3. size[b] = Before(N) + Len(old)
        BY <1>6
      <4> QED
        BY <1>2, <1>4, <1>7, <4>2, <4>3
    <3> QED
      BY <1>12, <1>13, <3>1, <3>2 DEF ChunksInOrder, Closing
  <2>5. HeldOnce(b)'
    BY <1>11, <1>13, <2>1 DEF HeldOnce, after, Closing, Dropping
  <2>6. SharesKnown(b)'
    BY <1>1, <1>3, <1>12, <1>13, <2>1 DEF IInv, BufferOK, SharesKnown, Spilling, Closing, Dropping
  <2> QED
    BY <2>2, <2>3, <2>4, <2>5, <2>6 DEF BufferOK
<1> QED
  BY <1>14, <1>15, <1>16, StepFromOwn DEF Step

LEMMA NewChunkIInv ==
  ASSUME IInv, NEW b \in Buffers, NewChunk(b)
  PROVE  IInv'
<1> DEFINE N == Len(chunks[b])
           after == Append(chunks[b], <<>>)
<1>1. /\ pc[b] = "fill" /\ ~HasRoom(b)
      /\ memory + ChunkSize <= MemoryLimit
      /\ memory' = memory + ChunkSize
      /\ reservedM' = Set(reservedM, b, reservedM[b] + ChunkSize)
      /\ chunks' = Set(chunks, b, after)
      /\ UNCHANGED <<spooled, pc, writer, onDisk, size, err, printed>>
  BY DEF NewChunk
<1>2. chunks[b] \in Seq(Seq(Int)) /\ N \in Nat
  BY DEF IInv, TypeOK
<1>3. /\ size[b] \in Nat /\ disk[b] = NoFile /\ ~InFile(b)
      /\ reservedM[b] \in Nat
  BY <1>1 DEF IInv, TypeOK, BufferOK, FileKnown, InFile, Closing
<1>4. /\ after \in Seq(Seq(Int)) /\ Len(after) = N + 1 /\ after # <<>>
      /\ after[N + 1] = <<>>
      /\ \A k \in 1..N : after[k] = chunks[b][k]
  <2> DEFINE old == chunks[b]
  <2>1. <<>> \in Seq(Int) /\ old \in Seq(Seq(Int))
    BY <1>2
  <2> HIDE DEF old
  <2>2. /\ Append(old, <<>>) \in Seq(Seq(Int)) /\ Append(old, <<>>) # <<>>
        /\ Len(Append(old, <<>>)) = Len(old) + 1
        /\ \A i \in 1..Len(old) : Append(old, <<>>)[i] = old[i]
        /\ Append(old, <<>>)[Len(old) + 1] = <<>>
    BY <2>1, AppendProperties, SMTT(30)
  <2> QED
    BY <2>2, Zenon DEF old
<1>5. FlattenSeq(after) = FirstBytes(size[b])
  <2>1. FlattenSeq(after) = FlattenSeq(chunks[b]) \o <<>>
    <3>1. <<>> \in Seq(Int)
      OBVIOUS
    <3> QED
      BY <1>2, <3>1, FlattenAppend
  <2>2. FlattenSeq(chunks[b]) = FirstBytes(size[b])
    BY <1>1, <1>3 DEF IInv, BufferOK, HeldOnce, Closing, Dropping
  <2>3. FirstBytes(size[b]) \o <<>> = FirstBytes(size[b])
    BY <1>3, FirstBytesType, ConcatEmptySeq
  <2> QED
    BY <2>1, <2>2, <2>3, Zenon
<1> HIDE DEF after
<1>6. /\ chunks'[b] = after /\ reservedM'[b] = reservedM[b] + ChunkSize
      /\ pc'[b] = pc[b] /\ sent'[b] = sent[b] /\ rest'[b] = rest[b]
      /\ size'[b] = size[b] /\ reservedS'[b] = reservedS[b]
      /\ spilling'[b] = spilling[b] /\ disk'[b] = disk[b] /\ open'[b] = open[b]
      /\ err'[b] = err[b] /\ printed'[b] = printed[b]
  BY <1>1 DEF IInv, TypeOK, Set, onDisk, writer
<1>7. BudgetsOK'
  <2>1. SumFunction(reservedM') = SumFunction(reservedM) - reservedM[b]
                                     + (reservedM[b] + ChunkSize)
    <3>1. reservedM \in [Buffers -> Nat] /\ reservedM[b] + ChunkSize \in Nat
      BY <1>3 DEF IInv, TypeOK
    <3> QED
      BY <1>1, <3>1, ShareBecomes
  <2>2. SumFunction(reservedM) = memory /\ memory \in Nat
    BY DEF IInv, TypeOK, BudgetsOK
  <2>3. memory' = SumFunction(reservedM') /\ memory' <= MemoryLimit
    BY <1>1, <1>3, <2>1, <2>2
  <2> QED
    BY <1>1, <2>3 DEF IInv, BudgetsOK, onDisk
<1>8. TypeOK'
  <2>1. reservedM' \in [Buffers -> Nat]
    BY <1>1, <1>3 DEF IInv, TypeOK, Set
  <2>2. chunks' \in [Buffers -> Seq(Seq(Int))]
    BY <1>1, <1>4 DEF IInv, TypeOK, Set
  <2>3. memory' \in Nat
    BY <1>1 DEF IInv, TypeOK
  <2> QED
    BY <1>1, <2>1, <2>2, <2>3 DEF IInv, TypeOK, onDisk, writer
<1>9. BufferOK(b)'
  <2>1. InFile(b)' <=> InFile(b)
    BY <1>6 DEF InFile
  <2>2. FileKnown(b)' /\ BytesCounted(b)' /\ PrintedWhole(b)'
    BY <1>6 DEF IInv, BufferOK, FileKnown, BytesCounted, PrintedWhole, Closing
  <2>3. SpillInOrder(b)'
    BY <1>1, <1>6 DEF SpillInOrder, Spilling
  <2>4. ChunksInOrder(b)'
    <3>1. \A k \in 1..N : Len(chunks[b][k]) = ChunkSize
      <4>1. CASE chunks[b] = <<>>
        BY <4>1
      <4>2. CASE chunks[b] # <<>>
        <5>1. N \in 1..N /\ ~(Len(chunks[b][N]) < ChunkSize)
          BY <1>1, <1>2, <4>2 DEF HasRoom, Last
        <5>2. Len(chunks[b][N]) \in Nat
          BY <1>2, <5>1
        <5>3. \A k \in 1..N :
                 /\ Len(chunks[b][k]) <= ChunkSize
                 /\ k < N => Len(chunks[b][k]) = ChunkSize
          BY OwnInvariant DEF ChunksInOrder, Closing
        <5>4. Len(chunks[b][N]) <= ChunkSize
          BY <5>1, <5>3, Zenon
        <5>5. Len(chunks[b][N]) = ChunkSize
          BY <5>1, <5>2, <5>4
        <5>6. \A k \in 1..N : k = N \/ k < N
          BY <1>2
        <5> QED
          BY <5>3, <5>5, <5>6, Zenon
      <4> QED
        BY <4>1, <4>2
    <3>2. size[b] = Before(N + 1)
      <4>1. CASE chunks[b] = <<>>
        BY <1>1, <1>3, <4>1, BeforeFirst, BeforeNext DEF IInv, BufferOK, ChunksInOrder, Closing
      <4>2. CASE chunks[b] # <<>>
        <5>1. size[b] = Before(N) + Len(Last(chunks[b]))
          BY <1>1, <1>3, <4>2 DEF IInv, BufferOK, ChunksInOrder, Closing
        <5>2. Len(Last(chunks[b])) = ChunkSize
          BY <1>2, <3>1, <4>2 DEF Last
        <5> QED
          BY <1>2, <5>1, <5>2, BeforeFirst, BeforeNext
      <4> QED
        BY <4>1, <4>2
    <3>3. ASSUME NEW k \in 1..(N + 1)
          PROVE  /\ Len(after[k]) <= ChunkSize
                 /\ k < N + 1 => Len(after[k]) = ChunkSize
                 /\ after[k] = [i \in 1..Len(after[k]) |-> Before(k) + i]
      <4>1. CASE k = N + 1
        BY <1>2, <1>4, <4>1
      <4>2. CASE k # N + 1
        <5>1. k \in 1..N
          BY <1>2, <4>2
        <5>2. after[k] = chunks[b][k]
          BY <1>4, <5>1, Zenon
        <5> QED
          BY <3>1, <5>1, <5>2 DEF IInv, BufferOK, ChunksInOrder, Closing
      <4> QED
        BY <4>1, <4>2
    <3>4. Before(N + 1) + Len(Last(after)) = Before(N + 1)
      <4>1. Last(after) = <<>>
        BY <1>4 DEF Last
      <4>2. Len(Last(after)) = 0
        BY <4>1
      <4>3. Before(N + 1) \in Int
        <5>1. Before(N + 1) \in Nat
          BY <1>2, BeforeNext, Zenon
        <5> QED
          BY <5>1
      <4> QED
        BY <4>2, <4>3
    <3> QED
      BY <1>4, <1>6, <3>2, <3>3, <3>4 DEF ChunksInOrder, Closing
  <2>5. HeldOnce(b)'
    BY <1>1, <1>3, <1>5, <1>6, <2>1 DEF HeldOnce, Closing, Dropping
  <2>6. SharesKnown(b)'
    <3>1. ChunkSize * (N + 1) = ChunkSize * N + ChunkSize
      BY <1>2, BeforeFirst, BeforeNext
    <3>2. reservedM[b] = ChunkSize * N /\ reservedM[b] <= memory
      <4>1. reservedM \in [Buffers -> Nat]
        BY DEF IInv, TypeOK
      <4>2. reservedM[b] <= SumFunction(reservedM)
        BY <1>3, <4>1, ShareChanges
      <4> QED
        BY <1>1, <4>2, OwnInvariant DEF IInv, BudgetsOK, SharesKnown, Closing, Dropping
    <3>3. ChunkSize * (N + 1) <= MemoryLimit
      <4>1. memory \in Nat /\ ChunkSize \in Nat /\ MemoryLimit \in Nat
        BY ChunkSizeAssumption, LimitsAssumption DEF IInv, TypeOK
      <4> QED
        BY <1>1, <1>3, <3>1, <3>2, <4>1
    <3> QED
      BY <1>1, <1>3, <1>4, <1>6, <2>1, <3>1, <3>2, <3>3, OwnInvariant
         DEF SharesKnown, Spilling, Closing, Dropping
  <2> QED
    BY <2>2, <2>3, <2>4, <2>5, <2>6 DEF BufferOK
<1> QED
  BY <1>7, <1>8, <1>9, StepFromOwn DEF Step

-----------------------------------------------------------------------------
(* Moving to disk.                                                          *)

\* A chunk for which there is no room: all chunks there are are full.
LEMMA AllFull ==
  ASSUME IInv, NEW b \in Buffers, pc[b] = "fill", ~HasRoom(b)
  PROVE  \A k \in 1..Len(chunks[b]) : Len(chunks[b][k]) = ChunkSize
<1> DEFINE N == Len(chunks[b])
<1>1. chunks[b] \in Seq(Seq(Int)) /\ N \in Nat
  BY OwnTypes
<1>2. CASE chunks[b] = <<>>
  BY <1>2
<1>3. CASE chunks[b] # <<>>
  <2>1. N \in 1..N /\ ~(Len(chunks[b][N]) < ChunkSize)
    BY <1>1, <1>3 DEF HasRoom, Last
  <2>2. Len(chunks[b][N]) \in Nat
    BY <1>1, <2>1
  <2>3. \A k \in 1..N :
           /\ Len(chunks[b][k]) <= ChunkSize
           /\ k < N => Len(chunks[b][k]) = ChunkSize
    BY OwnInvariant DEF ChunksInOrder, Closing
  <2>4. Len(chunks[b][N]) <= ChunkSize
    BY <2>1, <2>3, Zenon
  <2>5. Len(chunks[b][N]) = ChunkSize
    BY <2>1, <2>2, <2>4
  <2>6. \A k \in 1..N : k = N \/ k < N
    BY <1>1
  <2> QED
    BY <2>3, <2>5, <2>6, Zenon
<1> QED
  BY <1>2, <1>3

\* What full chunks hold.
LEMMA SizeOfFull ==
  ASSUME IInv, NEW b \in Buffers, ~InFile(b), pc[b] \notin Closing,
         \A k \in 1..Len(chunks[b]) : Len(chunks[b][k]) = ChunkSize
  PROVE  size[b] = Before(Len(chunks[b]) + 1)
<1> DEFINE N == Len(chunks[b])
<1>1. chunks[b] \in Seq(Seq(Int)) /\ N \in Nat
  BY OwnTypes
<1>2. CASE chunks[b] = <<>>
  BY <1>2, BeforeFirst, OwnInvariant DEF ChunksInOrder, Closing
<1>3. CASE chunks[b] # <<>>
  <2>1. size[b] = Before(N) + Len(Last(chunks[b]))
    BY <1>3, OwnInvariant DEF ChunksInOrder, Closing
  <2>2. Len(Last(chunks[b])) = ChunkSize
    BY <1>1, <1>3 DEF Last
  <2>3. Before(N + 1) = Before(N) + ChunkSize
    BY <1>1, BeforeNext
  <2> QED
    BY <2>1, <2>2, <2>3
<1> QED
  BY <1>2, <1>3

\* The chunk spillToDisk writes next.
LEMMA NextToSpill ==
  ASSUME IInv, NEW b \in Buffers, pc[b] \in Spilling
  PROVE  \E k \in 1..(Len(chunks[b]) + 1) :
            /\ Len(disk[b]) = Before(k) /\ ToSpill(b) = k
            /\ pc[b] = "spillWrite" => k <= Len(chunks[b])
            /\ ~Spilled(b) => k <= Len(chunks[b])
            /\ k <= Len(chunks[b]) =>
                  /\ Len(chunks[b][k]) = ChunkSize
                  /\ chunks[b][k] = [i \in 1..ChunkSize |-> Before(k) + i]
<1> DEFINE N == Len(chunks[b])
<1>1. N \in Nat
  BY OwnTypes
<1>2. /\ \A k \in 1..N : Len(chunks[b][k]) = ChunkSize
      /\ \E k \in 1..(N + 1) :
            /\ Len(disk[b]) = Before(k)
            /\ pc[b] = "spillWrite" => k <= N
  BY OwnInvariant DEF SpillInOrder
<1>3. PICK k \in 1..(N + 1) : /\ Len(disk[b]) = Before(k)
                              /\ pc[b] = "spillWrite" => k <= N
  BY <1>2
<1>4. ToSpill(b) = k
  BY <1>1, <1>3, ChunkOfOffset DEF ToSpill
<1>5. ~Spilled(b) => k <= N
  <2>1. ~InFile(b) /\ pc[b] # "closing"
    BY DEF InFile, Spilling
  <2>2. size[b] = Before(N + 1)
    BY <1>2, <2>1, SizeOfFull DEF Spilling, Closing
  <2> QED
    BY <1>1, <1>3, <2>2 DEF Spilled
<1>6. ASSUME k <= N
      PROVE  /\ Len(chunks[b][k]) = ChunkSize
             /\ chunks[b][k] = [i \in 1..ChunkSize |-> Before(k) + i]
  <2>1. k \in 1..N
    BY <1>1, <1>6
  <2>2. Len(chunks[b][k]) = ChunkSize
    BY <1>2, <2>1
  <2>3. chunks[b][k] = [i \in 1..Len(chunks[b][k]) |-> Before(k) + i]
    BY <2>1, OwnInvariant, Zenon DEF ChunksInOrder, Closing
  <2> QED
    BY <2>2, <2>3
<1> QED
  BY <1>3, <1>4, <1>5, <1>6

LEMMA StartSpillIInv ==
  ASSUME IInv, NEW b \in Buffers, StartSpill(b)
  PROVE  IInv'
<1>1. /\ pc[b] = "fill" /\ ~HasRoom(b)
      /\ UNCHANGED <<budgets, sent, inMemory, open, reservedS, size, printed>>
  BY DEF StartSpill
<1>2. \/ /\ disk' = Set(disk, b, <<>>) /\ spilling' = Set(spilling, b, 0)
         /\ pc' = Set(pc, b, "spill") /\ rest' = rest /\ err' = err
      \/ /\ err' = Set(err, b, TRUE) /\ rest' = Set(rest, b, 0)
         /\ pc' = Set(pc, b, "idle") /\ disk' = disk /\ spilling' = spilling
  BY DEF StartSpill
<1>3. /\ spilling[b] = 0 /\ ~open[b] /\ disk[b] = NoFile /\ ~InFile(b)
      /\ printed[b] = NoFile /\ ~err[b]
  BY <1>1, OwnInvariant DEF SharesKnown, FileKnown, PrintedWhole, BytesCounted,
                            InFile, Spilling, Sealed, Writing, Closing, Dropping
<1>4. /\ sent'[b] = sent[b] /\ chunks'[b] = chunks[b]
      /\ reservedM'[b] = reservedM[b] /\ reservedS'[b] = reservedS[b]
      /\ spilling'[b] = 0 /\ ~open'[b] /\ size'[b] = size[b]
      /\ printed'[b] = NoFile
      /\ \/ pc'[b] = "spill" /\ disk'[b] = <<>> /\ rest'[b] = rest[b] /\ ~err'[b]
         \/ pc'[b] = "idle" /\ disk'[b] = NoFile /\ rest'[b] = 0 /\ err'[b]
  BY <1>1, <1>2, <1>3 DEF IInv, TypeOK, Set, inMemory
<1>5. TypeOK'
  <2>1. <<>> \in Seq(Int)
    OBVIOUS
  <2>2. disk' \in [Buffers -> Seq(Int)]
    BY <1>2, <2>1 DEF IInv, TypeOK, Set
  <2>4. spilling' \in [Buffers -> Nat]
    <3>1. spilling' = spilling \/ spilling' = Set(spilling, b, 0)
      BY <1>2
    <3> QED
      BY <3>1, ShareBecomes DEF IInv, TypeOK
  <2>6. rest' \in [Buffers -> Nat]
    <3>1. rest' = rest \/ rest' = Set(rest, b, 0)
      BY <1>2
    <3> QED
      BY <3>1, ShareBecomes DEF IInv, TypeOK
  <2>5. err' \in [Buffers -> BOOLEAN]
    BY <1>2 DEF IInv, TypeOK, Set
  <2>3. pc' \in [Buffers -> {"idle"} \cup Writing \cup Sealed]
    BY <1>2 DEF IInv, TypeOK, Set, Writing, Spilling
  <2> QED
    BY <1>1, <2>2, <2>3, <2>4, <2>5, <2>6 DEF IInv, TypeOK, budgets, inMemory
<1>6. BudgetsOK'
  <2>1. SumFunction(spilling') = SumFunction(spilling)
    <3>1. spilling \in [Buffers -> Nat]
      BY DEF IInv, TypeOK
    <3>2. spilling' = spilling
      BY <1>2, <1>3, <3>1 DEF Set
    <3> QED
      BY <3>2
  <2> QED
    BY <1>1, <2>1 DEF IInv, BudgetsOK, budgets, inMemory
<1>7. BufferOK(b)'
  <2>1. ~InFile(b)'
    BY <1>4 DEF InFile, Spilling
  <2>2. FileKnown(b)'
    BY <1>4 DEF FileKnown, Closing
  <2>3. BytesCounted(b)'
    BY <1>1, <1>3, <1>4, OwnInvariant, OwnTypes DEF BytesCounted, Writing, Spilling
  <2>4. ChunksInOrder(b)'
    BY <1>1, <1>3, <1>4, OwnInvariant, SameChunks, SMTT(30) DEF Closing
  <2>5. HeldOnce(b)'
    BY <1>1, <1>3, <1>4, <2>1, OwnInvariant DEF HeldOnce, Closing, Dropping
  <2>6. SpillInOrder(b)'
    <3>1. CASE pc'[b] = "spill"
      <4>1. disk'[b] = <<>> /\ disk'[b] = FirstBytes(Len(disk'[b]))
        BY <1>4, <3>1, FirstBytesNone
      <4>2. 1 \in 1..(Len(chunks[b]) + 1) /\ Len(disk'[b]) = Before(1)
        BY <4>1, BeforeFirst, OwnTypes
      <4> QED
        BY <1>1, <1>4, <3>1, <4>1, <4>2, AllFull DEF SpillInOrder
    <3>2. CASE pc'[b] = "idle"
      BY <3>2 DEF SpillInOrder, Spilling
    <3> QED
      BY <1>4, <3>1, <3>2
  <2>7. SharesKnown(b)'
    BY <1>1, <1>3, <1>4, <2>1, OwnInvariant DEF SharesKnown, Spilling, Closing, Dropping
  <2>8. PrintedWhole(b)'
    BY <1>4 DEF PrintedWhole
  <2> QED
    BY <2>2, <2>3, <2>4, <2>5, <2>6, <2>7, <2>8 DEF BufferOK
<1> QED
  BY <1>5, <1>6, <1>7, StepFromOwn DEF Step

LEMMA SpillReserveIInv ==
  ASSUME IInv, NEW b \in Buffers, SpillReserve(b)
  PROVE  IInv'
<1>1. /\ pc[b] = "spill" /\ ~Spilled(b)
      /\ UNCHANGED <<memory, writer, inMemory, open, reservedS, size, err, printed>>
  BY DEF SpillReserve
<1>2. PICK k \in 1..Len(chunks[b]) :
         Len(disk[b]) = Before(k) /\ ToSpill(b) = k /\ Len(chunks[b][k]) = ChunkSize
  <2>1. PICK k \in 1..(Len(chunks[b]) + 1) :
            /\ Len(disk[b]) = Before(k) /\ ToSpill(b) = k
            /\ k <= Len(chunks[b])
            /\ Len(chunks[b][k]) = ChunkSize
    BY <1>1, NextToSpill DEF Spilling
  <2>2. k \in 1..Len(chunks[b])
    BY <2>1, OwnTypes
  <2> QED
    BY <2>1, <2>2
<1>3. \/ /\ spooled + ChunkSize <= SpoolLimit
         /\ spooled' = spooled + ChunkSize
         /\ spilling' = Set(spilling, b, spilling[b] + ChunkSize)
         /\ pc' = Set(pc, b, "spillWrite")
         /\ disk' = disk
      \/ /\ disk' = Set(disk, b, NoFile)
         /\ pc' = Set(pc, b, "spillUndo")
         /\ spooled' = spooled /\ spilling' = spilling
  BY <1>2 DEF SpillReserve
<1>4. /\ ~open[b] /\ printed[b] = NoFile /\ ~err[b] /\ ~InFile(b)
      /\ spilling[b] = Len(disk[b]) /\ reservedS[b] = 0
  BY <1>1, OwnInvariant DEF SharesKnown, FileKnown, PrintedWhole, BytesCounted,
                            InFile, Spilling, Sealed, Writing, Closing, Dropping
<1>5. /\ sent'[b] = sent[b] /\ rest'[b] = rest[b] /\ chunks'[b] = chunks[b]
      /\ reservedM'[b] = reservedM[b] /\ reservedS'[b] = 0
      /\ ~open'[b] /\ size'[b] = size[b] /\ printed'[b] = NoFile /\ ~err'[b]
      /\ \/ /\ pc'[b] = "spillWrite" /\ disk'[b] = disk[b]
            /\ spilling'[b] = Len(disk[b]) + ChunkSize
         \/ pc'[b] = "spillUndo" /\ disk'[b] = NoFile
  BY <1>1, <1>3, <1>4 DEF IInv, TypeOK, Set, inMemory, writer
<1>6. TypeOK'
  <2>1. NoFile \in Seq(Int)
    BY DEF NoFile
  <2>2. disk' \in [Buffers -> Seq(Int)]
    <3>1. disk' = disk \/ disk' = Set(disk, b, NoFile)
      BY <1>3
    <3> QED
      BY <2>1, <3>1 DEF IInv, TypeOK, Set
  <2>3. spilling' \in [Buffers -> Nat]
    <3>1. \/ spilling' = spilling
          \/ spilling' = Set(spilling, b, spilling[b] + ChunkSize)
      BY <1>3
    <3>2. spilling[b] + ChunkSize \in Nat
      BY OwnTypes
    <3> QED
      BY <3>1, <3>2, ShareBecomes DEF IInv, TypeOK
  <2>5. spooled' \in Nat
    <3>1. spooled' = spooled \/ spooled' = spooled + ChunkSize
      BY <1>3
    <3> QED
      BY <3>1, OwnTypes
  <2>4. pc' \in [Buffers -> {"idle"} \cup Writing \cup Sealed]
    BY <1>3 DEF IInv, TypeOK, Set, Writing, Spilling
  <2> QED
    BY <1>1, <2>2, <2>3, <2>4, <2>5 DEF IInv, TypeOK, writer, inMemory
<1>7. BudgetsOK'
  <2>1. spilling \in [Buffers -> Nat] /\ spilling[b] + ChunkSize \in Nat
    BY DEF IInv, TypeOK
  <2>2. /\ SumFunction(Set(spilling, b, spilling[b] + ChunkSize))
              = SumFunction(spilling) - spilling[b] + (spilling[b] + ChunkSize)
        /\ SumFunction(spilling) \in Nat
    BY <2>1, ShareBecomes
  <2>3. /\ spooled = SumFunction(reservedS) + SumFunction(spilling)
        /\ SumFunction(reservedS) \in Nat
    BY SumType DEF IInv, TypeOK, BudgetsOK
  <2>4. /\ spooled' = SumFunction(reservedS) + SumFunction(spilling')
        /\ spooled' <= SpoolLimit
    BY <1>3, <2>1, <2>2, <2>3 DEF IInv, BudgetsOK
  <2> QED
    BY <1>1, <2>4 DEF IInv, BudgetsOK, inMemory
<1>8. BufferOK(b)'
  <2>1. ~InFile(b)'
    BY <1>5 DEF InFile, Spilling
  <2>2. FileKnown(b)'
    BY <1>5 DEF FileKnown, Closing
  <2>3. BytesCounted(b)'
    BY <1>1, <1>4, <1>5, OwnInvariant, OwnTypes DEF BytesCounted, Writing, Spilling
  <2>4. ChunksInOrder(b)'
    BY <1>1, <1>4, <1>5, OwnInvariant, SameChunks DEF Closing
  <2>5. HeldOnce(b)'
    BY <1>1, <1>4, <1>5, <2>1, OwnInvariant DEF HeldOnce, Closing, Dropping
  <2>6. SpillInOrder(b)'
    <3>1. CASE pc'[b] = "spillWrite"
      <4>1. disk'[b] = FirstBytes(Len(disk'[b]))
        BY <1>1, <1>5, <3>1, OwnInvariant DEF SpillInOrder, Spilling
      <4>2. /\ k \in 1..(Len(chunks[b]) + 1) /\ k <= Len(chunks[b])
            /\ Len(disk'[b]) = Before(k)
        BY <1>2, <1>5, <3>1, OwnTypes, SMTT(30)
      <4>3. \A i \in 1..Len(chunks[b]) : Len(chunks[b][i]) = ChunkSize
        BY <1>1, OwnInvariant DEF SpillInOrder, Spilling
      <4> QED
        BY <1>5, <4>1, <4>2, <4>3 DEF SpillInOrder
    <3>2. CASE pc'[b] = "spillUndo"
      BY <3>2 DEF SpillInOrder, Spilling
    <3> QED
      BY <1>5, <3>1, <3>2
  <2>7. SharesKnown(b)'
    BY <1>1, <1>4, <1>5, <2>1, OwnInvariant DEF SharesKnown, Spilling, Closing, Dropping
  <2>8. PrintedWhole(b)'
    BY <1>5 DEF PrintedWhole
  <2> QED
    BY <2>2, <2>3, <2>4, <2>5, <2>6, <2>7, <2>8 DEF BufferOK
<1> QED
  BY <1>6, <1>7, <1>8, StepFromOwn DEF Step

LEMMA SpillWriteIInv ==
  ASSUME IInv, NEW b \in Buffers, SpillWrite(b)
  PROVE  IInv'
<1>1. /\ pc[b] = "spillWrite"
      /\ UNCHANGED <<budgets, writer, inMemory, open, reservedS, spilling, size,
                     err, printed>>
  BY DEF SpillWrite
<1>2. PICK k \in 1..Len(chunks[b]) :
         /\ Len(disk[b]) = Before(k) /\ ToSpill(b) = k
         /\ chunks[b][k] = [i \in 1..ChunkSize |-> Before(k) + i]
  <2>1. PICK k \in 1..(Len(chunks[b]) + 1) :
            /\ Len(disk[b]) = Before(k) /\ ToSpill(b) = k
            /\ k <= Len(chunks[b])
            /\ chunks[b][k] = [i \in 1..ChunkSize |-> Before(k) + i]
    BY <1>1, NextToSpill DEF Spilling
  <2>2. k \in 1..Len(chunks[b])
    BY <2>1, OwnTypes
  <2> QED
    BY <2>1, <2>2
<1> DEFINE more == disk[b] \o chunks[b][ToSpill(b)]
<1>3. \/ disk' = Set(disk, b, more) /\ pc' = Set(pc, b, "spill")
      \/ disk' = Set(disk, b, NoFile) /\ pc' = Set(pc, b, "spillUndo")
  BY DEF SpillWrite
<1>4. /\ more = FirstBytes(Before(k + 1)) /\ more \in Seq(Int)
      /\ Len(more) = Before(k + 1)
      /\ Before(k + 1) = Len(disk[b]) + ChunkSize
  <2>1. /\ k \in Nat /\ Before(k) \in Nat /\ ChunkSize \in Nat
        /\ Before(k + 1) = Before(k) + ChunkSize /\ Before(k + 1) \in Nat
    <3>1. k \in Nat /\ Before(k) = Len(disk[b]) /\ Len(disk[b]) \in Nat
      BY <1>2, OwnTypes
    <3>2. Before(k + 1) = Before(k) + ChunkSize
      BY <3>1, BeforeNext
    <3> QED
      BY <3>1, <3>2
  <2>2. disk[b] = FirstBytes(Before(k))
    BY <1>1, <1>2, OwnInvariant DEF SpillInOrder, Spilling
  <2>3. FirstBytes(Before(k)) \o [i \in 1..ChunkSize |-> Before(k) + i]
           = FirstBytes(Before(k) + ChunkSize)
    BY <2>1, FirstBytesMore
  <2>4. more = FirstBytes(Before(k + 1))
    BY <1>2, <2>1, <2>2, <2>3, Zenon
  <2> QED
    BY <1>2, <2>1, <2>4, FirstBytesType
<1> HIDE DEF more
<1>5. /\ ~open[b] /\ printed[b] = NoFile /\ ~err[b] /\ ~InFile(b)
      /\ spilling[b] = Len(disk[b]) + ChunkSize /\ reservedS[b] = 0
  BY <1>1, OwnInvariant DEF SharesKnown, FileKnown, PrintedWhole, BytesCounted,
                            InFile, Spilling, Sealed, Writing, Closing, Dropping
<1>6. /\ sent'[b] = sent[b] /\ rest'[b] = rest[b] /\ chunks'[b] = chunks[b]
      /\ reservedM'[b] = reservedM[b] /\ reservedS'[b] = 0
      /\ ~open'[b] /\ size'[b] = size[b] /\ printed'[b] = NoFile /\ ~err'[b]
      /\ spilling'[b] = spilling[b]
      /\ \/ pc'[b] = "spill" /\ disk'[b] = more
         \/ pc'[b] = "spillUndo" /\ disk'[b] = NoFile
  BY <1>1, <1>3, <1>5 DEF IInv, TypeOK, Set, inMemory, writer
<1>7. TypeOK'
  <2>1. NoFile \in Seq(Int)
    BY DEF NoFile
  <2>2. disk' \in [Buffers -> Seq(Int)]
    BY <1>3, <1>4, <2>1 DEF IInv, TypeOK, Set
  <2>3. pc' \in [Buffers -> {"idle"} \cup Writing \cup Sealed]
    BY <1>3 DEF IInv, TypeOK, Set, Writing, Spilling
  <2> QED
    BY <1>1, <2>2, <2>3 DEF IInv, TypeOK, budgets, writer, inMemory
<1>8. BudgetsOK'
  BY <1>1 DEF IInv, BudgetsOK, budgets, inMemory
<1>9. BufferOK(b)'
  <2>1. ~InFile(b)'
    BY <1>6 DEF InFile, Spilling
  <2>2. FileKnown(b)'
    BY <1>6 DEF FileKnown, Closing
  <2>3. BytesCounted(b)'
    BY <1>1, <1>5, <1>6, OwnInvariant, OwnTypes DEF BytesCounted, Writing, Spilling
  <2>4. ChunksInOrder(b)'
    BY <1>1, <1>5, <1>6, OwnInvariant, SameChunks DEF Closing
  <2>5. HeldOnce(b)'
    BY <1>1, <1>5, <1>6, <2>1, OwnInvariant DEF HeldOnce, Closing, Dropping
  <2>6. SpillInOrder(b)'
    <3>1. CASE pc'[b] = "spill"
      <4>1. disk'[b] = FirstBytes(Len(disk'[b]))
        BY <1>4, <1>6, <3>1
      <4>2. k + 1 \in 1..(Len(chunks[b]) + 1) /\ Len(disk'[b]) = Before(k + 1)
        <5>1. disk'[b] = more
          BY <1>6, <3>1
        <5>2. Len(chunks[b]) \in Nat /\ k \in 1..Len(chunks[b])
          BY <1>2, OwnTypes
        <5> QED
          BY <1>4, <5>1, <5>2
      <4>3. \A i \in 1..Len(chunks[b]) : Len(chunks[b][i]) = ChunkSize
        BY <1>1, OwnInvariant DEF SpillInOrder, Spilling
      <4> QED
        BY <1>6, <3>1, <4>1, <4>2, <4>3 DEF SpillInOrder
    <3>2. CASE pc'[b] = "spillUndo"
      BY <3>2 DEF SpillInOrder, Spilling
    <3> QED
      BY <1>6, <3>1, <3>2
  <2>7. SharesKnown(b)'
    BY <1>1, <1>4, <1>5, <1>6, <2>1, OwnInvariant DEF SharesKnown, Spilling, Closing, Dropping
  <2>8. PrintedWhole(b)'
    BY <1>6 DEF PrintedWhole
  <2> QED
    BY <2>2, <2>3, <2>4, <2>5, <2>6, <2>7, <2>8 DEF BufferOK
<1> QED
  BY <1>7, <1>8, <1>9, StepFromOwn DEF Step

LEMMA SpillUndoIInv ==
  ASSUME IInv, NEW b \in Buffers, SpillUndo(b)
  PROVE  IInv'
<1>1. /\ pc[b] = "spillUndo"
      /\ spooled' = spooled - spilling[b]
      /\ spilling' = Set(spilling, b, 0)
      /\ err' = Set(err, b, TRUE) /\ rest' = Set(rest, b, 0)
      /\ pc' = Set(pc, b, "idle")
      /\ UNCHANGED <<memory, sent, inMemory, disk, open, reservedS, size, printed>>
  BY DEF SpillUndo
<1>2. /\ ~open[b] /\ disk[b] = NoFile /\ printed[b] = NoFile /\ ~err[b]
      /\ ~InFile(b)
  BY <1>1, OwnInvariant DEF FileKnown, PrintedWhole, BytesCounted,
                            InFile, Spilling, Sealed, Writing, Closing
<1>3. /\ sent'[b] = sent[b] /\ rest'[b] = 0 /\ chunks'[b] = chunks[b]
      /\ reservedM'[b] = reservedM[b] /\ reservedS'[b] = reservedS[b]
      /\ ~open'[b] /\ size'[b] = size[b] /\ printed'[b] = NoFile /\ err'[b]
      /\ spilling'[b] = 0 /\ pc'[b] = "idle" /\ disk'[b] = NoFile
  BY <1>1, <1>2 DEF IInv, TypeOK, Set, inMemory
<1>4. BudgetsOK' /\ spooled' \in Nat
  <2>1. spilling \in [Buffers -> Nat] /\ spilling[b] \in Nat
    BY DEF IInv, TypeOK
  <2>2. /\ SumFunction(Set(spilling, b, 0)) = SumFunction(spilling) - spilling[b] + 0
        /\ SumFunction(spilling) \in Nat /\ spilling[b] <= SumFunction(spilling)
    BY <2>1, ShareChanges
  <2>3. /\ spooled = SumFunction(reservedS) + SumFunction(spilling)
        /\ SumFunction(reservedS) \in Nat /\ spooled <= SpoolLimit
    BY SumType DEF IInv, TypeOK, BudgetsOK
  <2>4. /\ spooled' = SumFunction(reservedS) + SumFunction(spilling')
        /\ spooled' <= SpoolLimit /\ spooled' \in Nat
    BY <1>1, <2>1, <2>2, <2>3
  <2> QED
    BY <1>1, <2>4 DEF IInv, BudgetsOK, inMemory
<1>5. TypeOK'
  <2>1. spilling' \in [Buffers -> Nat] /\ rest' \in [Buffers -> Nat]
    BY <1>1 DEF IInv, TypeOK, Set
  <2>2. err' \in [Buffers -> BOOLEAN]
    BY <1>1 DEF IInv, TypeOK, Set
  <2>3. pc' \in [Buffers -> {"idle"} \cup Writing \cup Sealed]
    BY <1>1 DEF IInv, TypeOK, Set
  <2> QED
    BY <1>1, <1>4, <2>1, <2>2, <2>3 DEF IInv, TypeOK, inMemory
<1>6. BufferOK(b)'
  <2>1. ~InFile(b)'
    BY <1>3 DEF InFile
  <2>2. FileKnown(b)' /\ SpillInOrder(b)' /\ PrintedWhole(b)'
    BY <1>3 DEF FileKnown, SpillInOrder, PrintedWhole, Spilling, Closing
  <2>3. BytesCounted(b)'
    <3>1. size[b] + rest[b] <= sent[b] /\ size[b] \in Nat /\ rest[b] \in Nat /\ sent[b] \in Nat
      BY OwnInvariant, OwnTypes DEF BytesCounted
    <3> QED
      BY <1>3, <3>1 DEF BytesCounted, Writing, Spilling
  <2>4. ChunksInOrder(b)'
    BY <1>1, <1>2, <1>3, OwnInvariant, SameChunks DEF Closing
  <2>5. HeldOnce(b)' /\ SharesKnown(b)'
    BY <1>1, <1>2, <1>3, <2>1, OwnInvariant DEF HeldOnce, SharesKnown, Spilling, Closing, Dropping
  <2> QED
    BY <2>2, <2>3, <2>4, <2>5 DEF BufferOK
<1> QED
  BY <1>4, <1>5, <1>6, StepFromOwn DEF Step

LEMMA SpillDoneIInv ==
  ASSUME IInv, NEW b \in Buffers, SpillDone(b)
  PROVE  IInv'
<1>1. /\ pc[b] = "spill" /\ Spilled(b)
      /\ open' = Set(open, b, TRUE)
      /\ reservedS' = Set(reservedS, b, spilling[b])
      /\ spilling' = Set(spilling, b, 0)
      /\ memory' = memory - reservedM[b]
      /\ reservedM' = Set(reservedM, b, 0)
      /\ pc' = Set(pc, b, "spillDrop")
      /\ UNCHANGED <<spooled, writer, chunks, disk, size, err, printed>>
  BY DEF SpillDone
<1>2. /\ printed[b] = NoFile /\ ~err[b] /\ ~InFile(b)
      /\ spilling[b] = Len(disk[b]) /\ reservedS[b] = 0
      /\ Len(disk[b]) = size[b]
  BY <1>1, OwnInvariant DEF SharesKnown, PrintedWhole, BytesCounted, Spilled,
                            InFile, Spilling, Sealed, Writing, Closing, Dropping
<1>3. disk[b] = FirstBytes(size[b]) /\ disk[b] # NoFile
  <2>1. disk[b] = FirstBytes(size[b])
    BY <1>1, <1>2, OwnInvariant DEF SpillInOrder, Spilling
  <2> QED
    BY <2>1, OwnTypes, FirstBytesType
<1>4. /\ sent'[b] = sent[b] /\ rest'[b] = rest[b] /\ chunks'[b] = chunks[b]
      /\ reservedM'[b] = 0 /\ reservedS'[b] = size[b] /\ spilling'[b] = 0
      /\ open'[b] /\ size'[b] = size[b] /\ printed'[b] = NoFile /\ ~err'[b]
      /\ disk'[b] = disk[b] /\ pc'[b] = "spillDrop"
  BY <1>1, <1>2 DEF IInv, TypeOK, Set, writer
<1>5. TypeOK' /\ BudgetsOK'
  <2>1. /\ reservedM \in [Buffers -> Nat] /\ reservedS \in [Buffers -> Nat]
        /\ spilling \in [Buffers -> Nat] /\ reservedM[b] \in Nat
        /\ spilling[b] \in Nat /\ 0 \in Nat
    BY DEF IInv, TypeOK
  <2>2. /\ SumFunction(reservedM') = SumFunction(reservedM) - reservedM[b] + 0
        /\ SumFunction(reservedM) \in Nat /\ reservedM[b] <= SumFunction(reservedM)
        /\ reservedM' \in [Buffers -> Nat]
    <3>0. reservedM \in [Buffers -> Nat] /\ reservedM[b] \in Nat
      BY <2>1
    <3>1. /\ SumFunction(Set(reservedM, b, 0)) = SumFunction(reservedM) - reservedM[b] + 0
          /\ SumFunction(reservedM) \in Nat /\ reservedM[b] <= SumFunction(reservedM)
          /\ Set(reservedM, b, 0) \in [Buffers -> Nat]
      BY <3>0, ShareChanges
    <3>2. reservedM' = Set(reservedM, b, 0)
      BY <1>1
    <3> QED
      BY <3>1, <3>2, Zenon
  <2>3. /\ SumFunction(reservedS') = SumFunction(reservedS) - reservedS[b] + spilling[b]
        /\ SumFunction(reservedS) \in Nat /\ reservedS' \in [Buffers -> Nat]
    <3>0. reservedS \in [Buffers -> Nat] /\ reservedS[b] \in Nat /\ spilling[b] \in Nat
      BY <2>1
    <3>1. /\ SumFunction(Set(reservedS, b, spilling[b])) = SumFunction(reservedS) - reservedS[b] + spilling[b]
          /\ SumFunction(reservedS) \in Nat /\ reservedS[b] <= SumFunction(reservedS)
          /\ Set(reservedS, b, spilling[b]) \in [Buffers -> Nat]
      BY <3>0, ShareChanges
    <3>2. reservedS' = Set(reservedS, b, spilling[b])
      BY <1>1
    <3> QED
      BY <3>1, <3>2, Zenon
  <2>4. /\ SumFunction(spilling') = SumFunction(spilling) - spilling[b] + 0
        /\ SumFunction(spilling) \in Nat /\ spilling' \in [Buffers -> Nat]
    <3>0. spilling \in [Buffers -> Nat] /\ spilling[b] \in Nat
      BY <2>1
    <3>1. /\ SumFunction(Set(spilling, b, 0)) = SumFunction(spilling) - spilling[b] + 0
          /\ SumFunction(spilling) \in Nat /\ spilling[b] <= SumFunction(spilling)
          /\ Set(spilling, b, 0) \in [Buffers -> Nat]
      BY <3>0, ShareChanges
    <3>2. spilling' = Set(spilling, b, 0)
      BY <1>1
    <3> QED
      BY <3>1, <3>2, Zenon
  <2>5. /\ memory = SumFunction(reservedM) /\ memory <= MemoryLimit
        /\ spooled = SumFunction(reservedS) + SumFunction(spilling)
        /\ spooled <= SpoolLimit /\ spooled' = spooled
    BY <1>1 DEF IInv, BudgetsOK
  <2>6. memory' \in Nat /\ memory' = SumFunction(reservedM') /\ memory' <= MemoryLimit
    BY <1>1, <2>1, <2>2, <2>5
  <2>7. spooled' = SumFunction(reservedS') + SumFunction(spilling')
    <3>1. spilling[b] \in Nat /\ reservedS[b] = 0
      BY <1>2, <2>1
    <3>2. SumFunction(reservedS') = SumFunction(reservedS) + spilling[b]
      BY <2>3, <3>1
    <3>3. SumFunction(spilling') = SumFunction(spilling) - spilling[b]
      BY <2>4, <3>1
    <3> QED
      BY <2>3, <2>4, <2>5, <3>1, <3>2, <3>3
  <2>8. BudgetsOK'
    BY <2>5, <2>6, <2>7 DEF BudgetsOK
  <2>9. open' \in [Buffers -> BOOLEAN]
    BY <1>1 DEF IInv, TypeOK, Set
  <2>11. pc' \in [Buffers -> {"idle"} \cup Writing \cup Sealed]
    BY <1>1 DEF IInv, TypeOK, Set, Writing
  <2>12. TypeOK'
    BY <1>1, <2>2, <2>3, <2>4, <2>6, <2>9, <2>11 DEF IInv, TypeOK, writer
  <2> QED
    BY <2>8, <2>12
<1>6. BufferOK(b)'
  <2>1. InFile(b)'
    BY <1>3, <1>4 DEF InFile, Spilling
  <2>2. FileKnown(b)' /\ SpillInOrder(b)' /\ PrintedWhole(b)'
    BY <1>3, <1>4 DEF FileKnown, SpillInOrder, PrintedWhole, Spilling, Closing
  <2>3. BytesCounted(b)'
    BY <1>1, <1>2, <1>4, OwnInvariant DEF BytesCounted, Writing, Spilling
  <2>4. ChunksInOrder(b)'
    <3>0. ChunksInOrder(b) /\ chunks'[b] = chunks[b]
      BY <1>4, OwnInvariant
    <3>1. \A k \in 1..Len(chunks'[b]) :
             /\ Len(chunks'[b][k]) <= ChunkSize
             /\ k < Len(chunks'[b]) => Len(chunks'[b][k]) = ChunkSize
             /\ chunks'[b][k] = [i \in 1..Len(chunks'[b][k]) |-> Before(k) + i]
      BY <3>0, Zenon DEF ChunksInOrder
    <3> QED
      BY <2>1, <3>1, Zenon DEF ChunksInOrder, Closing
  <2>5. HeldOnce(b)'
    BY <1>3, <1>4, <2>1 DEF HeldOnce, Closing, Dropping
  <2>6. SharesKnown(b)'
    BY <1>4, <2>1, OwnInvariant DEF SharesKnown, Spilling, Closing, Dropping
  <2> QED
    BY <2>2, <2>3, <2>4, <2>5, <2>6 DEF BufferOK
<1> QED
  BY <1>5, <1>6, StepFromOwn DEF Step

LEMMA SpillDropIInv ==
  ASSUME IInv, NEW b \in Buffers, SpillDrop(b)
  PROVE  IInv'
<1>1. /\ pc[b] = "spillDrop"
      /\ chunks' = Set(chunks, b, <<>>) /\ pc' = Set(pc, b, "file")
      /\ UNCHANGED <<budgets, writer, reservedM, onDisk, size, err, printed>>
  BY DEF SpillDrop
<1>2. /\ chunks'[b] = <<>> /\ pc'[b] = "file"
      /\ sent'[b] = sent[b] /\ rest'[b] = rest[b]
      /\ reservedM'[b] = reservedM[b] /\ reservedS'[b] = reservedS[b]
      /\ spilling'[b] = spilling[b] /\ disk'[b] = disk[b] /\ open'[b] = open[b]
      /\ size'[b] = size[b] /\ err'[b] = err[b] /\ printed'[b] = printed[b]
  BY <1>1 DEF IInv, TypeOK, Set, onDisk, writer
<1>3. open[b] /\ disk[b] # NoFile /\ InFile(b) /\ InFile(b)'
  BY <1>1, <1>2, OwnInvariant DEF FileKnown, InFile, Spilling, Closing
<1>4. TypeOK'
  <2>1. chunks' \in [Buffers -> Seq(Seq(Int))]
    BY <1>1 DEF IInv, TypeOK, Set
  <2>2. pc' \in [Buffers -> {"idle"} \cup Writing \cup Sealed]
    BY <1>1 DEF IInv, TypeOK, Set, Writing
  <2> QED
    BY <1>1, <2>1, <2>2 DEF IInv, TypeOK, budgets, writer, onDisk
<1>5. BudgetsOK'
  BY <1>1 DEF IInv, BudgetsOK, budgets, onDisk
<1>6. BufferOK(b)'
  <2>1. FileKnown(b)' /\ SpillInOrder(b)'
    BY <1>2, <1>3 DEF FileKnown, SpillInOrder, Spilling, Closing
  <2>2. BytesCounted(b)' /\ PrintedWhole(b)'
    BY <1>1, <1>2, OwnInvariant DEF BytesCounted, PrintedWhole, Writing, Spilling, Sealed, Closing
  <2>3. ChunksInOrder(b)'
    BY <1>2, <1>3, NoChunksInFile
  <2>4. HeldOnce(b)'
    BY <1>2, <1>3, OwnInvariant DEF HeldOnce, Closing, Dropping
  <2>5. SharesKnown(b)'
    <3>1. ChunkSize * Len(<<>>) = 0 /\ 0 <= MemoryLimit
      BY LimitsAssumption
    <3>2. reservedM[b] = 0 /\ spilling[b] = 0 /\ reservedS[b] = size[b]
      BY <1>1, <1>3, OwnInvariant DEF SharesKnown, Spilling, Closing, Dropping
    <3> QED
      BY <1>2, <1>3, <3>1, <3>2 DEF SharesKnown, Spilling, Closing, Dropping
  <2> QED
    BY <2>1, <2>2, <2>3, <2>4, <2>5 DEF BufferOK
<1> QED
  BY <1>4, <1>5, <1>6, StepFromOwn DEF Step

-----------------------------------------------------------------------------
(* Writing to the file.                                                     *)

LEMMA FileReserveIInv ==
  ASSUME IInv, NEW b \in Buffers, FileReserve(b)
  PROVE  IInv'
<1>1. /\ pc[b] = "file"
      /\ UNCHANGED <<memory, sent, inMemory, disk, reservedS, size, printed>>
  BY DEF FileReserve
<1>2. \/ /\ spooled + rest[b] <= SpoolLimit
         /\ spooled' = spooled + rest[b]
         /\ spilling' = Set(spilling, b, rest[b])
         /\ pc' = Set(pc, b, "fileWrite")
         /\ rest' = rest /\ err' = err /\ open' = open
      \/ /\ err' = Set(err, b, TRUE) /\ open' = Set(open, b, FALSE)
         /\ rest' = Set(rest, b, 0) /\ pc' = Set(pc, b, "idle")
         /\ spooled' = spooled /\ spilling' = spilling
  BY DEF FileReserve
<1>3. /\ open[b] /\ disk[b] # NoFile /\ printed[b] = NoFile /\ ~err[b] /\ InFile(b)
      /\ spilling[b] = 0 /\ disk[b] = FirstBytes(size[b]) /\ chunks[b] = <<>>
  BY <1>1, OwnInvariant DEF SharesKnown, FileKnown, PrintedWhole, BytesCounted,
                            HeldOnce, InFile, Spilling, Sealed, Writing, Closing, Dropping
<1>4. /\ sent'[b] = sent[b] /\ chunks'[b] = <<>> /\ reservedM'[b] = reservedM[b]
      /\ reservedS'[b] = reservedS[b] /\ size'[b] = size[b]
      /\ printed'[b] = NoFile /\ disk'[b] = disk[b]
      /\ \/ /\ pc'[b] = "fileWrite" /\ spilling'[b] = rest[b]
            /\ rest'[b] = rest[b] /\ ~err'[b] /\ open'[b]
         \/ /\ pc'[b] = "idle" /\ spilling'[b] = 0
            /\ rest'[b] = 0 /\ err'[b] /\ ~open'[b]
  BY <1>1, <1>2, <1>3 DEF IInv, TypeOK, Set, inMemory
<1>5. TypeOK'
  <2>1. /\ rest \in [Buffers -> Nat] /\ spilling \in [Buffers -> Nat]
        /\ rest[b] \in Nat /\ spooled \in Nat
    BY DEF IInv, TypeOK
  <2>2. spilling' \in [Buffers -> Nat] /\ spooled' \in Nat
    <3>1. spilling' = spilling \/ spilling' = Set(spilling, b, rest[b])
      BY <1>2
    <3>2. spooled' = spooled \/ spooled' = spooled + rest[b]
      BY <1>2
    <3>3. spilling' \in [Buffers -> Nat]
      BY <2>1, <3>1, ShareBecomes
    <3> QED
      BY <2>1, <3>2, <3>3
  <2>3. rest' \in [Buffers -> Nat]
    <3>1. rest' = rest \/ rest' = Set(rest, b, 0)
      BY <1>2
    <3> QED
      BY <2>1, <3>1, ShareBecomes
  <2>4. err' \in [Buffers -> BOOLEAN]
    BY <1>2 DEF IInv, TypeOK, Set
  <2>5. open' \in [Buffers -> BOOLEAN]
    BY <1>2 DEF IInv, TypeOK, Set
  <2>6. pc' \in [Buffers -> {"idle"} \cup Writing \cup Sealed]
    BY <1>2 DEF IInv, TypeOK, Set, Writing
  <2> QED
    BY <1>1, <2>2, <2>3, <2>4, <2>5, <2>6 DEF IInv, TypeOK, inMemory
<1>6. BudgetsOK'
  <2>1. spilling \in [Buffers -> Nat] /\ rest[b] \in Nat
    BY DEF IInv, TypeOK
  <2>2. /\ SumFunction(Set(spilling, b, rest[b])) = SumFunction(spilling) - spilling[b] + rest[b]
        /\ SumFunction(spilling) \in Nat
    BY <2>1, ShareChanges
  <2>3. /\ spooled = SumFunction(reservedS) + SumFunction(spilling)
        /\ SumFunction(reservedS) \in Nat /\ spooled <= SpoolLimit
    BY SumType DEF IInv, TypeOK, BudgetsOK
  <2>4. /\ spooled' = SumFunction(reservedS) + SumFunction(spilling')
        /\ spooled' <= SpoolLimit
    <3>1. CASE spilling' = Set(spilling, b, rest[b]) /\ spooled' = spooled + rest[b]
               /\ spooled + rest[b] <= SpoolLimit
      <4>1. SumFunction(spilling') = SumFunction(spilling) + rest[b]
        BY <1>3, <2>1, <2>2, <3>1
      <4> QED
        BY <2>1, <2>2, <2>3, <3>1, <4>1
    <3>2. CASE spilling' = spilling /\ spooled' = spooled
      BY <2>3, <3>2
    <3> QED
      BY <1>2, <3>1, <3>2
  <2> QED
    BY <1>1, <2>4 DEF IInv, BudgetsOK, inMemory
<1>7. BufferOK(b)'
  <2>1. InFile(b)'
    BY <1>3, <1>4 DEF InFile, Spilling
  <2>2. FileKnown(b)' /\ SpillInOrder(b)' /\ PrintedWhole(b)'
    BY <1>3, <1>4 DEF FileKnown, SpillInOrder, PrintedWhole, Spilling, Closing
  <2>3. BytesCounted(b)'
    <3>1. /\ size[b] + rest[b] = sent[b] /\ size[b] \in Nat /\ rest[b] \in Nat
          /\ sent[b] \in Nat
      BY <1>1, <1>3, OwnInvariant, OwnTypes DEF BytesCounted
    <3> QED
      BY <1>4, <3>1 DEF BytesCounted, Writing, Spilling
  <2>4. ChunksInOrder(b)'
    BY <1>4, <2>1, NoChunksInFile
  <2>5. HeldOnce(b)'
    BY <1>3, <1>4, <2>1 DEF HeldOnce, Closing, Dropping
  <2>6. SharesKnown(b)'
    BY <1>1, <1>3, <1>4, <2>1, OwnInvariant DEF SharesKnown, Spilling, Closing, Dropping
  <2> QED
    BY <2>2, <2>3, <2>4, <2>5, <2>6 DEF BufferOK
<1> QED
  BY <1>5, <1>6, <1>7, StepFromOwn DEF Step

LEMMA FileWriteIInv ==
  ASSUME IInv, NEW b \in Buffers, NEW n \in 0..rest[b], FileWrite(b, n)
  PROVE  IInv'
<1>1. /\ pc[b] = "fileWrite"
      /\ disk' = Set(disk, b, disk[b] \o Bytes(b, n))
      /\ reservedS' = Set(reservedS, b, reservedS[b] + n)
      /\ spooled' = spooled - (rest[b] - n)
      /\ spilling' = Set(spilling, b, 0)
      /\ size' = Set(size, b, size[b] + n)
      /\ err' = Set(err, b, n # rest[b])
      /\ open' = Set(open, b, n = rest[b])
      /\ rest' = Set(rest, b, 0)
      /\ pc' = Set(pc, b, "idle")
      /\ UNCHANGED <<memory, sent, inMemory, printed>>
  BY DEF FileWrite
<1>2. /\ open[b] /\ disk[b] # NoFile /\ printed[b] = NoFile /\ ~err[b] /\ InFile(b)
      /\ spilling[b] = rest[b] /\ disk[b] = FirstBytes(size[b]) /\ chunks[b] = <<>>
      /\ reservedS[b] = size[b] /\ pc[b] \in Writing
  BY <1>1, OwnInvariant DEF SharesKnown, FileKnown, PrintedWhole, BytesCounted,
                            HeldOnce, InFile, Spilling, Sealed, Writing, Closing, Dropping
<1>3. /\ rest[b] \in Nat /\ n \in Nat /\ n <= rest[b] /\ size[b] \in Nat
      /\ size[b] + n \in Nat /\ sent[b] \in Nat /\ size[b] + rest[b] = sent[b]
  <2>1. rest[b] \in Nat /\ size[b] \in Nat /\ sent[b] \in Nat
    BY OwnTypes
  <2>2. size[b] + rest[b] = sent[b]
    BY <1>1, <1>2, OwnInvariant DEF BytesCounted
  <2> QED
    BY <2>1, <2>2
<1> DEFINE more == disk[b] \o Bytes(b, n)
<1>4. more = FirstBytes(size[b] + n) /\ more \in Seq(Int) /\ more # NoFile
  <2>1. Bytes(b, n) = [i \in 1..n |-> size[b] + i]
    BY <1>2, <1>3, BytesFollow
  <2>2. FirstBytes(size[b]) \o [i \in 1..n |-> size[b] + i] = FirstBytes(size[b] + n)
    BY <1>3, FirstBytesMore
  <2>3. more = FirstBytes(size[b] + n)
    BY <1>2, <2>1, <2>2, Zenon
  <2> QED
    BY <1>3, <2>3, FirstBytesType
<1> HIDE DEF more
<1>5. /\ disk'[b] = more /\ reservedS'[b] = size[b] + n /\ spilling'[b] = 0
      /\ size'[b] = size[b] + n /\ err'[b] = (n # rest[b])
      /\ open'[b] = (n = rest[b]) /\ rest'[b] = 0 /\ pc'[b] = "idle"
      /\ sent'[b] = sent[b] /\ chunks'[b] = <<>> /\ reservedM'[b] = reservedM[b]
      /\ printed'[b] = NoFile
  BY <1>1, <1>2 DEF IInv, TypeOK, Set, inMemory, more
<1>6. TypeOK' /\ BudgetsOK'
  <2>1. /\ reservedS \in [Buffers -> Nat] /\ spilling \in [Buffers -> Nat]
        /\ reservedS[b] + n \in Nat /\ rest \in [Buffers -> Nat]
        /\ size \in [Buffers -> Nat] /\ 0 \in Nat
    BY <1>2, <1>3 DEF IInv, TypeOK
  <2>2. /\ SumFunction(reservedS') = SumFunction(reservedS) - reservedS[b] + (reservedS[b] + n)
        /\ SumFunction(reservedS) \in Nat /\ reservedS' \in [Buffers -> Nat]
    BY <1>1, <2>1, ShareBecomes
  <2>3. /\ SumFunction(spilling') = SumFunction(spilling) - spilling[b] + 0
        /\ SumFunction(spilling) \in Nat /\ spilling[b] <= SumFunction(spilling)
        /\ spilling' \in [Buffers -> Nat]
    <3>0. spilling \in [Buffers -> Nat] /\ spilling[b] \in Nat
      BY <2>1
    <3>1. /\ SumFunction(Set(spilling, b, 0)) = SumFunction(spilling) - spilling[b] + 0
          /\ SumFunction(spilling) \in Nat /\ spilling[b] <= SumFunction(spilling)
          /\ Set(spilling, b, 0) \in [Buffers -> Nat]
      BY <3>0, ShareChanges
    <3>2. spilling' = Set(spilling, b, 0)
      BY <1>1
    <3> QED
      BY <3>1, <3>2, Zenon
  <2>4. /\ spooled = SumFunction(reservedS) + SumFunction(spilling)
        /\ spooled <= SpoolLimit
    BY DEF IInv, BudgetsOK
  <2>5. /\ spooled' = SumFunction(reservedS') + SumFunction(spilling')
        /\ spooled' <= SpoolLimit /\ spooled' \in Nat
    <3>1. spooled' = spooled - (rest[b] - n)
      BY <1>1
    <3>2. /\ SumFunction(reservedS') = SumFunction(reservedS) + n
          /\ SumFunction(spilling') = SumFunction(spilling) - rest[b]
      BY <1>2, <1>3, <2>2, <2>3
    <3>3. /\ SumFunction(reservedS) \in Nat /\ SumFunction(spilling) \in Nat
          /\ rest[b] <= SumFunction(spilling)
      BY <1>2, <2>2, <2>3
    <3> QED
      BY <1>3, <2>4, <3>1, <3>2, <3>3
  <2>6. BudgetsOK'
    BY <1>1, <2>5 DEF IInv, BudgetsOK, inMemory
  <2>7. disk' \in [Buffers -> Seq(Int)]
    <3>1. disk' = Set(disk, b, more)
      BY <1>1 DEF more
    <3> QED
      BY <1>4, <3>1 DEF IInv, TypeOK, Set
  <2>8. rest' \in [Buffers -> Nat] /\ size' \in [Buffers -> Nat]
    BY <1>1, <1>3, <2>1, ShareBecomes
  <2>9. err' \in [Buffers -> BOOLEAN] /\ open' \in [Buffers -> BOOLEAN]
    BY <1>1 DEF IInv, TypeOK, Set
  <2>10. pc' \in [Buffers -> {"idle"} \cup Writing \cup Sealed]
    BY <1>1 DEF IInv, TypeOK, Set
  <2>11. TypeOK'
    BY <1>1, <2>2, <2>3, <2>5, <2>7, <2>8, <2>9, <2>10 DEF IInv, TypeOK, inMemory
  <2> QED
    BY <2>6, <2>11
<1>7. BufferOK(b)'
  <2>1. InFile(b)'
    BY <1>4, <1>5 DEF InFile, Spilling
  <2>2. FileKnown(b)' /\ SpillInOrder(b)' /\ PrintedWhole(b)'
    BY <1>4, <1>5 DEF FileKnown, SpillInOrder, PrintedWhole, Spilling, Closing
  <2>3. BytesCounted(b)'
    <3>1. ~err'[b] => n = rest[b]
      BY <1>5
    <3>2. /\ size'[b] = size[b] + n /\ rest'[b] = 0 /\ sent'[b] = sent[b]
          /\ pc'[b] \notin Writing
      BY <1>5 DEF Writing, Spilling
    <3> QED
      BY <1>3, <3>1, <3>2 DEF BytesCounted
  <2>4. ChunksInOrder(b)'
    BY <1>5, <2>1, NoChunksInFile
  <2>5. HeldOnce(b)'
    BY <1>4, <1>5, <2>1 DEF HeldOnce, Closing, Dropping
  <2>6. SharesKnown(b)'
    BY <1>1, <1>2, <1>5, <2>1, OwnInvariant DEF SharesKnown, Spilling, Closing, Dropping
  <2> QED
    BY <2>2, <2>3, <2>4, <2>5, <2>6 DEF BufferOK
<1> QED
  BY <1>6, <1>7, StepFromOwn DEF Step

-----------------------------------------------------------------------------
(* Finalize, WriteTo and Close.                                             *)

LEMMA FinalizeIInv ==
  ASSUME IInv, NEW b \in Buffers, Finalize(b)
  PROVE  IInv'
<1>1. /\ pc[b] = "idle"
      /\ open' = Set(open, b, FALSE) /\ pc' = Set(pc, b, "final")
      /\ UNCHANGED <<budgets, writer, inMemory, disk, reservedS, spilling, size,
                     printed>>
  BY DEF Finalize
<1>2. PICK late \in BOOLEAN : err' = Set(err, b, err[b] \/ late)
  BY DEF Finalize
<1>3. rest[b] = 0 /\ printed[b] = NoFile /\ spilling[b] = 0
  BY <1>1, OwnInvariant DEF BytesCounted, PrintedWhole, SharesKnown, Writing,
                            Spilling, Sealed, Closing, Dropping
<1>4. /\ ~open'[b] /\ pc'[b] = "final" /\ err'[b] = (err[b] \/ late)
      /\ sent'[b] = sent[b] /\ rest'[b] = rest[b] /\ chunks'[b] = chunks[b]
      /\ reservedM'[b] = reservedM[b] /\ reservedS'[b] = reservedS[b]
      /\ spilling'[b] = 0 /\ disk'[b] = disk[b] /\ size'[b] = size[b]
      /\ printed'[b] = NoFile
  BY <1>1, <1>2, <1>3 DEF IInv, TypeOK, Set, inMemory, writer
<1>5. TypeOK'
  <2>1. open' \in [Buffers -> BOOLEAN]
    BY <1>1 DEF IInv, TypeOK, Set
  <2>2. err' \in [Buffers -> BOOLEAN]
    BY <1>2 DEF IInv, TypeOK, Set
  <2>3. pc' \in [Buffers -> {"idle"} \cup Writing \cup Sealed]
    BY <1>1 DEF IInv, TypeOK, Set, Sealed, Closing
  <2> QED
    BY <1>1, <2>1, <2>2, <2>3 DEF IInv, TypeOK, budgets, writer, inMemory
<1>6. BudgetsOK'
  BY <1>1 DEF IInv, BudgetsOK, budgets, inMemory
<1>7. BufferOK(b)'
  <2>1. InFile(b)' <=> InFile(b)
    BY <1>1, <1>4 DEF InFile, Spilling
  <2>2. FileKnown(b)' /\ SpillInOrder(b)' /\ PrintedWhole(b)'
    BY <1>4 DEF FileKnown, SpillInOrder, PrintedWhole, Spilling, Closing
  <2>3. BytesCounted(b)'
    BY <1>1, <1>3, <1>4, OwnInvariant DEF BytesCounted, Writing, Spilling
  <2>4. ChunksInOrder(b)'
    <3>1. CASE InFile(b)
      BY <1>1, <1>4, <2>1, <3>1, OwnInvariant, NoChunksInFile DEF HeldOnce, Closing, Dropping
    <3>2. CASE ~InFile(b)
      BY <1>1, <1>4, <3>2, OwnInvariant, SameChunks DEF Closing
    <3> QED
      BY <3>1, <3>2
  <2>5. HeldOnce(b)'
    BY <1>1, <1>4, <2>1, OwnInvariant DEF HeldOnce, Closing, Dropping
  <2>6. SharesKnown(b)'
    BY <1>1, <1>4, <2>1, OwnInvariant DEF SharesKnown, Spilling, Closing, Dropping
  <2> QED
    BY <2>2, <2>3, <2>4, <2>5, <2>6 DEF BufferOK
<1> QED
  BY <1>5, <1>6, <1>7, StepFromOwn DEF Step

\* What is printed is what the buffer holds.
LEMMA PrintsHeld ==
  ASSUME IInv, NEW b \in Buffers, WriteTo(b)
  PROVE  printed' = Set(printed, b, FirstBytes(size[b]))
<1>1. pc[b] = "final"
  BY DEF WriteTo
<1>2. CASE disk[b] # NoFile
  <2>1. disk[b] = FirstBytes(size[b])
    BY <1>1, <1>2, OwnInvariant DEF HeldOnce, InFile, Spilling, Closing, Dropping
  <2> QED
    BY <1>2, <2>1 DEF WriteTo
<1>3. CASE disk[b] = NoFile
  <2>1. FlattenSeq(chunks[b]) = FirstBytes(size[b])
    BY <1>1, <1>3, OwnInvariant DEF HeldOnce, InFile, Closing, Dropping
  <2> QED
    BY <1>3, <2>1 DEF WriteTo
<1> QED
  BY <1>2, <1>3

LEMMA WriteToIInv ==
  ASSUME IInv, NEW b \in Buffers, WriteTo(b)
  PROVE  IInv'
<1> DEFINE new == FirstBytes(size[b])
<1>1. /\ pc[b] = "final" /\ printed' = Set(printed, b, new)
      /\ UNCHANGED <<budgets, pc, writer, inMemory, onDisk, size, err>>
  BY PrintsHeld DEF WriteTo
<1>2. new \in Seq(Int) /\ Len(new) = size[b]
  BY OwnTypes, FirstBytesType
<1>3. new = FirstBytes(Len(new))
  BY <1>2
<1> HIDE DEF new
<1>4. /\ printed'[b] = new
      /\ pc'[b] = "final" /\ sent'[b] = sent[b] /\ rest'[b] = rest[b]
      /\ chunks'[b] = chunks[b] /\ reservedM'[b] = reservedM[b]
      /\ reservedS'[b] = reservedS[b] /\ spilling'[b] = spilling[b]
      /\ disk'[b] = disk[b] /\ open'[b] = open[b] /\ size'[b] = size[b]
      /\ err'[b] = err[b]
  BY <1>1 DEF IInv, TypeOK, Set, inMemory, writer, onDisk
<1>5. TypeOK'
  <2>1. printed' \in [Buffers -> Seq(Int)]
    BY <1>1, <1>2 DEF IInv, TypeOK, Set
  <2> QED
    BY <1>1, <2>1 DEF IInv, TypeOK, budgets, writer, inMemory, onDisk
<1>6. BudgetsOK'
  BY <1>1 DEF IInv, BudgetsOK, budgets, inMemory, onDisk
<1>7. BufferOK(b)'
  <2>1. InFile(b)' <=> InFile(b)
    BY <1>1, <1>4 DEF InFile
  <2>2. FileKnown(b)' /\ BytesCounted(b)'
    BY <1>1, <1>4, OwnInvariant DEF FileKnown, BytesCounted, Closing
  <2>3. SpillInOrder(b)'
    BY <1>4 DEF SpillInOrder, Spilling
  <2>4. ChunksInOrder(b)'
    <3>1. CASE InFile(b)
      BY <1>1, <1>4, <2>1, <3>1, OwnInvariant, NoChunksInFile DEF HeldOnce, Closing, Dropping
    <3>2. CASE ~InFile(b)
      BY <1>1, <1>4, <3>2, OwnInvariant, SameChunks DEF Closing
    <3> QED
      BY <3>1, <3>2
  <2>5. HeldOnce(b)' /\ SharesKnown(b)'
    BY <1>1, <1>4, <2>1, OwnInvariant DEF HeldOnce, SharesKnown, Closing, Dropping
  <2>6. PrintedWhole(b)'
    <3>1. ~err[b] => size[b] + 0 = sent[b]
      BY <1>1, OwnInvariant DEF BytesCounted, Writing, Spilling
    <3>2. ~err[b] => Len(new) = sent[b]
      BY <1>2, <3>1, OwnTypes
    <3> QED
      BY <1>3, <1>4, <3>2 DEF PrintedWhole, Sealed, Closing
  <2> QED
    BY <2>2, <2>3, <2>4, <2>5, <2>6 DEF BufferOK
<1> QED
  BY <1>5, <1>6, <1>7, StepFromOwn DEF Step

LEMMA CloseIInv ==
  ASSUME IInv, NEW b \in Buffers, Close(b)
  PROVE  IInv'
<1>1. /\ pc[b] = "final"
      /\ disk' = Set(disk, b, NoFile) /\ pc' = Set(pc, b, "closing")
      /\ UNCHANGED <<budgets, writer, inMemory, open, reservedS, spilling, size,
                     err, printed>>
  BY DEF Close
<1>2. ~open[b] /\ spilling[b] = 0
  BY <1>1, OwnInvariant DEF FileKnown, SharesKnown, Spilling, Closing, Dropping
<1>3. /\ disk'[b] = NoFile /\ pc'[b] = "closing"
      /\ sent'[b] = sent[b] /\ rest'[b] = rest[b]
      /\ chunks'[b] = chunks[b] /\ reservedM'[b] = reservedM[b]
      /\ reservedS'[b] = reservedS[b] /\ spilling'[b] = 0
      /\ ~open'[b] /\ size'[b] = size[b] /\ err'[b] = err[b]
      /\ printed'[b] = printed[b]
  BY <1>1, <1>2 DEF IInv, TypeOK, Set, inMemory, writer
<1>4. TypeOK'
  <2>1. NoFile \in Seq(Int)
    BY DEF NoFile
  <2>2. disk' \in [Buffers -> Seq(Int)]
    BY <1>1, <2>1 DEF IInv, TypeOK, Set
  <2>3. pc' \in [Buffers -> {"idle"} \cup Writing \cup Sealed]
    BY <1>1 DEF IInv, TypeOK, Set, Sealed, Closing
  <2> QED
    BY <1>1, <2>2, <2>3 DEF IInv, TypeOK, budgets, writer, inMemory
<1>5. BudgetsOK'
  BY <1>1 DEF IInv, BudgetsOK, budgets, inMemory
<1>6. BufferOK(b)'
  <2>1. ~InFile(b)'
    BY <1>3 DEF InFile
  <2>2. FileKnown(b)' /\ SpillInOrder(b)'
    BY <1>3 DEF FileKnown, SpillInOrder, Spilling, Closing
  <2>3. BytesCounted(b)' /\ PrintedWhole(b)'
    BY <1>1, <1>3, OwnInvariant DEF BytesCounted, PrintedWhole, Writing, Spilling, Sealed, Closing
  <2>4. ChunksInOrder(b)'
    <3>1. ChunksInOrder(b)
      BY OwnInvariant
    <3>2. chunks'[b] = chunks[b] /\ pc'[b] = "closing"
      BY <1>3
    <3>3. \A k \in 1..Len(chunks'[b]) :
             /\ Len(chunks'[b][k]) <= ChunkSize
             /\ k < Len(chunks'[b]) => Len(chunks'[b][k]) = ChunkSize
             /\ chunks'[b][k] = [i \in 1..Len(chunks'[b][k]) |-> Before(k) + i]
      BY <3>1, <3>2, Zenon DEF ChunksInOrder, Closing
    <3> QED
      BY <3>2, <3>3, Zenon DEF ChunksInOrder, Closing
  <2>5. HeldOnce(b)' /\ SharesKnown(b)'
    BY <1>1, <1>3, <2>1, OwnInvariant DEF HeldOnce, SharesKnown, Spilling, Closing, Dropping
  <2> QED
    BY <2>2, <2>3, <2>4, <2>5 DEF BufferOK
<1> QED
  BY <1>4, <1>5, <1>6, StepFromOwn DEF Step

LEMMA CloseReleaseIInv ==
  ASSUME IInv, NEW b \in Buffers, CloseRelease(b)
  PROVE  IInv'
<1>1. /\ pc[b] = "closing" /\ pc' = Set(pc, b, "closeDrop")
      /\ memory' = memory - reservedM[b]
      /\ reservedM' = Set(reservedM, b, 0)
      /\ UNCHANGED <<spooled, writer, chunks, onDisk, size, err, printed>>
  BY DEF CloseRelease
<1>2. /\ disk[b] = NoFile /\ disk'[b] = NoFile /\ pc'[b] = "closeDrop"
      /\ sent'[b] = sent[b] /\ rest'[b] = rest[b]
      /\ chunks'[b] = chunks[b] /\ reservedM'[b] = 0
      /\ reservedS'[b] = reservedS[b] /\ spilling'[b] = spilling[b]
      /\ open'[b] = open[b] /\ size'[b] = size[b] /\ err'[b] = err[b]
      /\ printed'[b] = printed[b]
  BY <1>1, OwnInvariant DEF IInv, TypeOK, Set, writer, onDisk, FileKnown, Closing
<1>3. TypeOK' /\ BudgetsOK'
  <2>1. /\ SumFunction(Set(reservedM, b, 0)) = SumFunction(reservedM) - reservedM[b] + 0
        /\ SumFunction(reservedM) \in Nat /\ reservedM[b] <= SumFunction(reservedM)
        /\ Set(reservedM, b, 0) \in [Buffers -> Nat] /\ reservedM[b] \in Nat
    <3>1. reservedM \in [Buffers -> Nat] /\ reservedM[b] \in Nat
      BY DEF IInv, TypeOK
    <3> QED
      BY <3>1, ShareChanges
  <2>2. /\ memory = SumFunction(reservedM) /\ memory <= MemoryLimit
        /\ spooled = SumFunction(reservedS) + SumFunction(spilling)
        /\ spooled <= SpoolLimit
    BY DEF IInv, BudgetsOK
  <2>3. memory' = SumFunction(reservedM') /\ memory' \in Nat /\ memory' <= MemoryLimit
    BY <1>1, <2>1, <2>2
  <2>4. BudgetsOK'
    BY <1>1, <2>2, <2>3 DEF BudgetsOK, onDisk
  <2>5. pc' \in [Buffers -> {"idle"} \cup Writing \cup Sealed]
    BY <1>1 DEF IInv, TypeOK, Set, Sealed, Closing
  <2>6. reservedM' \in [Buffers -> Nat]
    BY <1>1, <2>1, Zenon
  <2>7. TypeOK'
    BY <1>1, <2>3, <2>5, <2>6 DEF IInv, TypeOK, writer, onDisk
  <2> QED
    BY <2>4, <2>7
<1>4. BufferOK(b)'
  <2>1. ~InFile(b)'
    BY <1>2 DEF InFile
  <2>2. FileKnown(b)' /\ SpillInOrder(b)'
    BY <1>1, <1>2, OwnInvariant DEF FileKnown, SpillInOrder, Spilling, Closing
  <2>3. BytesCounted(b)' /\ PrintedWhole(b)'
    BY <1>1, <1>2, OwnInvariant DEF BytesCounted, PrintedWhole, Writing, Spilling, Sealed, Closing
  <2>4. ChunksInOrder(b)'
    <3>0. ChunksInOrder(b) /\ chunks'[b] = chunks[b]
      BY <1>2, OwnInvariant
    <3>1. \A k \in 1..Len(chunks'[b]) :
             /\ Len(chunks'[b][k]) <= ChunkSize
             /\ k < Len(chunks'[b]) => Len(chunks'[b][k]) = ChunkSize
             /\ chunks'[b][k] = [i \in 1..Len(chunks'[b][k]) |-> Before(k) + i]
      BY <3>0, Zenon DEF ChunksInOrder
    <3> QED
      BY <1>2, <3>1, Zenon DEF ChunksInOrder, Closing
  <2>5. HeldOnce(b)' /\ SharesKnown(b)'
    BY <1>1, <1>2, <2>1, OwnInvariant DEF HeldOnce, SharesKnown, Spilling, Closing, Dropping
  <2> QED
    BY <2>2, <2>3, <2>4, <2>5 DEF BufferOK
<1> QED
  BY <1>3, <1>4, StepFromOwn DEF Step

LEMMA CloseDropIInv ==
  ASSUME IInv, NEW b \in Buffers, CloseDrop(b)
  PROVE  IInv'
<1>1. /\ pc[b] = "closeDrop"
      /\ pc' = Set(pc, b, "closed")
      /\ chunks' = Set(chunks, b, <<>>)
      /\ spooled' = spooled - reservedS[b]
      /\ reservedS' = Set(reservedS, b, 0)
      /\ size' = Set(size, b, 0)
      /\ UNCHANGED <<memory, writer, reservedM, disk, open, spilling, err,
                     printed>>
  BY DEF CloseDrop
<1>2. /\ ~open[b] /\ spilling[b] = 0 /\ disk[b] = NoFile /\ rest[b] = 0
      /\ reservedM[b] = 0
  BY <1>1, OwnInvariant DEF FileKnown, SharesKnown, BytesCounted, Writing, Spilling, Closing, Dropping
<1>3. /\ disk'[b] = NoFile /\ pc'[b] = "closed"
      /\ sent'[b] = sent[b] /\ rest'[b] = 0
      /\ chunks'[b] = <<>> /\ reservedM'[b] = 0
      /\ reservedS'[b] = 0 /\ spilling'[b] = 0
      /\ ~open'[b] /\ size'[b] = 0 /\ err'[b] = err[b]
      /\ printed'[b] = printed[b]
  BY <1>1, <1>2 DEF IInv, TypeOK, Set, writer
<1>4. TypeOK' /\ BudgetsOK'
  <2>2. /\ SumFunction(Set(reservedS, b, 0)) = SumFunction(reservedS) - reservedS[b] + 0
        /\ SumFunction(reservedS) \in Nat /\ reservedS[b] <= SumFunction(reservedS)
        /\ Set(reservedS, b, 0) \in [Buffers -> Nat] /\ reservedS[b] \in Nat
    <3>1. reservedS \in [Buffers -> Nat] /\ reservedS[b] \in Nat
      BY DEF IInv, TypeOK
    <3> QED
      BY <3>1, ShareChanges
  <2>3. /\ memory = SumFunction(reservedM) /\ memory <= MemoryLimit
        /\ spooled = SumFunction(reservedS) + SumFunction(spilling)
        /\ spooled <= SpoolLimit /\ SumFunction(spilling) \in Nat
    BY SumType DEF IInv, TypeOK, BudgetsOK
  <2>4. memory' = SumFunction(reservedM') /\ memory' \in Nat /\ memory' <= MemoryLimit
    BY <1>1, <2>3 DEF IInv, TypeOK
  <2>5. /\ spooled' = SumFunction(reservedS') + SumFunction(spilling')
        /\ spooled' \in Nat /\ spooled' <= SpoolLimit
    <3>1. spilling' = spilling /\ reservedS' = Set(reservedS, b, 0)
      BY <1>1
    <3>2. spooled' = spooled - reservedS[b]
      BY <1>1
    <3> QED
      BY <2>2, <2>3, <3>1, <3>2
  <2>6. BudgetsOK'
    BY <2>4, <2>5 DEF BudgetsOK
  <2>7. size' \in [Buffers -> Nat]
    BY <1>1 DEF IInv, TypeOK, Set
  <2>8. chunks' \in [Buffers -> Seq(Seq(Int))]
    BY <1>1 DEF IInv, TypeOK, Set
  <2>9. pc' \in [Buffers -> {"idle"} \cup Writing \cup Sealed]
    BY <1>1 DEF IInv, TypeOK, Set, Sealed, Closing
  <2>10. reservedM' \in [Buffers -> Nat] /\ reservedS' \in [Buffers -> Nat]
    BY <1>1, <2>2, Zenon DEF IInv, TypeOK
  <2>11. TypeOK'
    BY <1>1, <2>4, <2>5, <2>7, <2>8, <2>9, <2>10 DEF IInv, TypeOK, writer
  <2> QED
    BY <2>6, <2>11
<1>5. BufferOK(b)'
  <2>1. ~InFile(b)'
    BY <1>3 DEF InFile
  <2>2. FileKnown(b)' /\ SpillInOrder(b)'
    BY <1>3 DEF FileKnown, SpillInOrder, Spilling, Closing
  <2>3. BytesCounted(b)'
    <3>1. 0 <= sent[b]
      BY OwnTypes
    <3> QED
      BY <1>3, <3>1 DEF BytesCounted, Writing, Spilling
  <2>4. PrintedWhole(b)'
    BY <1>1, <1>3, OwnInvariant DEF PrintedWhole, Sealed, Closing
  <2>5. ChunksInOrder(b)'
    BY <1>3 DEF ChunksInOrder, Closing
  <2>6. HeldOnce(b)'
    BY <1>3, <2>1, FlattenEmpty, FirstBytesNone DEF HeldOnce, Closing, Dropping
  <2>7. SharesKnown(b)'
    <3>1. ChunkSize * Len(<<>>) = 0 /\ 0 <= MemoryLimit
      BY LimitsAssumption
    <3> QED
      BY <1>3, <2>1, <3>1 DEF SharesKnown, Spilling, Closing, Dropping
  <2> QED
    BY <2>2, <2>3, <2>4, <2>5, <2>6, <2>7 DEF BufferOK
<1> QED
  BY <1>4, <1>5, StepFromOwn DEF Step

-----------------------------------------------------------------------------
(* The invariant and what it says.                                          *)

LEMMA NextIsStep ==
  ASSUME [Next]_vars
  PROVE  UNCHANGED vars \/ \E b \in Buffers : Step(b)
BY DEF Next, Step, Terminated

LEMMA StepIInv == IInv /\ [Next]_vars => IInv'
<1> SUFFICES ASSUME IInv, [Next]_vars PROVE IInv'
  OBVIOUS
<1>1. CASE UNCHANGED vars
  <2>1. TypeOK' /\ BudgetsOK'
    BY <1>1 DEF IInv, TypeOK, BudgetsOK, vars, budgets, writer, inMemory, onDisk
  <2>2. ASSUME NEW b \in Buffers PROVE BufferOK(b)'
    <3>1. Values(b)' = Values(b)
      BY <1>1 DEF Values, vars, budgets, writer, inMemory, onDisk
    <3> QED
      BY <3>1, SameValues DEF IInv
  <2> QED
    BY <2>1, <2>2 DEF IInv
<1>2. ASSUME NEW b \in Buffers, Step(b) PROVE IInv'
  BY <1>2, WriteIInv, CopyToChunkIInv, NewChunkIInv, StartSpillIInv,
     SpillReserveIInv, SpillWriteIInv, SpillUndoIInv, SpillDoneIInv, SpillDropIInv,
     FileReserveIInv, FileWriteIInv, FinalizeIInv, WriteToIInv, CloseIInv,
     CloseReleaseIInv, CloseDropIInv DEF Step
<1> QED
  BY <1>1, <1>2, NextIsStep

LEMMA Invariance == Spec => []IInv
BY InitIInv, StepIInv, PTL DEF Spec

-----------------------------------------------------------------------------
(* What follows from the invariant.                                         *)

\* No error path leaks or returns too much of a budget: each counter is the
\* sum of the buffers' shares, and both are 0 when every buffer is closed
\* (output.go:118-196, 237-253).
THEOREM BudgetsAreExact == Spec => []BudgetsExact
<1>1. IInv => BudgetsExact
  <2> SUFFICES ASSUME IInv PROVE BudgetsExact
    OBVIOUS
  <2>1. memory = SumFunction(reservedM) /\ spooled = SumFunction(reservedS) + SumFunction(spilling)
    BY DEF IInv, BudgetsOK
  <2>2. ASSUME \A b \in Buffers : pc[b] = "closed" PROVE memory = 0 /\ spooled = 0
    <3>1. ASSUME NEW b \in Buffers
          PROVE  reservedM[b] = 0 /\ reservedS[b] = 0 /\ spilling[b] = 0
      <4>1. pc[b] = "closed" /\ disk[b] = NoFile /\ chunks[b] = <<>>
        BY <2>2, OwnInvariant DEF FileKnown, HeldOnce, Closing, Dropping
      <4>2. reservedM[b] = ChunkSize * 0
        BY <4>1, OwnInvariant DEF SharesKnown, Closing, Dropping
      <4> QED
        BY <4>1, <4>2, BeforeFirst, OwnInvariant DEF SharesKnown, InFile, Spilling, Closing, Dropping
    <3>2. /\ reservedM = [b \in Buffers |-> 0] /\ reservedS = [b \in Buffers |-> 0]
          /\ spilling = [b \in Buffers |-> 0]
      BY <3>1 DEF IInv, TypeOK
    <3> QED
      BY <2>1, <3>2, SumZero, BuffersAssumption
  <2> QED
    BY <2>1, <2>2 DEF BudgetsExact
<1> QED
  BY <1>1, Invariance, PTL

\* A file on disk is paid for: by the buffer, or by the spill in progress.
LEMMA FilePaidFor ==
  ASSUME IInv, NEW b \in Buffers
  PROVE  OnDisk(b) \in Nat /\ OnDisk(b) <= reservedS[b] + spilling[b]
<1>1. /\ disk[b] \in Seq(Int) /\ Len(disk[b]) \in Nat /\ size[b] \in Nat
      /\ reservedS[b] \in Nat /\ spilling[b] \in Nat
  BY OwnTypes
<1>2. CASE disk[b] = NoFile
  BY <1>1, <1>2 DEF OnDisk
<1>3. CASE InFile(b)
  <2>1. disk[b] # NoFile /\ pc[b] \notin Closing /\ disk[b] = FirstBytes(size[b])
    BY <1>3, OwnInvariant DEF InFile, HeldOnce, FileKnown, Closing, Dropping
  <2>2. Len(disk[b]) = size[b]
    BY <1>1, <2>1, FirstBytesType
  <2>3. reservedS[b] = size[b]
    BY <1>3, <2>1, OwnInvariant DEF SharesKnown, Closing, Dropping
  <2> QED
    BY <1>1, <2>1, <2>2, <2>3 DEF OnDisk
<1>4. CASE disk[b] # NoFile /\ pc[b] \in Spilling
  <2>1. pc[b] = "spill" => spilling[b] = Len(disk[b])
    BY OwnInvariant DEF SharesKnown, Closing, Dropping
  <2>2. pc[b] = "spillWrite" => spilling[b] = Len(disk[b]) + ChunkSize
    BY OwnInvariant DEF SharesKnown, Closing, Dropping
  <2> QED
    BY <1>1, <1>4, <2>1, <2>2, ChunkSizeAssumption DEF OnDisk, Spilling
<1> QED
  BY <1>2, <1>3, <1>4 DEF InFile

\* The spool files fit --max-spool-size at every moment, and the chunks fit
\* --max-buffer-memory except for those of buffers that have returned their
\* budget and not dropped them yet; none of these has more than the limit
\* (output.go:118-138, 150-174, 178-196, 237-253, 285-289).
THEOREM LimitsAreRespected == Spec => []LimitsRespected
<1>1. IInv => LimitsRespected
  <2> SUFFICES ASSUME IInv PROVE LimitsRespected
    OBVIOUS
  <2> DEFINE files == [b \in Buffers |-> OnDisk(b)]
             allocated == [b \in Buffers |-> IF Dropping(b) THEN 0
                                            ELSE ChunkSize * Len(chunks[b])]
  <2>1. /\ reservedM \in [Buffers -> Nat] /\ reservedS \in [Buffers -> Nat]
        /\ spilling \in [Buffers -> Nat]
    BY DEF IInv, TypeOK
  <2>2. /\ memory = SumFunction(reservedM) /\ memory <= MemoryLimit
        /\ spooled = SumFunction(reservedS) + SumFunction(spilling)
        /\ spooled <= SpoolLimit
    BY DEF IInv, BudgetsOK
  <2>3. allocated = reservedM
    <3>1. \A b \in Buffers : reservedM[b] = IF Dropping(b) THEN 0
                                              ELSE ChunkSize * Len(chunks[b])
      BY OwnInvariant DEF SharesKnown, Closing, Dropping
    <3> QED
      BY <2>1, <3>1
  <2>4. SumFunction(files) <= SumFunction(reservedS) + SumFunction(spilling)
    <3>1. \A b \in Buffers : files[b] = OnDisk(b)
      OBVIOUS
    <3>2. DOMAIN files = Buffers /\ DOMAIN reservedS = Buffers /\ DOMAIN spilling = Buffers
      BY <2>1
    <3> HIDE DEF files
    <3>3. \A b \in Buffers : files[b] \in Int /\ reservedS[b] \in Int /\ spilling[b] \in Int
      BY <2>1, <3>1, FilePaidFor
    <3>4. \A b \in Buffers : files[b] <= reservedS[b] + spilling[b]
      BY <3>1, FilePaidFor
    <3>5. SumFunctionOnSet(files, Buffers) <=
             SumFunctionOnSet(reservedS, Buffers) + SumFunctionOnSet(spilling, Buffers)
      BY <3>3, <3>4, SumBound, BuffersAssumption
    <3> QED
      BY <3>2, <3>5 DEF SumFunction
  <2>5. SumFunction(allocated) <= MemoryLimit
    BY <2>2, <2>3
  <2>6. SumFunction(files) \in Int /\ SumFunction(reservedS) \in Int
        /\ SumFunction(spilling) \in Int
    <3>1. files \in [Buffers -> Nat]
      BY FilePaidFor
    <3> QED
      BY <2>1, <3>1, SumType, BuffersAssumption
  <2>7. SumFunction(files) <= SpoolLimit
    <3> HIDE DEF files
    <3> QED
      BY <2>2, <2>4, <2>6, LimitsAssumption
  <2>8. \A b \in Buffers : ChunkSize * Len(chunks[b]) <= MemoryLimit
    BY OwnInvariant DEF SharesKnown, Closing, Dropping
  <2> QED
    BY <2>5, <2>7, <2>8 DEF LimitsRespected
<1> QED
  BY <1>1, Invariance, PTL

\* What a buffer holds is the first `size` bytes of its stream: moving to
\* disk, running out of spool and short writes neither lose, repeat nor
\* reorder a byte (output.go:66-107, 118-196).
THEOREM PrefixIsHeld == Spec => []HoldsPrefix
<1>1. IInv => HoldsPrefix
  <2> SUFFICES ASSUME IInv, NEW b \in Buffers, pc[b] \notin Closing
               PROVE  Content(b) = FirstBytes(size[b])
    BY DEF HoldsPrefix, Closing
  <2>1. CASE InFile(b)
    <3>1. /\ disk[b] # NoFile /\ disk[b] = FirstBytes(size[b])
          /\ chunks[b] = <<>> \/ Dropping(b)
      BY <2>1, OwnInvariant DEF InFile, HeldOnce
    <3>2. Dropping(b) => open[b]
      BY OwnInvariant DEF Dropping, FileKnown, Closing
    <3> QED
      BY <3>1, <3>2 DEF Content
  <2>2. CASE ~InFile(b) /\ disk[b] # NoFile /\ chunks[b] = <<>>
    <3>1. pc[b] \in Spilling
      BY <2>2 DEF InFile
    <3>2. disk[b] = FirstBytes(Len(disk[b]))
      BY <3>1, OwnInvariant DEF SpillInOrder
    <3>3. Len(disk[b]) = Before(1)
      BY <2>2, <3>1, OwnInvariant DEF SpillInOrder
    <3>4. size[b] = 0
      BY <2>2, OwnInvariant DEF ChunksInOrder, Closing
    <3> QED
      BY <2>2, <3>2, <3>3, <3>4, BeforeFirst DEF Content
  <2>3. CASE ~InFile(b) /\ (disk[b] = NoFile \/ chunks[b] # <<>>)
    <3>1. ~open[b]
      BY <2>3, OwnInvariant DEF FileKnown, InFile, Spilling, Closing
    <3>2. FlattenSeq(chunks[b]) = FirstBytes(size[b])
      BY <2>3, OwnInvariant DEF HeldOnce, Closing, Dropping
    <3> QED
      BY <2>3, <3>1, <3>2 DEF Content
  <2> QED
    BY <2>1, <2>2, <2>3
<1> QED
  BY <1>1, Invariance, PTL

\* A WriteTo that reports no error printed a prefix of the stream, all of it
\* unless the output had failed (output.go:205-235).
THEOREM PrefixIsPrinted == Spec => []PrintsPrefix
<1>1. IInv => PrintsPrefix
  BY OwnInvariant DEF PrintsPrefix, PrintedWhole
<1> QED
  BY <1>1, Invariance, PTL

-----------------------------------------------------------------------------
(* A spill buffer implements OutputStream.                                  *)

StreamSealed  == [b \in Buffers |-> pc[b] \in Sealed]
StreamPrinted == [b \in Buffers |-> IF printed[b] = NoFile THEN -1
                                    ELSE Len(printed[b])]

LEMMA StreamInit == Init => Stream!Init
<1> SUFFICES ASSUME Init PROVE Stream!Init
  OBVIOUS
<1>1. sent = [b \in Buffers |-> 0] /\ size = [b \in Buffers |-> 0]
      /\ err = [b \in Buffers |-> FALSE]
  BY DEF Init
<1>2. StreamSealed = [b \in Buffers |-> FALSE]
  <2>1. ASSUME NEW b \in Buffers
        PROVE  (pc[b] \in Sealed) = FALSE
    BY DEF Init, Sealed, Closing
  <2> QED
    BY <2>1 DEF StreamSealed
<1>3. StreamPrinted = [b \in Buffers |-> -1]
  <2>1. \A b \in Buffers : printed[b] = NoFile
    BY DEF Init
  <2> QED
    BY <2>1 DEF StreamPrinted
<1> QED
  BY <1>1, <1>2, <1>3 DEF Stream!Init, StreamSealed, StreamPrinted

\* The buffer's program counter moves on one side of Finalize.
LEMMA SealedSame ==
  ASSUME IInv, NEW b \in Buffers, NEW v, pc' = Set(pc, b, v),
         \/ v \in Sealed /\ pc[b] \in Sealed
         \/ v \notin Sealed /\ pc[b] \notin Sealed
  PROVE  StreamSealed' = StreamSealed
<1>1. ASSUME NEW c \in Buffers
      PROVE  (pc'[c] \in Sealed) =
                (pc[c] \in Sealed)
  <2>1. c = b => pc'[c] = v
    BY DEF IInv, TypeOK, Set
  <2>2. c # b => pc'[c] = pc[c]
    BY DEF IInv, TypeOK, Set
  <2> QED
    BY <2>1, <2>2 DEF Sealed, Closing
<1> QED
  BY <1>1, Zenon DEF StreamSealed

\* A step that changes nothing an OutputStream shows.
LEMMA StreamStutters ==
  ASSUME StreamSealed' = StreamSealed, UNCHANGED <<sent, size, err, printed>>
  PROVE  UNCHANGED Stream!vars
<1>1. StreamPrinted' = StreamPrinted
  BY DEF StreamPrinted
<1> QED
  BY <1>1 DEF Stream!vars, StreamSealed, StreamPrinted

\* A step of the Write in progress: it keeps the next bytes, or fails.
LEMMA StreamKeeps ==
  ASSUME IInv, NEW b \in Buffers, pc[b] \in Writing,
         NEW v, v \notin Sealed, pc' = Set(pc, b, v),
         NEW n \in 0..rest[b], size' = Set(size, b, size[b] + n),
         NEW e \in BOOLEAN, err' = Set(err, b, e),
         UNCHANGED <<sent, printed>>
  PROVE  Stream!Keep(b)
<1>1. pc[b] \notin Sealed /\ ~err[b]
  BY OwnInvariant DEF BytesCounted, Writing, Sealed, Spilling, Closing
<1>2. size[b] + n \in size[b]..sent[b]
  BY OwnInvariant, OwnTypes DEF BytesCounted
<1>3. StreamSealed' = StreamSealed
  BY <1>1, SealedSame
<1>4. StreamPrinted' = StreamPrinted
  BY DEF StreamPrinted
<1>5. ~StreamSealed[b]
  BY <1>1 DEF StreamSealed, Sealed, Closing
<1> QED
  BY <1>1, <1>2, <1>3, <1>4, <1>5 DEF Stream!Keep, StreamSealed, StreamPrinted, Set

LEMMA WriteSends ==
  ASSUME IInv, NEW b \in Buffers, NEW n \in 1..ChunkSize, Write(b, n)
  PROVE  Stream!Send(b)
<1>1. /\ pc[b] = "idle" /\ sent[b] + n <= MaxBytes
      /\ sent' = Set(sent, b, sent[b] + n)
      /\ UNCHANGED <<size, err, printed>>
      /\ pc' = pc \/ pc' = Set(pc, b, IF open[b] THEN "file" ELSE "fill")
  BY DEF Write
<1>2. sent[b] + n \in sent[b]..MaxBytes
  BY <1>1, OwnTypes, MaxBytesAssumption, ChunkSizeAssumption
<1>3. StreamSealed' = StreamSealed
  <2>1. CASE pc' = pc
    BY <2>1 DEF StreamSealed
  <2>2. CASE pc' = Set(pc, b, IF open[b] THEN "file" ELSE "fill")
    BY <1>1, <2>2, SealedSame DEF Sealed, Closing
  <2> QED
    BY <1>1, <2>1, <2>2
<1>4. StreamPrinted' = StreamPrinted
  BY <1>1 DEF StreamPrinted
<1>5. ~StreamSealed[b]
  BY <1>1 DEF StreamSealed, Sealed, Closing
<1> QED
  BY <1>1, <1>2, <1>3, <1>4, <1>5 DEF Stream!Send, StreamSealed, StreamPrinted, Set

LEMMA FinalizeSeals ==
  ASSUME IInv, NEW b \in Buffers, Finalize(b)
  PROVE  Stream!Seal(b)
<1>1. /\ pc[b] = "idle" /\ pc' = Set(pc, b, "final")
      /\ UNCHANGED <<sent, size, printed>>
      /\ \E late \in BOOLEAN : err' = Set(err, b, err[b] \/ late)
  BY DEF Finalize, writer
<1>2. err[b] \/ size[b] = sent[b]
  <2>1. rest[b] = 0 /\ (~err[b] => size[b] + rest[b] = sent[b])
    BY <1>1, OwnInvariant DEF BytesCounted, Writing, Spilling
  <2>2. size[b] \in Nat
    BY OwnTypes
  <2> QED
    BY <2>1, <2>2
<1>3. ~StreamSealed[b]
  BY <1>1 DEF StreamSealed, Sealed, Closing
<1>4. StreamSealed' = [StreamSealed EXCEPT ![b] = TRUE]
  <2>1. ASSUME NEW c \in Buffers
        PROVE  (pc'[c] \in Sealed) =
                  (IF c = b THEN TRUE ELSE pc[c] \in Sealed)
    <3>1. c = b => pc'[c] = "final"
      BY <1>1 DEF IInv, TypeOK, Set
    <3>2. c # b => pc'[c] = pc[c]
      BY <1>1 DEF IInv, TypeOK, Set
    <3> QED
      BY <3>1, <3>2 DEF Sealed, Closing
  <2> QED
    BY <2>1 DEF StreamSealed
<1>5. StreamPrinted' = StreamPrinted
  BY <1>1 DEF StreamPrinted
<1> QED
  BY <1>1, <1>2, <1>3, <1>4, <1>5 DEF Stream!Seal, StreamSealed, StreamPrinted, Set

LEMMA WriteToPrints ==
  ASSUME IInv, NEW b \in Buffers, WriteTo(b)
  PROVE  Stream!WriteTo(b)
<1>1. pc[b] = "final" /\ UNCHANGED <<pc, sent, size, err>>
  BY DEF WriteTo, writer
<1>2. printed' = Set(printed, b, FirstBytes(size[b]))
  BY PrintsHeld
<1>3. FirstBytes(size[b]) # NoFile /\ Len(FirstBytes(size[b])) = size[b]
  BY OwnTypes, FirstBytesType
<1>4. StreamPrinted' = [StreamPrinted EXCEPT ![b] = size[b]]
  <2>1. ASSUME NEW c \in Buffers
        PROVE  (IF printed'[c] = NoFile THEN -1 ELSE Len(printed'[c])) =
                  (IF c = b THEN size[b]
                   ELSE IF printed[c] = NoFile THEN -1 ELSE Len(printed[c]))
    <3>1. c = b => printed'[c] = FirstBytes(size[b])
      BY <1>2 DEF IInv, TypeOK, Set
    <3>2. c # b => printed'[c] = printed[c]
      BY <1>2 DEF IInv, TypeOK, Set
    <3> QED
      BY <1>3, <3>1, <3>2
  <2> QED
    BY <2>1 DEF StreamPrinted
<1>5. StreamSealed' = StreamSealed /\ StreamSealed[b]
  BY <1>1 DEF StreamSealed, Sealed, Closing
<1> QED
  BY <1>1, <1>4, <1>5 DEF Stream!WriteTo, StreamSealed, StreamPrinted

LEMMA CloseDropDiscards ==
  ASSUME IInv, NEW b \in Buffers, CloseDrop(b)
  PROVE  Stream!Discard(b)
<1>1. /\ pc[b] = "closeDrop" /\ pc' = Set(pc, b, "closed")
      /\ size' = Set(size, b, 0) /\ UNCHANGED <<sent, err, printed>>
  BY DEF CloseDrop, writer
<1>2. StreamSealed' = StreamSealed /\ StreamSealed[b]
  BY <1>1, SealedSame DEF Sealed, StreamSealed, Closing
<1>3. StreamPrinted' = StreamPrinted
  BY <1>1 DEF StreamPrinted
<1> QED
  BY <1>1, <1>2, <1>3 DEF Stream!Discard, StreamSealed, StreamPrinted, Set

\* Every step of a buffer is a step of the stream, or none.
LEMMA StepIsStreamStep ==
  ASSUME IInv, NEW b \in Buffers, Step(b)
  PROVE  \/ Stream!Send(b) \/ Stream!Keep(b) \/ Stream!Seal(b)
         \/ Stream!WriteTo(b) \/ Stream!Discard(b)
         \/ UNCHANGED Stream!vars
<1>0. /\ rest[b] \in Nat /\ size[b] \in Nat /\ err[b] \in BOOLEAN
      /\ size = Set(size, b, size[b] + 0) /\ err = Set(err, b, err[b])
      /\ 0 \in 0..rest[b]
  BY OwnTypes DEF IInv, TypeOK, Set
<1>1. ASSUME NEW n \in 1..ChunkSize, Write(b, n) PROVE Stream!Send(b)
  BY <1>1, WriteSends
<1>2. CASE CopyToChunk(b)
  <2> DEFINE room == ChunkSize - Len(Last(chunks[b]))
             n == IF rest[b] < room THEN rest[b] ELSE room
  <2>1. /\ pc[b] = "fill" /\ HasRoom(b) /\ UNCHANGED <<sent, err, printed>>
        /\ size' = Set(size, b, size[b] + n)
        /\ pc' = Set(pc, b, IF n = rest[b] THEN "idle" ELSE "fill")
    BY <1>2 DEF CopyToChunk
  <2>2. n \in 0..rest[b]
    <3>1. Len(Last(chunks[b])) < ChunkSize
      BY <2>1 DEF HasRoom
    <3>2. Len(Last(chunks[b])) \in Nat
      BY <2>1, OwnTypes DEF HasRoom, Last
    <3> QED
      BY <1>0, <3>1, <3>2, ChunkSizeAssumption
  <2> HIDE DEF n
  <2>3. (IF n = rest[b] THEN "idle" ELSE "fill") \notin Sealed /\ pc[b] \in Writing
    BY <2>1 DEF Sealed, Writing, Closing
  <2> QED
    BY <1>0, <2>1, <2>2, <2>3, StreamKeeps
<1>3. CASE NewChunk(b)
  BY <1>3, StreamStutters DEF NewChunk, StreamSealed, writer
<1>4. CASE StartSpill(b)
  <2>1. pc[b] = "fill" /\ UNCHANGED <<sent, size, printed>>
    BY <1>4 DEF StartSpill
  <2>2. CASE pc' = Set(pc, b, "spill") /\ UNCHANGED err
    <3>1. StreamSealed' = StreamSealed
      BY <2>1, <2>2, SealedSame DEF Sealed, Closing
    <3> QED
      BY <2>1, <2>2, <3>1, StreamStutters
  <2>3. CASE pc' = Set(pc, b, "idle") /\ err' = Set(err, b, TRUE)
    <3>1. size' = Set(size, b, size[b] + 0) /\ pc[b] \in Writing /\ "idle" \notin Sealed
      BY <1>0, <2>1 DEF Writing, Sealed, Closing
    <3> QED
      BY <1>0, <2>1, <2>3, <3>1, StreamKeeps
  <2> QED
    BY <1>4, <2>2, <2>3 DEF StartSpill
<1>5. CASE SpillReserve(b)
  <2>1. /\ pc[b] = "spill" /\ UNCHANGED <<sent, size, err, printed>>
        /\ pc' = Set(pc, b, "spillWrite") \/ pc' = Set(pc, b, "spillUndo")
    BY <1>5 DEF SpillReserve, writer
  <2>2. StreamSealed' = StreamSealed
    BY <2>1, SealedSame DEF Sealed, Closing
  <2> QED
    BY <2>1, <2>2, StreamStutters
<1>6. CASE SpillWrite(b)
  <2>1. /\ pc[b] = "spillWrite" /\ UNCHANGED <<sent, size, err, printed>>
        /\ pc' = Set(pc, b, "spill") \/ pc' = Set(pc, b, "spillUndo")
    BY <1>6 DEF SpillWrite, writer
  <2>2. StreamSealed' = StreamSealed
    BY <2>1, SealedSame DEF Sealed, Closing
  <2> QED
    BY <2>1, <2>2, StreamStutters
<1>7. CASE SpillUndo(b)
  <2>1. /\ pc[b] = "spillUndo" /\ pc' = Set(pc, b, "idle")
        /\ err' = Set(err, b, TRUE) /\ UNCHANGED <<sent, size, printed>>
    BY <1>7 DEF SpillUndo
  <2>2. size' = Set(size, b, size[b] + 0) /\ pc[b] \in Writing /\ "idle" \notin Sealed
    BY <1>0, <2>1 DEF Writing, Sealed, Closing
  <2> QED
    BY <1>0, <2>1, <2>2, StreamKeeps
<1>8. CASE SpillDone(b)
  <2>1. /\ pc[b] = "spill" /\ UNCHANGED <<sent, size, err, printed>>
        /\ pc' = Set(pc, b, "spillDrop")
    BY <1>8 DEF SpillDone, writer
  <2>2. StreamSealed' = StreamSealed
    BY <2>1, SealedSame DEF Sealed, Closing
  <2> QED
    BY <2>1, <2>2, StreamStutters
<1>15. CASE SpillDrop(b)
  <2>1. /\ pc[b] = "spillDrop" /\ UNCHANGED <<sent, size, err, printed>>
        /\ pc' = Set(pc, b, "file")
    BY <1>15 DEF SpillDrop, writer
  <2>2. StreamSealed' = StreamSealed
    BY <2>1, SealedSame DEF Sealed, Closing
  <2> QED
    BY <2>1, <2>2, StreamStutters
<1>9. CASE FileReserve(b)
  <2>1. pc[b] = "file" /\ UNCHANGED <<sent, size, printed>>
    BY <1>9 DEF FileReserve
  <2>2. CASE pc' = Set(pc, b, "fileWrite") /\ UNCHANGED err
    <3>1. StreamSealed' = StreamSealed
      BY <2>1, <2>2, SealedSame DEF Sealed, Closing
    <3> QED
      BY <2>1, <2>2, <3>1, StreamStutters
  <2>3. CASE pc' = Set(pc, b, "idle") /\ err' = Set(err, b, TRUE)
    <3>1. size' = Set(size, b, size[b] + 0) /\ pc[b] \in Writing /\ "idle" \notin Sealed
      BY <1>0, <2>1 DEF Writing, Sealed, Closing
    <3> QED
      BY <1>0, <2>1, <2>3, <3>1, StreamKeeps
  <2> QED
    BY <1>9, <2>2, <2>3 DEF FileReserve
<1>10. ASSUME NEW n \in 0..rest[b], FileWrite(b, n) PROVE Stream!Keep(b)
  <2>1. /\ pc[b] = "fileWrite" /\ pc' = Set(pc, b, "idle")
        /\ size' = Set(size, b, size[b] + n)
        /\ err' = Set(err, b, n # rest[b]) /\ UNCHANGED <<sent, printed>>
    BY <1>10 DEF FileWrite
  <2>2. pc[b] \in Writing /\ "idle" \notin Sealed /\ (n # rest[b]) \in BOOLEAN
    BY <2>1 DEF Writing, Sealed, Closing
  <2> QED
    BY <2>1, <2>2, StreamKeeps
<1>11. CASE Finalize(b)
  BY <1>11, FinalizeSeals
<1>12. CASE WriteTo(b)
  BY <1>12, WriteToPrints
<1>13. CASE Close(b)
  <2>1. /\ pc[b] = "final" /\ UNCHANGED <<sent, size, err, printed>>
        /\ pc' = Set(pc, b, "closing")
    BY <1>13 DEF Close, writer
  <2>2. StreamSealed' = StreamSealed
    BY <2>1, SealedSame DEF Sealed, Closing
  <2> QED
    BY <2>1, <2>2, StreamStutters
<1>14. CASE CloseRelease(b)
  <2>1. /\ pc[b] = "closing" /\ UNCHANGED <<sent, size, err, printed>>
        /\ pc' = Set(pc, b, "closeDrop")
    BY <1>14 DEF CloseRelease, writer
  <2>2. StreamSealed' = StreamSealed
    BY <2>1, SealedSame DEF Sealed, Closing
  <2> QED
    BY <2>1, <2>2, StreamStutters
<1>16. CASE CloseDrop(b)
  BY <1>16, CloseDropDiscards
<1> QED
  BY <1>1, <1>2, <1>3, <1>4, <1>5, <1>6, <1>7, <1>8, <1>9, <1>10, <1>11, <1>12,
     <1>13, <1>14, <1>15, <1>16 DEF Step

\* A spill buffer is an OutputStream, wherever it keeps the bytes: it keeps a
\* prefix of what was written, stops keeping only by failing, and prints what
\* it kept (output.go:66-253).
THEOREM BufferIsStream == Spec => IsOutputStream
<1>1. IInv /\ [Next]_vars => [Stream!Next]_(Stream!vars)
  <2> SUFFICES ASSUME IInv, [Next]_vars PROVE Stream!Next \/ UNCHANGED Stream!vars
    OBVIOUS
  <2>1. CASE UNCHANGED vars
    BY <2>1, StreamStutters DEF vars, writer, StreamSealed
  <2>2. ASSUME NEW b \in Buffers, Step(b)
        PROVE  Stream!Next \/ UNCHANGED Stream!vars
    BY <2>2, StepIsStreamStep DEF Stream!Next
  <2> QED
    BY <2>1, <2>2, NextIsStep
<1> QED
  BY <1>1, StreamInit, Invariance, PTL DEF Spec, IsOutputStream, Stream!Spec
=============================================================================
