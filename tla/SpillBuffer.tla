----------------------------- MODULE SpillBuffer -----------------------------
(***************************************************************************)
(* spillBuffer (pkg/pssh/output.go): the captured stdout or stderr of one  *)
(* session.  All buffers of a run share a memory budget and a spool        *)
(* budget.  A buffer is filled by one reader goroutine (readStream),       *)
(* sealed by the session goroutine and printed and closed by the           *)
(* collector, one after the other (Session.tla shows that they do not      *)
(* overlap); different buffers interleave at every step on the budgets.    *)
(*                                                                         *)
(* The bytes of a stream are numbered 1, 2, ..., so that a lost, repeated  *)
(* or misplaced byte shows.  TryReserve is one step here (MemoryBudget).   *)
(***************************************************************************)
EXTENDS Integers, Sequences, SequencesExt, Functions

CONSTANTS
    Buffers,      \* the outputs of the run
    ChunkSize,    \* outputChunkSize, also the largest Write of readStream
    MemoryLimit,  \* Config.MaxBufferMemory
    SpoolLimit,   \* Config.MaxSpoolSize
    MaxBytes      \* bound: bytes written to one buffer

ASSUME BuffersAssumption   == IsFiniteSet(Buffers)
ASSUME ChunkSizeAssumption == ChunkSize \in Nat \ {0}
ASSUME LimitsAssumption    == MemoryLimit \in Nat \ {0} /\ SpoolLimit \in Nat \ {0}
ASSUME MaxBytesAssumption  == MaxBytes \in Nat

NoFile == <<-1>>                  \* no spool file (filePath = "")

\* The first n bytes of a stream.
FirstBytes(n) == [i \in 1..n |-> i]

VARIABLES
    memory,    \* memoryBudget.used
    spooled,   \* spoolBudget.used
    pc,        \* where the goroutine that has the buffer is
    sent,      \* bytes handed to Write so far
    rest,      \* bytes of the Write in progress not stored yet
    chunks,    \* the chunks' used parts
    reservedM, \* memoryReserved
    reservedS, \* spoolReserved
    spilling,  \* the local `reserved` of spillToDisk
    disk,      \* content of the file at filePath, or NoFile
    open,      \* file # nil
    size,      \* bytes stored
    err,       \* err # nil
    printed    \* what a WriteTo that reported no error wrote, or NoFile

budgets == <<memory, spooled>>
writer  == <<sent, rest>>
inMemory == <<chunks, reservedM>>
onDisk  == <<disk, open, reservedS, spilling>>
vars == <<budgets, pc, writer, inMemory, onDisk, size, err, printed>>

Set(f, b, v) == [f EXCEPT ![b] = v]

Init ==
    /\ memory = 0 /\ spooled = 0
    /\ pc = [b \in Buffers |-> "idle"]
    /\ sent = [b \in Buffers |-> 0]
    /\ rest = [b \in Buffers |-> 0]
    /\ chunks = [b \in Buffers |-> <<>>]
    /\ reservedM = [b \in Buffers |-> 0]
    /\ reservedS = [b \in Buffers |-> 0]
    /\ spilling = [b \in Buffers |-> 0]
    /\ disk = [b \in Buffers |-> NoFile]
    /\ open = [b \in Buffers |-> FALSE]
    /\ size = [b \in Buffers |-> 0]
    /\ err = [b \in Buffers |-> FALSE]
    /\ printed = [b \in Buffers |-> NoFile]

\* The next n bytes of the Write in progress.
Bytes(b, n) == [i \in 1..n |-> sent[b] - rest[b] + i]

-----------------------------------------------------------------------------
(*                                  Write                                   *)

\* Mutant: a failed output goes on storing what follows.
Write_afterError(b, n) ==
    /\ pc[b] = "idle"
    /\ sent[b] + n <= MaxBytes
    /\ sent' = Set(sent, b, sent[b] + n)
    /\ IF FALSE
       THEN UNCHANGED <<pc, rest>>
       ELSE /\ rest' = Set(rest, b, n)
            /\ pc' = Set(pc, b, IF open[b] THEN "file" ELSE "fill")
    /\ UNCHANGED <<budgets, inMemory, onDisk, size, err, printed>>

\* Write returns at once for an output that has failed, so that the remote
\* stream is drained; otherwise it goes to the file or to the chunks.
Write(b, n) ==
    /\ pc[b] = "idle"
    /\ sent[b] + n <= MaxBytes
    /\ sent' = Set(sent, b, sent[b] + n)
    /\ IF err[b]
       THEN UNCHANGED <<pc, rest>>
       ELSE /\ rest' = Set(rest, b, n)
            /\ pc' = Set(pc, b, IF open[b] THEN "file" ELSE "fill")
    /\ UNCHANGED <<budgets, inMemory, onDisk, size, err, printed>>

HasRoom(b) == chunks[b] # <<>> /\ Len(Last(chunks[b])) < ChunkSize

\* copy(last.data[last.used:], data)
CopyToChunk(b) ==
    /\ pc[b] = "fill" /\ HasRoom(b)
    /\ LET room == ChunkSize - Len(Last(chunks[b]))
           n == IF rest[b] < room THEN rest[b] ELSE room
       IN  /\ chunks' = Set(chunks, b, Front(chunks[b]) \o
                                       <<Last(chunks[b]) \o Bytes(b, n)>>)
           /\ rest' = Set(rest, b, rest[b] - n)
           /\ size' = Set(size, b, size[b] + n)
           /\ pc' = Set(pc, b, IF n = rest[b] THEN "idle" ELSE "fill")
    /\ UNCHANGED <<budgets, sent, reservedM, onDisk, err, printed>>

\* memoryBudget.TryReserve(outputChunkSize) succeeds: a new chunk.
NewChunk(b) ==
    /\ pc[b] = "fill" /\ ~HasRoom(b)
    /\ memory + ChunkSize <= MemoryLimit
    /\ memory' = memory + ChunkSize
    /\ reservedM' = Set(reservedM, b, reservedM[b] + ChunkSize)
    /\ chunks' = Set(chunks, b, Append(chunks[b], <<>>))
    /\ UNCHANGED <<spooled, pc, writer, onDisk, size, err, printed>>

\* It fails: spillToDisk, which starts with createFile.
StartSpill(b) ==
    /\ pc[b] = "fill" /\ ~HasRoom(b)
    /\ memory + ChunkSize > MemoryLimit
    /\ \/ /\ disk' = Set(disk, b, <<>>)
          /\ spilling' = Set(spilling, b, 0)
          /\ pc' = Set(pc, b, "spill")
          /\ UNCHANGED <<rest, err>>
       \/ /\ err' = Set(err, b, TRUE)                    \* createFile failed
          /\ rest' = Set(rest, b, 0)
          /\ pc' = Set(pc, b, "idle")
          /\ UNCHANGED <<disk, spilling>>
    /\ UNCHANGED <<budgets, sent, inMemory, open, reservedS, size, printed>>

\* The chunk spillToDisk is at, if any: the bytes already written are a
\* multiple of whole chunks.
ToSpill(b) == Len(disk[b]) \div ChunkSize + 1
Spilled(b) == Len(disk[b]) = size[b]

\* spoolBudget.TryReserve(chunk.used)
SpillReserve(b) ==
    /\ pc[b] = "spill" /\ ~Spilled(b)
    /\ LET n == Len(chunks[b][ToSpill(b)])
       IN  IF spooled + n <= SpoolLimit
           THEN /\ spooled' = spooled + n
                /\ spilling' = Set(spilling, b, spilling[b] + n)
                /\ pc' = Set(pc, b, "spillWrite")
                /\ UNCHANGED disk
           ELSE /\ disk' = Set(disk, b, NoFile)          \* Close, Remove
                /\ pc' = Set(pc, b, "spillUndo")
                /\ UNCHANGED <<spooled, spilling>>
    /\ UNCHANGED <<memory, writer, inMemory, open, reservedS, size, err, printed>>

\* file.Write of the chunk; a short or failed write removes the file.
SpillWrite(b) ==
    /\ pc[b] = "spillWrite"
    /\ \/ /\ disk' = Set(disk, b, disk[b] \o chunks[b][ToSpill(b)])
          /\ pc' = Set(pc, b, "spill")
       \/ /\ disk' = Set(disk, b, NoFile)
          /\ pc' = Set(pc, b, "spillUndo")
    /\ UNCHANGED <<budgets, writer, inMemory, open, reservedS, spilling, size,
                   err, printed>>

\* Mutant: the budget of an abandoned spill is not released.
SpillUndo_leaks(b) ==
    /\ pc[b] = "spillUndo"
    /\ spooled' = spooled
    /\ spilling' = Set(spilling, b, 0)
    /\ err' = Set(err, b, TRUE)
    /\ rest' = Set(rest, b, 0)
    /\ pc' = Set(pc, b, "idle")
    /\ UNCHANGED <<memory, sent, inMemory, disk, open, reservedS, size, printed>>

\* spoolBudget.Release(reserved) and setError: the Write is given up.
SpillUndo(b) ==
    /\ pc[b] = "spillUndo"
    /\ spooled' = spooled - spilling[b]
    /\ spilling' = Set(spilling, b, 0)
    /\ err' = Set(err, b, TRUE)
    /\ rest' = Set(rest, b, 0)
    /\ pc' = Set(pc, b, "idle")
    /\ UNCHANGED <<memory, sent, inMemory, disk, open, reservedS, size, printed>>

\* All chunks are in the file, and releaseMemory starts: the memory budget is
\* returned while the chunks are still there.
SpillDone(b) ==
    /\ pc[b] = "spill" /\ Spilled(b)
    /\ open' = Set(open, b, TRUE)
    /\ reservedS' = Set(reservedS, b, spilling[b])
    /\ spilling' = Set(spilling, b, 0)
    /\ memory' = memory - reservedM[b]
    /\ reservedM' = Set(reservedM, b, 0)
    /\ pc' = Set(pc, b, "spillDrop")
    /\ UNCHANGED <<spooled, writer, chunks, disk, size, err, printed>>

\* Mutant: the Write in progress ends with the move to disk.
SpillDrop_dropsRest(b) ==
    /\ pc[b] = "spillDrop"
    /\ chunks' = Set(chunks, b, <<>>)
    /\ rest' = Set(rest, b, 0)
    /\ pc' = Set(pc, b, "idle")
    /\ UNCHANGED <<budgets, sent, reservedM, onDisk, size, err, printed>>

\* The end of releaseMemory; the rest of the Write follows the chunks into
\* the file.
SpillDrop(b) ==
    /\ pc[b] = "spillDrop"
    /\ chunks' = Set(chunks, b, <<>>)
    /\ pc' = Set(pc, b, "file")
    /\ UNCHANGED <<budgets, writer, reservedM, onDisk, size, err, printed>>

\* writeToFile: spoolBudget.TryReserve(len(data)), or setError and closeFile.
FileReserve(b) ==
    /\ pc[b] = "file"
    /\ IF spooled + rest[b] <= SpoolLimit
       THEN /\ spooled' = spooled + rest[b]
            /\ spilling' = Set(spilling, b, rest[b])
            /\ pc' = Set(pc, b, "fileWrite")
            /\ UNCHANGED <<rest, err, open>>
       ELSE /\ err' = Set(err, b, TRUE)
            /\ open' = Set(open, b, FALSE)
            /\ rest' = Set(rest, b, 0)
            /\ pc' = Set(pc, b, "idle")
            /\ UNCHANGED <<spooled, spilling>>
    /\ UNCHANGED <<memory, sent, inMemory, disk, reservedS, size, printed>>

\* Mutant: a short write gives all of its reservation back.
FileWrite_releasesAll(b, n) ==
    /\ pc[b] = "fileWrite"
    /\ disk' = Set(disk, b, disk[b] \o Bytes(b, n))
    /\ reservedS' = Set(reservedS, b, reservedS[b] + n)
    /\ spooled' = IF n = rest[b] THEN spooled ELSE spooled - rest[b]
    /\ spilling' = Set(spilling, b, 0)
    /\ size' = Set(size, b, size[b] + n)
    /\ err' = Set(err, b, n # rest[b])
    /\ open' = Set(open, b, n = rest[b])
    /\ rest' = Set(rest, b, 0)
    /\ pc' = Set(pc, b, "idle")
    /\ UNCHANGED <<memory, sent, inMemory, printed>>

\* b.file.Write(data) stores n bytes; what was not stored is released.
FileWrite(b, n) ==
    /\ pc[b] = "fileWrite"
    /\ disk' = Set(disk, b, disk[b] \o Bytes(b, n))
    /\ reservedS' = Set(reservedS, b, reservedS[b] + n)
    /\ spooled' = spooled - (rest[b] - n)
    /\ spilling' = Set(spilling, b, 0)
    /\ size' = Set(size, b, size[b] + n)
    /\ err' = Set(err, b, n # rest[b])
    /\ open' = Set(open, b, n = rest[b])
    /\ rest' = Set(rest, b, 0)
    /\ pc' = Set(pc, b, "idle")
    /\ UNCHANGED <<memory, sent, inMemory, printed>>

-----------------------------------------------------------------------------
(*                       Finalize, WriteTo and Close                        *)

\* The reader has ended; closing the file may fail.
Finalize(b) ==
    /\ pc[b] = "idle"
    /\ \E closeErr \in (IF open[b] THEN BOOLEAN ELSE {FALSE}) :
          err' = Set(err, b, err[b] \/ closeErr)
    /\ open' = Set(open, b, FALSE)
    /\ pc' = Set(pc, b, "final")
    /\ UNCHANGED <<budgets, writer, inMemory, disk, reservedS, spilling, size,
                   printed>>

\* Mutant: only what is in memory is printed.
WriteTo_chunksOnly(b) ==
    /\ pc[b] = "final"
    /\ ~(err[b] /\ size[b] = 0)
    /\ printed' = Set(printed, b, FlattenSeq(chunks[b]))
    /\ UNCHANGED <<budgets, pc, writer, inMemory, onDisk, size, err>>

\* WriteTo, when neither opening the file nor writing fails: a failed output
\* with nothing in it is an error, otherwise the file or the chunks are
\* copied.
WriteTo(b) ==
    /\ pc[b] = "final"
    /\ ~(err[b] /\ size[b] = 0)
    /\ printed' = Set(printed, b, IF disk[b] # NoFile THEN disk[b]
                                  ELSE FlattenSeq(chunks[b]))
    /\ UNCHANGED <<budgets, pc, writer, inMemory, onDisk, size, err>>

\* Close, after printing or instead of it: first the file is removed ...
Close(b) ==
    /\ pc[b] = "final"
    /\ disk' = Set(disk, b, NoFile)
    /\ pc' = Set(pc, b, "closing")
    /\ UNCHANGED <<budgets, writer, inMemory, open, reservedS, spilling, size,
                   err, printed>>

\* ... then releaseMemory returns the memory budget ...
CloseRelease(b) ==
    /\ pc[b] = "closing"
    /\ memory' = memory - reservedM[b]
    /\ reservedM' = Set(reservedM, b, 0)
    /\ pc' = Set(pc, b, "closeDrop")
    /\ UNCHANGED <<spooled, writer, chunks, onDisk, size, err, printed>>

\* ... and drops the chunks; the spool budget follows.
CloseDrop(b) ==
    /\ pc[b] = "closeDrop"
    /\ chunks' = Set(chunks, b, <<>>)
    /\ spooled' = spooled - reservedS[b]
    /\ reservedS' = Set(reservedS, b, 0)
    /\ size' = Set(size, b, 0)
    /\ pc' = Set(pc, b, "closed")
    /\ UNCHANGED <<memory, writer, reservedM, disk, open, spilling, err,
                   printed>>

Terminated == (\A b \in Buffers : pc[b] = "closed") /\ UNCHANGED vars

Next ==
    \/ \E b \in Buffers :
          \/ \E n \in 1..ChunkSize : Write(b, n)
          \/ CopyToChunk(b) \/ NewChunk(b)
          \/ StartSpill(b) \/ SpillReserve(b) \/ SpillWrite(b)
          \/ SpillUndo(b) \/ SpillDone(b) \/ SpillDrop(b)
          \/ FileReserve(b)
          \/ \E n \in 0..rest[b] : FileWrite(b, n)
          \/ Finalize(b) \/ WriteTo(b) \/ Close(b)
          \/ CloseRelease(b) \/ CloseDrop(b)
    \/ Terminated

Spec == Init /\ [][Next]_vars

-----------------------------------------------------------------------------
(*                                properties                                *)

OnDisk(b) == IF disk[b] = NoFile THEN 0 ELSE Len(disk[b])

\* releaseMemory has returned the budget of the chunks and not dropped them.
Dropping(b) == pc[b] \in {"spillDrop", "closeDrop"}

\* The limits bound what really is in memory and on disk, however the buffers
\* interleave and whichever writes fail.  The spool files of the buffers fit
\* --max-spool-size at every moment (a file that os.Remove fails to delete
\* belongs to no buffer any more).  The chunks fit --max-buffer-memory except
\* for those of a buffer between the two steps of releaseMemory, whose room
\* another buffer may already be using; such a buffer has no more than the
\* limit itself (output.go:118-138, 150-174, 178-196, 237-253, 285-289).
LimitsRespected ==
    LET InChunks(b) == ChunkSize * Len(chunks[b])
    IN  /\ SumFunction([b \in Buffers |-> IF Dropping(b) THEN 0 ELSE InChunks(b)])
              <= MemoryLimit
        /\ \A b \in Buffers : InChunks(b) <= MemoryLimit
        /\ SumFunction([b \in Buffers |-> OnDisk(b)]) <= SpoolLimit

\* No error path leaks or returns too much of a budget: each counter is what
\* the buffers hold, so both are back at 0 when every buffer is closed.
BudgetsExact ==
    /\ memory = SumFunction(reservedM)
    /\ spooled = SumFunction(reservedS) + SumFunction(spilling)
    /\ (\A b \in Buffers : pc[b] = "closed") => memory = 0 /\ spooled = 0

Spilling == {"spill", "spillWrite"}
Closing  == {"closing", "closeDrop"}
Sealed   == {"final", "closed"} \cup Closing

Content(b) == IF open[b] \/ (disk[b] # NoFile /\ chunks[b] = <<>>)
              THEN disk[b] ELSE FlattenSeq(chunks[b])

\* What a buffer holds is at all times the first `size` bytes of its stream:
\* moving to disk in the middle of a Write, running out of spool in the middle
\* of a spill, or a short write neither loses, repeats nor reorders a byte.
HoldsPrefix ==
    \A b \in Buffers : pc[b] \notin Closing =>
        Content(b) = FirstBytes(size[b])

\* A WriteTo that reports no error prints the stream, all of it unless the
\* output had failed before.
PrintsPrefix ==
    \A b \in Buffers : printed[b] # NoFile =>
        /\ printed[b] = FirstBytes(Len(printed[b]))
        /\ ~err[b] => Len(printed[b]) = sent[b]

\* A spill buffer is an OutputStream, wherever it keeps the bytes.
Stream == INSTANCE OutputStream WITH
    kept    <- size,
    failed  <- err,
    sealed  <- [b \in Buffers |-> pc[b] \in Sealed],
    printed <- [b \in Buffers |-> IF printed[b] = NoFile THEN -1
                                  ELSE Len(printed[b])]

IsOutputStream == Stream!Spec

-----------------------------------------------------------------------------
(*                  an inductive invariant (SpillBuffer_proofs)             *)

Writing  == {"fill", "spillUndo", "spillDrop", "file", "fileWrite"} \cup Spilling

TypeOK ==
    /\ memory \in Nat /\ spooled \in Nat
    /\ pc \in [Buffers -> {"idle"} \cup Writing \cup Sealed]
    /\ sent \in [Buffers -> 0..MaxBytes] /\ rest \in [Buffers -> Nat]
    /\ chunks \in [Buffers -> Seq(Seq(Int))]
    /\ reservedM \in [Buffers -> Nat] /\ reservedS \in [Buffers -> Nat]
    /\ spilling \in [Buffers -> Nat]
    /\ disk \in [Buffers -> Seq(Int)] /\ open \in [Buffers -> BOOLEAN]
    /\ size \in [Buffers -> Nat] /\ err \in [Buffers -> BOOLEAN]
    /\ printed \in [Buffers -> Seq(Int)]

\* The file, and not the chunks, is what the buffer holds.
InFile(b) == disk[b] # NoFile /\ pc[b] \notin Spilling

\* Which file there is at each step.
FileKnown(b) ==
    /\ open[b] => disk[b] # NoFile /\ pc[b] \in {"idle", "spillDrop", "file", "fileWrite"}
    /\ pc[b] \in {"spillDrop", "file", "fileWrite"} => open[b]
    /\ pc[b] \in {"fill", "spillUndo", "closed"} \cup Closing => disk[b] = NoFile
    /\ pc[b] = "idle" /\ ~err[b] /\ disk[b] # NoFile => open[b]

\* A byte handed to Write is stored, in the Write in progress, or was given
\* up by an output that has failed.
BytesCounted(b) ==
    /\ size[b] + rest[b] <= sent[b]
    /\ ~err[b] /\ pc[b] # "closed" => size[b] + rest[b] = sent[b]
    /\ IF pc[b] \in Writing THEN ~err[b] ELSE rest[b] = 0

\* The k-th chunk starts with byte Before(k) + 1, and only the last one may
\* have room.
Before(k) == (k - 1) * ChunkSize

ChunksInOrder(b) ==
    /\ \A k \in 1..Len(chunks[b]) :
          /\ Len(chunks[b][k]) <= ChunkSize
          /\ k < Len(chunks[b]) => Len(chunks[b][k]) = ChunkSize
          /\ chunks[b][k] = [i \in 1..Len(chunks[b][k]) |-> Before(k) + i]
    /\ ~InFile(b) /\ pc[b] \notin Closing =>
          size[b] = IF chunks[b] = <<>> THEN 0
                    ELSE Before(Len(chunks[b])) + Len(Last(chunks[b]))

HeldOnce(b) ==
    /\ InFile(b) => /\ disk[b] = FirstBytes(size[b])
                    /\ Dropping(b) \/ chunks[b] = <<>>
    /\ ~InFile(b) /\ pc[b] \notin Closing => FlattenSeq(chunks[b]) = FirstBytes(size[b])
    /\ pc[b] = "closed" => chunks[b] = <<>>

\* While spillToDisk runs, the file holds the first chunks, all of them full.
SpillInOrder(b) ==
    pc[b] \in Spilling =>
        /\ \A k \in 1..Len(chunks[b]) : Len(chunks[b][k]) = ChunkSize
        /\ disk[b] = FirstBytes(Len(disk[b]))
        /\ \E k \in 1..(Len(chunks[b]) + 1) :
              /\ Len(disk[b]) = Before(k)
              /\ pc[b] = "spillWrite" => k <= Len(chunks[b])

\* What the buffer has of each budget.
SharesKnown(b) ==
    /\ reservedM[b] = IF Dropping(b) THEN 0 ELSE ChunkSize * Len(chunks[b])
    /\ ChunkSize * Len(chunks[b]) <= MemoryLimit
    /\ pc[b] \notin Closing => reservedS[b] = IF InFile(b) THEN size[b] ELSE 0
    /\ pc[b] = "spill" => spilling[b] = Len(disk[b])
    /\ pc[b] = "spillWrite" => spilling[b] = Len(disk[b]) + ChunkSize
    /\ pc[b] = "fileWrite" => spilling[b] = rest[b]
    /\ pc[b] \notin Spilling \cup {"spillUndo", "fileWrite"} => spilling[b] = 0

PrintedWhole(b) ==
    printed[b] # NoFile =>
        /\ pc[b] \in Sealed
        /\ printed[b] = FirstBytes(Len(printed[b]))
        /\ ~err[b] => Len(printed[b]) = sent[b]

BufferOK(b) ==
    /\ FileKnown(b) /\ BytesCounted(b) /\ ChunksInOrder(b) /\ HeldOnce(b)
    /\ SpillInOrder(b) /\ SharesKnown(b) /\ PrintedWhole(b)

BudgetsOK ==
    /\ memory = SumFunction(reservedM)
    /\ spooled = SumFunction(reservedS) + SumFunction(spilling)
    /\ memory <= MemoryLimit /\ spooled <= SpoolLimit

IInv == TypeOK /\ BudgetsOK /\ \A b \in Buffers : BufferOK(b)
=============================================================================
