---------------------------- MODULE AdbBackup ----------------------------
(***************************************************************************)
(* adb backup: recovery (TWRP) backs up its partitions into a FIFO, tells  *)
(* the bu process on a second FIFO what it is doing, and bu turns both     *)
(* into the one stream that adb takes to the host (adbbu/twrpback.cpp,     *)
(* libtwadbbu.cpp; twrpAdbBuFifo.cpp, twrpTar.cpp, partition.cpp).         *)
(*                                                                         *)
(* bu polls the two FIFOs one after the other without blocking, so every   *)
(* read, and every command, open, write and close of TWRP, is an action of *)
(* its own.  The stream is a sequence of bytes, of which a 512 byte        *)
(* structure takes R.                                                      *)
(***************************************************************************)
EXTENDS Integers, Sequences, SequencesExt, FiniteSets

CONSTANTS
    Files,      \* the partitions, in order: [kind, compressed, size]
    R,          \* MAX_ADB_READ
    M,          \* DATA_MAX_CHUNK_SIZE
    PipeSize,   \* bytes the data FIFO holds
    MaxStray    \* bound on bytes written for reads that failed

F == Len(Files)

ASSUME FilesAssumption ==
    /\ R \in Nat \ {0} /\ M \in Nat /\ M % R = 0 /\ M >= 2 * R
    /\ PipeSize \in Nat \ {0} /\ MaxStray \in Nat
    /\ Files \in Seq([kind : {"TWFN", "TWIMG"}, compressed : BOOLEAN, size : Nat \ {0}])
    /\ \A f \in 1 .. F : /\ ~Files[f].compressed => Files[f].size % R = 0
                         /\ Files[f].kind = "TWIMG" => ~Files[f].compressed

\* A byte: of file f, of a structure, or zero.
Byte(t, f, i, md5) == [t |-> t, f |-> f, i |-> i, md5 |-> md5]
Zero == Byte("zero", 0, 0, <<>>)
Zeros(n) == [i \in 1 .. n |-> Zero]
Struct(t, f, md5) == [i \in 1 .. R |-> Byte(t, f, i, md5)]
Content(f) == [i \in 1 .. Files[f].size |-> Byte("data", f, i, <<>>)]

VARIABLES
    control,        \* TW_ADB_BU_CONTROL: commands on their way to bu
    listening,      \* bu has it open
    data,           \* TW_ADB_BACKUP: bytes on their way to bu
    writer,         \* some process of TWRP has it open
    \* TWRP
    tpc, file, written,
    \* bu
    bpc, writedata, compressed, firstDataPacket, dataChunkBytes, fileBytes, digest,
    stream,         \* what adb has got
    \* history
    current,        \* the file whose header has last been written to the stream
    strays,
    mishap          \* what went wrong: subset of {"early", "lost", "overrun"}

fifos == <<control, listening, data, writer>>
twrp  == <<tpc, file, written>>
bu    == <<bpc, writedata, compressed, firstDataPacket, dataChunkBytes, fileBytes, digest>>
hist  == <<current, strays, mishap>>
vars  == <<fifos, twrp, bu, stream, hist>>

Init ==
    /\ control = <<>> /\ listening = FALSE /\ data = <<>> /\ writer = FALSE
    /\ tpc = "idle" /\ file = 1 /\ written = 0
    /\ bpc = "operation" /\ writedata = TRUE /\ compressed = FALSE /\ firstDataPacket = TRUE
    /\ dataChunkBytes = 0 /\ fileBytes = 0 /\ digest = <<>> /\ stream = <<>>
    /\ current = 0 /\ strays = 0 /\ mishap = {}

-----------------------------------------------------------------------------
(* TWRP *)

\* The twadbbu::Write_* functions: a non-blocking open, which fails if nobody
\* listens, and one atomic write.
Send(type, f) == listening /\ control' = Append(control, [type |-> type, file |-> f])

\* Backup_ADB_Command and Run_Backup up to the stream header.  Bad options are
\* reported with TWERROR.
WriteStreamHeader ==
    /\ tpc = "start"
    /\ \/ Send("TWSTREAMHDR", 0) /\ tpc' = "file"
       \/ Send("TWERROR", 0) /\ tpc' = "failed"
    /\ UNCHANGED <<listening, data, writer, file, written, bu, stream, hist>>

\* createTarFork and Backup_Image announce the file.
WriteFileHeader ==
    /\ tpc = "file" /\ file <= F
    /\ Send(Files[file].kind, file)
    /\ tpc' = "open"
    /\ UNCHANGED <<listening, data, writer, file, written, bu, stream, hist>>

\* open(TW_ADB_BACKUP, O_WRONLY) waits for the reader.
OpenData ==
    /\ tpc = "open" /\ bpc \notin {"operation", "opencontrol", "opendata"}
    /\ writer' = TRUE /\ written' = 0 /\ tpc' = "write"
    /\ UNCHANGED <<control, listening, data, file, bu, stream, hist>>

\* Tar and images are written in blocks of R, compressed data as it comes.
WriteData(n) ==
    /\ tpc = "write" /\ written + n <= Files[file].size
    /\ Files[file].compressed \/ n = R
    /\ Len(data) + n <= PipeSize
    /\ data' = data \o SubSeq(Content(file), written + 1, written + n)
    /\ written' = written + n
    /\ UNCHANGED <<control, listening, writer, tpc, file, bu, stream, hist>>

\* closeTar, Raw_Read_Write: the end of the data.  Next to pigz, which has
\* ended, the process itself still has a compressed stream open.
CloseData ==
    /\ tpc = "write" /\ written = Files[file].size
    /\ writer' = Files[file].compressed
    /\ tpc' = "eof"
    /\ UNCHANGED <<control, listening, data, file, written, bu, stream, hist>>

WriteTWEOF ==
    /\ tpc = "eof"
    /\ Send("TWEOF", file)
    /\ tpc' = "release"
    /\ UNCHANGED <<listening, data, writer, file, written, bu, stream, hist>>

\* The rest of closeTar, and the next partition.
Release ==
    /\ tpc = "release"
    /\ writer' = FALSE
    /\ tpc' = "file" /\ file' = file + 1
    /\ UNCHANGED <<control, listening, data, written, bu, stream, hist>>

WriteStreamTrailer ==
    /\ tpc = "file" /\ file = F + 1
    /\ Send("TWENDADB", 0)
    /\ tpc' = "done"
    /\ UNCHANGED <<listening, data, writer, file, written, bu, stream, hist>>

\* A partition cannot be read, the user cancels, nothing is selected, or nobody
\* listens yet: Run_Backup returns, and bu is not told.
BackupFails ==
    /\ tpc \in {"start", "file", "open", "write", "eof"}
    /\ writer' = FALSE /\ tpc' = "failed"
    /\ UNCHANGED <<control, listening, data, file, written, bu, stream, hist>>

-----------------------------------------------------------------------------
(* bu *)

\* Check_Adb_Fifo_For_Events reads the operation and starts.
WriteOperation ==
    /\ bpc = "operation"
    /\ bpc' = "opencontrol" /\ tpc' = "start"
    /\ UNCHANGED <<fifos, file, written, writedata, compressed, firstDataPacket, dataChunkBytes,
                   fileBytes, digest, stream, hist>>

OpenFifos ==
    /\ \/ bpc = "opencontrol" /\ listening' = TRUE /\ bpc' = "opendata"
       \/ bpc = "opendata" /\ bpc' = "control" /\ UNCHANGED listening
    /\ UNCHANGED <<control, data, writer, twrp, writedata, compressed, firstDataPacket,
                   dataChunkBytes, fileBytes, digest, stream, hist>>

NoCommand ==
    /\ bpc = "control" /\ control = <<>>
    /\ bpc' = "data"
    /\ UNCHANGED <<fifos, twrp, writedata, compressed, firstDataPacket, dataChunkBytes,
                   fileBytes, digest, stream, hist>>

\* Mutant: a read of more than one command takes the first of them.
ReceiveOneOfAll(type) == bpc = "control" /\ control # <<>> /\ Head(control).type = type /\ control' = <<>>

Receive(type) == bpc = "control" /\ control # <<>> /\ Head(control).type = type /\ control' = Tail(control)

ReceiveStreamHeader ==
    /\ Receive("TWSTREAMHDR")
    /\ writedata' = FALSE /\ dataChunkBytes' = 0
    /\ stream' = stream \o Struct("TWSTREAMHDR", 0, <<>>)
    /\ bpc' = "data"
    /\ UNCHANGED <<listening, data, writer, twrp, compressed, firstDataPacket, fileBytes, digest, hist>>

\* Mutant: only a compressed file is read.
ReceiveFileHeaderOnly(kind) ==
    /\ Receive(kind)
    /\ LET f == Head(control).file IN
         /\ compressed' = Files[f].compressed /\ current' = f
         /\ stream' = stream \o Struct(kind, f, <<>>)
    /\ writedata' = compressed' /\ digest' = <<>> /\ dataChunkBytes' = 0
    /\ bpc' = "data"
    /\ UNCHANGED <<listening, data, writer, twrp, firstDataPacket, fileBytes, strays, mishap>>

\* TWFN and TWIMG.
ReceiveFileHeader(kind) ==
    /\ Receive(kind)
    /\ LET f == Head(control).file IN
         /\ compressed' = Files[f].compressed /\ current' = f
         /\ stream' = stream \o Struct(kind, f, <<>>)
    /\ writedata' = TRUE /\ digest' = <<>> /\ dataChunkBytes' = 0
    /\ bpc' = "data"
    /\ UNCHANGED <<listening, data, writer, twrp, firstDataPacket, fileBytes, strays, mishap>>

ReceiveTWEOF ==
    /\ Receive("TWEOF")
    /\ bpc' = "drain"
    /\ UNCHANGED <<listening, data, writer, twrp, writedata, compressed, firstDataPacket,
                   dataChunkBytes, fileBytes, digest, stream, hist>>

\* A byte that the loop after TWEOF writes: past the end of a chunk it has no
\* TWDATA header before it.
DrainByte(b) ==
    /\ stream' = Append(stream, b) /\ digest' = Append(digest, b)
    /\ fileBytes' = fileBytes + 1 /\ dataChunkBytes' = dataChunkBytes + 1

Overrun == IF fileBytes % M = 0 THEN {"overrun"} ELSE {}

\* bytes = read(...) != 0 is 1 whatever has been read: the rest is dropped.
Drain ==
    /\ bpc = "drain" /\ data # <<>>
    /\ DrainByte(Head(data))
    /\ LET n == IF Len(data) < R THEN Len(data) ELSE R IN
         /\ data' = SubSeq(data, n + 1, Len(data))
         /\ mishap' = mishap \cup Overrun \cup (IF n > 1 THEN {"lost"} ELSE {})
                             \cup (IF Head(data).f # current THEN {"early"} ELSE {})
    /\ UNCHANGED <<control, listening, writer, twrp, bpc, writedata, compressed, firstDataPacket,
                   current, strays>>

\* It is also 1 when there is nothing to read and the FIFO is still open.
DrainNothing ==
    /\ bpc = "drain" /\ data = <<>> /\ writer /\ strays < MaxStray
    /\ DrainByte(Zero)
    /\ strays' = strays + 1
    /\ mishap' = mishap \cup Overrun
    /\ UNCHANGED <<fifos, twrp, bpc, writedata, compressed, firstDataPacket, current>>

\* Up to the next multiple of the chunk size.
Padding == Zeros((M - (fileBytes % M)) % M)

\* Mutant: the padding is left out of the digest.
WriteTrailerUnpadded ==
    /\ bpc = "drain" /\ data = <<>> /\ ~writer
    /\ stream' = stream \o Padding \o Struct("MD5TRAILER", 0, digest)
    /\ writedata' = FALSE /\ firstDataPacket' = TRUE /\ fileBytes' = 0 /\ dataChunkBytes' = 0
    /\ bpc' = "data"
    /\ UNCHANGED <<fifos, twrp, compressed, digest, hist>>

WriteTrailer ==
    /\ bpc = "drain" /\ data = <<>> /\ ~writer
    /\ stream' = stream \o Padding \o Struct("MD5TRAILER", 0, digest \o Padding)
    /\ digest' = digest \o Padding
    /\ writedata' = FALSE /\ firstDataPacket' = TRUE /\ fileBytes' = 0 /\ dataChunkBytes' = 0
    /\ bpc' = "data"
    /\ UNCHANGED <<fifos, twrp, compressed, hist>>

ReceiveEnd ==
    /\ Receive("TWENDADB")
    /\ stream' = stream \o Struct("TWENDADB", 0, <<>>)
    /\ writedata' = FALSE
    /\ bpc' = "finished"
    /\ UNCHANGED <<listening, data, writer, twrp, compressed, firstDataPacket, dataChunkBytes,
                   fileBytes, digest, hist>>

ReceiveError ==
    /\ Receive("TWERROR")
    /\ writedata' = FALSE
    /\ bpc' = "error"
    /\ UNCHANGED <<listening, data, writer, twrp, compressed, firstDataPacket, dataChunkBytes,
                   fileBytes, digest, stream, hist>>

\* Data is skipped between the files of an uncompressed backup.
NoData ==
    /\ bpc = "data" /\ (data = <<>> \/ ~(writedata \/ compressed))
    /\ bpc' = "control"
    /\ UNCHANGED <<fifos, twrp, writedata, compressed, firstDataPacket, dataChunkBytes,
                   fileBytes, digest, stream, hist>>

\* What a read of at most n bytes takes, and where it goes.
TakeData(n, header) ==
    LET bytes == SubSeq(data, 1, n) IN
        /\ data' = SubSeq(data, n + 1, Len(data))
        /\ stream' = stream \o header \o bytes
        /\ digest' = digest \o bytes
        /\ fileBytes' = fileBytes + Len(header) + n
        /\ mishap' = IF \E i \in 1 .. n : bytes[i].f # current THEN mishap \cup {"early"} ELSE mishap

\* Mutant: a full chunk does not start a new one.
ReadDataNoReset ==
    /\ bpc = "data" /\ (writedata \/ compressed) /\ data # <<>>
    /\ LET n == IF Len(data) < R THEN Len(data) ELSE R
           header == IF firstDataPacket THEN Struct("TWDATA", 0, <<>>) ELSE <<>>
           bytes == dataChunkBytes + Len(header) + n
       IN  /\ TakeData(n, header)
           /\ dataChunkBytes' = bytes
           /\ firstDataPacket' = (bytes = M)
           /\ bpc' = IF bytes # M /\ bytes > M - R THEN "extra" ELSE "data"
    /\ UNCHANGED <<control, listening, writer, twrp, writedata, compressed, current, strays>>

\* A read, with a TWDATA header if it is the first of a chunk.
ReadData ==
    /\ bpc = "data" /\ (writedata \/ compressed) /\ data # <<>>
    /\ LET n == IF Len(data) < R THEN Len(data) ELSE R
           header == IF firstDataPacket THEN Struct("TWDATA", 0, <<>>) ELSE <<>>
           bytes == dataChunkBytes + Len(header) + n
       IN  /\ TakeData(n, header)
           /\ dataChunkBytes' = IF bytes = M THEN 0 ELSE bytes
           /\ firstDataPacket' = (bytes = M)
           /\ bpc' = IF bytes # M /\ bytes > M - R THEN "extra" ELSE "data"
    /\ UNCHANGED <<control, listening, writer, twrp, writedata, compressed, current, strays>>

\* Less than a structure is left of the chunk: fill it exactly.
ReadExtra ==
    /\ bpc = "extra" /\ data # <<>>
    /\ LET left == M - dataChunkBytes
           n == IF Len(data) < left THEN Len(data) ELSE left
       IN  /\ TakeData(n, <<>>)
           /\ dataChunkBytes' = IF n = left THEN 0 ELSE dataChunkBytes + n
           /\ firstDataPacket' = (n = left)
           /\ bpc' = IF n = left THEN "data" ELSE "extra"
    /\ UNCHANGED <<control, listening, writer, twrp, writedata, compressed, current, strays>>

ExtraEnds ==
    /\ bpc = "extra" /\ data = <<>> /\ ~writer
    /\ dataChunkBytes' = 0 /\ firstDataPacket' = TRUE
    /\ bpc' = "data"
    /\ UNCHANGED <<fifos, twrp, writedata, compressed, fileBytes, digest, stream, hist>>

-----------------------------------------------------------------------------
TwrpStep ==
    \/ WriteStreamHeader \/ WriteFileHeader \/ OpenData
    \/ \E n \in 1 .. R : WriteData(n)
    \/ CloseData \/ WriteTWEOF \/ Release \/ WriteStreamTrailer

BuStep ==
    \/ WriteOperation \/ OpenFifos \/ NoCommand
    \/ ReceiveStreamHeader \/ (\E kind \in {"TWFN", "TWIMG"} : ReceiveFileHeader(kind))
    \/ ReceiveTWEOF \/ ReceiveEnd \/ ReceiveError
    \/ Drain \/ DrainNothing \/ WriteTrailer
    \/ NoData \/ ReadData \/ ReadExtra \/ ExtraEnds

Ended == bpc \in {"finished", "error"} /\ tpc \in {"done", "failed"} /\ UNCHANGED vars

Next == TwrpStep \/ BackupFails \/ BuStep \/ Ended

\* Both processes run; neither waits for the other except in a FIFO.
Spec == Init /\ [][Next]_vars /\ WF_vars(TwrpStep) /\ WF_vars(BuStep)

-----------------------------------------------------------------------------
(* What twrpback::restore makes of a stream *)

\* The type of a block of R bytes: a structure, or data.
BlockType(block) ==
    IF \A i \in 1 .. R : block[i].i = i /\ block[i].t = block[1].t /\ block[1].t \notin {"data", "zero"}
    THEN block[1].t ELSE "data"

\* One block: within a chunk all but the trailer of a file is data, outside of
\* it all but structures is skipped.
RestoreBlock(s, block) ==
    LET type == BlockType(block)
        chunk == s.chunk + R
    IN  IF type = "MD5TRAILER"
        THEN [s EXCEPT !.inData = FALSE, !.chunk = IF s.inData THEN chunk ELSE @,
                       !.ok = @ /\ s.digest = block[1].md5]
        ELSE IF s.inData
        THEN [s EXCEPT !.chunk = IF chunk = M THEN 0 ELSE chunk, !.inData = chunk # M,
                       !.digest = @ \o block, !.out[s.file] = @ \o block]
        ELSE IF type = "TWDATA" THEN [s EXCEPT !.chunk = chunk, !.inData = TRUE]
        ELSE IF type \in {"TWFN", "TWIMG"}
        THEN [s EXCEPT !.file = block[1].f, !.chunk = 0, !.digest = <<>>]
        ELSE [s EXCEPT !.end = @ \/ type = "TWENDADB"]

RestoreStart ==
    [file |-> 0, chunk |-> 0, inData |-> FALSE, digest |-> <<>>, ok |-> TRUE, end |-> FALSE,
     out |-> [f \in 0 .. F |-> <<>>]]

Block(bytes, b) == SubSeq(bytes, (b - 1) * R + 1, b * R)

\* The state of the restore after the first b blocks of a stream.
RestoreRun(bytes) ==
    LET run[b \in Nat] ==
          IF b = 0 THEN RestoreStart ELSE RestoreBlock(run[b - 1], Block(bytes, b))
    IN  run

Restore(bytes) == RestoreRun(bytes)[Len(bytes) \div R]

\* bytes start with the file and go on with nothing but padding.
Holds(bytes, f) ==
    /\ IsPrefix(Content(f), bytes)
    /\ \A i \in Files[f].size + 1 .. Len(bytes) : bytes[i] = Zero

-----------------------------------------------------------------------------
(* Properties *)

TypeOK ==
    /\ control \in Seq([type : {"TWSTREAMHDR", "TWFN", "TWIMG", "TWEOF", "TWENDADB", "TWERROR"},
                        file : 0 .. F])
    /\ Len(data) <= PipeSize
    /\ writer \in BOOLEAN /\ listening \in BOOLEAN
    /\ tpc \in {"idle", "start", "file", "open", "write", "eof", "release", "done", "failed"}
    /\ bpc \in {"operation", "opencontrol", "opendata", "control", "data", "extra", "drain",
                "finished", "error"}
    /\ file \in 1 .. F + 1
    /\ dataChunkBytes \in Nat /\ (bpc # "drain" => dataChunkBytes < M)
    /\ mishap \subseteq {"early", "lost", "overrun"}

\* The backup that bu finishes can be restored: whatever the sizes of the
\* files and of the reads, restore() finds the chunks, the digests of the
\* trailers match and every file comes out whole, unless bu read the first data
\* of a file before its header, dropped data after TWEOF, or wrote there past
\* the end of a chunk.
BackupRestorable ==
    bpc = "finished" /\ mishap = {} =>
        LET r == Restore(stream) IN
            /\ r.ok /\ r.end /\ Len(stream) % R = 0
            /\ \A f \in 1 .. F : Holds(r.out[f], f)

\* Where the structures of a stream begin, but for those before the data.
Marks(bytes) == {p \in 1 .. Len(bytes) : bytes[p].i = 1 /\ bytes[p].t \notin {"data", "zero", "TWDATA"}}

Expected(k) ==
    IF k = 1 THEN "TWSTREAMHDR"
    ELSE IF k = 2 * F + 2 THEN "TWENDADB"
    ELSE IF k % 2 = 0 THEN Files[k \div 2].kind ELSE "MD5TRAILER"

\* "stream format" (twadbstream.h): stream header, then header and trailer of
\* every file in turn, then the end, also when the data between them is damaged.
StreamFormat ==
    \A p \in Marks(stream) :
        LET k == Cardinality({q \in Marks(stream) : q <= p})
        IN  k <= 2 * F + 2 /\ stream[p].t = Expected(k)

\* TWRP always ends: it finds room in the FIFOs again. Once it has said how the
\* backup ended, bu ends too, with every command taken; of a failure in the middle
\* it says nothing, and bu may poll on.
BothEnd ==
    /\ <>(tpc \in {"done", "failed"})
    /\ (\E i \in 1 .. Len(control) : control[i].type \in {"TWENDADB", "TWERROR"})
          ~> bpc \in {"finished", "error"} /\ control = <<>>
=============================================================================
