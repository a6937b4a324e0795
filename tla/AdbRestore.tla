---------------------------- MODULE AdbRestore ----------------------------
(***************************************************************************)
(* adb restore: bu reads the stream of an adb backup from the host, sends  *)
(* its structures to TWRP on a control FIFO and its data on a data FIFO,   *)
(* and hears from TWRP on a third one when a partition is done             *)
(* (twrpback::restore and checkMD5Trailer in adbbu/twrpback.cpp;           *)
(* Restore_ADB_Backup in twrpAdbBuFifo.cpp, extractTar in twrpTar.cpp,     *)
(* Restore_Image and Raw_Read_Write in partition.cpp).                     *)
(*                                                                         *)
(* The stream is well formed: it is what AdbBackup's bu writes when all    *)
(* goes well.  Blocks of 512 bytes are the unit.  TWRP stops reading when  *)
(* it has its partition, so that padding stays in the FIFO or finds no     *)
(* reader.                                                                 *)
(***************************************************************************)
EXTENDS Integers, Sequences

CONSTANTS
    Size,       \* blocks of each partition, in the order of the stream
    M,          \* blocks of a chunk, its TWDATA header included
    PipeSize,   \* blocks the data FIFO holds
    Failures    \* TWRP may fail

F == Len(Size)

ASSUME SizeAssumption ==
    /\ Size \in Seq(Nat \ {0}) /\ M \in Nat /\ M > 1 /\ PipeSize \in Nat \ {0} /\ Failures \in BOOLEAN

\* A block of the stream or a message: its type, its partition, and the number
\* of a data block or the blocks that a digest was made of.
Block(t, f, i) == [t |-> t, f |-> f, i |-> i]

FileOrEnd(f) == IF f <= F THEN Block("FILE", f, 0) ELSE Block("TWENDADB", 0, 0)

\* The stream: for each partition its header, chunks of a TWDATA header and
\* M - 1 data blocks until they hold the partition, with padding in the last,
\* and the digest.  `left` data blocks of the chunk follow b.
BlockAfter(b, left) ==
    CASE b.t = "TWSTREAMHDR" -> FileOrEnd(1)
      [] b.t = "FILE" -> Block("TWDATA", b.f, 0)
      [] b.t = "TWDATA" \/ (b.t = "data" /\ left > 0) -> Block("data", b.f, b.i + 1)
      [] b.t = "data" /\ left = 0 /\ b.i < Size[b.f] -> Block("TWDATA", b.f, b.i)
      [] b.t = "data" /\ left = 0 /\ b.i >= Size[b.f] -> Block("MD5TRAILER", b.f, b.i)
      [] b.t = "MD5TRAILER" -> FileOrEnd(b.f + 1)
      [] OTHER -> Block("none", 0, 0)

LeftAfter(b, left) ==
    CASE b.t = "TWDATA" -> M - 2
      [] b.t = "data" /\ left > 0 -> left - 1
      [] OTHER -> 0

VARIABLES
    toTwrp,         \* TW_ADB_TWRP_CONTROL
    toBu,           \* TW_ADB_BU_CONTROL
    data,           \* TW_ADB_RESTORE
    writing, reading,   \* bu, TWRP have it open
    \* bu: the next block of the stream and what is left of its chunk, ...
    bpc, adb, left, read_from_adb, tweofrcvd, md5sumdata, dataChunk, fileBlocks, digest,
    \* TWRP
    tpc, file, got, adbmd5, ret,
    \* history
    eofs,           \* TWEOFs bu has received
    overtaken       \* bu went on to a file while TWRP was busy with another

fifos == <<toTwrp, toBu, data, writing, reading>>
bu    == <<bpc, adb, left, read_from_adb, tweofrcvd, md5sumdata, dataChunk, fileBlocks, digest>>
twrp  == <<tpc, file, got, adbmd5, ret>>
vars  == <<fifos, bu, twrp, eofs, overtaken>>

TypeOK ==
    /\ writing \in BOOLEAN /\ reading \in BOOLEAN /\ Len(data) <= PipeSize
    /\ bpc \in {"poll", "adb", "open", "chunk", "finished"}
    /\ adb \in [t : {"TWSTREAMHDR", "FILE", "TWDATA", "data", "MD5TRAILER", "TWENDADB", "none"},
               f : 0 .. F, i : Nat]
    /\ left \in 0 .. M - 2
    /\ read_from_adb \in BOOLEAN /\ tweofrcvd \in BOOLEAN /\ md5sumdata \in BOOLEAN
    /\ tpc \in {"loop", "prepare", "open", "read", "eof", "end", "done"}
    /\ file \in 0 .. F /\ got \in [1 .. F -> Seq([t : {"data", "TWDATA"}, f : 1 .. F, i : Nat])]
    /\ ret \in {"none", "ok", "md5", "failed"}
    /\ eofs \in 0 .. F

\* tweofrcvd and md5sumdata are not initialised.
Init ==
    /\ toTwrp = <<>> /\ toBu = <<>> /\ data = <<>> /\ writing = FALSE /\ reading = FALSE
    /\ bpc = "poll" /\ adb = Block("TWSTREAMHDR", 0, 0) /\ left = 0 /\ read_from_adb = TRUE
    /\ tweofrcvd \in BOOLEAN /\ md5sumdata \in BOOLEAN
    /\ dataChunk = 0 /\ fileBlocks = 0 /\ digest = 0
    /\ tpc = "loop" /\ file = 0 /\ got = [f \in 1 .. F |-> <<>>] /\ adbmd5 = 0 /\ ret = "none"
    /\ eofs = 0 /\ overtaken = FALSE

\* What stays in the FIFO when its last end is closed.
Kept(open) == IF open THEN data ELSE <<>>

-----------------------------------------------------------------------------
(* bu *)

ToPoll == bpc' = "poll"

PollNothing ==
    /\ bpc = "poll" /\ toBu = <<>>
    /\ bpc' = "adb"
    /\ UNCHANGED <<fifos, adb, left, read_from_adb, tweofrcvd, md5sumdata, dataChunk, fileBlocks,
                   digest, twrp, eofs, overtaken>>

\* Mutant: TWEOF does not make bu read on.
ReceiveTWEOFIgnored ==
    /\ bpc = "poll" /\ toBu # <<>> /\ Head(toBu) = "TWEOF"
    /\ toBu' = Tail(toBu)
    /\ tweofrcvd' = TRUE
    /\ writing' = FALSE /\ data' = Kept(reading)
    /\ bpc' = "adb" /\ eofs' = eofs + 1
    /\ UNCHANGED <<toTwrp, reading, adb, left, read_from_adb, md5sumdata, dataChunk, fileBlocks,
                   digest, twrp, overtaken>>

ReceiveTWEOF ==
    /\ bpc = "poll" /\ toBu # <<>> /\ Head(toBu) = "TWEOF"
    /\ toBu' = Tail(toBu)
    /\ read_from_adb' = TRUE /\ tweofrcvd' = TRUE
    /\ writing' = FALSE /\ data' = Kept(reading)
    /\ bpc' = "adb" /\ eofs' = eofs + 1
    /\ UNCHANGED <<toTwrp, reading, adb, left, md5sumdata, dataChunk, fileBlocks, digest, twrp,
                   overtaken>>

ReceiveTWENDADB ==
    /\ bpc = "poll" /\ toBu # <<>> /\ Head(toBu) = "TWENDADB"
    /\ toBu' = Tail(toBu)
    /\ writing' = FALSE /\ data' = Kept(reading)
    /\ bpc' = "finished"
    /\ UNCHANGED <<toTwrp, reading, adb, left, read_from_adb, tweofrcvd, md5sumdata, dataChunk,
                   fileBlocks, digest, twrp, eofs, overtaken>>

\* Waiting for TWEOF or TWENDADB, or nothing more to read.
AdbIdle ==
    /\ bpc = "adb" /\ (~read_from_adb \/ adb.t = "none")
    /\ ToPoll
    /\ UNCHANGED <<fifos, adb, left, read_from_adb, tweofrcvd, md5sumdata, dataChunk, fileBlocks,
                   digest, twrp, eofs, overtaken>>

\* The next block is read.
fread == adb' = BlockAfter(adb, left) /\ left' = LeftAfter(adb, left)

\* At the top of the loop.
Reads(type) ==
    /\ bpc = "adb" /\ read_from_adb /\ adb.t = type
    /\ fread

RestoreStreamHeader ==
    /\ Reads("TWSTREAMHDR")
    /\ toTwrp' = Append(toTwrp, adb)
    /\ md5sumdata' = FALSE
    /\ ToPoll
    /\ UNCHANGED <<toBu, data, writing, reading, read_from_adb, tweofrcvd, dataChunk, fileBlocks,
                   digest, twrp, eofs, overtaken>>

\* TWFN and TWIMG.  open(TW_ADB_RESTORE, O_WRONLY) waits for a reader, and wakes
\* one that waits for a writer.
RestoreFile ==
    /\ Reads("FILE")
    /\ toTwrp' = Append(toTwrp, adb)
    /\ md5sumdata' = FALSE /\ fileBlocks' = 0 /\ dataChunk' = 0 /\ digest' = 0
    /\ bpc' = IF reading THEN "poll" ELSE "open"
    /\ tpc' = IF tpc = "open" THEN "read" ELSE tpc
    /\ writing' = TRUE
    /\ overtaken' = (overtaken \/ eofs < adb.f - 1)
    /\ UNCHANGED <<toBu, data, reading, read_from_adb, tweofrcvd, file, got, adbmd5, ret, eofs>>

RestoreChunk ==
    /\ Reads("TWDATA")
    /\ dataChunk' = dataChunk + 1
    /\ bpc' = "chunk"
    /\ UNCHANGED <<fifos, read_from_adb, tweofrcvd, md5sumdata, fileBlocks, digest, twrp, eofs,
                   overtaken>>

\* Mutant: what nobody reads is not part of the digest.
RestoreUnreadUndigested ==
    /\ Reads("data")
    /\ ToPoll
    /\ UNCHANGED <<fifos, read_from_adb, tweofrcvd, md5sumdata, dataChunk, fileBlocks, digest, twrp,
                   eofs, overtaken>>

\* Data after TWRP has closed the FIFO is only digested.
RestoreUnread ==
    /\ Reads("data")
    /\ digest' = IF md5sumdata THEN digest + 1 ELSE digest
    /\ ToPoll
    /\ UNCHANGED <<fifos, read_from_adb, tweofrcvd, md5sumdata, dataChunk, fileBlocks, twrp, eofs,
                   overtaken>>

\* At the trailer bu goes on if it has heard TWEOF, and waits for it otherwise;
\* checkMD5Trailer sends the stored digest and its own. counted: the blocks of
\* the file by now, a trailer within a chunk being one of them.
MD5Trailer(counted) ==
    /\ writing' = (writing /\ counted < Size[adb.f])
    /\ data' = Kept(reading \/ writing')
    /\ tweofrcvd' = FALSE /\ read_from_adb' = tweofrcvd
    /\ toTwrp' = toTwrp \o <<adb, Block("TWMD5", 0, digest)>>

RestoreTrailer ==
    /\ Reads("MD5TRAILER")
    /\ MD5Trailer(fileBlocks) /\ md5sumdata' = FALSE
    /\ ToPoll
    /\ UNCHANGED <<toBu, reading, dataChunk, fileBlocks, digest, twrp, eofs, overtaken>>

RestoreEnd ==
    /\ Reads("TWENDADB")
    /\ toTwrp' = Append(toTwrp, adb)
    /\ md5sumdata' = FALSE /\ read_from_adb' = FALSE
    /\ ToPoll
    /\ UNCHANGED <<toBu, data, writing, reading, tweofrcvd, dataChunk, fileBlocks, digest, twrp,
                   eofs, overtaken>>

\* The loop over the blocks of a chunk: all but the trailer of a file is data.
ChunkReads(trailer) ==
    /\ bpc = "chunk" /\ (adb.t = "MD5TRAILER") = trailer
    /\ fread /\ fileBlocks' = fileBlocks + 1

ChunkTrailer ==
    /\ ChunkReads(TRUE)
    /\ MD5Trailer(fileBlocks + 1) /\ dataChunk' = dataChunk + 1
    /\ ToPoll
    /\ UNCHANGED <<toBu, reading, md5sumdata, digest, twrp, eofs, overtaken>>

\* Mutant: the size of the FIFO is not looked at.
ChunkWriteUnbounded ==
    /\ ChunkReads(FALSE)
    /\ writing /\ reading
    /\ data' = Append(data, adb) /\ digest' = digest + 1 /\ read_from_adb' = TRUE
    /\ \/ /\ dataChunk + 1 = M
          /\ dataChunk' = 0 /\ md5sumdata' = FALSE /\ ToPoll
       \/ /\ dataChunk + 1 # M
          /\ dataChunk' = dataChunk + 1 /\ UNCHANGED <<bpc, md5sumdata>>
    /\ UNCHANGED <<toTwrp, toBu, writing, reading, tweofrcvd, twrp, eofs, overtaken>>

\* Mutant: a write that would block is dropped.
ChunkWriteDropping ==
    /\ ChunkReads(FALSE)
    /\ writing /\ reading
    /\ data' = IF Len(data) < PipeSize THEN Append(data, adb) ELSE data
    /\ digest' = digest + 1 /\ read_from_adb' = TRUE
    /\ \/ /\ dataChunk + 1 = M
          /\ dataChunk' = 0 /\ md5sumdata' = FALSE /\ ToPoll
       \/ /\ dataChunk + 1 # M
          /\ dataChunk' = dataChunk + 1 /\ UNCHANGED <<bpc, md5sumdata>>
    /\ UNCHANGED <<toTwrp, toBu, writing, reading, tweofrcvd, twrp, eofs, overtaken>>

ChunkWrite ==
    /\ ChunkReads(FALSE)
    /\ writing /\ reading /\ Len(data) < PipeSize
    /\ data' = Append(data, adb) /\ digest' = digest + 1 /\ read_from_adb' = TRUE
    /\ \/ /\ dataChunk + 1 = M
          /\ dataChunk' = 0 /\ md5sumdata' = FALSE /\ ToPoll
       \/ /\ dataChunk + 1 # M
          /\ dataChunk' = dataChunk + 1 /\ UNCHANGED <<bpc, md5sumdata>>
    /\ UNCHANGED <<toTwrp, toBu, writing, reading, tweofrcvd, twrp, eofs, overtaken>>

\* There is no reader any more, or the FIFO has been closed on TWEOF.
ChunkUnread ==
    /\ ChunkReads(FALSE)
    /\ ~(writing /\ reading)
    /\ digest' = digest + 1 /\ md5sumdata' = TRUE /\ read_from_adb' = TRUE
    /\ dataChunk' = dataChunk + 1
    /\ ToPoll
    /\ UNCHANGED <<fifos, tweofrcvd, twrp, eofs, overtaken>>

-----------------------------------------------------------------------------
(* TWRP *)

Receive(type) ==
    /\ tpc = "loop" /\ toTwrp # <<>> /\ Head(toTwrp).t = type
    /\ toTwrp' = Tail(toTwrp)

ReceiveStreamHeader ==
    /\ Receive("TWSTREAMHDR")
    /\ UNCHANGED <<toBu, data, writing, reading, bu, twrp, eofs, overtaken>>

ReceiveFile ==
    /\ Receive("FILE")
    /\ file' = Head(toTwrp).f /\ tpc' = "prepare"
    /\ UNCHANGED <<toBu, data, writing, reading, bu, got, adbmd5, ret, eofs, overtaken>>

\* openTar or Raw_Read_Write, after the partition has been wiped or mounted,
\* opens the FIFO, waits for a writer and wakes one that waits for a reader.
OpenForReading ==
    /\ tpc = "prepare"
    /\ tpc' = IF writing THEN "read" ELSE "open"
    /\ bpc' = IF bpc = "open" THEN "poll" ELSE bpc
    /\ reading' = TRUE
    /\ UNCHANGED <<toTwrp, toBu, data, writing, adb, left, read_from_adb, tweofrcvd, md5sumdata,
                   dataChunk, fileBlocks, digest, file, got, adbmd5, ret, eofs, overtaken>>

ReadBlock ==
    /\ tpc = "read" /\ data # <<>> /\ Len(got[file]) < Size[file]
    /\ got' = [got EXCEPT ![file] = Append(@, Head(data))] /\ data' = Tail(data)
    /\ UNCHANGED <<toTwrp, toBu, writing, reading, bu, tpc, file, adbmd5, ret, eofs, overtaken>>

\* The partition is complete: close the FIFO ...
CloseReader ==
    /\ tpc = "read" /\ Len(got[file]) = Size[file]
    /\ reading' = FALSE /\ data' = Kept(writing)
    /\ tpc' = "eof"
    /\ UNCHANGED <<toTwrp, toBu, writing, bu, file, got, adbmd5, ret, eofs, overtaken>>

\* ... and tell bu.
WriteTWEOF ==
    /\ tpc = "eof"
    /\ toBu' = Append(toBu, "TWEOF")
    /\ tpc' = "loop"
    /\ UNCHANGED <<toTwrp, data, writing, reading, bu, file, got, adbmd5, ret, eofs, overtaken>>

\* The stream ends within a partition, or it cannot be restored at all.
RestoreFails ==
    /\ \/ tpc = "read" /\ data = <<>> /\ ~writing /\ Len(got[file]) < Size[file]
       \/ Failures /\ tpc \in {"prepare", "read"}
    /\ reading' = FALSE /\ data' = Kept(writing)
    /\ ret' = "failed" /\ tpc' = "end"
    /\ UNCHANGED <<toTwrp, toBu, writing, bu, file, got, adbmd5, eofs, overtaken>>

ReceiveMD5Trailer ==
    /\ Receive("MD5TRAILER")
    /\ adbmd5' = Head(toTwrp).i
    /\ UNCHANGED <<toBu, data, writing, reading, bu, tpc, file, got, ret, eofs, overtaken>>

\* The comparison, and the case that the user skips it.
ReceiveTWMD5 ==
    /\ Receive("TWMD5")
    /\ \E check_digest \in BOOLEAN :
         IF check_digest /\ Head(toTwrp).i # adbmd5
         THEN ret' = "md5" /\ tpc' = "end" ELSE UNCHANGED <<tpc, ret>>
    /\ UNCHANGED <<toBu, data, writing, reading, bu, file, got, adbmd5, eofs, overtaken>>

ReceiveEnd ==
    /\ Receive("TWENDADB")
    /\ ret' = "ok" /\ tpc' = "end"
    /\ UNCHANGED <<toBu, data, writing, reading, bu, file, got, adbmd5, eofs, overtaken>>

\* The end of Restore_ADB_Backup, whatever the result.
WriteTWENDADB ==
    /\ tpc = "end"
    /\ toBu' = Append(toBu, "TWENDADB")
    /\ tpc' = "done"
    /\ UNCHANGED <<toTwrp, data, writing, reading, bu, file, got, adbmd5, ret, eofs, overtaken>>

-----------------------------------------------------------------------------
BuStep ==
    \/ PollNothing \/ ReceiveTWEOF \/ ReceiveTWENDADB \/ AdbIdle
    \/ RestoreStreamHeader \/ RestoreFile \/ RestoreChunk \/ RestoreUnread
    \/ RestoreTrailer \/ RestoreEnd \/ ChunkTrailer \/ ChunkWrite \/ ChunkUnread

TwrpStep ==
    \/ ReceiveStreamHeader \/ ReceiveFile \/ OpenForReading \/ ReadBlock \/ CloseReader
    \/ WriteTWEOF \/ RestoreFails \/ ReceiveMD5Trailer \/ ReceiveTWMD5 \/ ReceiveEnd
    \/ WriteTWENDADB

Ended == tpc = "done" /\ bpc \in {"finished", "open"} /\ UNCHANGED vars

Next == BuStep \/ TwrpStep \/ Ended

\* Both processes run.
Spec == Init /\ [][Next]_vars /\ WF_vars(BuStep) /\ WF_vars(TwrpStep)

-----------------------------------------------------------------------------
(* Properties *)

\* TWRP has gone past the file without an error.
Restored(f) == f < file \/ (f = file /\ tpc \notin {"prepare", "open", "read"} /\ ret # "failed")

\* A partition that TWRP took for restored has its own blocks, and none of
\* another partition or of the padding, unless bu went on to the next file
\* before TWRP was done.
RestoredIntact ==
    \A f \in 1 .. F :
        Restored(f) /\ ~overtaken =>
            got[f] = [i \in 1 .. Size[f] |-> Block("data", f, i)]

\* A good stream never fails the verification of its digests, however early
\* TWRP closes the FIFO, unless bu went on to the next file too early: the
\* writes then fail and succeed again, and bu loses its place in the chunk.
DigestsMatch == ret = "md5" => overtaken

\* Both processes end, and a good stream is restored, unless TWRP fails or bu
\* overtakes it.  A restore that fails ends bu as well, unless bu waits for a
\* reader of the next partition that will never come.
RestoreEnds ==
    /\ <>(overtaken \/ ret = "failed" \/ (ret = "ok" /\ tpc = "done" /\ bpc = "finished"))
    /\ ret = "failed" ~> bpc \in {"finished", "open"}
=============================================================================
