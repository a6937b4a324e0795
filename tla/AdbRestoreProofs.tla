------------------------- MODULE AdbRestoreProofs -------------------------
(***************************************************************************)
(* Proofs about adb restore, for every list of partition sizes, every size *)
(* of a chunk and every size of the FIFO.                                  *)
(*                                                                         *)
(* TWEOFs pair the two processes up: as long as bu sends no header before  *)
(* it has heard of all earlier partitions, it is at most one header ahead  *)
(* of TWRP and waits in open for it, so that the FIFO holds blocks of one  *)
(* partition only.  Within a partition bu is in step with the chunks as    *)
(* long as its writes succeed; once one has failed, all fail, and it only  *)
(* digests.                                                                *)
(***************************************************************************)
EXTENDS AdbRestore, TLAPS

StreamTypes == {"TWSTREAMHDR", "FILE", "TWDATA", "data", "MD5TRAILER", "TWENDADB", "none"}
InFile(b) == b.t \in {"TWDATA", "data", "MD5TRAILER"}
StreamBlock == [t : StreamTypes, f : 0 .. F, i : Nat]
DataBlock == [t : {"data", "TWDATA"}, f : 1 .. F, i : Nat]
Message == [t : {"TWSTREAMHDR", "FILE", "MD5TRAILER", "TWMD5", "TWENDADB"}, f : 0 .. F, i : Nat]

\* What the stream holds where.
WellPlaced(b) ==
    /\ b \in StreamBlock
    /\ InFile(b) \/ b.t = "FILE" => b.f > 0
    /\ b.t = "data" => b.i > 0

BuType ==
    /\ bpc \in {"poll", "adb", "open", "chunk", "finished"}
    /\ WellPlaced(adb) /\ left \in 0 .. M - 2
    /\ bpc = "chunk" => InFile(adb)
    /\ dataChunk \in Nat /\ fileBlocks \in Nat /\ digest \in Nat /\ eofs \in Nat

FlagType ==
    /\ writing \in BOOLEAN /\ reading \in BOOLEAN /\ overtaken \in BOOLEAN
    /\ read_from_adb \in BOOLEAN /\ tweofrcvd \in BOOLEAN /\ md5sumdata \in BOOLEAN

TwrpType ==
    /\ tpc \in {"loop", "prepare", "open", "read", "eof", "end", "done"}
    /\ file \in 0 .. F /\ got \in [1 .. F -> Seq(DataBlock)] /\ adbmd5 \in Nat
    /\ ret \in {"none", "ok", "md5", "failed"}
    /\ tpc \notin {"end", "done"} => ret = "none"
    /\ tpc \in {"prepare", "open", "read", "eof"} \/ ret = "failed" => file > 0
    /\ reading <=> tpc \in {"open", "read"}

FifoType ==
    /\ toBu \in Seq({"TWEOF", "TWENDADB"})
    /\ toTwrp \in Seq(Message)
    /\ \A k \in 1 .. Len(toTwrp) : toTwrp[k].t = "FILE" => toTwrp[k].f > 0
    /\ data \in Seq(DataBlock) /\ Len(data) <= PipeSize
    /\ ~reading /\ ~writing => data = <<>>

\* Partitions that TWRP has finished, and whether its TWENDADB is on its way.
Finished == IF tpc \in {"prepare", "open", "read", "eof"} \/ ret = "failed" THEN file - 1 ELSE file
Ending == tpc = "done" /\ bpc # "finished"

\* TWRP sends a TWEOF for each partition it finishes, and TWENDADB at the end.
EofInv ==
    /\ bpc = "finished" => tpc = "done"
    /\ Ending => Len(toBu) > 0
    /\ \A k \in 1 .. Len(toBu) : toBu[k] = IF Ending /\ k = Len(toBu) THEN "TWENDADB" ELSE "TWEOF"
    /\ eofs + Len(toBu) <= Finished + (IF Ending THEN 1 ELSE 0)

\* The last partition whose header bu has sent, and the data blocks of it that
\* it has read.
Sent(b) ==
    IF InFile(b) THEN b.f ELSE IF b.t = "FILE" THEN b.f - 1 ELSE IF b.t = "TWSTREAMHDR" THEN 0 ELSE F
Passed(b) == IF b.t = "data" THEN b.i - 1 ELSE b.i

\* The headers on their way to TWRP come in the order of the partitions.
QueueInv ==
    /\ file <= Sent(adb)
    /\ \A k \in 1 .. Len(toTwrp) :
         toTwrp[k].t = "FILE" => file < toTwrp[k].f /\ toTwrp[k].f <= Sent(adb)
    /\ \A j, k \in 1 .. Len(toTwrp) :
         j < k /\ toTwrp[j].t = "FILE" /\ toTwrp[k].t = "FILE" => toTwrp[j].f < toTwrp[k].f

\* bu is at most one header ahead, and then waits in open.
HeaderInv ==
    \A k \in 1 .. Len(toTwrp) :
        toTwrp[k].t = "FILE" => k = Len(toTwrp) /\ toTwrp[k].f = file + 1 /\ Sent(adb) = file + 1
PlaceInv ==
    /\ Sent(adb) = file \/ (Sent(adb) = file + 1 /\ bpc = "open" /\ ~reading)
    /\ tpc = "prepare" => bpc = "open" /\ Sent(adb) = file
    /\ tpc # "open" /\ (tpc = "read" => bpc # "open")
    /\ bpc = "open" => adb.t = "TWDATA" /\ adb.i = 0 /\ writing /\ data = <<>> /\ dataChunk = 0
    /\ reading /\ InFile(adb) => writing
    /\ (writing => eofs < Sent(adb)) /\ eofs >= Sent(adb) - 1
StepInv == HeaderInv /\ PlaceInv

\* The FIFO goes on where the partition ends.
DataInv ==
    /\ \A g \in 1 .. F : g > file \/ (g = file /\ tpc = "prepare") => got[g] = <<>>
    /\ reading =>
         /\ \A k \in 1 .. Len(got[file]) : got[file][k] = Block("data", file, k)
         /\ \A k \in 1 .. Len(data) : data[k] = Block("data", file, Len(got[file]) + k)
         /\ InFile(adb) => Len(got[file]) + Len(data) = Passed(adb)

\* bu is in step with the chunks, or writes no more.
ChunkInv ==
    /\ bpc = "chunk" => adb.t = "data"
    /\ bpc = "chunk" /\ reading /\ writing => dataChunk + left + 1 = M
    /\ bpc # "chunk" /\ InFile(adb) /\ reading /\ writing =>
         adb.t # "data" /\ (adb.t = "TWDATA" => dataChunk = 0)

DigestInv ==
    /\ bpc # "chunk" /\ adb.t = "data" => md5sumdata
    /\ InFile(adb) => digest = Passed(adb)

\* bu's digest follows the one of the stream, and is the same.
TrailerInv ==
    /\ \A k \in 1 .. Len(toTwrp) :
         toTwrp[k].t = "TWMD5" =>
             IF k = 1 THEN toTwrp[k].i = adbmd5
             ELSE toTwrp[k - 1].t = "MD5TRAILER" /\ toTwrp[k - 1].i = toTwrp[k].i
    /\ ret # "md5"

RestoreType == BuType /\ FlagType /\ TwrpType /\ FifoType

OrderInv == StepInv /\ DataInv /\ ChunkInv /\ DigestInv /\ TrailerInv /\ RestoredIntact

\* The inductive invariant.
RestoreInv == RestoreType /\ QueueInv /\ EofInv /\ (~overtaken => OrderInv)

-----------------------------------------------------------------------------
(* The stream and the FIFOs *)

\* The constants are numbers, none of them zero.
LEMMA Sizes ==
    /\ F \in Nat /\ \A f \in 1 .. F : Size[f] \in Nat \ {0}
    /\ M \in Nat /\ M > 1 /\ PipeSize \in Nat \ {0}
  BY SizeAssumption DEF F

\* A queue after a message is put at its end, ...
LEMMA AfterPut ==
    ASSUME NEW S, NEW q \in Seq(S), NEW x \in S
    PROVE  /\ Append(q, x) \in Seq(S) /\ Len(Append(q, x)) = Len(q) + 1
           /\ \A k \in 1 .. Len(q) : Append(q, x)[k] = q[k]
           /\ Append(q, x)[Len(q) + 1] = x
  OBVIOUS

\* ... after its first one is taken, ...
LEMMA AfterTake ==
    ASSUME NEW S, NEW q \in Seq(S), q # <<>>
    PROVE  /\ Tail(q) \in Seq(S) /\ Len(q) > 0 /\ Len(Tail(q)) = Len(q) - 1
           /\ Head(q) = q[1] /\ q[1] \in S
           /\ \A k \in 1 .. Len(q) - 1 : Tail(q)[k] = q[k + 1]
  OBVIOUS

\* ... and after two are put at its end, as bu does with the trailer.
LEMMA AfterPair ==
    ASSUME NEW S, NEW q \in Seq(S), NEW x \in S, NEW y \in S
    PROVE  /\ q \o <<x, y>> \in Seq(S) /\ Len(q \o <<x, y>>) = Len(q) + 2
           /\ \A k \in 1 .. Len(q) : (q \o <<x, y>>)[k] = q[k]
           /\ (q \o <<x, y>>)[Len(q) + 1] = x /\ (q \o <<x, y>>)[Len(q) + 2] = y
  OBVIOUS

\* What follows a trailer is a header or the end of the stream.
LEMMA FileOrEndPlaced ==
    ASSUME NEW f \in 1 .. F + 1
    PROVE  /\ WellPlaced(FileOrEnd(f)) /\ ~InFile(FileOrEnd(f))
           /\ Sent(FileOrEnd(f)) = f - 1
           /\ FileOrEnd(f).t = "FILE" => FileOrEnd(f).f = f
<1> USE Sizes
<1>1. CASE f <= F
  BY <1>1 DEF FileOrEnd, Block, WellPlaced, StreamBlock, StreamTypes, InFile, Sent
<1>2. CASE f = F + 1
  BY <1>2 DEF FileOrEnd, Block, WellPlaced, StreamBlock, StreamTypes, InFile, Sent
<1> QED
  BY <1>1, <1>2

\* One block further.
LEMMA OneFurther ==
    ASSUME NEW b, WellPlaced(b), NEW l \in 0 .. M - 2
    PROVE  /\ b.t = "TWSTREAMHDR" => BlockAfter(b, l) = FileOrEnd(1) /\ LeftAfter(b, l) = 0
           /\ b.t = "FILE" => BlockAfter(b, l) = Block("TWDATA", b.f, 0) /\ LeftAfter(b, l) = 0
           /\ b.t = "TWDATA" => BlockAfter(b, l) = Block("data", b.f, b.i + 1) /\ LeftAfter(b, l) = M - 2
           /\ b.t = "data" /\ l > 0 => BlockAfter(b, l) = Block("data", b.f, b.i + 1) /\ LeftAfter(b, l) = l - 1
           /\ b.t = "data" /\ l = 0 =>
                /\ BlockAfter(b, l) \in {Block("TWDATA", b.f, b.i), Block("MD5TRAILER", b.f, b.i)}
                /\ LeftAfter(b, l) = 0
           /\ b.t = "MD5TRAILER" => BlockAfter(b, l) = FileOrEnd(b.f + 1) /\ LeftAfter(b, l) = 0
           /\ b.t \in {"TWENDADB", "none"} => BlockAfter(b, l) = Block("none", 0, 0) /\ LeftAfter(b, l) = 0
<1> USE Sizes
<1>1. /\ b.t = "TWSTREAMHDR" => BlockAfter(b, l) = FileOrEnd(1) /\ LeftAfter(b, l) = 0
      /\ b.t = "FILE" => BlockAfter(b, l) = Block("TWDATA", b.f, 0) /\ LeftAfter(b, l) = 0
      /\ b.t = "TWDATA" => BlockAfter(b, l) = Block("data", b.f, b.i + 1) /\ LeftAfter(b, l) = M - 2
      /\ b.t = "MD5TRAILER" => BlockAfter(b, l) = FileOrEnd(b.f + 1) /\ LeftAfter(b, l) = 0
  BY DEF BlockAfter, LeftAfter
<1>2. b.t \in {"TWENDADB", "none"} => BlockAfter(b, l) = Block("none", 0, 0) /\ LeftAfter(b, l) = 0
  BY DEF BlockAfter, LeftAfter
<1>3. b.t = "data" /\ l > 0 => BlockAfter(b, l) = Block("data", b.f, b.i + 1) /\ LeftAfter(b, l) = l - 1
  BY DEF BlockAfter, LeftAfter
<1>4. ASSUME b.t = "data", l = 0
      PROVE  /\ BlockAfter(b, l) \in {Block("TWDATA", b.f, b.i), Block("MD5TRAILER", b.f, b.i)}
             /\ LeftAfter(b, l) = 0
  <2>1. b.f \in 1 .. F /\ b.i \in Nat /\ Size[b.f] \in Nat
    BY <1>4 DEF WellPlaced, InFile, StreamBlock
  <2>2. b.i < Size[b.f] \/ b.i >= Size[b.f]
    BY <2>1
  <2> QED
    BY <1>4, <2>2 DEF BlockAfter, LeftAfter
<1> QED
  BY <1>1, <1>2, <1>3, <1>4

\* The stream goes on with a block that may stand there, of the same partition
\* until its trailer is read.
LEMMA StreamPlaced ==
    ASSUME NEW b, WellPlaced(b), NEW l \in 0 .. M - 2
    PROVE  /\ WellPlaced(BlockAfter(b, l)) /\ LeftAfter(b, l) \in 0 .. M - 2
           /\ b.t \in {"TWDATA", "data", "FILE"} => InFile(BlockAfter(b, l)) /\ BlockAfter(b, l).f = b.f
           /\ b.t # "FILE" => Sent(BlockAfter(b, l)) = Sent(b)
<1> USE Sizes, OneFurther
<1>0. b.t \in StreamTypes /\ b.f \in 0 .. F /\ b.i \in Nat
  BY DEF WellPlaced, StreamBlock
<1>1. CASE b.t \in {"TWSTREAMHDR", "MD5TRAILER"}
  <2>1. PICK f \in 1 .. F + 1 : BlockAfter(b, l) = FileOrEnd(f) /\ Sent(b) = f - 1
    BY <1>0, <1>1 DEF WellPlaced, InFile, Sent
  <2> QED
    BY <1>1, <2>1, FileOrEndPlaced
<1>2. CASE b.t \in {"FILE", "TWDATA", "data"}
  <2>1. b.f \in 1 .. F
    BY <1>0, <1>2 DEF WellPlaced, InFile
  <2> DEFINE c == BlockAfter(b, l)
  <2>2. /\ c \in {Block("TWDATA", b.f, 0), Block("data", b.f, b.i + 1),
                  Block("TWDATA", b.f, b.i), Block("MD5TRAILER", b.f, b.i)}
        /\ LeftAfter(b, l) \in 0 .. M - 2
    BY <1>2
  <2>3. WellPlaced(c) /\ InFile(c) /\ c.f = b.f
    BY <2>1, <2>2, <1>0 DEF Block, WellPlaced, InFile, StreamBlock, StreamTypes
  <2>4. b.t # "FILE" => Sent(b) = b.f /\ Sent(c) = b.f
    BY <1>2, <2>3 DEF Sent, InFile
  <2> QED
    BY <2>2, <2>3, <2>4
<1>3. CASE b.t \in {"TWENDADB", "none"}
  BY <1>3 DEF Block, WellPlaced, InFile, StreamBlock, StreamTypes, Sent
<1> QED
  BY <1>0, <1>1, <1>2, <1>3 DEF StreamTypes

\* What fread leaves in the stream.
LEMMA FreadPlaced ==
    ASSUME BuType, fread
    PROVE  /\ WellPlaced(adb') /\ left' \in 0 .. M - 2
           /\ adb.t \in {"TWDATA", "data", "FILE"} => InFile(adb') /\ adb'.f = adb.f
           /\ adb.t # "FILE" => Sent(adb') = Sent(adb)
           /\ adb.t = "FILE" => Sent(adb) = adb.f - 1 /\ Sent(adb') = adb.f
<1>1. WellPlaced(adb) /\ left \in 0 .. M - 2 /\ adb' = BlockAfter(adb, left) /\ left' = LeftAfter(adb, left)
  BY DEF BuType, fread
<1>2. /\ WellPlaced(adb') /\ left' \in 0 .. M - 2
      /\ adb.t \in {"TWDATA", "data", "FILE"} => InFile(adb') /\ adb'.f = adb.f
      /\ adb.t # "FILE" => Sent(adb') = Sent(adb)
  BY <1>1, StreamPlaced
<1>3. adb.t = "FILE" => Sent(adb) = adb.f - 1 /\ Sent(adb') = adb.f
  BY <1>2 DEF Sent, InFile
<1> QED
  BY <1>2, <1>3

-----------------------------------------------------------------------------
(* Types *)

\* The parts of the type invariant add up to TypeOK.
LEMMA TypeImplied == RestoreType /\ EofInv => TypeOK
<1> SUFFICES ASSUME RestoreType, EofInv PROVE TypeOK
  OBVIOUS
<1> USE Sizes DEF RestoreType
<1>1. eofs \in 0 .. F
  <2>1. Finished \in 0 .. F
    BY DEF Finished, TwrpType
  <2> DEFINE e == IF Ending THEN 1 ELSE 0
  <2>2. Len(toBu) \in Nat /\ Len(toBu) >= e /\ e \in {0, 1}
    BY DEF EofInv, FifoType
  <2>3. eofs + Len(toBu) <= Finished + e /\ eofs \in Nat
    BY DEF EofInv, BuType
  <2> HIDE DEF e
  <2> QED
    BY <2>1, <2>2, <2>3
<1>2. /\ writing \in BOOLEAN /\ reading \in BOOLEAN
      /\ read_from_adb \in BOOLEAN /\ tweofrcvd \in BOOLEAN /\ md5sumdata \in BOOLEAN
  BY Zenon DEF FlagType
<1>3. /\ Len(data) <= PipeSize
      /\ bpc \in {"poll", "adb", "open", "chunk", "finished"}
      /\ adb \in StreamBlock /\ left \in 0 .. M - 2
  BY Zenon DEF FifoType, BuType, WellPlaced
<1>4. /\ tpc \in {"loop", "prepare", "open", "read", "eof", "end", "done"}
      /\ file \in 0 .. F /\ got \in [1 .. F -> Seq(DataBlock)]
      /\ ret \in {"none", "ok", "md5", "failed"}
  BY Zenon DEF TwrpType
<1> QED
  BY <1>1, <1>2, <1>3, <1>4, Zenon DEF TypeOK, StreamBlock, StreamTypes, DataBlock

\* They hold at the start of bu and TWRP.
LEMMA TypeInit == Init => RestoreType /\ EofInv
<1> SUFFICES ASSUME Init PROVE RestoreType /\ EofInv
  OBVIOUS
<1> USE Sizes DEF Init
<1>1. BuType
  BY DEF BuType, WellPlaced, StreamBlock, StreamTypes, Block, InFile
<1>2. FlagType
  BY DEF FlagType
<1>3. TwrpType
  BY DEF TwrpType
<1>4. FifoType
  BY DEF FifoType
<1>5. EofInv
  BY DEF EofInv, Ending, Finished
<1> QED
  BY <1>1, <1>2, <1>3, <1>4, <1>5 DEF RestoreType

\* Every step of bu keeps its counters and its place in the stream well formed.
LEMMA BuTypeStep ==
    ASSUME RestoreType, Next
    PROVE  BuType'
<1> USE Sizes DEF RestoreType, ToPoll
<1>1. CASE PollNothing \/ ReceiveTWEOF \/ ReceiveTWENDADB \/ AdbIdle
  BY <1>1 DEF BuType, PollNothing, ReceiveTWEOF, ReceiveTWENDADB, AdbIdle
<1>2. CASE RestoreStreamHeader \/ RestoreFile
  BY <1>2, FreadPlaced DEF BuType, RestoreStreamHeader, RestoreFile, Reads
<1>3. CASE RestoreChunk \/ RestoreUnread
  BY <1>3, FreadPlaced DEF BuType, RestoreChunk, RestoreUnread, Reads
<1>4. CASE RestoreTrailer \/ RestoreEnd
  BY <1>4, FreadPlaced DEF BuType, RestoreTrailer, RestoreEnd, Reads
<1>5. CASE ChunkTrailer \/ ChunkUnread
  BY <1>5, FreadPlaced DEF BuType, ChunkTrailer, ChunkUnread, ChunkReads
<1>6. CASE ChunkWrite
  <2>1. adb.t \in {"TWDATA", "data"}
    BY <1>6 DEF ChunkWrite, ChunkReads, BuType, InFile
  <2> QED
    BY <1>6, <2>1, FreadPlaced DEF BuType, ChunkWrite, ChunkReads
<1>7. CASE OpenForReading
  BY <1>7 DEF BuType, OpenForReading
<1>8. CASE ReceiveStreamHeader \/ ReceiveFile \/ ReadBlock \/ CloseReader \/ WriteTWEOF
  BY <1>8 DEF BuType, ReceiveStreamHeader, ReceiveFile, ReadBlock, CloseReader, WriteTWEOF, bu
<1>9. CASE RestoreFails \/ ReceiveMD5Trailer \/ ReceiveTWMD5 \/ ReceiveEnd \/ WriteTWENDADB
  BY <1>9 DEF BuType, RestoreFails, ReceiveMD5Trailer, ReceiveTWMD5, ReceiveEnd, WriteTWENDADB, bu
<1>10. CASE Ended
  BY <1>10 DEF BuType, Ended, vars, bu
<1> QED
  BY <1>1, <1>2, <1>3, <1>4, <1>5, <1>6, <1>7, <1>8, <1>9, <1>10 DEF Next, BuStep, TwrpStep

\* Flags stay Boolean.
LEMMA FlagTypeStep ==
    ASSUME RestoreType, Next
    PROVE  FlagType'
<1> USE DEF RestoreType, FlagType
<1>1. CASE PollNothing \/ ReceiveTWEOF \/ ReceiveTWENDADB \/ AdbIdle
  BY <1>1, Zenon DEF PollNothing, ReceiveTWEOF, ReceiveTWENDADB, AdbIdle, fifos
<1>2. CASE RestoreStreamHeader \/ RestoreFile \/ RestoreChunk \/ RestoreUnread \/ RestoreEnd
  BY <1>2, Zenon DEF RestoreStreamHeader, RestoreFile, RestoreChunk, RestoreUnread, RestoreEnd, fifos
<1>3. CASE RestoreTrailer \/ ChunkTrailer
  <2>1. /\ \E counted \in {fileBlocks, fileBlocks + 1} : writing' = (writing /\ counted < Size[adb.f])
        /\ tweofrcvd' = FALSE /\ read_from_adb' = tweofrcvd /\ reading' = reading
        /\ md5sumdata' \in {FALSE, md5sumdata} /\ overtaken' = overtaken
    BY <1>3, Zenon DEF RestoreTrailer, ChunkTrailer, MD5Trailer
  <2> QED
    BY <2>1, Zenon
<1>4. CASE ChunkWrite \/ ChunkUnread
  BY <1>4, Zenon DEF ChunkWrite, ChunkUnread, fifos
<1>5. CASE ReceiveStreamHeader \/ ReceiveFile \/ OpenForReading \/ ReadBlock \/ CloseReader \/ WriteTWEOF
  BY <1>5, Zenon DEF ReceiveStreamHeader, ReceiveFile, OpenForReading, ReadBlock, CloseReader, WriteTWEOF, bu
<1>6. CASE RestoreFails \/ ReceiveMD5Trailer \/ ReceiveTWMD5 \/ ReceiveEnd \/ WriteTWENDADB
  BY <1>6, Zenon DEF RestoreFails, ReceiveMD5Trailer, ReceiveTWMD5, ReceiveEnd, WriteTWENDADB, bu
<1>7. CASE Ended
  BY <1>7, Zenon DEF Ended, vars, bu, fifos
<1> QED
  BY <1>1, <1>2, <1>3, <1>4, <1>5, <1>6, <1>7 DEF Next, BuStep, TwrpStep

\* Steps that leave TWRP alone, and steps that leave bu alone.
BuAlone ==
    \/ PollNothing \/ ReceiveTWEOF \/ ReceiveTWENDADB \/ AdbIdle
    \/ RestoreStreamHeader \/ RestoreChunk \/ RestoreUnread
    \/ RestoreTrailer \/ RestoreEnd \/ ChunkTrailer \/ ChunkWrite \/ ChunkUnread
TwrpAlone ==
    \/ ReceiveStreamHeader \/ ReceiveFile \/ ReadBlock \/ CloseReader
    \/ WriteTWEOF \/ RestoreFails \/ ReceiveMD5Trailer \/ ReceiveTWMD5 \/ ReceiveEnd
    \/ WriteTWENDADB

\* A step is bu's, TWRP's, or the one in which both come out of open.
LEMMA Steps == Next => BuAlone \/ RestoreFile \/ TwrpAlone \/ OpenForReading \/ UNCHANGED vars
  BY Zenon DEF Next, BuStep, TwrpStep, Ended, BuAlone, TwrpAlone

\* What a step of bu leaves alone, ...
LEMMA BuAloneFrame == BuAlone => UNCHANGED <<twrp, reading, overtaken>>
  BY Zenon DEF BuAlone, PollNothing, ReceiveTWEOF, ReceiveTWENDADB, AdbIdle, RestoreStreamHeader,
     RestoreChunk, RestoreUnread, RestoreTrailer, RestoreEnd, ChunkTrailer, ChunkWrite, ChunkUnread, fifos

\* ... and a step of TWRP.
LEMMA TwrpAloneFrame == TwrpAlone => UNCHANGED <<bu, writing, eofs, overtaken>>
  BY Zenon DEF TwrpAlone, ReceiveStreamHeader, ReceiveFile, ReadBlock, CloseReader, WriteTWEOF,
     RestoreFails, ReceiveMD5Trailer, ReceiveTWMD5, ReceiveEnd, WriteTWENDADB

\* Every step keeps TWRP's state well formed.
LEMMA TwrpTypeStep ==
    ASSUME RestoreType, Next
    PROVE  TwrpType'
<1> USE Sizes DEF RestoreType
<1>1. CASE BuAlone
  BY <1>1, BuAloneFrame DEF TwrpType, twrp
<1>2. CASE RestoreFile
  BY <1>2 DEF TwrpType, RestoreFile
<1>3. CASE OpenForReading
  BY <1>3 DEF TwrpType, OpenForReading
<1>4. CASE ReceiveStreamHeader \/ WriteTWEOF \/ WriteTWENDADB
  BY <1>4 DEF TwrpType, ReceiveStreamHeader, WriteTWEOF, WriteTWENDADB, twrp
<1>5. CASE ReceiveFile
  <2>1. Head(toTwrp).f \in 1 .. F
    <3>1. Head(toTwrp) = toTwrp[1] /\ toTwrp[1] \in Message /\ Len(toTwrp) > 0
      BY <1>5, AfterTake DEF ReceiveFile, Receive, FifoType
    <3>2. toTwrp[1].t = "FILE" /\ toTwrp[1].f \in 0 .. F
      BY <1>5, <3>1 DEF ReceiveFile, Receive, Message
    <3>3. toTwrp[1].f > 0
      BY <3>1, <3>2 DEF FifoType
    <3> QED
      BY <3>1, <3>2, <3>3
  <2> QED
    BY <1>5, <2>1 DEF TwrpType, ReceiveFile, Receive
<1>6. CASE ReadBlock
  <2>1. Head(data) \in DataBlock /\ file \in 1 .. F
    BY <1>6, AfterTake DEF ReadBlock, FifoType, TwrpType
  <2>2. Append(got[file], Head(data)) \in Seq(DataBlock)
    BY <2>1, AfterPut DEF TwrpType
  <2>3. got' \in [1 .. F -> Seq(DataBlock)]
    BY <1>6, <2>1, <2>2 DEF ReadBlock, TwrpType
  <2> QED
    BY <1>6, <2>3 DEF ReadBlock, TwrpType
<1>7. CASE CloseReader \/ RestoreFails
  BY <1>7 DEF TwrpType, CloseReader, RestoreFails
<1>8. CASE ReceiveMD5Trailer \/ ReceiveTWMD5 \/ ReceiveEnd
  <2>1. Head(toTwrp).i \in Nat
    <3>1. toTwrp \in Seq(Message) /\ toTwrp # <<>>
      BY <1>8 DEF ReceiveMD5Trailer, ReceiveTWMD5, ReceiveEnd, Receive, FifoType
    <3>2. Head(toTwrp) \in Message
      BY <3>1, AfterTake
    <3> QED
      BY <3>2 DEF Message
  <2> QED
    BY <1>8, <2>1 DEF TwrpType, ReceiveMD5Trailer, ReceiveTWMD5, ReceiveEnd, Receive
<1>9. CASE UNCHANGED vars
  BY <1>9 DEF TwrpType, vars, twrp, fifos
<1> QED
  BY <1>1, <1>2, <1>3, <1>4, <1>5, <1>6, <1>7, <1>8, <1>9, Steps DEF TwrpAlone

\* The messages that bu sends.
LEMMA MessageTypes ==
    ASSUME BuType
    PROVE  /\ adb.t \in {"TWSTREAMHDR", "FILE", "MD5TRAILER", "TWENDADB"} => adb \in Message
           /\ Block("TWMD5", 0, digest) \in Message
           /\ adb.t \in {"data", "TWDATA"} => adb \in DataBlock
  BY Sizes DEF BuType, WellPlaced, StreamBlock, Message, DataBlock, Block, InFile

\* The queue to TWRP after a message is sent or received.
LEMMA ToTwrpPut ==
    ASSUME FifoType, NEW m \in Message, m.t = "FILE" => m.f > 0, toTwrp' = Append(toTwrp, m)
    PROVE  toTwrp' \in Seq(Message) /\ \A k \in 1 .. Len(toTwrp') : toTwrp'[k].t = "FILE" => toTwrp'[k].f > 0
<1>1. toTwrp \in Seq(Message) /\ Len(toTwrp) \in Nat
  BY DEF FifoType
<1>2. /\ toTwrp' \in Seq(Message) /\ Len(toTwrp') = Len(toTwrp) + 1
      /\ \A k \in 1 .. Len(toTwrp) : toTwrp'[k] = toTwrp[k]
      /\ toTwrp'[Len(toTwrp) + 1] = m
  BY <1>1, AfterPut
<1> QED
  BY <1>1, <1>2 DEF FifoType

\* Receiving a message keeps the control FIFO well formed.
LEMMA ToTwrpTake ==
    ASSUME FifoType, NEW t, Receive(t)
    PROVE  toTwrp' \in Seq(Message) /\ \A k \in 1 .. Len(toTwrp') : toTwrp'[k].t = "FILE" => toTwrp'[k].f > 0
<1>1. toTwrp \in Seq(Message) /\ Len(toTwrp) \in Nat /\ toTwrp # <<>> /\ toTwrp' = Tail(toTwrp)
  BY DEF FifoType, Receive
<1>2. /\ toTwrp' \in Seq(Message) /\ Len(toTwrp') = Len(toTwrp) - 1
      /\ \A k \in 1 .. Len(toTwrp) - 1 : toTwrp'[k] = toTwrp[k + 1]
  BY <1>1, AfterTake
<1> QED
  BY <1>1, <1>2 DEF FifoType

\* What closing an end leaves in the data FIFO.
LEMMA KeptType ==
    ASSUME FifoType, NEW open \in BOOLEAN
    PROVE  /\ Kept(open) \in Seq(DataBlock) /\ Len(Kept(open)) <= PipeSize
           /\ ~open => Kept(open) = <<>>
           /\ open => Kept(open) = data
  BY Sizes DEF FifoType, Kept

\* Every step keeps the FIFOs well formed, the data FIFO within its size.
LEMMA FifoTypeStep ==
    ASSUME RestoreType, Next
    PROVE  FifoType'
<1> USE Sizes DEF RestoreType
<1>1. CASE PollNothing \/ AdbIdle \/ RestoreChunk \/ RestoreUnread \/ ChunkUnread
  BY <1>1 DEF FifoType, PollNothing, AdbIdle, RestoreChunk, RestoreUnread, ChunkUnread, fifos
<1>2. CASE ReceiveTWEOF \/ ReceiveTWENDADB
  <2>1. toBu' \in Seq({"TWEOF", "TWENDADB"})
    <3>1. toBu \in Seq({"TWEOF", "TWENDADB"}) /\ toBu # <<>> /\ toBu' = Tail(toBu)
      BY <1>2 DEF FifoType, ReceiveTWEOF, ReceiveTWENDADB
    <3> QED
      BY <3>1, AfterTake
  <2>2. ~writing' /\ data' = Kept(reading) /\ UNCHANGED <<toTwrp, reading>>
    BY <1>2 DEF ReceiveTWEOF, ReceiveTWENDADB
  <2> QED
    BY <2>1, <2>2, KeptType DEF FifoType, FlagType
<1>3. CASE RestoreStreamHeader \/ RestoreEnd \/ RestoreFile
  <2>1. adb \in Message /\ (adb.t = "FILE" => adb.f > 0) /\ toTwrp' = Append(toTwrp, adb)
    BY <1>3, MessageTypes DEF RestoreStreamHeader, RestoreEnd, RestoreFile, Reads, BuType, WellPlaced
  <2>2. toTwrp' \in Seq(Message) /\ \A k \in 1 .. Len(toTwrp') : toTwrp'[k].t = "FILE" => toTwrp'[k].f > 0
    BY <2>1, ToTwrpPut
  <2> QED
    BY <1>3, <2>2 DEF FifoType, RestoreStreamHeader, RestoreEnd, RestoreFile
<1>4. CASE RestoreTrailer \/ ChunkTrailer
  <2>1. adb \in Message /\ adb.t = "MD5TRAILER" /\ (MD5Trailer(fileBlocks) \/ MD5Trailer(fileBlocks + 1))
    BY <1>4, MessageTypes DEF RestoreTrailer, ChunkTrailer, Reads, ChunkReads
  <2> DEFINE q == toTwrp \o <<adb, Block("TWMD5", 0, digest)>>
  <2>2. /\ q \in Seq(Message) /\ Len(q) = Len(toTwrp) + 2 /\ Len(toTwrp) \in Nat
        /\ \A k \in 1 .. Len(toTwrp) : q[k] = toTwrp[k]
        /\ q[Len(toTwrp) + 1] = adb /\ q[Len(toTwrp) + 2] = Block("TWMD5", 0, digest)
    BY <2>1, MessageTypes, AfterPair DEF FifoType
  <2>3. Block("TWMD5", 0, digest).t # "FILE"
    BY DEF Block
  <2>4. toTwrp' = q
    BY <2>1 DEF MD5Trailer
  <2> HIDE DEF q
  <2>5. \A k \in 1 .. Len(q) : q[k].t = "FILE" => q[k].f > 0
    <3> SUFFICES ASSUME NEW k \in 1 .. Len(q), q[k].t = "FILE" PROVE q[k].f > 0
      OBVIOUS
    <3>1. k \in 1 .. Len(toTwrp) \/ k = Len(toTwrp) + 1 \/ k = Len(toTwrp) + 2
      BY <2>2
    <3>2. k \in 1 .. Len(toTwrp)
      BY <3>1, <2>1, <2>2, <2>3
    <3> QED
      BY <3>2, <2>2 DEF FifoType
  <2>6. data' = Kept(reading \/ writing') /\ UNCHANGED <<toBu, reading>>
    BY <1>4, <2>1 DEF RestoreTrailer, ChunkTrailer, MD5Trailer
  <2>7. (reading \/ writing') \in BOOLEAN
    BY Zenon
  <2>8. /\ data' \in Seq(DataBlock) /\ Len(data') <= PipeSize
        /\ ~(reading \/ writing') => data' = <<>>
    BY <2>6, <2>7, KeptType
  <2> QED
    BY <2>2, <2>4, <2>5, <2>6, <2>8 DEF FifoType
<1>5. CASE ChunkWrite
  <2>1. adb \in DataBlock
    BY <1>5, MessageTypes DEF ChunkWrite, ChunkReads, BuType, InFile
  <2>2. data' \in Seq(DataBlock) /\ Len(data') = Len(data) + 1
    BY <1>5, <2>1, AfterPut DEF ChunkWrite, FifoType
  <2> QED
    BY <1>5, <2>2 DEF FifoType, ChunkWrite
<1>6. CASE ReceiveStreamHeader \/ ReceiveFile \/ ReceiveMD5Trailer \/ ReceiveTWMD5 \/ ReceiveEnd
  <2>1. \E t \in {"TWSTREAMHDR", "FILE", "MD5TRAILER", "TWMD5", "TWENDADB"} : Receive(t)
    BY <1>6 DEF ReceiveStreamHeader, ReceiveFile, ReceiveMD5Trailer, ReceiveTWMD5, ReceiveEnd
  <2>2. toTwrp' \in Seq(Message) /\ \A k \in 1 .. Len(toTwrp') : toTwrp'[k].t = "FILE" => toTwrp'[k].f > 0
    BY <2>1, ToTwrpTake
  <2>3. UNCHANGED <<toBu, data, writing, reading>>
    BY <1>6 DEF ReceiveStreamHeader, ReceiveFile, ReceiveMD5Trailer, ReceiveTWMD5, ReceiveEnd
  <2> QED
    BY <2>2, <2>3 DEF FifoType
<1>7. CASE OpenForReading \/ CloseReader \/ RestoreFails
  <2>1. UNCHANGED <<toTwrp, toBu, writing>>
    BY <1>7 DEF OpenForReading, CloseReader, RestoreFails
  <2>2. (reading' /\ UNCHANGED data) \/ data' = Kept(writing)
    BY <1>7 DEF OpenForReading, CloseReader, RestoreFails
  <2> QED
    BY <2>1, <2>2, KeptType DEF FifoType, FlagType
<1>8. CASE ReadBlock
  <2>1. data' \in Seq(DataBlock) /\ Len(data') <= PipeSize
    BY <1>8, AfterTake DEF ReadBlock, FifoType
  <2>2. reading
    BY <1>8 DEF ReadBlock, TwrpType
  <2> QED
    BY <1>8, <2>1, <2>2 DEF ReadBlock, FifoType
<1>9. CASE WriteTWEOF \/ WriteTWENDADB
  <2>1. toBu' \in Seq({"TWEOF", "TWENDADB"})
    <3>1. PICK m \in {"TWEOF", "TWENDADB"} : toBu' = Append(toBu, m)
      BY <1>9 DEF WriteTWEOF, WriteTWENDADB
    <3>2. toBu \in Seq({"TWEOF", "TWENDADB"})
      BY DEF FifoType
    <3> QED
      BY <3>1, <3>2, AfterPut
  <2> QED
    BY <1>9, <2>1 DEF WriteTWEOF, WriteTWENDADB, FifoType
<1>10. CASE UNCHANGED vars
  BY <1>10 DEF FifoType, vars, fifos
<1> QED
  BY <1>1, <1>2, <1>3, <1>4, <1>5, <1>6, <1>7, <1>8, <1>9, <1>10, Steps DEF BuAlone, TwrpAlone

-----------------------------------------------------------------------------
(* The messages of the two processes *)

\* The last partition sent is a partition, or none.
LEMMA SentType == BuType => Sent(adb) \in 0 .. F
  BY Sizes DEF BuType, WellPlaced, StreamBlock, Sent, InFile

\* bu sends something, and it may be a header.
LEMMA QueuePut ==
    ASSUME RestoreType, QueueInv, NEW m \in Message, toTwrp' = Append(toTwrp, m), file' = file,
           Sent(adb') \in Nat, Sent(adb') >= Sent(adb),
           m.t = "FILE" => m.f = Sent(adb') /\ Sent(adb') = Sent(adb) + 1
    PROVE  QueueInv'
<1>1. toTwrp \in Seq(Message) /\ Len(toTwrp) \in Nat
  BY DEF RestoreType, FifoType
<1> DEFINE n == Len(toTwrp)
<1>2. /\ Len(toTwrp') = n + 1 /\ \A k \in 1 .. n : toTwrp'[k] = toTwrp[k] /\ toTwrp[k] \in Message
      /\ toTwrp'[n + 1] = m
  BY <1>1, AfterPut
<1>3. file \in Nat /\ Sent(adb) \in Nat
  BY SentType DEF RestoreType, TwrpType
<1>4. \A k \in 1 .. n : toTwrp[k].f \in Nat
  BY <1>2 DEF Message
<1> HIDE DEF n
<1>5. \A k \in 1 .. n + 1 :
         toTwrp'[k].t = "FILE" => file < toTwrp'[k].f /\ toTwrp'[k].f <= Sent(adb')
  <2> SUFFICES ASSUME NEW k \in 1 .. n + 1, toTwrp'[k].t = "FILE"
               PROVE  file < toTwrp'[k].f /\ toTwrp'[k].f <= Sent(adb')
    OBVIOUS
  <2>1. CASE k \in 1 .. n
    BY <2>1, <1>2, <1>3, <1>4 DEF QueueInv, n
  <2>2. CASE k = n + 1
    BY <2>2, <1>2, <1>3 DEF QueueInv
  <2> QED
    BY <2>1, <2>2, <1>1 DEF n
<1>6. \A j, k \in 1 .. n + 1 :
         j < k /\ toTwrp'[j].t = "FILE" /\ toTwrp'[k].t = "FILE" => toTwrp'[j].f < toTwrp'[k].f
  <2> SUFFICES ASSUME NEW j \in 1 .. n + 1, NEW k \in 1 .. n + 1,
                      j < k, toTwrp'[j].t = "FILE", toTwrp'[k].t = "FILE"
               PROVE  toTwrp'[j].f < toTwrp'[k].f
    OBVIOUS
  <2>0. j \in 1 .. n /\ (k \in 1 .. n \/ k = n + 1)
    BY <1>1 DEF n
  <2>1. CASE k \in 1 .. n
    BY <2>0, <2>1, <1>2 DEF QueueInv, n
  <2>2. CASE k = n + 1
    <3>1. toTwrp'[k].f = Sent(adb) + 1 /\ toTwrp'[j] = toTwrp[j]
      BY <2>0, <2>2, <1>2
    <3>2. toTwrp[j].f <= Sent(adb)
      BY <2>0, <3>1 DEF QueueInv, n
    <3> QED
      BY <3>1, <3>2, <2>0, <1>3, <1>4
  <2> QED
    BY <2>0, <2>1, <2>2
<1> QED
  BY <1>2, <1>3, <1>5, <1>6 DEF QueueInv

\* bu sends nothing.
LEMMA QueueSame ==
    ASSUME RestoreType, QueueInv, toTwrp' = toTwrp, file' = file, Sent(adb') = Sent(adb)
    PROVE  QueueInv'
  BY DEF QueueInv

\* TWRP takes a message.
LEMMA QueueTake ==
    ASSUME RestoreType, QueueInv, toTwrp # <<>>, toTwrp' = Tail(toTwrp), adb' = adb,
           file' = IF Head(toTwrp).t = "FILE" THEN Head(toTwrp).f ELSE file
    PROVE  QueueInv' /\ file' >= file /\ (Head(toTwrp).t = "FILE" => file' > file)
<1>1. toTwrp \in Seq(Message) /\ Len(toTwrp) \in Nat
  BY DEF RestoreType, FifoType
<1> DEFINE n == Len(toTwrp) - 1
<1>2. /\ n \in Nat /\ Len(toTwrp') = n /\ Head(toTwrp) = toTwrp[1]
      /\ \A k \in 1 .. n : toTwrp'[k] = toTwrp[k + 1] /\ toTwrp[k + 1] \in Message
      /\ toTwrp[1] \in Message
  BY <1>1, AfterTake
<1>3. file \in Nat /\ Sent(adb) \in Nat
  BY SentType DEF RestoreType, TwrpType
<1>4. \A k \in 1 .. n : toTwrp'[k].f \in Nat /\ toTwrp[k + 1].f \in Nat
  BY <1>2 DEF Message
<1>5. file' <= Sent(adb) /\ file' >= file /\ (Head(toTwrp).t = "FILE" => file' > file)
  <2>1. 1 \in 1 .. Len(toTwrp) /\ toTwrp[1].f \in Nat
    BY <1>1, <1>2 DEF Message
  <2> QED
    BY <1>2, <1>3, <2>1 DEF QueueInv
<1>6. \A k \in 1 .. n : toTwrp'[k].t = "FILE" => file' < toTwrp'[k].f /\ toTwrp'[k].f <= Sent(adb)
  <2> SUFFICES ASSUME NEW k \in 1 .. n, toTwrp'[k].t = "FILE"
               PROVE  file' < toTwrp'[k].f /\ toTwrp'[k].f <= Sent(adb)
    OBVIOUS
  <2>1. 1 \in 1 .. Len(toTwrp) /\ k + 1 \in 1 .. Len(toTwrp) /\ 1 < k + 1 /\ toTwrp'[k] = toTwrp[k + 1]
    BY <1>1, <1>2
  <2>2. file < toTwrp[k + 1].f /\ toTwrp[k + 1].f <= Sent(adb)
    BY <2>1 DEF QueueInv
  <2>3. toTwrp[1].t = "FILE" => toTwrp[1].f < toTwrp[k + 1].f
    BY <2>1 DEF QueueInv
  <2> QED
    BY <1>2, <2>1, <2>2, <2>3
<1>7. \A j, k \in 1 .. n :
         j < k /\ toTwrp'[j].t = "FILE" /\ toTwrp'[k].t = "FILE" => toTwrp'[j].f < toTwrp'[k].f
  <2> SUFFICES ASSUME NEW j \in 1 .. n, NEW k \in 1 .. n,
                      j < k, toTwrp'[j].t = "FILE", toTwrp'[k].t = "FILE"
               PROVE  toTwrp'[j].f < toTwrp'[k].f
    OBVIOUS
  <2>1. j + 1 \in 1 .. Len(toTwrp) /\ k + 1 \in 1 .. Len(toTwrp) /\ j + 1 < k + 1
    BY <1>1
  <2> QED
    BY <1>2, <2>1 DEF QueueInv
<1> HIDE DEF n
<1> QED
  BY <1>2, <1>5, <1>6, <1>7 DEF QueueInv

\* Headers stay in order on their way to TWRP.
LEMMA QueueStep ==
    ASSUME RestoreType, QueueInv, Next
    PROVE  QueueInv'
<1> USE DEF RestoreType
<1>1. CASE PollNothing \/ ReceiveTWEOF \/ ReceiveTWENDADB \/ AdbIdle
  BY <1>1, QueueSame DEF PollNothing, ReceiveTWEOF, ReceiveTWENDADB, AdbIdle, fifos, twrp
<1>2. CASE RestoreChunk \/ RestoreUnread \/ ChunkWrite \/ ChunkUnread
  <2>1. fread /\ adb.t # "FILE" /\ UNCHANGED <<toTwrp, file>>
    BY <1>2 DEF RestoreChunk, RestoreUnread, ChunkWrite, ChunkUnread, Reads, ChunkReads, fifos, twrp,
       BuType, InFile
  <2> QED
    BY <2>1, FreadPlaced, QueueSame
<1>3. CASE RestoreStreamHeader \/ RestoreEnd \/ RestoreFile
  <2>1. /\ fread /\ adb \in Message /\ toTwrp' = Append(toTwrp, adb) /\ file' = file
    BY <1>3, MessageTypes DEF RestoreStreamHeader, RestoreEnd, RestoreFile, Reads, twrp
  <2>2. /\ Sent(adb') \in Nat /\ Sent(adb') >= Sent(adb)
        /\ adb.t = "FILE" => adb.f = Sent(adb') /\ Sent(adb') = Sent(adb) + 1
    BY <2>1, FreadPlaced, SentType DEF BuType, WellPlaced, StreamBlock
  <2> QED
    BY <2>1, <2>2, QueuePut
<1>4. CASE RestoreTrailer \/ ChunkTrailer
  <2>1. fread /\ adb.t = "MD5TRAILER" /\ (MD5Trailer(fileBlocks) \/ MD5Trailer(fileBlocks + 1)) /\ file' = file
    BY <1>4 DEF RestoreTrailer, ChunkTrailer, Reads, ChunkReads, twrp
  <2>2. Sent(adb') = Sent(adb) /\ adb \in Message /\ Block("TWMD5", 0, digest) \in Message
    BY <2>1, FreadPlaced, MessageTypes
  <2> DEFINE n == Len(toTwrp)
  <2>3. /\ Len(toTwrp') = n + 2 /\ n \in Nat
        /\ \A k \in 1 .. n : toTwrp'[k] = toTwrp[k]
        /\ toTwrp'[n + 1] = adb /\ toTwrp'[n + 2] = Block("TWMD5", 0, digest)
    BY <2>1, <2>2, AfterPair DEF FifoType, MD5Trailer
  <2>4. Block("TWMD5", 0, digest).t # "FILE"
    BY DEF Block
  <2>5. \A k \in 1 .. n + 2 : toTwrp'[k].t = "FILE" => k \in 1 .. n /\ toTwrp'[k] = toTwrp[k]
    BY <2>1, <2>3, <2>4
  <2> QED
    BY <2>1, <2>2, <2>3, <2>5 DEF QueueInv
<1>5. CASE ReceiveStreamHeader \/ ReceiveFile \/ ReceiveMD5Trailer \/ ReceiveTWMD5 \/ ReceiveEnd
  <2>1. /\ toTwrp # <<>> /\ toTwrp' = Tail(toTwrp) /\ adb' = adb
        /\ file' = IF Head(toTwrp).t = "FILE" THEN Head(toTwrp).f ELSE file
    BY <1>5 DEF ReceiveStreamHeader, ReceiveFile, ReceiveMD5Trailer, ReceiveTWMD5, ReceiveEnd, Receive, bu, twrp
  <2> QED
    BY <2>1, QueueTake
<1>6. CASE OpenForReading \/ ReadBlock \/ CloseReader \/ WriteTWEOF \/ RestoreFails \/ WriteTWENDADB
  BY <1>6, QueueSame DEF OpenForReading, ReadBlock, CloseReader, WriteTWEOF, RestoreFails, WriteTWENDADB, bu
<1>7. CASE UNCHANGED vars
  BY <1>7, QueueSame DEF vars, fifos, bu, twrp
<1> QED
  BY <1>1, <1>2, <1>3, <1>4, <1>5, <1>6, <1>7, Steps DEF BuAlone, TwrpAlone

\* A step that sends bu nothing.
LEMMA EofSame ==
    ASSUME RestoreType, EofInv, toBu' = toBu, eofs' = eofs, Ending' = Ending,
           Finished' \in Nat, Finished' >= Finished,
           bpc' = "finished" => tpc' = "done"
    PROVE  EofInv'
<1>1. Finished \in Nat /\ eofs \in Nat /\ Len(toBu) \in Nat
  BY Sizes DEF RestoreType, Finished, TwrpType, BuType, FifoType
<1> QED
  BY <1>1 DEF EofInv

\* Arithmetic for the count of TWEOFs.
LEMMA Predecessor == \A x, y \in Nat : x > y => x - 1 \in Nat /\ x - 1 >= y
  OBVIOUS

\* No step makes bu hear of more partitions than TWRP has finished.
LEMMA EofStep ==
    ASSUME RestoreType, RestoreType', QueueInv, EofInv, Next
    PROVE  EofInv'
<1> USE DEF RestoreType
<1>0. /\ Finished \in Nat /\ Finished' \in Nat /\ eofs \in Nat /\ Len(toBu) \in Nat
      /\ toBu \in Seq({"TWEOF", "TWENDADB"})
  <2>1. file \in Nat /\ file' \in Nat
    BY Sizes DEF TwrpType
  <2>2. Finished \in Nat
    BY <2>1 DEF TwrpType, Finished
  <2>3. Finished' \in Nat
    <3>1. Finished' \in {file', file' - 1} /\ (Finished' = file' - 1 => file' > 0 \/ Finished' = file')
      BY DEF TwrpType, Finished
    <3>2. file' > 0 => file' - 1 \in Nat
      BY <2>1, Predecessor, 0 \in Nat, Zenon
    <3> QED
      BY <2>1, <3>1, <3>2, Zenon
  <2> QED
    BY <2>2, <2>3 DEF BuType, FifoType
<1>1. CASE PollNothing \/ AdbIdle
  BY <1>0, <1>1, EofSame DEF EofInv, PollNothing, AdbIdle, ToPoll, Ending, Finished, fifos, twrp
<1>2. CASE RestoreStreamHeader \/ RestoreChunk \/ RestoreUnread \/ RestoreTrailer \/ RestoreEnd
  BY <1>0, <1>2, EofSame DEF EofInv, RestoreStreamHeader, RestoreChunk, RestoreUnread, RestoreTrailer, RestoreEnd,
     Reads, ToPoll, Ending, Finished, fifos, twrp
<1>3. CASE ChunkTrailer \/ ChunkWrite \/ ChunkUnread
  BY <1>0, <1>3, EofSame DEF EofInv, ChunkTrailer, ChunkWrite, ChunkUnread, ChunkReads, ToPoll, Ending, Finished, fifos, twrp
<1>4. CASE RestoreFile
  BY <1>0, <1>4, EofSame DEF EofInv, RestoreFile, Reads, Ending, Finished
<1>5. CASE OpenForReading
  BY <1>0, <1>5, EofSame DEF EofInv, OpenForReading, Ending, Finished
<1>6. CASE ReceiveTWEOF
  <2>1. toBu # <<>> /\ toBu[1] = "TWEOF" /\ toBu' = Tail(toBu) /\ eofs' = eofs + 1
    BY <1>0, <1>6, AfterTake DEF ReceiveTWEOF
  <2>2. Ending' = Ending /\ Finished' = Finished
    BY <1>6 DEF ReceiveTWEOF, Ending, Finished, twrp
  <2> DEFINE n == Len(toBu)
  <2>3. n > 0 /\ Len(toBu') = n - 1 /\ \A k \in 1 .. n - 1 : toBu'[k] = toBu[k + 1]
    BY <1>0, <2>1, AfterTake
  <2>4. Ending => n > 1
    <3>1. 1 \in 1 .. n
      BY <1>0, <2>3
    <3>2. ~(Ending /\ 1 = n)
      BY <2>1, <3>1 DEF EofInv
    <3> QED
      BY <1>0, <2>3, <3>2
  <2>5. \A k \in 1 .. n - 1 : k + 1 \in 1 .. n /\ (k = n - 1 <=> k + 1 = n)
    BY <1>0
  <2>6. \A k \in 1 .. n - 1 : toBu'[k] = IF Ending /\ k = n - 1 THEN "TWENDADB" ELSE "TWEOF"
    BY <2>3, <2>5 DEF EofInv
  <2>7. eofs' + (n - 1) <= Finished + (IF Ending THEN 1 ELSE 0)
    BY <2>1, <1>0 DEF EofInv
  <2>8. bpc' = "finished" => tpc' = "done"
    BY <1>6 DEF ReceiveTWEOF
  <2>9. Ending' => n - 1 > 0
    BY <1>0, <2>2, <2>4
  <2> HIDE DEF n
  <2> QED
    BY <2>2, <2>3, <2>6, <2>7, <2>8, <2>9 DEF EofInv
<1>7. CASE ReceiveTWENDADB
  <2>1. toBu # <<>> /\ toBu[1] = "TWENDADB" /\ toBu' = Tail(toBu) /\ eofs' = eofs
    BY <1>0, <1>7, AfterTake DEF ReceiveTWENDADB
  <2>2. ~Ending' /\ Finished' = Finished
    BY <1>7 DEF ReceiveTWENDADB, Ending, Finished, twrp
  <2>3. Len(toBu) > 0 /\ Len(toBu') = Len(toBu) - 1
    BY <1>0, <2>1, AfterTake
  <2>4. Ending /\ Len(toBu) = 1
    <3>1. 1 \in 1 .. Len(toBu)
      BY <1>0, <2>3
    <3> QED
      BY <2>1, <3>1 DEF EofInv
  <2>5. tpc' = "done"
    BY <1>7, <2>4 DEF Ending, ReceiveTWENDADB, twrp
  <2> QED
    BY <1>0, <2>1, <2>2, <2>3, <2>4, <2>5 DEF EofInv
<1>8. CASE ReceiveFile
  <2>1. Receive("FILE") /\ file' = Head(toTwrp).f /\ adb' = adb
    BY <1>8 DEF ReceiveFile, bu
  <2>2. file' > file
    BY <2>1, QueueTake DEF Receive
  <2>3. Finished = file /\ Finished' = file' - 1
    BY <1>8 DEF ReceiveFile, Receive, Finished, TwrpType
  <2>4. Finished' >= Finished
    <3>1. file \in Nat /\ file' \in Nat
      BY Sizes DEF TwrpType
    <3>2. file' - 1 >= file
      BY <2>2, <3>1, Predecessor, Zenon
    <3> QED
      BY <2>3, <3>2, Zenon
  <2> QED
    BY <1>0, <1>8, <2>4, EofSame DEF EofInv, ReceiveFile, Receive, Ending, bu
<1>9. CASE ReceiveStreamHeader \/ ReadBlock \/ CloseReader \/ ReceiveMD5Trailer
  BY <1>0, <1>9, EofSame DEF EofInv, ReceiveStreamHeader, ReadBlock, CloseReader, ReceiveMD5Trailer, Receive,
     Ending, Finished, bu, twrp
<1>10. CASE ReceiveTWMD5 \/ ReceiveEnd \/ RestoreFails
  <2>1. ~Ending /\ ~Ending' /\ UNCHANGED <<toBu, eofs, file>>
    BY <1>10 DEF ReceiveTWMD5, ReceiveEnd, RestoreFails, Receive, Ending
  <2>2. Finished' = Finished
    BY <1>10, <2>1 DEF ReceiveTWMD5, ReceiveEnd, RestoreFails, Receive, Finished, TwrpType
  <2> QED
    <3>1. bpc' = "finished" => tpc' = "done"
      BY <1>10 DEF ReceiveTWMD5, ReceiveEnd, RestoreFails, Receive, EofInv, bu
    <3>2. Ending' = Ending
      BY <2>1, Zenon DEF Ending
    <3> QED
      BY <1>0, <2>1, <2>2, <3>1, <3>2, EofSame
<1>11. CASE WriteTWEOF
  <2>1. /\ toBu' = Append(toBu, "TWEOF") /\ Len(toBu') = Len(toBu) + 1
        /\ \A k \in 1 .. Len(toBu) : toBu'[k] = toBu[k]
        /\ toBu'[Len(toBu) + 1] = "TWEOF" /\ eofs' = eofs
    BY <1>0, <1>11, AfterPut DEF WriteTWEOF
  <2>2. ~Ending /\ ~Ending' /\ Finished' = Finished + 1
    BY <1>11 DEF WriteTWEOF, Ending, Finished, TwrpType
  <2>3. bpc' # "finished"
    BY <1>11 DEF WriteTWEOF, EofInv, bu
  <2>4. \A k \in 1 .. Len(toBu) + 1 : toBu'[k] = "TWEOF"
    BY <1>0, <2>1, <2>2 DEF EofInv
  <2>5. eofs + (Len(toBu) + 1) <= Finished + 1
    BY <1>0, <2>2 DEF EofInv
  <2> QED
    BY <1>0, <2>1, <2>2, <2>3, <2>4, <2>5 DEF EofInv
<1>12. CASE WriteTWENDADB
  <2>1. /\ toBu' = Append(toBu, "TWENDADB") /\ Len(toBu') = Len(toBu) + 1
        /\ \A k \in 1 .. Len(toBu) : toBu'[k] = toBu[k]
        /\ toBu'[Len(toBu) + 1] = "TWENDADB" /\ eofs' = eofs
    BY <1>0, <1>12, AfterPut DEF WriteTWENDADB
  <2>2. ~Ending /\ Ending' /\ Finished' = Finished
    BY <1>12 DEF WriteTWENDADB, Ending, Finished, EofInv, bu
  <2>3. tpc' = "done"
    BY <1>12 DEF WriteTWENDADB
  <2>4. \A k \in 1 .. Len(toBu) + 1 : toBu'[k] = IF k = Len(toBu) + 1 THEN "TWENDADB" ELSE "TWEOF"
    BY <1>0, <2>1, <2>2 DEF EofInv
  <2>5. eofs + (Len(toBu) + 1) <= Finished + 1
    BY <1>0, <2>2 DEF EofInv
  <2> QED
    BY <1>0, <2>1, <2>2, <2>3, <2>4, <2>5 DEF EofInv
<1>13. CASE UNCHANGED vars
  BY <1>0, <1>13, EofSame DEF EofInv, vars, fifos, bu, twrp, Ending, Finished
<1> QED
  BY <1>1, <1>2, <1>3, <1>4, <1>5, <1>6, <1>7, <1>8, <1>9, <1>10, <1>11, <1>12, <1>13, Steps
     DEF BuAlone, TwrpAlone

-----------------------------------------------------------------------------
(* The two processes, while bu has not overtaken TWRP *)

Good == RestoreType /\ QueueInv /\ EofInv /\ OrderInv

\* What the type invariant says of the numbers the next lemmas count with.
LEMMA Numbers ==
    ASSUME RestoreType
    PROVE  /\ file \in Nat /\ Sent(adb) \in Nat /\ eofs \in Nat /\ adb.f \in Nat /\ adb.i \in Nat
           /\ Finished \in {file, file - 1}
<1>1. file \in Nat /\ eofs \in Nat /\ adb.f \in Nat /\ adb.i \in Nat
  BY Sizes DEF RestoreType, TwrpType, BuType, WellPlaced, StreamBlock
<1>2. Sent(adb) \in Nat
  BY Sizes, SentType DEF RestoreType
<1>3. Finished \in {file, file - 1}
  BY DEF Finished
<1> QED
  BY <1>1, <1>2, <1>3

\* TWEOFs are sent for finished partitions only.
LEMMA EofsBound ==
    ASSUME RestoreType, EofInv
    PROVE  eofs <= Finished /\ (toBu # <<>> /\ Head(toBu) = "TWEOF" => eofs + 1 <= Finished)
<1>1. Finished \in Int /\ eofs \in Nat /\ Len(toBu) \in Nat
  BY Numbers DEF RestoreType, FifoType
<1> DEFINE e == IF Ending THEN 1 ELSE 0
<1>2. e \in {0, 1} /\ Len(toBu) >= e /\ eofs + Len(toBu) <= Finished + e
  BY <1>1 DEF EofInv
<1>3. ASSUME toBu # <<>>, Head(toBu) = "TWEOF"
      PROVE  Len(toBu) >= e + 1
  <2>1. Len(toBu) > 0 /\ toBu[1] = "TWEOF" /\ 1 \in 1 .. Len(toBu)
    BY <1>3, <1>1, AfterTake DEF RestoreType, FifoType
  <2>2. ~(Ending /\ 1 = Len(toBu))
    BY <2>1 DEF EofInv
  <2> QED
    <3>1. CASE Ending
      BY <1>1, <2>1, <2>2, <3>1
    <3>2. CASE ~Ending
      BY <1>1, <2>1, <3>2
    <3> QED
      BY <3>1, <3>2
<1> HIDE DEF e
<1> QED
  BY <1>1, <1>2, <1>3

\* While TWRP reads, bu is at the same partition.
LEMMA ReadingFacts ==
    ASSUME RestoreType, StepInv, reading
    PROVE  /\ tpc = "read" /\ file \in 1 .. F /\ Sent(adb) = file /\ bpc # "open"
           /\ InFile(adb) => writing /\ adb.f = file
<1>1. tpc = "read" /\ file \in 1 .. F /\ Sent(adb) = file /\ bpc # "open"
  BY Sizes DEF RestoreType, TwrpType, StepInv, PlaceInv, HeaderInv
<1> QED
  BY <1>1 DEF StepInv, PlaceInv, HeaderInv, Sent

\* Unless bu waits in open, TWRP has taken every header that was sent.
LEMMA NoHeader ==
    ASSUME RestoreType, StepInv, bpc # "open"
    PROVE  Sent(adb) = file /\ \A k \in 1 .. Len(toTwrp) : toTwrp[k].t # "FILE"
<1>1. file # file + 1
  BY Numbers
<1> QED
  BY <1>1 DEF StepInv, PlaceInv, HeaderInv

\* bu sends a header: TWRP waits for one, and nobody has the FIFO open.
LEMMA NewHeader ==
    ASSUME Good, RestoreFile, ~overtaken'
    PROVE  /\ ~reading /\ ~writing /\ data = <<>>
           /\ Sent(adb) = file /\ Sent(adb') = file + 1 /\ adb' = Block("TWDATA", file + 1, 0)
           /\ adb.f = file + 1 /\ eofs = file
           /\ tpc \notin {"prepare", "open", "read", "eof"}
           /\ \A k \in 1 .. Len(toTwrp) : toTwrp[k].t # "FILE"
<1> USE DEF Good, OrderInv, RestoreType
<1>1. adb.t = "FILE" /\ fread /\ bpc = "adb" /\ ~(eofs < adb.f - 1)
  BY DEF RestoreFile, Reads
<1>2. Sent(adb) = file /\ \A k \in 1 .. Len(toTwrp) : toTwrp[k].t # "FILE"
  BY <1>1, NoHeader
<1>3. Sent(adb) = adb.f - 1 /\ adb.f \in Nat /\ file \in Nat /\ eofs \in Nat
  BY <1>1, Numbers DEF Sent, InFile
<1>4. Finished = file /\ eofs = file
  <2>1. eofs <= Finished /\ Finished \in {file, file - 1}
    BY EofsBound, Numbers
  <2>2. eofs >= file
    BY <1>1, <1>2, <1>3
  <2> QED
    BY <1>3, <2>1, <2>2
<1>5. tpc \notin {"prepare", "open", "read", "eof"}
  BY <1>3, <1>4 DEF Finished
<1>6. ~reading
  BY <1>5 DEF TwrpType
<1>7. ~writing
  <2>1. writing => eofs < Sent(adb)
    BY Zenon DEF StepInv, PlaceInv, HeaderInv
  <2>2. ~(eofs < file)
    BY <1>3, <1>4
  <2> QED
    BY <1>2, <2>1, <2>2, Zenon
<1>8. adb' = Block("TWDATA", adb.f, 0) /\ Sent(adb') = adb.f
  BY <1>1, OneFurther, FreadPlaced DEF BuType, fread
<1>9. adb.f = file + 1
  BY <1>2, <1>3
<1> QED
  BY <1>2, <1>4, <1>5, <1>6, <1>7, <1>8, <1>9 DEF FifoType

\* TWRP takes a header: bu waits in open.
LEMMA HeaderTaken ==
    ASSUME Good, ReceiveFile
    PROVE  file' = file + 1 /\ Sent(adb) = file + 1 /\ bpc = "open" /\ Len(toTwrp') = 0 /\ tpc = "loop"
<1> USE DEF Good, OrderInv, RestoreType
<1>1. toTwrp # <<>> /\ Head(toTwrp).t = "FILE" /\ file' = Head(toTwrp).f /\ toTwrp' = Tail(toTwrp) /\ tpc = "loop"
  BY DEF ReceiveFile, Receive
<1>2. Len(toTwrp) \in Nat /\ Len(toTwrp) > 0 /\ Head(toTwrp) = toTwrp[1] /\ Len(toTwrp') = Len(toTwrp) - 1
  BY <1>1, AfterTake DEF FifoType
<1>3. 1 = Len(toTwrp) /\ toTwrp[1].f = file + 1 /\ Sent(adb) = file + 1
  <2>1. 1 \in 1 .. Len(toTwrp)
    BY <1>2
  <2> QED
    BY <1>1, <1>2, <2>1, Zenon DEF StepInv, PlaceInv, HeaderInv
<1>4. bpc = "open"
  BY <1>3, Numbers DEF StepInv, PlaceInv, HeaderInv
<1> QED
  BY <1>1, <1>2, <1>3, <1>4

\* bu hears of a partition: TWRP does not read any more.
LEMMA Heard ==
    ASSUME Good, ReceiveTWEOF
    PROVE  ~reading /\ tpc # "prepare"
<1> USE DEF Good, OrderInv, RestoreType
<1>1. eofs + 1 <= Finished /\ eofs >= Sent(adb) - 1 /\ bpc = "poll"
  BY EofsBound DEF ReceiveTWEOF, StepInv, PlaceInv, HeaderInv
<1>2. Sent(adb) = file
  BY <1>1, NoHeader
<1>3. Finished = file
  BY <1>1, <1>2, Numbers
<1>4. tpc \notin {"prepare", "open", "read", "eof"}
  BY <1>3, Numbers DEF Finished
<1> QED
  BY <1>4 DEF TwrpType

\* bu hears of the end: so has TWRP.
LEMMA HeardEnd ==
    ASSUME Good, ReceiveTWENDADB
    PROVE  tpc = "done" /\ ~reading
<1> USE DEF Good, RestoreType
<1>1. toBu # <<>> /\ Head(toBu) = "TWENDADB"
  BY DEF ReceiveTWENDADB
<1>2. toBu[1] = "TWENDADB" /\ 1 \in 1 .. Len(toBu)
  BY <1>1, AfterTake DEF FifoType
<1>3. Ending
  BY <1>2 DEF EofInv
<1> QED
  BY <1>3 DEF Ending, TwrpType

\* bu reads a block of a partition.
LEMMA BlockRead ==
    ASSUME RestoreType, fread, adb.t \in {"TWDATA", "data"}
    PROVE  /\ InFile(adb') /\ adb'.f = adb.f /\ Sent(adb') = Sent(adb)
           /\ Passed(adb') = adb.i
           /\ adb.t = "TWDATA" => adb'.t = "data" /\ left' = M - 2
           /\ adb.t = "data" /\ left > 0 => adb'.t = "data" /\ left' = left - 1
           /\ adb.t = "data" /\ left = 0 => adb'.t \in {"TWDATA", "MD5TRAILER"}
<1>1. WellPlaced(adb) /\ left \in 0 .. M - 2 /\ adb' = BlockAfter(adb, left) /\ left' = LeftAfter(adb, left)
  BY DEF RestoreType, BuType, fread
<1>2. /\ adb.t = "TWDATA" => adb' = Block("data", adb.f, adb.i + 1) /\ left' = M - 2
      /\ adb.t = "data" /\ left > 0 => adb' = Block("data", adb.f, adb.i + 1) /\ left' = left - 1
      /\ adb.t = "data" /\ left = 0 =>
           adb' \in {Block("TWDATA", adb.f, adb.i), Block("MD5TRAILER", adb.f, adb.i)}
  BY <1>1, OneFurther
<1>3. adb.i \in Nat /\ (left > 0 \/ left = 0)
  BY <1>1, Numbers
<1>4. Passed(adb') = adb.i
  BY <1>2, <1>3 DEF Passed, Block
<1>5. InFile(adb') /\ adb'.f = adb.f /\ Sent(adb') = Sent(adb)
  BY FreadPlaced DEF RestoreType
<1> QED
  BY <1>2, <1>4, <1>5 DEF Block

\* bu reads a message that ends or starts the stream, or a trailer.
LEMMA MessageRead ==
    ASSUME RestoreType, fread, adb.t \in {"TWSTREAMHDR", "MD5TRAILER", "TWENDADB"}
    PROVE  ~InFile(adb') /\ Sent(adb') = Sent(adb)
<1>1. WellPlaced(adb) /\ left \in 0 .. M - 2 /\ adb' = BlockAfter(adb, left)
  BY DEF RestoreType, BuType, fread
<1>2. Sent(adb') = Sent(adb)
  BY FreadPlaced DEF RestoreType
<1>3. adb.f \in 0 .. F /\ F \in Nat
  BY <1>1, Sizes DEF WellPlaced, StreamBlock
<1>4. 1 \in 1 .. F + 1 /\ adb.f + 1 \in 1 .. F + 1
  BY <1>3
<1>5. ~InFile(FileOrEnd(1)) /\ ~InFile(FileOrEnd(adb.f + 1)) /\ ~InFile(Block("none", 0, 0))
  BY <1>4, FileOrEndPlaced DEF InFile, Block
<1>6. adb' \in {FileOrEnd(1), FileOrEnd(adb.f + 1), Block("none", 0, 0)}
  BY <1>1, OneFurther
<1> QED
  BY <1>2, <1>5, <1>6

\* RestoreFile sends a header when TWRP has taken the one before; nothing else does.
LEMMA HeaderStep ==
    ASSUME Good, Next, ~overtaken'
    PROVE  HeaderInv'
<1> USE DEF Good, OrderInv, RestoreType
<1>0. toTwrp \in Seq(Message) /\ Len(toTwrp) \in Nat
  BY DEF FifoType
<1>1. CASE PollNothing \/ ReceiveTWEOF \/ ReceiveTWENDADB \/ AdbIdle
  <2>1. UNCHANGED <<toTwrp, file, adb>>
    BY <1>1 DEF PollNothing, ReceiveTWEOF, ReceiveTWENDADB, AdbIdle, fifos, twrp
  <2> QED
    BY <2>1 DEF StepInv, HeaderInv
<1>2. CASE RestoreStreamHeader \/ RestoreEnd
  <2>1. bpc # "open" /\ adb.t # "FILE" /\ adb \in Message /\ toTwrp' = Append(toTwrp, adb)
    BY <1>2, MessageTypes DEF RestoreStreamHeader, RestoreEnd, Reads
  <2>2. \A k \in 1 .. Len(toTwrp') : toTwrp'[k].t # "FILE"
    BY <1>0, <2>1, NoHeader, AfterPut
  <2> QED
    BY <2>2 DEF HeaderInv
<1>3. CASE RestoreChunk \/ RestoreUnread \/ ChunkWrite \/ ChunkUnread
  <2>1. bpc # "open" /\ UNCHANGED toTwrp
    BY <1>3 DEF RestoreChunk, RestoreUnread, ChunkWrite, ChunkUnread, Reads, ChunkReads, fifos
  <2> QED
    BY <2>1, NoHeader DEF HeaderInv
<1>4. CASE RestoreTrailer \/ ChunkTrailer
  <2>1. bpc # "open" /\ adb.t = "MD5TRAILER" /\ (MD5Trailer(fileBlocks) \/ MD5Trailer(fileBlocks + 1))
    BY <1>4 DEF RestoreTrailer, ChunkTrailer, Reads, ChunkReads
  <2> DEFINE m == Block("TWMD5", 0, digest)
  <2>2. adb \in Message /\ m \in Message /\ m.t # "FILE"
    BY <2>1, MessageTypes DEF Block
  <2>3. toTwrp' = toTwrp \o <<adb, m>>
    BY <2>1 DEF MD5Trailer
  <2> HIDE DEF m
  <2>4. \A k \in 1 .. Len(toTwrp') : toTwrp'[k].t # "FILE"
    BY <1>0, <2>1, <2>2, <2>3, NoHeader, AfterPair
  <2> QED
    BY <2>4 DEF HeaderInv
<1>5. CASE RestoreFile
  <2>1. /\ adb.t = "FILE" /\ adb \in Message /\ toTwrp' = Append(toTwrp, adb) /\ file' = file
    BY <1>5, MessageTypes DEF RestoreFile, Reads
  <2>2. /\ adb.f = file + 1 /\ Sent(adb') = file + 1
        /\ \A k \in 1 .. Len(toTwrp) : toTwrp[k].t # "FILE"
    BY <1>5, NewHeader
  <2>3. /\ Len(toTwrp') = Len(toTwrp) + 1 /\ toTwrp'[Len(toTwrp) + 1] = adb
        /\ \A k \in 1 .. Len(toTwrp) : toTwrp'[k] = toTwrp[k]
    BY <1>0, <2>1, AfterPut
  <2> QED
    BY <1>0, <2>1, <2>2, <2>3 DEF HeaderInv
<1>6. CASE ReceiveFile
  <2>1. Len(toTwrp') = 0
    BY <1>6, HeaderTaken
  <2> QED
    BY <2>1 DEF HeaderInv
<1>7. CASE ReceiveStreamHeader \/ ReceiveMD5Trailer \/ ReceiveTWMD5 \/ ReceiveEnd
  <2>1. toTwrp # <<>> /\ toTwrp' = Tail(toTwrp) /\ UNCHANGED <<adb, file>>
    BY <1>7 DEF ReceiveStreamHeader, ReceiveMD5Trailer, ReceiveTWMD5, ReceiveEnd, Receive, bu, twrp
  <2> DEFINE n == Len(toTwrp) - 1
  <2>2. n \in Nat /\ Len(toTwrp') = n /\ \A k \in 1 .. n : toTwrp'[k] = toTwrp[k + 1]
    BY <1>0, <2>1, AfterTake
  <2>3. \A k \in 1 .. n : k + 1 \in 1 .. Len(toTwrp) /\ (k + 1 = Len(toTwrp) => k = n)
    BY <1>0
  <2> HIDE DEF n
  <2> QED
    BY <2>1, <2>2, <2>3 DEF StepInv, HeaderInv
<1>8. CASE OpenForReading \/ ReadBlock \/ CloseReader \/ WriteTWEOF \/ RestoreFails \/ WriteTWENDADB
  <2>1. UNCHANGED <<toTwrp, file, adb>>
    BY <1>8 DEF OpenForReading, ReadBlock, CloseReader, WriteTWEOF, RestoreFails, WriteTWENDADB, bu
  <2> QED
    BY <2>1 DEF StepInv, HeaderInv
<1>9. CASE UNCHANGED vars
  BY <1>9 DEF StepInv, HeaderInv, vars, fifos, bu, twrp
<1> QED
  BY <1>1, <1>2, <1>3, <1>4, <1>5, <1>6, <1>7, <1>8, <1>9, Steps DEF BuAlone, TwrpAlone

\* bu and TWRP stay at the same partition.
LEMMA PlaceStep ==
    ASSUME Good, Next, ~overtaken'
    PROVE  PlaceInv'
<1> USE DEF Good, OrderInv, RestoreType, StepInv
<1>0. file \in Nat /\ Sent(adb) \in Nat /\ eofs \in Nat
  BY Numbers
<1>1. CASE PollNothing \/ AdbIdle
  BY <1>1 DEF PollNothing, AdbIdle, ToPoll, PlaceInv, fifos, twrp
<1>2. CASE ReceiveTWEOF
  <2>1. /\ ~reading /\ tpc # "prepare" /\ bpc = "poll" /\ bpc' = "adb" /\ ~writing' /\ eofs' = eofs + 1
        /\ UNCHANGED <<adb, file, tpc, reading>>
    BY <1>2, Heard DEF ReceiveTWEOF, twrp
  <2>2. eofs' >= Sent(adb) - 1
    BY <1>0, <2>1 DEF PlaceInv
  <2> QED
    BY <2>1, <2>2 DEF PlaceInv
<1>3. CASE ReceiveTWENDADB
  <2>1. /\ ~reading /\ tpc = "done" /\ bpc = "poll" /\ bpc' = "finished" /\ ~writing'
        /\ UNCHANGED <<adb, file, tpc, reading, eofs>>
    BY <1>3, HeardEnd DEF ReceiveTWENDADB, twrp
  <2> QED
    BY <2>1 DEF PlaceInv
<1>4. CASE RestoreStreamHeader \/ RestoreEnd \/ RestoreTrailer \/ ChunkTrailer
  <2>1. /\ fread /\ adb.t \in {"TWSTREAMHDR", "MD5TRAILER", "TWENDADB"} /\ bpc # "open" /\ bpc' = "poll"
        /\ UNCHANGED <<file, tpc, reading, eofs>>
    BY <1>4 DEF RestoreStreamHeader, RestoreEnd, RestoreTrailer, ChunkTrailer, Reads, ChunkReads, ToPoll, twrp
  <2>2. writing' => writing
    BY <1>4 DEF RestoreStreamHeader, RestoreEnd, RestoreTrailer, ChunkTrailer, MD5Trailer
  <2>3. ~InFile(adb') /\ Sent(adb') = Sent(adb)
    BY <2>1, MessageRead
  <2> QED
    BY <2>1, <2>2, <2>3 DEF PlaceInv
<1>5. CASE RestoreChunk \/ RestoreUnread \/ ChunkWrite \/ ChunkUnread
  <2>1. /\ fread /\ adb.t \in {"TWDATA", "data"} /\ bpc # "open" /\ bpc' # "open"
        /\ UNCHANGED <<file, tpc, reading, writing, eofs>>
    BY <1>5 DEF RestoreChunk, RestoreUnread, ChunkWrite, ChunkUnread, Reads, ChunkReads, ToPoll, twrp,
       fifos, BuType, InFile
  <2>2. InFile(adb) /\ Sent(adb') = Sent(adb)
    BY <2>1, BlockRead DEF InFile
  <2> QED
    BY <2>1, <2>2 DEF PlaceInv
<1>6. CASE RestoreFile
  <2>1. /\ ~reading /\ tpc \notin {"prepare", "open", "read", "eof"} /\ data = <<>> /\ eofs = file
        /\ Sent(adb') = file + 1 /\ adb' = Block("TWDATA", file + 1, 0)
    BY <1>6, NewHeader
  <2>2. /\ bpc' = "open" /\ writing' /\ data' = <<>> /\ dataChunk' = 0 /\ tpc' = tpc
        /\ UNCHANGED <<reading, file, eofs>>
    BY <1>6, <2>1 DEF RestoreFile
  <2>3. file < file + 1 /\ file >= (file + 1) - 1
    BY <1>0
  <2>4. adb'.t = "TWDATA" /\ adb'.i = 0
    BY <2>1 DEF Block
  <2> QED
    BY <2>1, <2>2, <2>3, <2>4 DEF PlaceInv
<1>7. CASE ReceiveFile
  <2>1. file' = file + 1 /\ Sent(adb) = file + 1 /\ bpc = "open" /\ tpc' = "prepare"
    BY <1>7, HeaderTaken DEF ReceiveFile
  <2>2. UNCHANGED <<bpc, adb, data, writing, reading, dataChunk, eofs>>
    BY <1>7 DEF ReceiveFile, bu
  <2>3. ~reading
    BY <1>7 DEF ReceiveFile, Receive, TwrpType
  <2> QED
    BY <2>1, <2>2, <2>3 DEF PlaceInv
<1>8. CASE OpenForReading
  <2>1. tpc = "prepare" /\ bpc = "open" /\ Sent(adb) = file /\ writing
    BY <1>8 DEF OpenForReading, PlaceInv
  <2>2. /\ tpc' = "read" /\ bpc' = "poll" /\ reading'
        /\ UNCHANGED <<adb, data, writing, dataChunk, eofs, file>>
    BY <1>8, <2>1 DEF OpenForReading
  <2> QED
    BY <2>1, <2>2 DEF PlaceInv
<1>9. CASE ReceiveStreamHeader \/ ReceiveMD5Trailer \/ ReceiveTWMD5 \/ ReceiveEnd \/ WriteTWEOF \/ WriteTWENDADB
  <2>1. /\ UNCHANGED <<bpc, adb, data, writing, reading, dataChunk, eofs, file>>
        /\ tpc' \notin {"prepare", "open", "read"}
    BY <1>9 DEF ReceiveStreamHeader, ReceiveMD5Trailer, ReceiveTWMD5, ReceiveEnd, WriteTWEOF,
       WriteTWENDADB, Receive, bu, twrp
  <2> QED
    BY <2>1 DEF PlaceInv
<1>10. CASE ReadBlock
  <2>1. UNCHANGED <<bpc, adb, writing, reading, dataChunk, eofs, file, tpc>> /\ bpc # "open"
    BY <1>10 DEF ReadBlock, bu, PlaceInv
  <2> QED
    BY <2>1 DEF PlaceInv
<1>11. CASE CloseReader \/ RestoreFails
  <2>1. /\ UNCHANGED <<bpc, adb, writing, dataChunk, eofs, file>> /\ ~reading' /\ tpc' \in {"eof", "end"}
        /\ data' \in {data, <<>>}
    BY <1>11 DEF CloseReader, RestoreFails, Kept, bu
  <2> QED
    BY <2>1 DEF PlaceInv
<1>12. CASE UNCHANGED vars
  BY <1>12 DEF PlaceInv, vars, fifos, bu, twrp
<1> QED
  BY <1>1, <1>2, <1>3, <1>4, <1>5, <1>6, <1>7, <1>8, <1>9, <1>10, <1>11, <1>12, Steps DEF BuAlone, TwrpAlone

-----------------------------------------------------------------------------
(* The blocks of a partition *)

\* A write to the FIFO: bu is in step.
LEMMA InStep ==
    ASSUME Good, ChunkWrite
    PROVE  /\ adb.t = "data" /\ adb.f = file /\ tpc = "read" /\ file \in 1 .. F /\ reading /\ writing
           /\ fread /\ (dataChunk + 1 = M <=> left = 0) /\ dataChunk + left + 1 = M
<1> USE DEF Good, OrderInv, RestoreType, ChunkInv
<1>1. bpc = "chunk" /\ reading /\ writing /\ fread /\ adb.t = "data" /\ dataChunk + left + 1 = M
  BY DEF ChunkWrite, ChunkReads
<1>2. tpc = "read" /\ file \in 1 .. F /\ adb.f = file
  BY <1>1, ReadingFacts DEF InFile
<1>3. dataChunk \in Nat /\ left \in Nat /\ M \in Nat
  BY Sizes DEF BuType
<1>4. dataChunk + 1 = M <=> left = 0
  BY <1>1, <1>3
<1> QED
  BY <1>1, <1>2, <1>4

\* Data read at the top of the loop, and after a failed write: nobody reads.
LEMMA NobodyReads ==
    ASSUME Good, RestoreUnread \/ ChunkUnread
    PROVE  ~reading /\ adb.t = "data" /\ fread
<1> USE DEF Good, OrderInv, RestoreType, ChunkInv
<1>1. adb.t = "data" /\ fread
  BY DEF RestoreUnread, ChunkUnread, Reads, ChunkReads
<1>2. reading => writing
  BY <1>1, ReadingFacts DEF InFile
<1>3. ~(reading /\ writing)
  BY <1>1 DEF RestoreUnread, ChunkUnread, Reads, InFile
<1> QED
  BY <1>1, <1>2, <1>3

\* What the FIFO holds is what follows in the partition.
Follows(g, d, f) ==
    /\ \A k \in 1 .. Len(g) : g[k] = Block("data", f, k)
    /\ \A k \in 1 .. Len(d) : d[k] = Block("data", f, Len(g) + k)

\* A block bu writes goes on where the FIFO ends, ...
LEMMA FollowsWrite ==
    ASSUME NEW g \in Seq(DataBlock), NEW d \in Seq(DataBlock), NEW f, NEW b \in DataBlock,
           Follows(g, d, f), b = Block("data", f, Len(g) + Len(d) + 1)
    PROVE  Follows(g, Append(d, b), f)
<1>1. /\ Len(Append(d, b)) = Len(d) + 1 /\ Len(d) \in Nat /\ Len(g) \in Nat
      /\ \A k \in 1 .. Len(d) : Append(d, b)[k] = d[k]
      /\ Append(d, b)[Len(d) + 1] = b
  BY AfterPut
<1>2. \A k \in 1 .. Len(d) + 1 : Append(d, b)[k] = Block("data", f, Len(g) + k)
  <2> SUFFICES ASSUME NEW k \in 1 .. Len(d) + 1 PROVE Append(d, b)[k] = Block("data", f, Len(g) + k)
    OBVIOUS
  <2>1. CASE k \in 1 .. Len(d)
    BY <2>1, <1>1 DEF Follows
  <2>2. CASE k = Len(d) + 1
    <3>1. Len(g) + Len(d) + 1 = Len(g) + k
      BY <1>1, <2>2
    <3> QED
      BY <1>1, <2>2, <3>1
  <2> QED
    BY <1>1, <2>1, <2>2
<1> QED
  BY <1>1, <1>2 DEF Follows

\* ... and one TWRP reads where its partition ends.
LEMMA FollowsRead ==
    ASSUME NEW g \in Seq(DataBlock), NEW d \in Seq(DataBlock), NEW f, d # <<>>, Follows(g, d, f)
    PROVE  /\ Follows(Append(g, Head(d)), Tail(d), f)
           /\ Len(Append(g, Head(d))) + Len(Tail(d)) = Len(g) + Len(d)
<1> DEFINE h == Append(g, Head(d))
<1>1. /\ Len(d) \in Nat /\ Len(d) > 0 /\ Len(Tail(d)) = Len(d) - 1 /\ Head(d) = d[1] /\ d[1] \in DataBlock
      /\ \A k \in 1 .. Len(d) - 1 : Tail(d)[k] = d[k + 1]
  BY AfterTake
<1>2. /\ Len(h) = Len(g) + 1 /\ Len(g) \in Nat
      /\ \A k \in 1 .. Len(g) : h[k] = g[k]
      /\ h[Len(g) + 1] = d[1]
  BY <1>1, AfterPut
<1> HIDE DEF h
<1>3. d[1] = Block("data", f, Len(g) + 1)
  BY <1>1 DEF Follows
<1>4. \A k \in 1 .. Len(h) : h[k] = Block("data", f, k)
  <2> SUFFICES ASSUME NEW k \in 1 .. Len(g) + 1 PROVE h[k] = Block("data", f, k)
    BY <1>2
  <2>1. k \in 1 .. Len(g) \/ k = Len(g) + 1
    BY <1>2
  <2> QED
    BY <2>1, <1>2, <1>3 DEF Follows
<1>5. \A k \in 1 .. Len(Tail(d)) : Tail(d)[k] = Block("data", f, Len(h) + k)
  <2> SUFFICES ASSUME NEW k \in 1 .. Len(d) - 1 PROVE Tail(d)[k] = Block("data", f, Len(h) + k)
    BY <1>1
  <2>1. k + 1 \in 1 .. Len(d) /\ Len(g) + (k + 1) = Len(h) + k
    BY <1>1, <1>2
  <2>2. d[k + 1] = Block("data", f, Len(g) + (k + 1))
    BY <2>1 DEF Follows
  <2> QED
    BY <1>1, <2>1, <2>2
<1>6. Len(h) + Len(Tail(d)) = Len(g) + Len(d)
  BY <1>1, <1>2
<1> QED
  BY <1>4, <1>5, <1>6 DEF Follows, h

\* Every step keeps the data of a partition in order.
LEMMA DataStep ==
    ASSUME Good, RestoreType', StepInv', Next, ~overtaken'
    PROVE  DataInv'
<1> USE DEF Good, OrderInv
<1>0. /\ got \in [1 .. F -> Seq(DataBlock)] /\ data \in Seq(DataBlock) /\ file \in 0 .. F
  BY DEF RestoreType, TwrpType, FifoType
<1>1. CASE PollNothing \/ AdbIdle
  <2>1. UNCHANGED <<got, file, tpc, reading, data, adb>>
    BY <1>1 DEF PollNothing, AdbIdle, fifos, twrp
  <2> QED
    BY <2>1 DEF DataInv
<1>2. CASE ReceiveTWEOF \/ ReceiveTWENDADB
  <2>1. ~reading /\ UNCHANGED <<got, file, tpc, reading>>
    BY <1>2, Heard, HeardEnd DEF ReceiveTWEOF, ReceiveTWENDADB, twrp
  <2> QED
    BY <2>1 DEF DataInv
<1>3. CASE RestoreStreamHeader \/ RestoreEnd \/ RestoreTrailer \/ ChunkTrailer
  <2>1. /\ fread /\ adb.t \in {"TWSTREAMHDR", "MD5TRAILER", "TWENDADB"}
        /\ UNCHANGED <<got, file, tpc, reading>>
    BY <1>3 DEF RestoreStreamHeader, RestoreEnd, RestoreTrailer, ChunkTrailer, Reads, ChunkReads, twrp
  <2>2. reading => data' = data
    BY <1>3 DEF RestoreStreamHeader, RestoreEnd, RestoreTrailer, ChunkTrailer, MD5Trailer, Kept
  <2>3. ~InFile(adb')
    BY <2>1, MessageRead
  <2> QED
    BY <2>1, <2>2, <2>3 DEF DataInv
<1>4. CASE RestoreChunk
  <2>1. fread /\ adb.t = "TWDATA" /\ UNCHANGED <<got, file, tpc, reading, data>>
    BY <1>4 DEF RestoreChunk, Reads, fifos, twrp
  <2>2. InFile(adb) /\ Passed(adb') = adb.i /\ Passed(adb) = adb.i
    BY <2>1, BlockRead DEF InFile, Passed
  <2> QED
    BY <2>1, <2>2 DEF DataInv
<1>5. CASE RestoreUnread \/ ChunkUnread
  <2>1. ~reading /\ UNCHANGED <<got, file, tpc, reading>>
    BY <1>5, NobodyReads DEF RestoreUnread, ChunkUnread, fifos, twrp
  <2> QED
    BY <2>1 DEF DataInv
<1>6. CASE ChunkWrite
  <2>1. /\ adb.t = "data" /\ adb.f = file /\ file \in 1 .. F /\ reading /\ fread
        /\ data' = Append(data, adb) /\ UNCHANGED <<got, file, tpc, reading>>
    BY <1>6, InStep DEF ChunkWrite, twrp
  <2>2. adb.i \in Nat /\ Passed(adb) = adb.i - 1 /\ Passed(adb') = adb.i
    BY <2>1, BlockRead, Numbers DEF Passed
  <2>3. Len(got[file]) + Len(data) = adb.i - 1 /\ Follows(got[file], data, file)
    BY <2>1, <2>2 DEF DataInv, Follows, InFile
  <2>4. Len(got[file]) \in Nat /\ Len(data) \in Nat /\ got[file] \in Seq(DataBlock)
    BY <1>0, <2>1
  <2>5. adb.i = Len(got[file]) + Len(data) + 1
    BY <2>2, <2>3, <2>4
  <2>6. adb = Block("data", file, Len(got[file]) + Len(data) + 1)
    BY <2>1, <2>5 DEF Block, RestoreType, BuType, WellPlaced, StreamBlock
  <2>7. adb \in DataBlock
    BY <2>1, MessageTypes DEF RestoreType
  <2>8. Follows(got[file], data', file)
    BY <1>0, <2>1, <2>3, <2>4, <2>6, <2>7, FollowsWrite
  <2>9. Len(data') = Len(data) + 1
    BY <1>0, <2>1, <2>7, AfterPut
  <2>10. Len(got[file]) + Len(data') = Passed(adb')
    <3>1. \A x, y \in Nat : x + (y + 1) = x + y + 1
      OBVIOUS
    <3>2. Len(got[file]) + (Len(data) + 1) = Len(got[file]) + Len(data) + 1
      BY <2>4, <3>1, Zenon
    <3> QED
      BY <2>2, <2>9, <2>5, <3>2, Zenon
  <2> QED
    BY <2>1, <2>8, <2>10 DEF DataInv, Follows
<1>7. CASE RestoreFile
  <2>1. ~reading /\ tpc # "open" /\ UNCHANGED <<got, file, reading>>
    BY <1>7, NewHeader DEF RestoreFile
  <2>2. tpc' = tpc
    BY <1>7, <2>1 DEF RestoreFile
  <2> QED
    BY <2>1, <2>2 DEF DataInv
<1>8. CASE ReceiveFile
  <2>1. file' = file + 1 /\ tpc = "loop" /\ UNCHANGED <<got, reading>>
    BY <1>8, HeaderTaken DEF ReceiveFile
  <2>2. ~reading
    BY <2>1 DEF RestoreType, TwrpType
  <2>3. \A g \in 1 .. F : g >= file + 1 => g > file
    BY <1>0
  <2> QED
    BY <1>0, <2>1, <2>2, <2>3 DEF DataInv
<1>9. CASE OpenForReading
  <2>1. tpc = "prepare" /\ bpc = "open" /\ UNCHANGED <<got, file, adb, data>> /\ tpc' # "prepare"
    BY <1>9 DEF OpenForReading, StepInv, PlaceInv
  <2>2. file \in 1 .. F
    BY <1>0, <2>1 DEF RestoreType, TwrpType
  <2>3. got[file] = <<>> /\ data = <<>> /\ Passed(adb) = 0
    BY <2>1, <2>2 DEF DataInv, StepInv, PlaceInv, Passed
  <2> QED
    BY <2>1, <2>2, <2>3 DEF DataInv
<1>10. CASE ReadBlock
  <2>1. tpc = "read" /\ reading /\ file \in 1 .. F /\ data # <<>>
    BY <1>0, <1>10 DEF ReadBlock, RestoreType, TwrpType
  <2>2. /\ got' = [got EXCEPT ![file] = Append(got[file], Head(data))] /\ data' = Tail(data)
        /\ UNCHANGED <<file, tpc, adb, reading>>
    BY <1>10 DEF ReadBlock, bu
  <2>3. got'[file] = Append(got[file], Head(data)) /\ \A g \in 1 .. F : g # file => got'[g] = got[g]
    BY <1>0, <2>1, <2>2
  <2>4. Follows(got[file], data, file)
    BY <2>1 DEF DataInv, Follows
  <2>5. got[file] \in Seq(DataBlock)
    BY <1>0, <2>1
  <2>6. Follows(got'[file], data', file) /\ Len(got'[file]) + Len(data') = Len(got[file]) + Len(data)
    BY <1>0, <2>1, <2>2, <2>3, <2>4, <2>5, FollowsRead
  <2>7. \A g \in 1 .. F : g > file => got'[g] = <<>>
    BY <1>0, <2>1, <2>3 DEF DataInv
  <2> QED
    BY <2>1, <2>2, <2>6, <2>7 DEF DataInv, Follows
<1>11. CASE ReceiveStreamHeader \/ ReceiveMD5Trailer \/ ReceiveTWMD5 \/ ReceiveEnd \/ WriteTWEOF
            \/ WriteTWENDADB \/ CloseReader \/ RestoreFails
  <2>1. UNCHANGED <<got, file>> /\ tpc' \notin {"prepare", "open", "read"}
    BY <1>11 DEF ReceiveStreamHeader, ReceiveMD5Trailer, ReceiveTWMD5, ReceiveEnd, WriteTWEOF,
       WriteTWENDADB, CloseReader, RestoreFails, Receive, twrp
  <2>2. ~reading'
    BY <2>1 DEF RestoreType, TwrpType
  <2> QED
    BY <2>1, <2>2 DEF DataInv
<1>12. CASE UNCHANGED vars
  BY <1>12 DEF DataInv, vars, fifos, bu, twrp
<1> QED
  BY <1>1, <1>2, <1>3, <1>4, <1>5, <1>6, <1>7, <1>8, <1>9, <1>10, <1>11, <1>12, Steps DEF BuAlone, TwrpAlone

\* Every step keeps bu in step with the chunks.
LEMMA ChunkStep ==
    ASSUME Good, RestoreType', StepInv', Next, ~overtaken'
    PROVE  ChunkInv'
<1> USE DEF Good, OrderInv
<1>1. CASE PollNothing \/ AdbIdle
  <2>1. UNCHANGED <<adb, left, reading, writing, dataChunk>> /\ bpc # "chunk" /\ bpc' # "chunk"
    BY <1>1 DEF PollNothing, AdbIdle, ToPoll, fifos
  <2> QED
    BY <2>1 DEF ChunkInv
<1>2. CASE ReceiveTWEOF \/ ReceiveTWENDADB
  <2>1. ~writing' /\ bpc' # "chunk"
    BY <1>2 DEF ReceiveTWEOF, ReceiveTWENDADB
  <2> QED
    BY <2>1 DEF ChunkInv
<1>3. CASE RestoreStreamHeader \/ RestoreEnd \/ RestoreTrailer \/ ChunkTrailer
  <2>1. fread /\ adb.t \in {"TWSTREAMHDR", "MD5TRAILER", "TWENDADB"} /\ bpc' # "chunk"
    BY <1>3 DEF RestoreStreamHeader, RestoreEnd, RestoreTrailer, ChunkTrailer, Reads, ChunkReads, ToPoll
  <2>2. ~InFile(adb')
    BY <2>1, MessageRead
  <2> QED
    BY <2>1, <2>2 DEF ChunkInv
<1>4. CASE RestoreChunk
  <2>1. /\ fread /\ adb.t = "TWDATA" /\ bpc = "adb" /\ bpc' = "chunk" /\ dataChunk' = dataChunk + 1
        /\ UNCHANGED <<reading, writing>>
    BY <1>4 DEF RestoreChunk, Reads, fifos
  <2>2. adb'.t = "data" /\ left' = M - 2
    BY <2>1, BlockRead
  <2>3. reading /\ writing => dataChunk = 0
    BY <2>1 DEF ChunkInv, InFile
  <2>4. reading' /\ writing' => dataChunk' + left' + 1 = M
    BY <2>1, <2>2, <2>3, Sizes
  <2> QED
    BY <2>1, <2>2, <2>4 DEF ChunkInv
<1>5. CASE RestoreUnread \/ ChunkUnread
  <2>1. ~reading /\ UNCHANGED reading /\ bpc' # "chunk"
    BY <1>5, NobodyReads DEF RestoreUnread, ChunkUnread, ToPoll, fifos
  <2> QED
    BY <2>1 DEF ChunkInv
<1>6. CASE ChunkWrite
  <2>1. /\ adb.t = "data" /\ fread /\ (dataChunk + 1 = M <=> left = 0) /\ dataChunk + left + 1 = M
    BY <1>6, InStep
  <2>2. dataChunk \in Nat /\ left \in 0 .. M - 2 /\ M \in Nat
    BY Sizes DEF RestoreType, BuType
  <2>3. CASE left = 0
    <3>1. bpc' = "poll" /\ dataChunk' = 0 /\ adb'.t \in {"TWDATA", "MD5TRAILER"}
      BY <1>6, <2>1, <2>3, BlockRead DEF ChunkWrite, ToPoll
    <3> QED
      BY <3>1 DEF ChunkInv
  <2>4. CASE left > 0
    <3>1. bpc' = "chunk" /\ dataChunk' = dataChunk + 1 /\ adb'.t = "data" /\ left' = left - 1
      BY <1>6, <2>1, <2>2, <2>4, BlockRead DEF ChunkWrite, ChunkReads
    <3>2. dataChunk' + left' + 1 = M
      BY <2>1, <2>2, <3>1
    <3> QED
      BY <3>1, <3>2 DEF ChunkInv
  <2> QED
    BY <2>2, <2>3, <2>4
<1>7. CASE RestoreFile
  <2>1. ~reading /\ UNCHANGED reading /\ bpc' # "chunk"
    BY <1>7, NewHeader DEF RestoreFile
  <2> QED
    BY <2>1 DEF ChunkInv
<1>8. CASE OpenForReading
  <2>1. bpc = "open" /\ adb.t = "TWDATA" /\ dataChunk = 0
    BY <1>8 DEF OpenForReading, StepInv, PlaceInv
  <2>2. bpc' = "poll" /\ UNCHANGED <<adb, dataChunk>>
    BY <1>8, <2>1 DEF OpenForReading
  <2> QED
    BY <2>1, <2>2 DEF ChunkInv
<1>9. CASE TwrpAlone
  <2>1. UNCHANGED <<bpc, adb, left, writing, dataChunk>>
    BY <1>9, TwrpAloneFrame DEF bu
  <2>2. reading' => reading
    BY <1>9 DEF TwrpAlone, ReceiveStreamHeader, ReceiveFile, ReadBlock, CloseReader, WriteTWEOF,
       RestoreFails, ReceiveMD5Trailer, ReceiveTWMD5, ReceiveEnd, WriteTWENDADB
  <2> QED
    BY <2>1, <2>2 DEF ChunkInv
<1>10. CASE UNCHANGED vars
  BY <1>10 DEF ChunkInv, vars, fifos, bu
<1> QED
  BY <1>1, <1>2, <1>3, <1>4, <1>5, <1>6, <1>7, <1>8, <1>9, <1>10, Steps DEF BuAlone

\* Every block of a partition enters the digest once, written or not.
LEMMA DigestStep ==
    ASSUME Good, RestoreType', StepInv', Next, ~overtaken'
    PROVE  DigestInv'
<1> USE DEF Good, OrderInv
<1>1. CASE PollNothing \/ AdbIdle \/ ReceiveTWEOF \/ ReceiveTWENDADB
  <2>1. UNCHANGED <<adb, digest, md5sumdata>> /\ bpc # "chunk"
    BY <1>1 DEF PollNothing, AdbIdle, ReceiveTWEOF, ReceiveTWENDADB
  <2> QED
    BY <2>1 DEF DigestInv
<1>2. CASE RestoreStreamHeader \/ RestoreEnd \/ RestoreTrailer \/ ChunkTrailer
  <2>1. fread /\ adb.t \in {"TWSTREAMHDR", "MD5TRAILER", "TWENDADB"}
    BY <1>2 DEF RestoreStreamHeader, RestoreEnd, RestoreTrailer, ChunkTrailer, Reads, ChunkReads
  <2>2. ~InFile(adb')
    BY <2>1, MessageRead
  <2> QED
    BY <2>2 DEF DigestInv, InFile
<1>3. CASE RestoreChunk
  <2>1. fread /\ adb.t = "TWDATA" /\ bpc' = "chunk" /\ UNCHANGED digest
    BY <1>3 DEF RestoreChunk, Reads
  <2>2. Passed(adb') = adb.i /\ Passed(adb) = adb.i
    BY <2>1, BlockRead DEF Passed
  <2> QED
    BY <2>1, <2>2 DEF DigestInv, InFile
<1>4. CASE RestoreUnread \/ ChunkUnread \/ ChunkWrite
  <2>1. adb.t = "data" /\ fread
    BY <1>4, NobodyReads, InStep
  <2>2. adb.i \in Nat /\ Passed(adb) = adb.i - 1 /\ Passed(adb') = adb.i /\ digest = adb.i - 1
    BY <2>1, BlockRead, Numbers DEF Passed, DigestInv, InFile
  <2>3. digest' = digest + 1
    BY <1>4, <2>1 DEF RestoreUnread, ChunkUnread, ChunkWrite, Reads, DigestInv
  <2>4. digest' = Passed(adb')
    BY <2>2, <2>3
  <2>5. bpc' # "chunk" /\ adb'.t = "data" => md5sumdata'
    <3>1. CASE RestoreUnread
      BY <2>1, <3>1 DEF RestoreUnread, Reads, DigestInv
    <3>2. CASE ChunkUnread
      BY <3>2 DEF ChunkUnread
    <3>3. CASE ChunkWrite
      <4>1. left = 0 => adb'.t # "data"
        BY <2>1, BlockRead
      <4>2. left # 0 => bpc' = "chunk"
        BY <3>3, InStep DEF ChunkWrite, ChunkReads
      <4> QED
        BY <4>1, <4>2
    <3> QED
      BY <1>4, <3>1, <3>2, <3>3
  <2> QED
    BY <2>4, <2>5 DEF DigestInv
<1>5. CASE RestoreFile
  <2>1. adb' = Block("TWDATA", file + 1, 0) /\ digest' = 0
    BY <1>5, NewHeader DEF RestoreFile
  <2> QED
    BY <2>1 DEF DigestInv, Block, Passed
<1>6. CASE OpenForReading
  <2>1. UNCHANGED <<adb, digest>> /\ adb.t = "TWDATA"
    BY <1>6 DEF OpenForReading, StepInv, PlaceInv
  <2> QED
    BY <2>1 DEF DigestInv
<1>7. CASE TwrpAlone
  BY <1>7, TwrpAloneFrame DEF bu, DigestInv
<1>8. CASE UNCHANGED vars
  BY <1>8 DEF DigestInv, vars, bu
<1> QED
  BY <1>1, <1>2, <1>3, <1>4, <1>5, <1>6, <1>7, <1>8, Steps DEF BuAlone

\* The digest bu sends is the one of the trailer before it.
LEMMA TrailerStep ==
    ASSUME Good, Next, ~overtaken'
    PROVE  TrailerInv'
<1> USE DEF Good, OrderInv
<1>0. toTwrp \in Seq(Message) /\ Len(toTwrp) \in Nat
  BY DEF RestoreType, FifoType
<1>1. CASE /\ UNCHANGED <<toTwrp, adbmd5>> /\ ret' # "md5"
  BY <1>1 DEF TrailerInv
<1>2. CASE PollNothing \/ AdbIdle \/ ReceiveTWEOF \/ ReceiveTWENDADB
  <2>1. UNCHANGED <<toTwrp, adbmd5, ret>>
    BY <1>2 DEF PollNothing, AdbIdle, ReceiveTWEOF, ReceiveTWENDADB, fifos, twrp
  <2> QED
    BY <2>1, <1>1 DEF TrailerInv
<1>3. CASE RestoreChunk \/ RestoreUnread \/ ChunkWrite \/ ChunkUnread
  <2>1. UNCHANGED <<toTwrp, adbmd5, ret>>
    BY <1>3 DEF RestoreChunk, RestoreUnread, ChunkWrite, ChunkUnread, fifos, twrp
  <2> QED
    BY <2>1, <1>1 DEF TrailerInv
<1>4. CASE RestoreStreamHeader \/ RestoreEnd \/ RestoreFile
  <2>1. adb \in Message /\ adb.t # "TWMD5" /\ toTwrp' = Append(toTwrp, adb) /\ UNCHANGED <<adbmd5, ret>>
    BY <1>4, MessageTypes DEF RestoreStreamHeader, RestoreEnd, RestoreFile, Reads, twrp, RestoreType
  <2> DEFINE n == Len(toTwrp)
  <2>2. /\ Len(toTwrp') = n + 1 /\ n \in Nat /\ \A k \in 1 .. n : toTwrp'[k] = toTwrp[k]
        /\ toTwrp'[n + 1] = adb
    BY <1>0, <2>1, AfterPut
  <2> HIDE DEF n
  <2>3. \A k \in 1 .. n + 1 : toTwrp'[k].t = "TWMD5" => k \in 1 .. n /\ (k # 1 => k - 1 \in 1 .. n)
    BY <2>1, <2>2
  <2> QED
    BY <2>1, <2>2, <2>3 DEF TrailerInv, n
<1>5. CASE RestoreTrailer \/ ChunkTrailer
  <2>1. adb.t = "MD5TRAILER" /\ (MD5Trailer(fileBlocks) \/ MD5Trailer(fileBlocks + 1)) /\ UNCHANGED <<adbmd5, ret>>
    BY <1>5 DEF RestoreTrailer, ChunkTrailer, Reads, ChunkReads, twrp
  <2> DEFINE m == Block("TWMD5", 0, digest)  n == Len(toTwrp)
  <2>2. adb \in Message /\ m \in Message /\ m.i = digest
    BY <2>1, MessageTypes DEF Block, RestoreType
  <2>3. m.i = adb.i
    BY <2>1, <2>2 DEF DigestInv, Passed, InFile
  <2>4. toTwrp' = toTwrp \o <<adb, m>>
    BY <2>1 DEF MD5Trailer
  <2> HIDE DEF m
  <2>5. /\ Len(toTwrp') = n + 2 /\ n \in Nat /\ \A k \in 1 .. n : toTwrp'[k] = toTwrp[k]
        /\ toTwrp'[n + 1] = adb /\ toTwrp'[n + 2] = m
    BY <1>0, <2>2, <2>4, AfterPair
  <2> HIDE DEF n
  <2> SUFFICES ASSUME NEW k \in 1 .. Len(toTwrp'), toTwrp'[k].t = "TWMD5"
               PROVE  IF k = 1 THEN toTwrp'[k].i = adbmd5
                      ELSE toTwrp'[k - 1].t = "MD5TRAILER" /\ toTwrp'[k - 1].i = toTwrp'[k].i
    BY <2>1 DEF TrailerInv
  <2>6. k \in 1 .. n \/ k = n + 1 \/ k = n + 2
    BY <2>5
  <2>7. CASE k \in 1 .. n
    <3>1. k # 1 => k - 1 \in 1 .. n
      BY <2>5, <2>7
    <3> QED
      BY <2>5, <2>7, <3>1 DEF TrailerInv, n
  <2>8. CASE k = n + 2
    <3>1. k # 1 /\ k - 1 = n + 1
      BY <2>5, <2>8
    <3> QED
      BY <2>1, <2>3, <2>5, <2>8, <3>1
  <2> QED
    BY <2>1, <2>5, <2>6, <2>7, <2>8
<1>6. CASE ReceiveStreamHeader \/ ReceiveFile \/ ReceiveMD5Trailer \/ ReceiveTWMD5 \/ ReceiveEnd
  <2>1. /\ toTwrp # <<>> /\ toTwrp' = Tail(toTwrp)
        /\ Head(toTwrp).t = "MD5TRAILER" => adbmd5' = Head(toTwrp).i
        /\ Head(toTwrp).t # "MD5TRAILER" => adbmd5' = adbmd5
    BY <1>6 DEF ReceiveStreamHeader, ReceiveFile, ReceiveMD5Trailer, ReceiveTWMD5, ReceiveEnd, Receive, twrp
  <2> DEFINE n == Len(toTwrp) - 1
  <2>2. /\ Len(toTwrp') = n /\ n \in Nat /\ n + 1 = Len(toTwrp) /\ Head(toTwrp) = toTwrp[1]
        /\ \A k \in 1 .. n : toTwrp'[k] = toTwrp[k + 1]
    BY <1>0, <2>1, AfterTake
  <2> HIDE DEF n
  <2>3. ret' # "md5"
    <3>1. CASE ReceiveTWMD5
      <4>1. toTwrp[1].t = "TWMD5" /\ 1 \in 1 .. Len(toTwrp)
        BY <3>1, <2>2 DEF ReceiveTWMD5, Receive
      <4>2. Head(toTwrp).i = adbmd5
        BY <4>1, <2>2 DEF TrailerInv
      <4> QED
        BY <3>1, <4>2 DEF ReceiveTWMD5, TrailerInv
    <3>2. CASE ~ReceiveTWMD5
      BY <1>6, <3>2 DEF ReceiveStreamHeader, ReceiveFile, ReceiveMD5Trailer, ReceiveEnd, twrp, TrailerInv
    <3> QED
      BY <3>1, <3>2
  <2> SUFFICES ASSUME NEW k \in 1 .. Len(toTwrp'), toTwrp'[k].t = "TWMD5"
               PROVE  IF k = 1 THEN toTwrp'[k].i = adbmd5'
                      ELSE toTwrp'[k - 1].t = "MD5TRAILER" /\ toTwrp'[k - 1].i = toTwrp'[k].i
    BY <2>3 DEF TrailerInv
  <2>4. /\ k \in 1 .. n /\ k + 1 \in 1 .. Len(toTwrp) /\ k + 1 # 1 /\ (k + 1) - 1 = k
        /\ (k # 1 => k - 1 \in 1 .. n /\ (k - 1) + 1 = k)
    BY <2>2
  <2>5. toTwrp[k].t = "MD5TRAILER" /\ toTwrp[k].i = toTwrp[k + 1].i
    <3>1. toTwrp[k + 1].t = "TWMD5"
      BY <2>2, <2>4
    <3>2. toTwrp[(k + 1) - 1].t = "MD5TRAILER" /\ toTwrp[(k + 1) - 1].i = toTwrp[k + 1].i
      BY <2>4, <3>1 DEF TrailerInv
    <3> QED
      BY <2>4, <3>2
  <2>6. CASE k = 1
    BY <2>1, <2>2, <2>4, <2>5, <2>6
  <2>7. CASE k # 1
    BY <2>2, <2>4, <2>5, <2>7
  <2> QED
    BY <2>6, <2>7
<1>7. CASE OpenForReading \/ ReadBlock \/ CloseReader \/ WriteTWEOF \/ RestoreFails \/ WriteTWENDADB
  <2>1. UNCHANGED <<toTwrp, adbmd5>> /\ ret' \in {ret, "failed"}
    BY <1>7 DEF OpenForReading, ReadBlock, CloseReader, WriteTWEOF, RestoreFails, WriteTWENDADB
  <2> QED
    BY <2>1, <1>1 DEF TrailerInv
<1>8. CASE UNCHANGED vars
  BY <1>8 DEF TrailerInv, vars, fifos, twrp
<1> QED
  BY <1>2, <1>3, <1>4, <1>5, <1>6, <1>7, <1>8, Steps DEF BuAlone, TwrpAlone

\* TWRP closes its reader with exactly its partition.
LEMMA IntactStep ==
    ASSUME Good, Next, ~overtaken, ~overtaken'
    PROVE  RestoredIntact'
<1> USE DEF Good, OrderInv
<1>0. /\ got \in [1 .. F -> Seq(DataBlock)] /\ file \in 0 .. F /\ F \in Nat
  BY Sizes DEF RestoreType, TwrpType
<1>1. ASSUME \A f \in 1 .. F : Restored(f)' => Restored(f) /\ got'[f] = got[f]
      PROVE  RestoredIntact'
  BY <1>1 DEF RestoredIntact
<1>2. CASE BuAlone
  <2>1. UNCHANGED <<file, tpc, ret, got>>
    BY <1>2, BuAloneFrame DEF twrp
  <2> QED
    BY <2>1, <1>1 DEF Restored
<1>3. CASE RestoreFile \/ OpenForReading
  <2>1. UNCHANGED <<file, ret, got>> /\ (tpc' = tpc \/ tpc' \in {"open", "read"})
    BY <1>3 DEF RestoreFile, OpenForReading
  <2> QED
    BY <2>1, <1>1 DEF Restored
<1>4. CASE ReceiveFile
  <2>1. file' = file + 1 /\ tpc = "loop" /\ tpc' = "prepare" /\ UNCHANGED <<got, ret>>
    BY <1>4, HeaderTaken DEF ReceiveFile
  <2>2. ret # "failed"
    BY <2>1 DEF RestoreType, TwrpType
  <2>3. \A f \in 1 .. F : f < file + 1 => f < file \/ f = file
    BY <1>0
  <2> QED
    BY <2>1, <2>2, <2>3, <1>1 DEF Restored
<1>5. CASE ReadBlock
  <2>1. /\ got' = [got EXCEPT ![file] = Append(got[file], Head(data))]
        /\ tpc = "read" /\ UNCHANGED <<file, tpc, ret>>
    BY <1>5 DEF ReadBlock
  <2>2. \A f \in 1 .. F : f < file => got'[f] = got[f]
    BY <1>0, <2>1
  <2> QED
    BY <2>1, <2>2, <1>1 DEF Restored
<1>6. CASE CloseReader
  <2>1. tpc = "read" /\ Len(got[file]) = Size[file] /\ UNCHANGED <<file, ret, got>> /\ tpc' = "eof"
    BY <1>6 DEF CloseReader
  <2>2. reading /\ file \in 1 .. F
    BY <1>0, <2>1 DEF RestoreType, TwrpType
  <2>3. got[file] = [i \in 1 .. Size[file] |-> Block("data", file, i)]
    <3>1. got[file] = [k \in 1 .. Len(got[file]) |-> got[file][k]]
      BY <1>0, <2>2
    <3>2. \A k \in 1 .. Len(got[file]) : got[file][k] = Block("data", file, k)
      BY <2>2 DEF DataInv
    <3> QED
      BY <2>1, <3>1, <3>2
  <2>4. \A f \in 1 .. F : Restored(f)' => Restored(f) \/ f = file
    BY <2>1 DEF Restored
  <2> QED
    BY <2>1, <2>3, <2>4 DEF RestoredIntact
<1>7. CASE RestoreFails
  <2>1. UNCHANGED <<file, got>> /\ ret' = "failed"
    BY <1>7 DEF RestoreFails
  <2> QED
    BY <2>1, <1>1 DEF Restored
<1>8. CASE ReceiveStreamHeader \/ WriteTWEOF \/ ReceiveMD5Trailer \/ ReceiveTWMD5 \/ ReceiveEnd \/ WriteTWENDADB
  <2>1. /\ UNCHANGED <<file, got>> /\ tpc \notin {"prepare", "open", "read"}
        /\ ret' # "failed" => ret # "failed"
    BY <1>8 DEF ReceiveStreamHeader, WriteTWEOF, ReceiveMD5Trailer, ReceiveTWMD5, ReceiveEnd, WriteTWENDADB,
       Receive, RestoreType, TwrpType, twrp
  <2> QED
    BY <2>1, <1>1 DEF Restored
<1>9. CASE UNCHANGED vars
  BY <1>9, <1>1 DEF Restored, vars, twrp
<1> QED
  BY <1>2, <1>3, <1>4, <1>5, <1>6, <1>7, <1>8, <1>9, Steps DEF TwrpAlone

-----------------------------------------------------------------------------
(* The theorems *)

\* The invariant is inductive.
LEMMA RestoreInductive ==
    /\ Init => RestoreInv
    /\ RestoreInv /\ [Next]_vars => RestoreInv'
<1>1. Init => RestoreInv
  <2> SUFFICES ASSUME Init PROVE QueueInv /\ OrderInv
    BY TypeInit DEF RestoreInv
  <2> USE Sizes DEF Init
  <2>0. ~InFile(adb) /\ Sent(adb) = 0 /\ adb.t = "TWSTREAMHDR"
    BY DEF InFile, Sent, Block
  <2>1. QueueInv
    BY <2>0 DEF QueueInv
  <2>2. StepInv
    BY <2>0 DEF StepInv, HeaderInv, PlaceInv
  <2>3. DataInv
    BY <2>0 DEF DataInv
  <2>4. ChunkInv /\ DigestInv /\ TrailerInv
    BY <2>0 DEF ChunkInv, DigestInv, TrailerInv
  <2>5. RestoredIntact
    BY DEF RestoredIntact, Restored
  <2> QED
    BY <2>1, <2>2, <2>3, <2>4, <2>5 DEF OrderInv
<1>2. ASSUME RestoreInv, Next PROVE RestoreInv'
  <2> USE <1>2
  <2>1. RestoreType /\ QueueInv /\ EofInv
    BY DEF RestoreInv
  <2>2. RestoreType'
    BY <2>1, BuTypeStep, FlagTypeStep, TwrpTypeStep, FifoTypeStep DEF RestoreType
  <2>3. QueueInv' /\ EofInv'
    BY <2>1, <2>2, QueueStep, EofStep
  <2>4. ASSUME ~overtaken' PROVE OrderInv'
    <3>1. ~overtaken
      <4>1. overtaken' = overtaken \/ overtaken' = (overtaken \/ eofs < adb.f - 1)
        BY Steps, BuAloneFrame, TwrpAloneFrame DEF RestoreFile, OpenForReading, vars
      <4> QED
        BY <4>1, <2>4
    <3>2. Good
      BY <2>1, <3>1 DEF Good, RestoreInv
    <3>3. StepInv'
      BY <2>4, <3>2, HeaderStep, PlaceStep DEF StepInv
    <3>4. DataInv' /\ ChunkInv' /\ DigestInv'
      BY <2>2, <2>4, <3>2, <3>3, DataStep, ChunkStep, DigestStep
    <3>5. TrailerInv' /\ RestoredIntact'
      BY <2>4, <3>1, <3>2, TrailerStep, IntactStep
    <3> QED
      BY <3>3, <3>4, <3>5 DEF OrderInv
  <2> QED
    BY <2>2, <2>3, <2>4 DEF RestoreInv
<1>3. RestoreInv /\ UNCHANGED vars => RestoreInv'
  BY DEF RestoreInv, RestoreType, BuType, FlagType, TwrpType, FifoType, QueueInv, EofInv, Ending, Finished,
     OrderInv, StepInv, HeaderInv, PlaceInv, DataInv, ChunkInv, DigestInv, TrailerInv, RestoredIntact, Restored,
     vars, fifos, bu, twrp
<1> QED
  BY <1>1, <1>2, <1>3

\* The variables of both processes have their types, the FIFO never holds more
\* than it can, and bu hears of no more partitions than there are.
THEOREM RestoreTypeCorrect == Spec => []TypeOK
<1>1. RestoreInv => TypeOK
  BY TypeImplied DEF RestoreInv
<1> QED
  BY <1>1, RestoreInductive, PTL DEF Spec

\* As long as bu does not overtake TWRP, a partition that TWRP takes for
\* restored holds its own blocks, for every list of sizes, size of the chunks
\* and size of the FIFO, wherever TWRP closes the FIFO or fails.
THEOREM RestoreIsIntact == Spec => []RestoredIntact
<1>1. RestoreInv => RestoredIntact
  BY DEF RestoreInv, OrderInv, RestoredIntact
<1> QED
  BY <1>1, RestoreInductive, PTL DEF Spec

\* As long as bu does not overtake TWRP, the digest it sends is the one of the
\* stream, whichever part of the padding nobody reads.
THEOREM DigestIsOfTheStream == Spec => []DigestsMatch
<1>1. RestoreInv => DigestsMatch
  BY DEF RestoreInv, OrderInv, TrailerInv, DigestsMatch
<1> QED
  BY <1>1, RestoreInductive, PTL DEF Spec
=============================================================================
