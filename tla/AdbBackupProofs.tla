------------------------- MODULE AdbBackupProofs -------------------------
(***************************************************************************)
(* Proofs about AdbBackup: that bu's counters stay within a chunk, and     *)
(* that the stream has its structures in the order of the format, for all  *)
(* files, sizes of chunks, reads and FIFOs, and with a backup that fails.  *)
(***************************************************************************)
EXTENDS AdbBackup, FiniteSetTheorems, TLAPS

(* The inductive invariant *)

\* The counters of a chunk: it has room for a read, or is being filled up.
ChunkInv ==
    /\ firstDataPacket \in BOOLEAN /\ dataChunkBytes \in Nat /\ fileBytes \in Nat
    /\ bpc \notin {"drain", "extra"} =>
         /\ dataChunkBytes <= M - R
         /\ firstDataPacket => dataChunkBytes = 0
    /\ bpc = "extra" => M - R < dataChunkBytes /\ dataChunkBytes < M /\ ~firstDataPacket

\* The data FIFO holds nothing but data.
DataByte == [t : {"data"}, f : Nat, i : Nat, md5 : {<<>>}]

DataInv == data \in Seq(DataByte) /\ Len(data) <= PipeSize /\ written \in Nat

\* TWRP is at a file where it says so.
FileInv ==
    /\ tpc \in {"open", "write", "eof", "release"} => file <= F
    /\ tpc \in {"idle", "start"} => file = 1
    /\ bpc = "operation" => tpc = "idle"

ControlInv ==
    /\ control \in Seq([type : {"TWSTREAMHDR", "TWFN", "TWIMG", "TWEOF", "TWENDADB", "TWERROR"},
                        file : 0 .. F])
    /\ writer \in BOOLEAN /\ listening \in BOOLEAN
    /\ tpc \in {"idle", "start", "file", "open", "write", "eof", "release", "done", "failed"}
    /\ bpc \in {"operation", "opencontrol", "opendata", "control", "data", "extra", "drain",
                "finished", "error"}
    /\ file \in 1 .. F + 1
    /\ mishap \subseteq {"early", "lost", "overrun"}

\* The k-th command of a backup.
Command(k) ==
    IF k = 1 THEN "TWSTREAMHDR"
    ELSE IF k = 2 * F + 2 THEN "TWENDADB"
    ELSE IF k % 2 = 0 THEN Files[k \div 2].kind ELSE "TWEOF"

\* Commands taken: every structure of the stream is the answer to one, and in
\* the loop after TWEOF the trailer is still to come.
Count(bytes) == Cardinality(Marks(bytes))
Received == Count(stream) + (IF bpc = "drain" THEN 1 ELSE 0)

Sent ==
    CASE tpc \in {"idle", "start"} -> 0
      [] tpc = "file" -> 2 * file - 1
      [] tpc \in {"open", "write", "eof"} -> 2 * file
      [] tpc = "release" -> 2 * file + 1
      [] tpc = "done" -> 2 * F + 2

Refused == control = << [type |-> "TWERROR", file |-> 0] >> /\ tpc = "failed"

\* The commands on their way are the next ones, in order.
QueueInv ==
    /\ Received + Len(control) <= 2 * F + 2
    /\ tpc # "failed" => Received + Len(control) = Sent
    /\ Refused \/ \A k \in 1 .. Len(control) : control[k].type = Command(Received + k)
    /\ bpc = "drain" => Received > 1 /\ Received < 2 * F + 2 /\ Received % 2 = 1

IsSequence(bytes) == Len(bytes) \in Nat /\ bytes = [p \in 1 .. Len(bytes) |-> bytes[p]]

Formatted(bytes) ==
    \A p \in Marks(bytes) :
        LET k == Cardinality({q \in Marks(bytes) : q <= p})
        IN  k <= 2 * F + 2 /\ bytes[p].t = Expected(k)

BackupInv ==
    ControlInv /\ ChunkInv /\ DataInv /\ FileInv /\ QueueInv /\ IsSequence(stream) /\ Formatted(stream)

-----------------------------------------------------------------------------
(* Sequences of bytes and their marks *)

\* A sequence whose elements have no common type is one over their set.
LEMMA SequenceType ==
    ASSUME NEW s, IsSequence(s), NEW S, \A p \in 1 .. Len(s) : s[p] \in S
    PROVE  s \in Seq(S)
<1> DEFINE n == Len(s)
<1>1. n \in Nat /\ s = [p \in 1 .. n |-> s[p]]
    BY DEF IsSequence
<1>2. s \in [1 .. n -> S]
    BY <1>1
<1> QED
    BY <1>1, <1>2

\* And every sequence is one in this sense.
LEMMA SequenceForm ==
    ASSUME NEW S, NEW s \in Seq(S)
    PROVE  IsSequence(s)
<1>1. Len(s) \in Nat /\ s \in [1 .. Len(s) -> S]
    OBVIOUS
<1> QED
    BY <1>1 DEF IsSequence

\* What follows a sequence of bytes comes after it.
LEMMA Concatenation ==
    ASSUME NEW s, NEW e, IsSequence(s), IsSequence(e)
    PROVE  /\ IsSequence(s \o e) /\ Len(s \o e) = Len(s) + Len(e)
           /\ \A p \in 1 .. Len(s) : (s \o e)[p] = s[p]
           /\ \A p \in 1 .. Len(e) : (s \o e)[Len(s) + p] = e[p]
<1> DEFINE S == {s[p] : p \in 1 .. Len(s)} \cup {e[p] : p \in 1 .. Len(e)}
<1>1. s \in Seq(S)
    BY SequenceType
<1>2. e \in Seq(S)
    BY SequenceType
<1> HIDE DEF S
<1>3. s \o e \in Seq(S)
    BY <1>1, <1>2
<1>4. IsSequence(s \o e)
    BY <1>3, SequenceForm
<1>5. /\ Len(s \o e) = Len(s) + Len(e)
      /\ \A p \in 1 .. Len(s) : (s \o e)[p] = s[p]
    BY <1>1, <1>2
<1>6. \A p \in 1 .. Len(e) : (s \o e)[Len(s) + p] = e[p]
    BY <1>1, <1>2
<1> QED
    BY <1>4, <1>5, <1>6

\* The marks of a stream are finite in number.
LEMMA MarksFinite ==
    ASSUME NEW s, IsSequence(s)
    PROVE  IsFiniteSet(Marks(s)) /\ Count(s) \in Nat
<1>1. IsFiniteSet(1 .. Len(s))
  <2>1. 1 \in Int /\ Len(s) \in Int
      BY DEF IsSequence
  <2> QED
      BY <2>1, FS_Interval
<1>2. IsFiniteSet(Marks(s))
    BY <1>1, FS_Subset DEF Marks
<1> QED
    BY <1>2, FS_CardinalityType DEF Count

\* Data, padding and the headers of chunks add no mark.
LEMMA NoMark ==
    ASSUME NEW s, NEW e, IsSequence(s), IsSequence(e), Formatted(s), Marks(e) = {}
    PROVE  IsSequence(s \o e) /\ Formatted(s \o e) /\ Count(s \o e) = Count(s)
<1>1. Len(s) \in Nat /\ Len(e) \in Nat
    BY DEF IsSequence
<1>2. ASSUME NEW p \in 1 .. Len(s) + Len(e), p > Len(s) PROVE p \notin Marks(s \o e)
  <2>1. p - Len(s) \in 1 .. Len(e) /\ p = Len(s) + (p - Len(s))
      BY <1>1, <1>2
  <2>2. (s \o e)[p] = e[p - Len(s)]
      BY <2>1, Concatenation
  <2> QED
      BY <2>1, <2>2 DEF Marks
<1>3. Marks(s \o e) = Marks(s)
  <2>1. ASSUME NEW p \in 1 .. Len(s) PROVE p \in Marks(s \o e) <=> p \in Marks(s)
    <3>1. p \in 1 .. Len(s \o e) /\ (s \o e)[p] = s[p]
        BY <1>1, Concatenation
    <3> QED
        BY <3>1 DEF Marks
  <2>2. Marks(s) \subseteq 1 .. Len(s) /\ Marks(s \o e) \subseteq 1 .. Len(s) + Len(e)
      BY Concatenation DEF Marks
  <2>3. ASSUME NEW p \in Marks(s \o e) PROVE p \in 1 .. Len(s)
      BY <1>1, <1>2, <2>2
  <2> QED
      BY <2>1, <2>2, <2>3
<1>4. \A p \in Marks(s) : (s \o e)[p] = s[p]
    BY Concatenation DEF Marks
<1> QED
    BY <1>3, <1>4, Concatenation DEF Formatted, Count

\* A structure adds the mark that the format expects next.
LEMMA OneMark ==
    ASSUME NEW s, IsSequence(s), Formatted(s), NEW t, NEW f, NEW md5,
           t \notin {"data", "zero", "TWDATA"}, t = Expected(Count(s) + 1), Count(s) < 2 * F + 2
    PROVE  /\ IsSequence(s \o Struct(t, f, md5)) /\ Formatted(s \o Struct(t, f, md5))
           /\ Count(s \o Struct(t, f, md5)) = Count(s) + 1
<1> DEFINE e == Struct(t, f, md5)
           n == Len(s) + 1
           new == s \o e
<1>1. /\ IsSequence(e) /\ Len(e) = R /\ R \in Nat /\ R >= 1 /\ Len(s) \in Nat
      /\ \A p \in 1 .. R : e[p].i = p /\ e[p].t = t
  <2>1. R \in Nat /\ R >= 1
      BY FilesAssumption
  <2>2. e = [p \in 1 .. R |-> Byte(t, f, p, md5)]
      BY DEF Struct
  <2>3. Len(e) = R /\ \A p \in 1 .. R : e[p] = Byte(t, f, p, md5)
      BY <2>1, <2>2
  <2>4. e = [p \in 1 .. R |-> e[p]]
      BY <2>2
  <2>5. IsSequence(e) /\ Len(s) \in Nat
      BY <2>1, <2>3, <2>4 DEF IsSequence
  <2>6. \A p : Byte(t, f, p, md5).i = p /\ Byte(t, f, p, md5).t = t
      BY DEF Byte
  <2> QED
      BY <2>1, <2>3, <2>5, <2>6
<1> HIDE DEF e
<1>2. /\ IsSequence(new) /\ Len(new) = Len(s) + R
      /\ \A p \in 1 .. Len(s) : new[p] = s[p]
      /\ \A p \in 1 .. R : new[Len(s) + p] = e[p]
    BY <1>1, Concatenation
<1> HIDE DEF new
<1>3. ASSUME NEW p \in 1 .. Len(new) PROVE p \in Marks(new) <=> p \in Marks(s) \/ p = n
  <2>1. CASE p <= Len(s)
    <3>1. p \in 1 .. Len(s) /\ p # n
        BY <1>1, <2>1
    <3>2. new[p] = s[p]
        BY <1>2, <3>1
    <3> QED
        BY <3>1, <3>2 DEF Marks
  <2>2. CASE p > Len(s)
    <3>1. p - Len(s) \in 1 .. R /\ p = Len(s) + (p - Len(s)) /\ (p - Len(s) = 1 <=> p = n)
        BY <1>1, <1>2, <2>2
    <3>2. new[p].i = p - Len(s) /\ new[p].t = t
        BY <1>1, <1>2, <3>1
    <3>3. p \notin 1 .. Len(s)
        BY <2>2
    <3> QED
        BY <3>1, <3>2, <3>3 DEF Marks
  <2> QED
      BY <1>1, <1>2, <2>1, <2>2
<1>4. n \in 1 .. Len(new) /\ n \notin Marks(s) /\ Marks(s) \subseteq 1 .. Len(s) /\ 1 .. Len(s) \subseteq 1 .. Len(new)
    BY <1>1, <1>2 DEF Marks
<1>5. Marks(new) = Marks(s) \cup {n}
    BY <1>3, <1>4 DEF Marks
<1>6. IsFiniteSet(Marks(s)) /\ Count(s) \in Nat
    BY MarksFinite
<1>7. Count(new) = Count(s) + 1
    BY <1>4, <1>5, <1>6, FS_AddElement DEF Count
<1>8. ASSUME NEW p \in Marks(new)
      PROVE  LET k == Cardinality({q \in Marks(new) : q <= p})
             IN  k <= 2 * F + 2 /\ new[p].t = Expected(k)
  <2>1. CASE p = n
    <3>1. {q \in Marks(new) : q <= p} = Marks(new)
        BY <1>1, <1>4, <1>5, <2>1
    <3>2. new[p].t = t
        BY <1>1, <1>2, <2>1
    <3>3. F \in Nat
        BY FilesAssumption DEF F
    <3> QED
        BY <1>6, <1>7, <3>1, <3>2, <3>3 DEF Count
  <2>2. CASE p \in Marks(s)
    <3>1. {q \in Marks(new) : q <= p} = {q \in Marks(s) : q <= p}
        BY <1>1, <1>4, <1>5, <2>2
    <3>2. new[p] = s[p]
        BY <1>2, <1>4, <2>2
    <3> QED
        BY <2>2, <3>1, <3>2 DEF Formatted
  <2> QED
      BY <1>5, <2>1, <2>2
<1> QED
    BY <1>2, <1>7, <1>8 DEF Formatted, new, e

-----------------------------------------------------------------------------
(* One step *)

\* The number of files, and what they are.
LEMMA FilesType ==
    /\ F \in Nat /\ R \in Nat /\ R > 0 /\ M \in Nat /\ M >= 2 * R /\ PipeSize \in Nat
    /\ \A f \in 1 .. F : /\ Files[f].kind \in {"TWFN", "TWIMG"}
                         /\ Files[f].compressed \in BOOLEAN /\ Files[f].size \in Nat
<1>1. R \in Nat \ {0} /\ M \in Nat /\ M >= 2 * R /\ PipeSize \in Nat
    BY FilesAssumption, Zenon
<1> DEFINE Entry == [kind : {"TWFN", "TWIMG"}, compressed : BOOLEAN, size : Nat \ {0}]
<1>2. Files \in Seq(Entry)
    BY FilesAssumption, Zenon
<1> HIDE DEF Entry
<1>3. F \in Nat /\ \A f \in 1 .. F : Files[f] \in Entry
    BY <1>2 DEF F
<1> QED
    BY <1>1, <1>3 DEF Entry

\* A command that bu answers with a structure is the one of the format, and
\* TWEOF stands for the trailer.
LEMMA CommandFormat ==
    ASSUME NEW k \in 1 .. 2 * F + 2
    PROVE  /\ Command(k) # "TWERROR"
           /\ Command(k) = "TWEOF" => k > 1 /\ k < 2 * F + 2 /\ k % 2 = 1
           /\ Command(k) # "TWEOF" => Command(k) = Expected(k)
<1>1. CASE k = 1 \/ k = 2 * F + 2
    BY <1>1, FilesType DEF Command, Expected
<1>2. CASE k > 1 /\ k < 2 * F + 2 /\ k % 2 = 0
  <2>1. k \div 2 \in 1 .. F
      BY <1>2, FilesType
  <2> QED
      BY <1>2, <2>1, FilesType DEF Command, Expected
<1>3. CASE k > 1 /\ k < 2 * F + 2 /\ k % 2 = 1
    BY <1>3, FilesType DEF Command, Expected
<1> QED
    BY <1>1, <1>2, <1>3, FilesType

\* Control states, files and the list of mishaps.
LEMMA ControlStep ==
    ASSUME BackupInv, Next
    PROVE  ControlInv' /\ FileInv'
<1> USE FilesType
<1>1. CASE WriteStreamHeader \/ WriteFileHeader \/ WriteTWEOF \/ WriteStreamTrailer
  <2> DEFINE Commands == [type : {"TWSTREAMHDR", "TWFN", "TWIMG", "TWEOF", "TWENDADB", "TWERROR"},
                          file : 0 .. F]
  <2>1. /\ UNCHANGED <<listening, writer, file, mishap, bpc>> /\ bpc # "operation"
        /\ tpc' \in {"file", "failed", "open", "release", "done"}
        /\ tpc' \in {"open", "release"} => file <= F
      BY <1>1 DEF WriteStreamHeader, WriteFileHeader, WriteTWEOF, WriteStreamTrailer, BackupInv,
         ControlInv, FileInv, bu, hist
  <2>2. PICK type \in {"TWSTREAMHDR", "TWFN", "TWIMG", "TWEOF", "TWENDADB", "TWERROR"}, f \in 0 .. F :
            Send(type, f)
    <3>1. CASE WriteStreamHeader \/ WriteStreamTrailer
        BY <3>1 DEF WriteStreamHeader, WriteStreamTrailer
    <3>2. CASE WriteFileHeader
        BY <3>2 DEF WriteFileHeader, BackupInv, ControlInv
    <3>3. CASE WriteTWEOF
        BY <3>3 DEF WriteTWEOF, BackupInv, ControlInv, FileInv
    <3> QED
        BY <1>1, <3>1, <3>2, <3>3
  <2>3. control' \in Seq(Commands)
      BY <2>2 DEF Send, BackupInv, ControlInv
  <2> QED
      BY <2>1, <2>3 DEF ControlInv, FileInv, BackupInv
<1>2. CASE OpenData \/ CloseData \/ Release \/ BackupFails
  <2>1. /\ UNCHANGED <<control, listening, bpc, mishap>> /\ writer' \in BOOLEAN /\ bpc # "operation"
        /\ tpc' \in {"write", "eof", "file", "failed"}
        /\ tpc' \in {"write", "eof"} => file' <= F
        /\ file' \in 1 .. F + 1
    <3>1. CASE OpenData
        BY <3>1 DEF OpenData, BackupInv, ControlInv, FileInv, bu, hist
    <3>2. CASE CloseData
        BY <3>2 DEF CloseData, BackupInv, ControlInv, FileInv, bu, hist
    <3>3. CASE Release
      <4>1. file \in 1 .. F + 1 /\ file <= F /\ bpc # "operation"
          BY <3>3 DEF Release, BackupInv, ControlInv, FileInv
      <4>2. file' = file + 1 /\ tpc' = "file" /\ writer' \in BOOLEAN /\ UNCHANGED <<control, listening, bpc, mishap>>
          BY <3>3 DEF Release, bu, hist
      <4>3. file' \in 1 .. F + 1
          BY <4>1, <4>2
      <4> QED
          BY <4>1, <4>2, <4>3
    <3>4. CASE BackupFails
        BY <3>4 DEF BackupFails, BackupInv, ControlInv, FileInv, bu, hist
    <3> QED
        BY <1>2, <3>1, <3>2, <3>3, <3>4
  <2> QED
      BY <2>1 DEF BackupInv, ControlInv, FileInv
<1>8. CASE WriteOperation \/ OpenFifos
    BY <1>8 DEF WriteOperation, OpenFifos, BackupInv, ControlInv, FileInv, hist, fifos, twrp
<1>3. CASE \E n \in 1 .. R : WriteData(n)
    BY <1>3 DEF WriteData, BackupInv, ControlInv, FileInv, bu, hist
<1>4. CASE NoCommand \/ NoData \/ ExtraEnds \/ WriteTrailer \/ Ended
    BY <1>4 DEF NoCommand, NoData, ExtraEnds, WriteTrailer, Ended, BackupInv, ControlInv, FileInv,
       vars, fifos, twrp, bu, hist
<1>5. CASE \/ ReceiveStreamHeader \/ (\E kind \in {"TWFN", "TWIMG"} : ReceiveFileHeader(kind))
           \/ ReceiveTWEOF \/ ReceiveEnd \/ ReceiveError
  <2>1. /\ control # <<>> /\ control' = Tail(control) /\ UNCHANGED <<listening, writer, twrp, mishap>>
        /\ bpc = "control" /\ bpc' \in {"data", "drain", "finished", "error"}
      BY <1>5 DEF ReceiveStreamHeader, ReceiveFileHeader, ReceiveTWEOF, ReceiveEnd, ReceiveError, Receive,
         hist
  <2> QED
      BY <2>1 DEF BackupInv, ControlInv, FileInv, twrp
<1>6. CASE Drain \/ DrainNothing
    BY <1>6 DEF Drain, DrainNothing, Overrun, BackupInv, ControlInv, FileInv, twrp, fifos
<1>7. CASE ReadData \/ ReadExtra
  <2>1. /\ UNCHANGED <<control, listening, writer, tpc, file>>
        /\ bpc \in {"data", "extra"} /\ bpc' \in {"data", "extra"}
        /\ mishap' \subseteq mishap \cup {"early"}
      BY <1>7 DEF ReadData, ReadExtra, TakeData, twrp
  <2> QED
      BY <2>1 DEF BackupInv, ControlInv, FileInv
<1> QED
    BY <1>1, <1>2, <1>3, <1>4, <1>5, <1>6, <1>7, <1>8 DEF Next, TwrpStep, BuStep

\* The counters.
LEMMA ChunkStep ==
    ASSUME BackupInv, Next
    PROVE  ChunkInv'
<1> USE FilesType
<1>1. CASE TwrpStep \/ BackupFails \/ Ended
  <2>1. UNCHANGED bu
      BY <1>1 DEF TwrpStep, BackupFails, Ended, WriteStreamHeader, WriteFileHeader, WriteTWEOF,
         WriteStreamTrailer, OpenData, CloseData, Release, WriteData, vars
  <2> QED
      BY <2>1 DEF bu, BackupInv, ChunkInv
<1>2. CASE \/ WriteOperation \/ OpenFifos \/ NoCommand \/ NoData \/ ReceiveStreamHeader
           \/ (\E kind \in {"TWFN", "TWIMG"} : ReceiveFileHeader(kind))
           \/ ReceiveTWEOF \/ ReceiveEnd \/ ReceiveError
    BY <1>2 DEF WriteOperation, OpenFifos, NoCommand, NoData, ReceiveStreamHeader, ReceiveFileHeader,
       ReceiveTWEOF, ReceiveEnd, ReceiveError, Receive, BackupInv, ChunkInv
<1>3. CASE Drain \/ DrainNothing
  <2>1. /\ bpc = "drain" /\ UNCHANGED <<bpc, firstDataPacket>>
        /\ fileBytes' = fileBytes + 1 /\ dataChunkBytes' = dataChunkBytes + 1
      BY <1>3 DEF Drain, DrainNothing, DrainByte
  <2> QED
      BY <2>1 DEF BackupInv, ChunkInv
<1>6. CASE WriteTrailer \/ ExtraEnds
  <2>1. bpc' = "data" /\ firstDataPacket' = TRUE /\ dataChunkBytes' = 0 /\ fileBytes' \in {0, fileBytes}
      BY <1>6 DEF WriteTrailer, ExtraEnds
  <2> QED
      BY <2>1 DEF BackupInv, ChunkInv
<1>4. CASE ReadData
  <2> DEFINE n == IF Len(data) < R THEN Len(data) ELSE R
             h == IF firstDataPacket THEN R ELSE 0
             bytes == dataChunkBytes + h + n
  <2>1. n \in Nat /\ n > 0 /\ n <= R /\ h \in Nat
      BY <1>4 DEF ReadData, BackupInv, DataInv
  <2>2. Len(IF firstDataPacket THEN Struct("TWDATA", 0, <<>>) ELSE <<>>) = h
      BY DEF Struct
  <2>3. /\ bpc = "data" /\ fileBytes' = fileBytes + h + n
        /\ dataChunkBytes' = IF bytes = M THEN 0 ELSE bytes
        /\ firstDataPacket' = (bytes = M)
        /\ bpc' = IF bytes # M /\ bytes > M - R THEN "extra" ELSE "data"
      BY <1>4, <2>2 DEF ReadData, TakeData
  <2>4. /\ dataChunkBytes \in Nat /\ fileBytes \in Nat /\ dataChunkBytes <= M - R
        /\ firstDataPacket => dataChunkBytes = 0
      BY <2>3 DEF BackupInv, ChunkInv
  <2>5. h = 0 \/ (h = R /\ dataChunkBytes = 0)
      BY <2>4
  <2> HIDE DEF n, h
  <2>6. bytes \in Nat /\ bytes <= M
      BY <2>1, <2>4, <2>5
  <2>7. fileBytes' \in Nat
      BY <2>1, <2>3, <2>4
  <2> HIDE DEF bytes
  <2>8. CASE bytes = M
      BY <2>3, <2>7, <2>8 DEF ChunkInv
  <2>9. CASE bytes # M
    <3>1. dataChunkBytes' = bytes /\ ~firstDataPacket' /\ firstDataPacket' \in BOOLEAN
        BY <2>3, <2>9
    <3>3. bytes < M
        BY <2>6, <2>9
    <3>2. bpc' = IF bytes > M - R THEN "extra" ELSE "data"
        BY <2>3, <2>9
    <3> QED
        BY <2>6, <2>7, <3>1, <3>2, <3>3 DEF ChunkInv
  <2> QED
      BY <2>8, <2>9
<1>5. CASE ReadExtra
  <2> DEFINE left == M - dataChunkBytes
             n == IF Len(data) < left THEN Len(data) ELSE left
  <2>1. left \in Nat /\ n \in Nat /\ n > 0 /\ n <= left /\ bpc = "extra"
      BY <1>5 DEF ReadExtra, BackupInv, DataInv, ChunkInv
  <2>2. /\ fileBytes' = fileBytes + 0 + n
        /\ dataChunkBytes' = IF n = left THEN 0 ELSE dataChunkBytes + n
        /\ firstDataPacket' = (n = left)
        /\ bpc' = IF n = left THEN "data" ELSE "extra"
      BY <1>5 DEF ReadExtra, TakeData
  <2> HIDE DEF n
  <2> QED
      BY <2>1, <2>2 DEF BackupInv, ChunkInv
<1> QED
    BY <1>1, <1>2, <1>3, <1>4, <1>5, <1>6 DEF Next, BuStep

\* What a read leaves in the FIFO.
LEMMA Rest ==
    ASSUME NEW S, NEW s \in Seq(S), NEW n \in 0 .. Len(s)
    PROVE  SubSeq(s, n + 1, Len(s)) \in Seq(S) /\ Len(SubSeq(s, n + 1, Len(s))) <= Len(s)
    OBVIOUS

\* What a read takes from it.
LEMMA Taken ==
    ASSUME NEW S, NEW s \in Seq(S), NEW n \in 0 .. Len(s)
    PROVE  SubSeq(s, 1, n) \in Seq(S) /\ Len(SubSeq(s, 1, n)) = n
    OBVIOUS

\* The data FIFO.
LEMMA DataStep ==
    ASSUME BackupInv, Next
    PROVE  DataInv'
<1> USE FilesType
<1>1. ASSUME UNCHANGED data, written' \in {0, written} PROVE DataInv'
    BY <1>1 DEF BackupInv, DataInv
<1>2. ASSUME NEW n \in 1 .. R, WriteData(n) PROVE DataInv'
  <2> DEFINE new == SubSeq(Content(file), written + 1, written + n)
  <2>1. /\ file \in 1 .. F /\ written \in Nat /\ written + n <= Files[file].size
        /\ Len(data) + n <= PipeSize /\ data' = data \o new /\ written' = written + n
      BY <1>2 DEF WriteData, BackupInv, ControlInv, FileInv, DataInv
  <2>2. Content(file) \in Seq(DataByte) /\ Len(Content(file)) = Files[file].size
    <3> DEFINE size == Files[file].size
    <3>1. size \in Nat /\ file \in Nat
        BY <2>1
    <3>2. \A i \in 1 .. size : Byte("data", file, i, <<>>) \in DataByte
        BY <3>1 DEF Byte, DataByte
    <3>3. Content(file) = [i \in 1 .. size |-> Byte("data", file, i, <<>>)]
        BY DEF Content
    <3> HIDE DEF size
    <3>4. Content(file) \in Seq(DataByte) /\ Len(Content(file)) = size
        BY <3>1, <3>2, <3>3
    <3> QED
        BY <3>4 DEF size
  <2>3. new \in Seq(DataByte) /\ Len(new) = n
      BY <2>1, <2>2
  <2> HIDE DEF new
  <2> QED
      BY <2>1, <2>3 DEF BackupInv, DataInv
<1>3. ASSUME NEW n \in 0 .. Len(data), data' = SubSeq(data, n + 1, Len(data)), UNCHANGED written PROVE DataInv'
    BY <1>3, Rest DEF BackupInv, DataInv
<1>4. Len(data) \in Nat
    BY DEF BackupInv, DataInv
<1>5. CASE Drain \/ ReadData
  <2> DEFINE n == IF Len(data) < R THEN Len(data) ELSE R
  <2>1. n \in 0 .. Len(data)
      BY <1>4
  <2>2. data' = SubSeq(data, n + 1, Len(data)) /\ UNCHANGED written
      BY <1>5 DEF Drain, ReadData, TakeData, twrp
  <2> QED
      BY <1>3, <2>1, <2>2
<1>6. CASE ReadExtra
  <2> DEFINE left == M - dataChunkBytes
             n == IF Len(data) < left THEN Len(data) ELSE left
  <2>1. n \in 0 .. Len(data)
      BY <1>4, <1>6 DEF ReadExtra, BackupInv, ChunkInv
  <2>2. data' = SubSeq(data, n + 1, Len(data)) /\ UNCHANGED written
      BY <1>6 DEF ReadExtra, TakeData, twrp
  <2> QED
      BY <1>3, <2>1, <2>2
<1>7. CASE \/ WriteStreamHeader \/ WriteFileHeader \/ OpenData \/ CloseData \/ WriteTWEOF \/ Release
           \/ WriteStreamTrailer \/ BackupFails \/ WriteOperation \/ OpenFifos \/ NoCommand
           \/ ReceiveStreamHeader \/ (\E kind \in {"TWFN", "TWIMG"} : ReceiveFileHeader(kind))
           \/ ReceiveTWEOF \/ ReceiveEnd \/ ReceiveError \/ DrainNothing \/ WriteTrailer
           \/ NoData \/ ExtraEnds \/ Ended
  <2>1. UNCHANGED data /\ written' \in {0, written}
      BY <1>7 DEF WriteStreamHeader, WriteFileHeader, OpenData, CloseData, WriteTWEOF, Release,
         WriteStreamTrailer, BackupFails, WriteOperation, OpenFifos, NoCommand, ReceiveStreamHeader,
         ReceiveFileHeader, ReceiveTWEOF, ReceiveEnd, ReceiveError, DrainNothing, WriteTrailer, NoData,
         ExtraEnds, Ended, vars, fifos, twrp
  <2> QED
      BY <1>1, <2>1
<1> QED
    BY <1>2, <1>5, <1>6, <1>7 DEF Next, TwrpStep, BuStep

\* A command that is taken is the next one of the backup.
LEMMA ReceiveStep ==
    ASSUME BackupInv, NEW type, Receive(type), type # "TWERROR"
    PROVE  /\ Received = Count(stream) /\ Count(stream) \in Nat /\ Received + 1 \in 1 .. 2 * F + 2
           /\ type = Command(Received + 1)
           /\ Len(control') \in Nat /\ Len(control) = Len(control') + 1
           /\ \A k \in 1 .. Len(control') : control'[k].type = Command(Received + 1 + k)
<1> USE FilesType
<1>1. /\ bpc = "control" /\ control # <<>> /\ Head(control).type = type /\ control' = Tail(control)
      /\ Count(stream) \in Nat
    BY MarksFinite DEF Receive, BackupInv
<1>2. Received = Count(stream)
    BY <1>1 DEF Received
<1>3. /\ Len(control) \in Nat /\ Len(control) >= 1 /\ Head(control) = control[1]
      /\ Len(control') = Len(control) - 1
      /\ \A k \in 1 .. Len(control') : control'[k] = control[k + 1]
    BY <1>1 DEF BackupInv, ControlInv
<1>4. ~Refused
    BY <1>1 DEF Refused
<1>5. /\ \A k \in 1 .. Len(control) : control[k].type = Command(Received + k)
      /\ Received + Len(control) <= 2 * F + 2
    BY <1>4 DEF BackupInv, QueueInv
<1>6. ASSUME NEW k \in 1 .. Len(control') PROVE control'[k].type = Command(Received + 1 + k)
  <2>1. k + 1 \in 1 .. Len(control) /\ Received + (k + 1) = Received + 1 + k
      BY <1>1, <1>2, <1>3
  <2> QED
      BY <1>3, <1>5, <2>1
<1>7. type = Command(Received + 1)
    BY <1>1, <1>3, <1>5
<1> QED
    BY <1>1, <1>2, <1>3, <1>5, <1>6, <1>7

\* So is one that is sent.
LEMMA SendStep ==
    ASSUME BackupInv, NEW type, NEW f, Send(type, f), tpc # "failed", type = Command(Sent + 1)
    PROVE  /\ Received \in Nat /\ Received + Len(control') = Sent + 1
           /\ \A k \in 1 .. Len(control') : control'[k].type = Command(Received + k)
<1>1. Count(stream) \in Nat
    BY MarksFinite DEF BackupInv
<1>2. Received \in Nat
    BY <1>1 DEF Received
<1>3. /\ Len(control) \in Nat /\ Len(control') = Len(control) + 1
      /\ \A k \in 1 .. Len(control) : control'[k] = control[k]
      /\ control'[Len(control) + 1].type = type
    BY DEF Send, BackupInv, ControlInv
<1>4. ~Refused
    BY DEF Refused
<1>5. /\ Received + Len(control) = Sent
      /\ \A k \in 1 .. Len(control) : control[k].type = Command(Received + k)
    BY <1>4 DEF BackupInv, QueueInv
<1>6. ASSUME NEW k \in 1 .. Len(control') PROVE control'[k].type = Command(Received + k)
  <2>1. CASE k \in 1 .. Len(control)
      BY <1>3, <1>5, <2>1
  <2>2. CASE k = Len(control) + 1
    <3>1. Received + k = Sent + 1
        BY <1>2, <1>3, <1>5, <2>2
    <3> QED
        BY <1>3, <2>2, <3>1
  <2> QED
      BY <1>3, <2>1, <2>2
<1> QED
    BY <1>2, <1>3, <1>5, <1>6

\* The parts of the invariant that are about the stream.
FormatInv == QueueInv /\ IsSequence(stream) /\ Formatted(stream)

\* TWRP's commands.
LEMMA CommandsStep ==
    ASSUME BackupInv, WriteStreamHeader \/ WriteFileHeader \/ WriteTWEOF \/ WriteStreamTrailer
    PROVE  FormatInv'
<1> USE FilesType
<1>1. UNCHANGED <<stream, bpc, file>>
    BY DEF WriteStreamHeader, WriteFileHeader, WriteTWEOF, WriteStreamTrailer, bu
<1>2. Received' = Received /\ IsSequence(stream)' /\ Formatted(stream)'
    BY <1>1 DEF Received, BackupInv
<1>3. bpc' = "drain" => Received' > 1 /\ Received' < 2 * F + 2 /\ Received' % 2 = 1
    BY <1>1, <1>2 DEF BackupInv, QueueInv
<1>4. CASE WriteStreamHeader /\ tpc' = "failed"
  <2>1. tpc = "start" /\ control' = Append(control, [type |-> "TWERROR", file |-> 0])
      BY <1>4 DEF WriteStreamHeader, Send
  <2>2. Count(stream) \in Nat
      BY MarksFinite DEF BackupInv
  <2>3. Received = 0 /\ Len(control) = 0
    <3>1. Received \in Nat /\ Len(control) \in Nat
        BY <2>2 DEF Received, BackupInv, ControlInv
    <3>2. Received + Len(control) = 0
        BY <2>1 DEF BackupInv, QueueInv, Sent
    <3> QED
        BY <3>1, <3>2
  <2>4. control' = << [type |-> "TWERROR", file |-> 0] >>
      BY <2>1, <2>3 DEF BackupInv, ControlInv
  <2>5. Refused'
      BY <1>4, <2>4 DEF Refused
  <2>6. Received' + Len(control') <= 2 * F + 2
      BY <1>2, <2>3, <2>4
  <2> QED
      BY <1>2, <1>3, <1>4, <2>5, <2>6 DEF FormatInv, QueueInv
<1>5. ASSUME NEW type, NEW f, Send(type, f), tpc # "failed", tpc' # "failed", type = Command(Sent + 1),
             Sent' = Sent + 1, Sent' <= 2 * F + 2
      PROVE  FormatInv'
    BY <1>2, <1>3, <1>5, SendStep DEF FormatInv, QueueInv
<1>6. CASE WriteStreamHeader /\ tpc' # "failed"
  <2>1. tpc = "start" /\ tpc' = "file" /\ Send("TWSTREAMHDR", 0) /\ file = 1
      BY <1>6 DEF WriteStreamHeader, BackupInv, FileInv
  <2> QED
      BY <1>1, <1>5, <2>1 DEF Sent, Command
<1>7. CASE WriteFileHeader
  <2>1. tpc = "file" /\ tpc' = "open" /\ Send(Files[file].kind, file) /\ file \in 1 .. F
      BY <1>7 DEF WriteFileHeader, BackupInv, ControlInv
  <2>2. Sent = 2 * file - 1 /\ Sent' = 2 * file
      BY <1>1, <2>1 DEF Sent
  <2>3. Sent + 1 = 2 * file
      BY <2>1, <2>2
  <2>4. 2 * file # 1 /\ 2 * file # 2 * F + 2 /\ (2 * file) % 2 = 0 /\ (2 * file) \div 2 = file
        /\ 2 * file <= 2 * F + 2
      BY <2>1
  <2>5. Command(Sent + 1) = Files[file].kind
      BY <2>3, <2>4 DEF Command
  <2> QED
      BY <1>5, <2>1, <2>2, <2>3, <2>4, <2>5
<1>8. CASE WriteTWEOF
  <2>1. tpc = "eof" /\ tpc' = "release" /\ Send("TWEOF", file) /\ file \in 1 .. F
      BY <1>8 DEF WriteTWEOF, BackupInv, ControlInv, FileInv
  <2>2. Sent = 2 * file /\ Sent' = 2 * file + 1
      BY <1>1, <2>1 DEF Sent
  <2>3. 2 * file + 1 # 1 /\ 2 * file + 1 # 2 * F + 2 /\ (2 * file + 1) % 2 # 0 /\ 2 * file + 1 <= 2 * F + 2
      BY <2>1
  <2>4. Command(Sent + 1) = "TWEOF"
      BY <2>2, <2>3 DEF Command
  <2> QED
      BY <1>5, <2>1, <2>2, <2>3, <2>4
<1>9. CASE WriteStreamTrailer
  <2>1. tpc = "file" /\ tpc' = "done" /\ Send("TWENDADB", 0) /\ file = F + 1
      BY <1>9 DEF WriteStreamTrailer
  <2>2. Sent = 2 * file - 1 /\ Sent' = 2 * F + 2
      BY <2>1 DEF Sent
  <2>3. Sent + 1 = 2 * F + 2 /\ 2 * F + 2 # 1
      BY <2>1, <2>2
  <2>4. Command(Sent + 1) = "TWENDADB"
      BY <2>3 DEF Command
  <2> QED
      BY <1>5, <2>1, <2>2, <2>3, <2>4
<1> QED
    BY <1>4, <1>6, <1>7, <1>8, <1>9

\* One byte more.
LEMMA AppendIsConcatenation ==
    ASSUME NEW s, NEW b, IsSequence(s)
    PROVE  Append(s, b) = s \o <<b>>
<1> DEFINE S == {s[p] : p \in 1 .. Len(s)} \cup {b}
<1>1. s \in Seq(S)
    BY SequenceType
<1>2. b \in S
    OBVIOUS
<1> HIDE DEF S
<1> QED
    BY <1>1, <1>2

\* And none more.
LEMMA EmptyAdds ==
    ASSUME NEW s, IsSequence(s)
    PROVE  s \o <<>> = s
<1> DEFINE S == {s[p] : p \in 1 .. Len(s)}
<1>1. s \in Seq(S)
    BY SequenceType
<1> HIDE DEF S
<1> QED
    BY <1>1

\* Padding has no marks.
LEMMA PaddingPlain ==
    ASSUME fileBytes \in Nat
    PROVE  IsSequence(Padding) /\ Marks(Padding) = {}
<1> DEFINE n == (M - (fileBytes % M)) % M
<1>1. n \in Nat
    BY FilesType
<1>2. Padding = [p \in 1 .. n |-> Zero]
    BY DEF Padding, Zeros
<1> HIDE DEF n
<1>3. Len(Padding) = n /\ Padding = [p \in 1 .. n |-> Padding[p]] /\ \A p \in 1 .. n : Padding[p].t = "zero"
    BY <1>1, <1>2 DEF Zero, Byte
<1> QED
    BY <1>1, <1>3 DEF IsSequence, Marks

\* Nor has data.
LEMMA DataPlain ==
    ASSUME NEW s \in Seq(DataByte)
    PROVE  IsSequence(s) /\ Marks(s) = {}
<1>1. IsSequence(s)
    BY SequenceForm
<1>2. \A p \in 1 .. Len(s) : s[p].t = "data"
  <2>1. \A p \in 1 .. Len(s) : s[p] \in DataByte
      OBVIOUS
  <2> QED
      BY <2>1 DEF DataByte
<1> QED
    BY <1>1, <1>2 DEF Marks

\* Nor the header of a chunk.
LEMMA HeaderPlain ==
    LET s == Struct("TWDATA", 0, <<>>) IN IsSequence(s) /\ Marks(s) = {}
<1> DEFINE s == Struct("TWDATA", 0, <<>>)
<1>1. s = [p \in 1 .. R |-> Byte("TWDATA", 0, p, <<>>)] /\ R \in Nat
    BY FilesType DEF Struct
<1> HIDE DEF s
<1>2. Len(s) = R /\ s = [p \in 1 .. R |-> s[p]] /\ \A p \in 1 .. R : s[p].t = "TWDATA"
    BY <1>1 DEF Byte
<1>3. IsSequence(s) /\ Marks(s) = {}
    BY <1>1, <1>2 DEF IsSequence, Marks
<1> QED
    BY <1>3 DEF s

\* bu's answers.
LEMMA AnswersStep ==
    ASSUME BackupInv,
           \/ ReceiveStreamHeader \/ (\E kind \in {"TWFN", "TWIMG"} : ReceiveFileHeader(kind))
           \/ ReceiveTWEOF \/ ReceiveEnd \/ ReceiveError \/ WriteTrailer
    PROVE  FormatInv'
<1> USE FilesType
<1>1. UNCHANGED <<tpc, file>>
    BY DEF ReceiveStreamHeader, ReceiveFileHeader, ReceiveTWEOF, ReceiveEnd, ReceiveError, WriteTrailer, twrp
<1>2. Sent' = Sent
    BY <1>1 DEF Sent
<1>3. IsSequence(stream) /\ Formatted(stream) /\ Count(stream) \in Nat
    BY MarksFinite DEF BackupInv
\* Of the commands that are answered with a structure.
<1>4. ASSUME NEW type, NEW f, NEW md5, Receive(type), type \notin {"TWEOF", "TWERROR", "data", "zero", "TWDATA"},
             stream' = stream \o Struct(type, f, md5), bpc' # "drain"
      PROVE  FormatInv'
  <2>1. /\ Received = Count(stream) /\ Received + 1 \in 1 .. 2 * F + 2
        /\ type = Command(Received + 1)
        /\ Len(control') \in Nat /\ Len(control) = Len(control') + 1
        /\ \A k \in 1 .. Len(control') : control'[k].type = Command(Received + 1 + k)
      BY <1>4, ReceiveStep
  <2>2. type = Expected(Count(stream) + 1) /\ Count(stream) < 2 * F + 2
      BY <1>3, <1>4, <2>1, CommandFormat
  <2>3. IsSequence(stream') /\ Formatted(stream') /\ Count(stream') = Count(stream) + 1
      BY <1>3, <1>4, <2>2, OneMark
  <2>4. Received' = Received + 1
      BY <1>4, <2>1, <2>3 DEF Received
  <2>5. Received' + Len(control') = Received + Len(control)
      BY <1>3, <2>1, <2>4
  <2>6. QueueInv'
      BY <1>1, <1>2, <1>4, <2>1, <2>4, <2>5 DEF BackupInv, QueueInv
  <2> QED
      BY <2>3, <2>6 DEF FormatInv
<1>5. CASE ReceiveStreamHeader
    BY <1>4, <1>5 DEF ReceiveStreamHeader
<1>6. CASE \E kind \in {"TWFN", "TWIMG"} : ReceiveFileHeader(kind)
  <2>1. PICK kind \in {"TWFN", "TWIMG"} : ReceiveFileHeader(kind)
      BY <1>6
  <2> QED
      BY <1>4, <2>1 DEF ReceiveFileHeader
<1>7. CASE ReceiveEnd
    BY <1>4, <1>7 DEF ReceiveEnd
<1>8. CASE ReceiveTWEOF
  <2>1. Receive("TWEOF") /\ bpc' = "drain" /\ stream' = stream
      BY <1>8 DEF ReceiveTWEOF
  <2>2. /\ Received = Count(stream) /\ Received + 1 \in 1 .. 2 * F + 2
        /\ Command(Received + 1) = "TWEOF"
        /\ Len(control') \in Nat /\ Len(control) = Len(control') + 1
        /\ \A k \in 1 .. Len(control') : control'[k].type = Command(Received + 1 + k)
      BY <2>1, ReceiveStep
  <2>3. Received' = Received + 1
      BY <2>1, <2>2 DEF Received
  <2>4. Received' > 1 /\ Received' < 2 * F + 2 /\ Received' % 2 = 1
      BY <2>2, <2>3, CommandFormat
  <2>5. Received' + Len(control') = Received + Len(control)
      BY <1>3, <2>2, <2>3
  <2>6. QueueInv'
      BY <1>1, <1>2, <2>2, <2>3, <2>4, <2>5 DEF BackupInv, QueueInv
  <2> QED
      BY <1>3, <2>1, <2>6 DEF FormatInv
<1>9. CASE ReceiveError
  <2>1. Receive("TWERROR") /\ bpc = "control" /\ bpc' = "error" /\ stream' = stream
      BY <1>9 DEF ReceiveError, Receive
  <2>2. Received = Count(stream) /\ Received' = Received
      BY <1>3, <2>1 DEF Received
  <2>3. Refused
    <3>1. control # <<>> /\ Len(control) \in Nat /\ Len(control) >= 1 /\ control[1].type = "TWERROR"
        BY <2>1 DEF Receive, BackupInv, ControlInv
    <3>2. Received + Len(control) <= 2 * F + 2
        BY DEF BackupInv, QueueInv
    <3>3. Received + 1 \in 1 .. 2 * F + 2
        BY <1>3, <2>2, <3>1, <3>2
    <3>4. control[1].type # Command(Received + 1)
        BY <3>1, <3>3, CommandFormat
    <3> QED
        BY <3>1, <3>4 DEF BackupInv, QueueInv
  <2>4. control' = <<>> /\ tpc' = "failed"
      BY <1>1, <2>1, <2>3 DEF Refused, Receive
  <2>5. Received' + Len(control') <= 2 * F + 2
    <3>1. Received + Len(control) <= 2 * F + 2 /\ Len(control) = 1
        BY <2>3 DEF BackupInv, QueueInv, Refused
    <3> QED
        BY <1>3, <2>2, <2>4, <3>1
  <2>6. QueueInv'
      BY <2>1, <2>4, <2>5 DEF QueueInv
  <2> QED
      BY <1>3, <2>1, <2>6 DEF FormatInv
<1>10. CASE WriteTrailer
  <2> DEFINE padded == stream \o Padding
             md5 == digest \o Padding
  <2>1. /\ bpc = "drain" /\ bpc' = "data" /\ UNCHANGED control
        /\ stream' = padded \o Struct("MD5TRAILER", 0, md5)
      BY <1>10 DEF WriteTrailer, fifos
  <2>2. IsSequence(Padding) /\ Marks(Padding) = {}
      BY PaddingPlain DEF BackupInv, ChunkInv
  <2>3. IsSequence(padded) /\ Formatted(padded) /\ Count(padded) = Count(stream)
      BY <1>3, <2>2, NoMark
  <2> HIDE DEF padded, md5
  <2>4. Received = Count(stream) + 1 /\ Received > 1 /\ Received < 2 * F + 2 /\ Received % 2 = 1
      BY <2>1 DEF Received, BackupInv, QueueInv
  <2>5. "MD5TRAILER" = Expected(Count(padded) + 1) /\ Count(padded) < 2 * F + 2
      BY <1>3, <2>3, <2>4 DEF Expected
  <2>6. IsSequence(stream') /\ Formatted(stream') /\ Count(stream') = Count(stream) + 1
      BY <2>1, <2>3, <2>5, OneMark
  <2>7. Received' = Received
      BY <1>3, <2>1, <2>4, <2>6 DEF Received
  <2>8. QueueInv'
      BY <1>1, <1>2, <2>1, <2>7 DEF BackupInv, QueueInv, Refused
  <2> QED
      BY <2>6, <2>8 DEF FormatInv
<1> QED
    BY <1>5, <1>6, <1>7, <1>8, <1>9, <1>10

\* Data: only the stream grows, and it has no new mark.
LEMMA DataKeepsFormat ==
    ASSUME BackupInv, UNCHANGED <<control, tpc, file>>, bpc' = "drain" <=> bpc = "drain",
           NEW e, IsSequence(e), Marks(e) = {}, stream' = stream \o e
    PROVE  FormatInv'
<1>1. IsSequence(stream') /\ Formatted(stream') /\ Count(stream') = Count(stream)
    BY NoMark DEF BackupInv
<1>2. Received' = Received /\ Sent' = Sent
    BY <1>1 DEF Received, Sent
<1>3. QueueInv'
    BY <1>2 DEF BackupInv, QueueInv, Refused
<1> QED
    BY <1>1, <1>3 DEF FormatInv

\* The commands and the order of the structures.
LEMMA FormatStep ==
    ASSUME BackupInv, Next
    PROVE  FormatInv'
<1> USE FilesType
<1>1. CASE OpenData \/ CloseData \/ (\E n \in 1 .. R : WriteData(n)) \/ Release \/ BackupFails
  <2>1. UNCHANGED <<control, stream, bpc>>
      BY <1>1 DEF OpenData, CloseData, WriteData, Release, BackupFails, bu
  <2>2. Received' = Received /\ IsSequence(stream') /\ Formatted(stream')
      BY <2>1 DEF Received, BackupInv
  <2>3. tpc' = "failed" \/ (tpc # "failed" /\ Sent' = Sent)
    <3>1. CASE OpenData
        BY <3>1 DEF OpenData, Sent
    <3>2. CASE CloseData
        BY <3>2 DEF CloseData, Sent
    <3>3. CASE \E n \in 1 .. R : WriteData(n)
        BY <3>3 DEF WriteData, Sent
    <3>4. CASE Release
      <4>1. tpc = "release" /\ tpc' = "file" /\ file' = file + 1 /\ file \in Nat
          BY <3>4 DEF Release, BackupInv, ControlInv
      <4> QED
          BY <4>1 DEF Sent
    <3>5. CASE BackupFails
        BY <3>5 DEF BackupFails
    <3> QED
        BY <1>1, <3>1, <3>2, <3>3, <3>4, <3>5
  <2>4. tpc # "failed"
      BY <1>1 DEF OpenData, CloseData, WriteData, Release, BackupFails
  <2>5. QueueInv'
      BY <2>1, <2>2, <2>3, <2>4 DEF BackupInv, QueueInv, Refused
  <2> QED
      BY <2>2, <2>5 DEF FormatInv
<1>2. CASE WriteOperation \/ OpenFifos \/ NoCommand \/ NoData \/ ExtraEnds \/ Ended
  <2>1. /\ UNCHANGED <<control, stream, file>> /\ (bpc' = "drain" <=> bpc = "drain")
        /\ tpc' = tpc \/ (tpc = "idle" /\ tpc' = "start")
      BY <1>2 DEF WriteOperation, OpenFifos, NoCommand, NoData, ExtraEnds, Ended, vars, fifos, twrp, bu,
         BackupInv, FileInv
  <2>2. Received' = Received /\ Sent' = Sent
      BY <2>1 DEF Received, Sent
  <2>3. QueueInv'
      BY <2>1, <2>2 DEF BackupInv, QueueInv, Refused
  <2> QED
      BY <2>1, <2>3 DEF FormatInv, BackupInv
<1>3. data \in Seq(DataByte) /\ Len(data) \in Nat
    BY DEF BackupInv, DataInv
<1>4. CASE Drain
  <2>1. /\ bpc = "drain" /\ UNCHANGED <<control, tpc, file, bpc>> /\ data # <<>>
        /\ stream' = Append(stream, Head(data))
      BY <1>4 DEF Drain, DrainByte, twrp
  <2>2. Head(data) \in DataByte
      BY <1>3, <2>1
  <2>3. << Head(data) >> \in Seq(DataByte)
      BY <2>2
  <2>4. stream' = stream \o << Head(data) >>
      BY <2>1, AppendIsConcatenation DEF BackupInv
  <2> QED
      BY <2>1, <2>3, <2>4, DataPlain, DataKeepsFormat
<1>5. CASE DrainNothing
  <2>1. UNCHANGED <<control, tpc, file, bpc>> /\ stream' = Append(stream, Zero)
      BY <1>5 DEF DrainNothing, DrainByte, twrp, fifos
  <2>2. IsSequence(<<Zero>>) /\ Marks(<<Zero>>) = {}
    <3>1. Len(<<Zero>>) = 1 /\ <<Zero>> = [p \in 1 .. 1 |-> <<Zero>>[p]] /\ \A p \in 1 .. 1 : <<Zero>>[p].t = "zero"
        BY DEF Zero, Byte
    <3> QED
        BY <3>1 DEF IsSequence, Marks
  <2>3. stream' = stream \o <<Zero>>
      BY <2>1, AppendIsConcatenation DEF BackupInv
  <2> QED
      BY <2>1, <2>2, <2>3, DataKeepsFormat
<1>6. CASE ReadData
  <2> DEFINE n == IF Len(data) < R THEN Len(data) ELSE R
             header == IF firstDataPacket THEN Struct("TWDATA", 0, <<>>) ELSE <<>>
             bytes == SubSeq(data, 1, n)
  <2>1. /\ UNCHANGED <<control, tpc, file>> /\ bpc = "data" /\ bpc' \in {"data", "extra"}
        /\ stream' = stream \o header \o bytes
      BY <1>6 DEF ReadData, TakeData, twrp
  <2>2. n \in 0 .. Len(data)
      BY <1>3
  <2>3. bytes \in Seq(DataByte)
      BY <1>3, <2>2, Taken
  <2>4. IsSequence(header) /\ Marks(header) = {}
    <3>1. <<>> \in Seq(DataByte)
        OBVIOUS
    <3> QED
        BY <3>1, HeaderPlain, DataPlain
  <2> HIDE DEF header, bytes, n
  <2>5. IsSequence(bytes) /\ Marks(bytes) = {}
      BY <2>3, DataPlain
  <2>6. IsSequence(stream \o header) /\ Formatted(stream \o header) /\ Count(stream \o header) = Count(stream)
      BY <2>4, NoMark DEF BackupInv
  <2>7. IsSequence(stream') /\ Formatted(stream') /\ Count(stream') = Count(stream)
      BY <2>1, <2>5, <2>6, NoMark
  <2>8. Received' = Received /\ Sent' = Sent
      BY <2>1, <2>7 DEF Received, Sent
  <2>9. QueueInv'
      BY <2>1, <2>8 DEF BackupInv, QueueInv, Refused
  <2> QED
      BY <2>7, <2>9 DEF FormatInv
<1>7. CASE ReadExtra
  <2> DEFINE left == M - dataChunkBytes
             n == IF Len(data) < left THEN Len(data) ELSE left
             bytes == SubSeq(data, 1, n)
  <2>1. /\ UNCHANGED <<control, tpc, file>> /\ bpc = "extra" /\ bpc' \in {"data", "extra"}
        /\ stream' = stream \o <<>> \o bytes
      BY <1>7 DEF ReadExtra, TakeData, twrp
  <2>2. n \in 0 .. Len(data)
      BY <1>3, <2>1 DEF BackupInv, ChunkInv
  <2>3. bytes \in Seq(DataByte)
      BY <1>3, <2>2, Taken
  <2> HIDE DEF bytes, n
  <2>4. stream \o <<>> = stream
      BY EmptyAdds DEF BackupInv
  <2>5. IsSequence(bytes) /\ Marks(bytes) = {} /\ stream' = stream \o bytes
      BY <2>1, <2>3, <2>4, DataPlain
  <2> QED
      BY <2>1, <2>5, DataKeepsFormat
<1> QED
    BY <1>1, <1>2, <1>4, <1>5, <1>6, <1>7, CommandsStep, AnswersStep DEF Next, TwrpStep, BuStep

-----------------------------------------------------------------------------
(* Theorems *)

\* The invariant is inductive.
LEMMA BackupInductive ==
    ASSUME BackupInv, [Next]_vars
    PROVE  BackupInv'
<1>1. CASE Next
    BY <1>1, ControlStep, ChunkStep, DataStep, FormatStep DEF BackupInv, FormatInv
<1>2. CASE UNCHANGED vars
  <2>1. UNCHANGED <<control, listening, data, writer, tpc, file, written, bpc, firstDataPacket, dataChunkBytes,
                    fileBytes, stream, mishap>>
      BY <1>2 DEF vars, fifos, twrp, bu, hist
  <2>2. Received' = Received /\ Sent' = Sent
      BY <2>1 DEF Received, Sent
  <2>3. QueueInv'
      BY <2>1, <2>2 DEF BackupInv, QueueInv, Refused
  <2> QED
      BY <2>1, <2>3 DEF BackupInv, ControlInv, ChunkInv, DataInv, FileInv
<1> QED
    BY <1>1, <1>2

\* It holds at first.
LEMMA BackupInit == Init => BackupInv
<1> SUFFICES ASSUME Init PROVE BackupInv
    OBVIOUS
<1>1. ControlInv /\ ChunkInv /\ FileInv
  <2>1. ControlInv
    <3>1. control = <<>> /\ file = 1 /\ F \in Nat /\ mishap = {}
        BY FilesType DEF Init
    <3>2. 1 \in 1 .. F + 1
        BY <3>1
    <3>3. listening \in BOOLEAN /\ writer \in BOOLEAN /\ tpc = "idle" /\ bpc = "operation"
        BY DEF Init
    <3> QED
        BY <3>1, <3>2, <3>3 DEF ControlInv
  <2>2. ChunkInv
      BY FilesType DEF Init, ChunkInv
  <2>3. FileInv
      BY DEF Init, FileInv
  <2> QED
      BY <2>1, <2>2, <2>3
<1>2. DataInv
    BY FilesType DEF Init, DataInv
<1>3. stream = <<>>
    BY DEF Init
<1>4. IsSequence(stream) /\ Marks(stream) = {}
  <2>1. <<>> \in Seq(DataByte)
      OBVIOUS
  <2> QED
      BY <1>3, <2>1, DataPlain
<1>5. Formatted(stream) /\ Count(stream) = 0
    BY <1>4, FS_EmptySet DEF Formatted, Count
<1>6. QueueInv
    BY <1>5, FilesType DEF Init, QueueInv, Received, Sent
<1> QED
    BY <1>1, <1>2, <1>4, <1>5, <1>6 DEF BackupInv

\* So it holds always.
LEMMA BackupInvHolds == Spec => []BackupInv
<1>1. BackupInv /\ [Next]_vars => BackupInv'
    BY BackupInductive
<1> QED
    BY <1>1, BackupInit, PTL DEF Spec

\* The counters of bu stay within their chunk, whatever the sizes of the files,
\* of the reads and of the chunks are.
THEOREM BackupTypeCorrect == Spec => []TypeOK
<1>1. BackupInv => TypeOK
  <2> SUFFICES ASSUME BackupInv PROVE TypeOK
      OBVIOUS
  <2>1. dataChunkBytes \in Nat /\ (bpc # "drain" => dataChunkBytes < M)
      BY FilesType DEF BackupInv, ChunkInv
  <2> QED
      BY <2>1 DEF BackupInv, TypeOK, ControlInv, DataInv
<1> QED
    BY <1>1, BackupInvHolds, PTL

\* Whatever happens to the data: the structures in the stream that adb gets are
\* those of the format and in its order, with a trailer for every header.
THEOREM StreamHasTheFormat == Spec => []StreamFormat
<1>1. BackupInv => StreamFormat
    BY DEF BackupInv, Formatted, StreamFormat
<1> QED
    BY <1>1, BackupInvHolds, PTL

=============================================================================
