----------------------- MODULE NewDataReceiverProofs -----------------------
(***************************************************************************)
(* What NewDataReceiver guarantees for every transfer list, stream and     *)
(* size of the pieces, whatever the interleaving of the two threads: the   *)
(* writer has one owner at a time, the new data lands in the order of the  *)
(* stream, and every step is a step of NewDataStream or none.              *)
(***************************************************************************)
EXTENDS NewDataReceiver, FiniteSetTheorems, TLAPS

\* Who may touch the writer.  It is null between two new commands, and while
\* the main thread waits it is null or the waiting command's.  Only a thread
\* that has ended takes receiver_available back, so that a writer the main
\* thread has given up on is not picked up by the receiver.
Hand ==
    /\ mpc \in {"check", "waiting"} => k <= K /\ writer \in {0, k}
    /\ mpc = "commands" => writer = 0
    /\ ~receiver_available => rpc = "exited" \/ mpc \in {"join", "finished"}
    /\ mpc \in {"pbiudone", "join", "finished"} /\ writer # 0 => rpc = "exited"
    /\ rc = 0 => k = K + 1
    /\ ReceiverOwnsWriter

\* The piece in hand is what comes next in the stream.
Piece ==
    /\ pos + size <= StreamLen
    /\ rpc = "inflate" => size = 0

\* How far the current command has been served: it has nothing before its
\* writer is published, and everything once its writer is gone.
Progress ==
    /\ mpc = "commands" /\ k <= K => got[k] = {}
    /\ mpc \in {"check", "waiting"} /\ writer = 0 => Cardinality(got[k]) = Need[k]
    /\ rpc = "clear" => Cardinality(got[k]) = Need[k]

Inv == TypeOK /\ Hand /\ Piece /\ Progress /\ NewDataInOrder

-----------------------------------------------------------------------------

\* What has been written for a command is a finite set of units.
LEMMA Finite ==
    ASSUME TypeOK, NEW j \in 1 .. K
    PROVE  IsFiniteSet(got[j]) /\ Cardinality(got[j]) \in Nat
<1>1. got[j] \in SUBSET (1 .. StreamLen)
  BY DEF TypeOK
<1>2. IsFiniteSet(1 .. StreamLen)
  BY FS_Interval, StreamAssumption
<1>3. IsFiniteSet(got[j])
  BY <1>1, <1>2, FS_Subset
<1> QED
  BY <1>3, FS_CardinalityType

\* Writing n units that are beyond all of S adds n to its size.
LEMMA Extend ==
    ASSUME NEW S, IsFiniteSet(S), NEW p \in Nat, NEW n \in Nat, \A u \in S : u \in Nat /\ u <= p
    PROVE  /\ IsFiniteSet(S \cup (p + 1 .. p + n))
           /\ Cardinality(S \cup (p + 1 .. p + n)) = Cardinality(S) + n
<1> DEFINE T == p + 1 .. p + n
<1>1. IsFiniteSet(T) /\ Cardinality(T) = n
  BY FS_Interval
<1>2. S \cap T = {}
  OBVIOUS
<1>3. Cardinality(S \cap T) = 0
  BY <1>2, FS_EmptySet
<1>4. Cardinality(S) \in Nat
  BY FS_CardinalityType
<1>5. /\ IsFiniteSet(S \cup T)
      /\ Cardinality(S \cup T) = Cardinality(S) + Cardinality(T) - Cardinality(S \cap T)
  <2> HIDE DEF T
  <2> QED
    BY <1>1, FS_Union
<1> QED
  BY <1>1, <1>3, <1>4, <1>5

\* At the start nothing has been taken from the stream.
LEMMA InitInv == Init => Inv
<1> SUFFICES ASSUME Init PROVE Inv
  OBVIOUS
<1> USE StreamAssumption DEF Init
<1>1. \A j \in 1 .. K : got[j] = {} /\ Cardinality(got[j]) = 0
  BY FS_EmptySet
<1>2. TypeOK
  BY DEF TypeOK
<1>3. Hand /\ Piece
  BY DEF Hand, Piece, ReceiverOwnsWriter
<1>4. Progress
  BY <1>1 DEF Progress
<1>5. NewDataInOrder
  BY <1>1 DEF NewDataInOrder
<1> QED
  BY <1>2, <1>3, <1>4, <1>5 DEF Inv

\* The steps that write nothing and do not advance the main thread leave what
\* NewDataInOrder is about alone.
LEMMA SameData ==
    ASSUME NewDataInOrder, UNCHANGED <<got, pos, k, rc>>
    PROVE  NewDataInOrder'
BY DEF NewDataInOrder

\* The main thread publishes a writer, waits, gives up or ends.
LEMMA MainWaits ==
    ASSUME Inv, PerformCommandNew \/ MissingNewData \/ WaitForReceiver \/ CommandFails \/ StopReceiver \/ Join
    PROVE  Inv'
<1> USE StreamAssumption DEF Inv, WakeMain, WakeReceiver
<1>1. CASE PerformCommandNew
  <2> USE <1>1 DEF PerformCommandNew
  <2>1. TypeOK'
    BY DEF TypeOK, Hand, nti, main, recv
  <2>2. Hand' /\ Piece'
    BY DEF TypeOK, Hand, Piece, ReceiverOwnsWriter, nti, main, recv
  <2>3. Progress'
    BY DEF TypeOK, Hand, Progress, ReceiverOwnsWriter, nti, main, recv
  <2>4. NewDataInOrder'
    BY SameData DEF nti, main, recv
  <2> QED
    BY <2>1, <2>2, <2>3, <2>4
<1>2. CASE MissingNewData
  <2> USE <1>2 DEF MissingNewData
  <2>1. TypeOK'
    BY DEF TypeOK, Hand, nti, main, recv
  <2>2. Hand' /\ Piece'
    BY DEF TypeOK, Hand, Piece, ReceiverOwnsWriter, nti, main, recv
  <2>3. Progress'
    BY DEF TypeOK, Hand, Progress, ReceiverOwnsWriter, nti, main, recv
  <2>4. NewDataInOrder'
    BY SameData DEF nti, main, recv
  <2> QED
    BY <2>1, <2>2, <2>3, <2>4
<1>3. CASE WaitForReceiver
  <2> USE <1>3 DEF WaitForReceiver
  <2>1. TypeOK'
    BY DEF TypeOK, Hand, nti, main, recv
  <2>2. Hand' /\ Piece'
    BY DEF TypeOK, Hand, Piece, ReceiverOwnsWriter, nti, main, recv
  <2>3. Progress'
    BY DEF TypeOK, Hand, Progress, ReceiverOwnsWriter, nti, main, recv
  <2>4. NewDataInOrder'
    BY SameData DEF nti, main, recv
  <2> QED
    BY <2>1, <2>2, <2>3, <2>4
<1>4. CASE CommandFails
  <2> USE <1>4 DEF CommandFails
  <2>1. TypeOK'
    BY DEF TypeOK, Hand, nti, main, recv
  <2>2. Hand' /\ Piece'
    BY DEF TypeOK, Hand, Piece, ReceiverOwnsWriter, nti, main, recv
  <2>3. Progress'
    BY DEF TypeOK, Hand, Progress, ReceiverOwnsWriter, nti, main, recv
  <2>4. NewDataInOrder'
    BY SameData DEF nti, main, recv
  <2> QED
    BY <2>1, <2>2, <2>3, <2>4
<1>5. CASE StopReceiver
  <2> USE <1>5 DEF StopReceiver
  <2>1. TypeOK'
    BY DEF TypeOK, Hand, nti, main, recv
  <2>2. Hand' /\ Piece'
    BY DEF TypeOK, Hand, Piece, ReceiverOwnsWriter, nti, main, recv
  <2>3. Progress'
    BY DEF TypeOK, Hand, Progress, ReceiverOwnsWriter, nti, main, recv
  <2>4. NewDataInOrder'
    BY SameData DEF nti, main, recv
  <2> QED
    BY <2>1, <2>2, <2>3, <2>4
<1>6. CASE Join
  <2> USE <1>6 DEF Join
  <2>1. TypeOK'
    BY DEF TypeOK, Hand, nti, main, recv
  <2>2. Hand' /\ Piece'
    BY DEF TypeOK, Hand, Piece, ReceiverOwnsWriter, nti, main, recv
  <2>3. Progress'
    BY DEF TypeOK, Hand, Progress, ReceiverOwnsWriter, nti, main, recv
  <2>4. NewDataInOrder'
    BY SameData DEF nti, main, recv
  <2> QED
    BY <2>1, <2>2, <2>3, <2>4
<1> QED
  BY <1>1, <1>2, <1>3, <1>4, <1>5, <1>6

\* The receiver looks for a writer, takes one, gives it back or ends.
LEMMA ReceiverWaits ==
    ASSUME Inv, EndOfEntry \/ TakeWriter \/ StopReceiving \/ WaitForWriter \/ WriteFails \/ ClearWriter \/ ReceiverExit
    PROVE  Inv'
<1> USE StreamAssumption DEF Inv, WakeMain, WakeReceiver
<1>1. CASE EndOfEntry
  <2> USE <1>1 DEF EndOfEntry
  <2>1. TypeOK'
    BY DEF TypeOK, Hand, nti, main, recv
  <2>2. Hand' /\ Piece'
    BY DEF TypeOK, Hand, Piece, ReceiverOwnsWriter, nti, main, recv
  <2>3. Progress'
    BY DEF TypeOK, Hand, Progress, ReceiverOwnsWriter, nti, main, recv
  <2>4. NewDataInOrder'
    BY SameData DEF nti, main, recv
  <2> QED
    BY <2>1, <2>2, <2>3, <2>4
<1>2. CASE TakeWriter
  <2> USE <1>2 DEF TakeWriter
  <2>1. TypeOK'
    BY DEF TypeOK, Hand, nti, main, recv
  <2>2. Hand' /\ Piece'
    BY DEF TypeOK, Hand, Piece, ReceiverOwnsWriter, nti, main, recv
  <2>3. Progress'
    BY DEF TypeOK, Hand, Progress, ReceiverOwnsWriter, nti, main, recv
  <2>4. NewDataInOrder'
    BY SameData DEF nti, main, recv
  <2> QED
    BY <2>1, <2>2, <2>3, <2>4
<1>3. CASE StopReceiving
  <2> USE <1>3 DEF StopReceiving
  <2>1. TypeOK'
    BY DEF TypeOK, Hand, nti, main, recv
  <2>2. Hand' /\ Piece'
    BY DEF TypeOK, Hand, Piece, ReceiverOwnsWriter, nti, main, recv
  <2>3. Progress'
    BY DEF TypeOK, Hand, Progress, ReceiverOwnsWriter, nti, main, recv
  <2>4. NewDataInOrder'
    BY SameData DEF nti, main, recv
  <2> QED
    BY <2>1, <2>2, <2>3, <2>4
<1>4. CASE WaitForWriter
  <2> USE <1>4 DEF WaitForWriter
  <2>1. TypeOK'
    BY DEF TypeOK, Hand, nti, main, recv
  <2>2. Hand' /\ Piece'
    BY DEF TypeOK, Hand, Piece, ReceiverOwnsWriter, nti, main, recv
  <2>3. Progress'
    BY DEF TypeOK, Hand, Progress, ReceiverOwnsWriter, nti, main, recv
  <2>4. NewDataInOrder'
    BY SameData DEF nti, main, recv
  <2> QED
    BY <2>1, <2>2, <2>3, <2>4
<1>5. CASE WriteFails
  <2> USE <1>5 DEF WriteFails
  <2>1. TypeOK'
    BY DEF TypeOK, Hand, nti, main, recv
  <2>2. Hand' /\ Piece'
    BY DEF TypeOK, Hand, Piece, ReceiverOwnsWriter, nti, main, recv
  <2>3. Progress'
    BY DEF TypeOK, Hand, Progress, ReceiverOwnsWriter, nti, main, recv
  <2>4. NewDataInOrder'
    BY SameData DEF nti, main, recv
  <2> QED
    BY <2>1, <2>2, <2>3, <2>4
<1>6. CASE ClearWriter
  <2> USE <1>6 DEF ClearWriter
  <2>1. TypeOK'
    BY DEF TypeOK, Hand, nti, main, recv
  <2>2. Hand' /\ Piece'
    BY DEF TypeOK, Hand, Piece, ReceiverOwnsWriter, nti, main, recv
  <2>3. Progress'
    BY DEF TypeOK, Hand, Progress, ReceiverOwnsWriter, nti, main, recv
  <2>4. NewDataInOrder'
    BY SameData DEF nti, main, recv
  <2> QED
    BY <2>1, <2>2, <2>3, <2>4
<1>7. CASE ReceiverExit
  <2> USE <1>7 DEF ReceiverExit
  <2>1. TypeOK'
    BY DEF TypeOK, Hand, nti, main, recv
  <2>2. Hand' /\ Piece'
    BY DEF TypeOK, Hand, Piece, ReceiverOwnsWriter, nti, main, recv
  <2>3. Progress'
    BY DEF TypeOK, Hand, Progress, ReceiverOwnsWriter, nti, main, recv
  <2>4. NewDataInOrder'
    BY SameData DEF nti, main, recv
  <2> QED
    BY <2>1, <2>2, <2>3, <2>4
<1> QED
  BY <1>1, <1>2, <1>3, <1>4, <1>5, <1>6, <1>7

\* The main thread goes on to the next command only when the current one has
\* all of its data: its writer has disappeared.
LEMMA MainAdvances ==
    ASSUME Inv, NewDataWritten \/ AllCommandsDone
    PROVE  Inv'
<1> USE StreamAssumption DEF Inv
<1>1. CASE NewDataWritten
  <2> USE <1>1 DEF NewDataWritten
  <2>1. TypeOK'
    BY DEF TypeOK, Hand, nti, recv
  <2>2. Hand' /\ Piece'
    BY DEF TypeOK, Hand, Piece, ReceiverOwnsWriter, nti, recv
  <2>3. k \in 1 .. K /\ Cardinality(got[k]) = Need[k]
    BY DEF TypeOK, Hand, Progress
  <2>4. Progress'
    BY <2>3 DEF TypeOK, Hand, Progress, NewDataInOrder, ReceiverOwnsWriter, nti, recv
  <2>5. NewDataInOrder'
    BY <2>3 DEF TypeOK, Hand, NewDataInOrder, nti, recv
  <2> QED
    BY <2>1, <2>2, <2>4, <2>5
<1>2. CASE AllCommandsDone
  <2> USE <1>2 DEF AllCommandsDone
  <2>1. TypeOK'
    BY DEF TypeOK, nti, recv
  <2>2. Hand' /\ Piece' /\ Progress'
    BY DEF TypeOK, Hand, Piece, Progress, ReceiverOwnsWriter, nti, recv
  <2>3. NewDataInOrder'
    BY DEF TypeOK, NewDataInOrder, nti, recv
  <2> QED
    BY <2>1, <2>2, <2>3
<1> QED
  BY <1>1, <1>2

\* A piece is taken as a whole or not at all.
LEMMA InflateInv ==
    ASSUME Inv, NEW n \in 0 .. MaxChunk, Inflate(n)
    PROVE  Inv'
<1> USE StreamAssumption DEF Inv, Inflate
<1>1. TypeOK'
  BY DEF TypeOK, nti, main
<1>2. Hand' /\ Piece' /\ Progress'
  BY DEF TypeOK, Hand, Piece, Progress, ReceiverOwnsWriter, nti, main
<1>3. NewDataInOrder'
  BY SameData DEF main
<1> QED
  BY <1>1, <1>2, <1>3

\* A write goes to the current command, takes what comes next in the stream,
\* and no more than the command needs.
LEMMA WriteFits ==
    ASSUME Inv, NEW n \in 0 .. MaxChunk, WriteData(n)
    PROVE  /\ k \in 1 .. K /\ writer = k /\ mpc \in {"check", "waiting"}
           /\ n <= size /\ pos + n <= StreamLen
           /\ Cardinality(got[k]) \in Nat /\ Cardinality(got[k]) + n <= Need[k]
           /\ got' = [got EXCEPT ![k] = @ \cup (pos + 1 .. pos + n)]
           /\ Cardinality(got'[k]) = Cardinality(got[k]) + n
<1> USE StreamAssumption DEF Inv
<1>1. k \in 1 .. K /\ writer = k /\ mpc \in {"check", "waiting"}
  BY DEF WriteData, TypeOK, Hand, ReceiverOwnsWriter
<1>2. IsFiniteSet(got[k]) /\ Cardinality(got[k]) \in Nat
  BY <1>1, Finite
<1>3. Cardinality(got[k]) <= Need[k] /\ Need[k] \in Nat
  BY <1>1 DEF NewDataInOrder
<1>4. n <= size /\ Cardinality(got[k]) + n <= Need[k]
  BY <1>1, <1>2, <1>3 DEF WriteData, WriteNow, AvailableSpace, Least, TypeOK
<1>5. pos + n <= StreamLen
  BY <1>4 DEF Piece, TypeOK
<1>6. got' = [got EXCEPT ![k] = @ \cup (pos + 1 .. pos + n)]
  BY <1>1 DEF WriteData
<1>7. \A u \in got[k] : u \in Nat /\ u <= pos
  BY <1>1 DEF NewDataInOrder, TypeOK
<1>8. pos \in Nat /\ n \in Nat
  BY DEF TypeOK
<1>9. Cardinality(got[k] \cup (pos + 1 .. pos + n)) = Cardinality(got[k]) + n
  BY <1>2, <1>7, <1>8, Extend
<1>10. got'[k] = got[k] \cup (pos + 1 .. pos + n)
  BY <1>1, <1>6 DEF TypeOK
<1> QED
  BY <1>1, <1>2, <1>4, <1>5, <1>6, <1>9, <1>10

\* A write keeps the data in order: what is new comes after all that was there.
LEMMA WriteInv ==
    ASSUME Inv, NEW n \in 0 .. MaxChunk, WriteData(n)
    PROVE  Inv'
<1> USE StreamAssumption DEF Inv
<1>1. /\ k \in 1 .. K /\ writer = k /\ mpc \in {"check", "waiting"}
      /\ n <= size /\ pos + n <= StreamLen
      /\ Cardinality(got[k]) \in Nat /\ Cardinality(got[k]) + n <= Need[k]
      /\ got' = [got EXCEPT ![k] = @ \cup (pos + 1 .. pos + n)]
      /\ Cardinality(got'[k]) = Cardinality(got[k]) + n
  BY WriteFits
<1>2. /\ pos' = pos + n /\ size' = size - n
      /\ UNCHANGED <<writer, receiver_available, brotli, mpc, k, rc, empties>>
  BY DEF WriteData, nti, main
<1>3. /\ rpc' \in {"clear", "inflate", "check"}
      /\ rpc' = "clear" => n = Need[k] - Cardinality(got[k])
      /\ rpc' = "inflate" => n = size
  BY <1>1 DEF WriteData, AvailableSpace
<1>4. rpc = "write"
  BY DEF WriteData
<1>5. \A j \in 1 .. K : j # k => got'[j] = got[j]
  BY <1>1 DEF TypeOK
<1>6. got'[k] = got[k] \cup (pos + 1 .. pos + n)
  BY <1>1 DEF TypeOK
<1>7. TypeOK'
  <2>1. got' \in [1 .. K -> SUBSET (1 .. StreamLen)]
    <3>1. got \in [1 .. K -> SUBSET (1 .. StreamLen)] /\ pos \in Nat /\ n \in Nat
      BY DEF TypeOK
    <3>2. pos + 1 .. pos + n \in SUBSET (1 .. StreamLen)
      BY <3>1, <1>1
    <3> QED
      BY <1>1, <3>1, <3>2
  <2> QED
    BY <2>1, <1>1, <1>2, <1>3 DEF TypeOK
<1>8. Hand'
  BY <1>1, <1>2, <1>3, <1>4 DEF Hand, TypeOK, ReceiverOwnsWriter
<1>9. Piece'
  BY <1>1, <1>2, <1>3 DEF Piece, TypeOK
<1>10. Progress'
  BY <1>1, <1>2, <1>3 DEF Progress, Hand, TypeOK
<1>11. NewDataInOrder'
  <2>1. \A u \in 1 .. StreamLen : u <= pos' <=> \E j \in 1 .. K : u \in got'[j]
    BY <1>1, <1>2, <1>5, <1>6 DEF NewDataInOrder, TypeOK
  <2>2. \A i, j \in 1 .. K : i < j => \A u \in got'[i], v \in got'[j] : u < v
    <3> SUFFICES ASSUME NEW i \in 1 .. K, NEW j \in 1 .. K, i < j,
                        NEW u \in got'[i], NEW v \in got'[j]
                 PROVE  u < v
      OBVIOUS
    <3>1. j <= k
      BY <1>1, <1>5 DEF NewDataInOrder, TypeOK
    <3>2. i # k /\ u \in got[i]
      BY <1>1, <1>5, <3>1
    <3>3. u \in 1 .. StreamLen /\ u <= pos
      BY <3>2 DEF NewDataInOrder, TypeOK
    <3>4. CASE j = k
      BY <1>1, <1>6, <3>2, <3>3, <3>4 DEF NewDataInOrder, TypeOK
    <3>5. CASE j # k
      BY <1>5, <3>2, <3>5 DEF NewDataInOrder
    <3> QED
      BY <3>4, <3>5
  <2>3. ASSUME NEW j \in 1 .. K
        PROVE  /\ Cardinality(got'[j]) <= Need[j]
               /\ j < k' \/ rc' = 0 => Cardinality(got'[j]) = Need[j]
               /\ j > k' => got'[j] = {}
    <3>1. rc # 0
      BY <1>1 DEF Hand
    <3>2. CASE j = k
      BY <1>1, <1>2, <3>1, <3>2
    <3>3. CASE j # k
      BY <1>2, <1>5, <3>3 DEF NewDataInOrder
    <3> QED
      BY <3>2, <3>3
  <2> QED
    BY <2>1, <2>2, <2>3 DEF NewDataInOrder
<1> QED
  BY <1>7, <1>8, <1>9, <1>10, <1>11

\* Every step of either thread keeps the invariant.
LEMMA InvInductive == Inv /\ [Next]_vars => Inv'
<1> SUFFICES ASSUME Inv, [Next]_vars PROVE Inv'
  OBVIOUS
<1>1. CASE MainStep \/ CommandFails
  BY <1>1, MainWaits, MainAdvances DEF MainStep
<1>2. CASE ReceiverStep \/ WriteFails
  BY <1>2, ReceiverWaits, InflateInv, WriteInv DEF ReceiverStep
<1>3. CASE SpuriousWakeup
  <2> USE <1>3 DEF Inv, SpuriousWakeup
  <2>1. TypeOK' /\ Hand' /\ Piece' /\ Progress'
    BY DEF TypeOK, Hand, Piece, Progress, ReceiverOwnsWriter, nti, main, recv
  <2>2. NewDataInOrder'
    BY SameData DEF nti, main, recv
  <2> QED
    BY <2>1, <2>2
<1>4. CASE UNCHANGED vars
  BY <1>4 DEF Inv, TypeOK, Hand, Piece, Progress, NewDataInOrder, ReceiverOwnsWriter,
              vars, nti, main, recv
<1> QED
  BY <1>1, <1>2, <1>3, <1>4 DEF Next, Terminated

\* The invariant holds in every reachable state.
LEMMA Always == Spec => []Inv
<1>1. Init => Inv
  BY InitInv
<1>2. Inv /\ [Next]_vars => Inv'
  BY InvInductive
<1> QED
  BY <1>1, <1>2, PTL DEF Spec

\* NewThreadInfo and the locals of both threads stay well formed.
THEOREM ReceiverTypeCorrect == Spec => []TypeOK
<1>1. Inv => TypeOK
  BY DEF Inv
<1> QED
  BY <1>1, Always, PTL

\* "At this point nti->writer is set, and we own it": for every list and stream,
\* the receiver uses the writer outside the lock only while the main thread
\* waits for that very command.
THEOREM WriterOwned == Spec => []ReceiverOwnsWriter
<1>1. Inv => ReceiverOwnsWriter
  BY DEF Inv, Hand
<1> QED
  BY <1>1, Always, PTL

\* For every list and stream, of either kind, new data is written in stream
\* order, without gaps, and completely before the main thread goes on.
THEOREM DataInOrder == Spec => []NewDataInOrder
<1>1. Inv => NewDataInOrder
  BY DEF Inv
<1> QED
  BY <1>1, Always, PTL

-----------------------------------------------------------------------------

\* Every step of the two threads is a step of the abstract stream or leaves it
\* unchanged.
LEMMA StreamStep == Inv /\ [Next]_vars => [Stream!SNext]_(Stream!svars)
<1> SUFFICES ASSUME Inv, [Next]_vars PROVE [Stream!SNext]_(Stream!svars)
  OBVIOUS
<1> USE StreamAssumption
<1>1. ASSUME NEW n \in 0 .. MaxChunk, WriteData(n)
      PROVE  Stream!Deliver \/ UNCHANGED Stream!svars
  <2>1. /\ k \in 1 .. K /\ writer = k /\ mpc \in {"check", "waiting"}
        /\ n <= size /\ pos + n <= StreamLen
        /\ Cardinality(got[k]) \in Nat /\ Cardinality(got[k]) + n <= Need[k]
        /\ got' = [got EXCEPT ![k] = @ \cup (pos + 1 .. pos + n)]
        /\ Cardinality(got'[k]) = Cardinality(got[k]) + n
    BY <1>1, WriteFits
  <2>2. pos' = pos + n /\ UNCHANGED <<mpc, k, rc>> /\ pos \in Nat
    BY <1>1 DEF WriteData, main, Inv, TypeOK
  <2>3. CASE n = 0
    <3>1. got' = got
      BY <2>1, <2>2, <2>3 DEF Inv, TypeOK
    <3> QED
      BY <2>2, <2>3, <3>1 DEF Stream!svars
  <2>4. CASE n # 0
    <3>1. n \in 1 .. StreamLen - pos
      BY <2>1, <2>2, <2>4
    <3>2. (k - 1) + 1 = k /\ k - 1 < K
      BY <2>1
    <3>3. /\ got' = [got EXCEPT ![(k - 1) + 1] = @ \cup (pos + 1 .. pos + n)]
          /\ (IF k <= K THEN Cardinality(got[k]) ELSE 0) + n <= Need[(k - 1) + 1]
          /\ (IF k' <= K THEN Cardinality(got'[k']) ELSE 0)
               = (IF k <= K THEN Cardinality(got[k]) ELSE 0) + n
      BY <2>1, <2>2, <3>2
    <3>4. \E m \in 1 .. StreamLen - pos :
             /\ (IF k <= K THEN Cardinality(got[k]) ELSE 0) + m <= Need[(k - 1) + 1]
             /\ (IF k' <= K THEN Cardinality(got'[k']) ELSE 0)
                  = (IF k <= K THEN Cardinality(got[k]) ELSE 0) + m
             /\ got' = [got EXCEPT ![(k - 1) + 1] = @ \cup (pos + 1 .. pos + m)]
             /\ pos' = pos + m
      BY <2>2, <3>1, <3>3, Zenon
    <3> QED
      BY <2>1, <2>2, <3>2, <3>4 DEF Stream!Deliver
  <2> QED
    BY <2>3, <2>4
<1>2. ASSUME NewDataWritten
      PROVE  Stream!Served
  <2>1. /\ k \in 1 .. K /\ Cardinality(got[k]) = Need[k]
        /\ mpc = "check" /\ mpc' = "commands" /\ k' = k + 1
        /\ UNCHANGED <<pos, got>>
    BY <1>2 DEF NewDataWritten, Inv, TypeOK, Hand, Progress, recv
  <2>2. (k - 1) + 1 = k /\ k - 1 < K /\ k' - 1 = (k - 1) + 1
    BY <2>1
  <2>3. k + 1 <= K => Cardinality(got[k + 1]) = 0
    <3>1. ASSUME k + 1 <= K
          PROVE  got[k + 1] = {}
      <4>1. k + 1 \in 1 .. K /\ k + 1 > k
        BY <2>1, <3>1
      <4> QED
        BY <4>1 DEF Inv, NewDataInOrder
    <3>2. Cardinality({}) = 0
      BY FS_EmptySet
    <3> QED
      BY <3>1, <3>2
  <2> QED
    BY <2>1, <2>2, <2>3 DEF Stream!Served
<1>3. ASSUME Join
      PROVE  Stream!Finish
  <2>1. /\ mpc = "join" /\ mpc' = "finished"
        /\ UNCHANGED <<k, rc, pos, got>> /\ rc \in {0, -1}
        /\ rc = 0 => k - 1 = K
    BY <1>3 DEF Join, Inv, TypeOK, Hand, recv
  <2> QED
    BY <2>1 DEF Stream!Finish
<1>4. ASSUME UNCHANGED <<pos, got, k, rc>>, (mpc = "finished") <=> (mpc' = "finished")
      PROVE  UNCHANGED Stream!svars
  BY <1>4 DEF Stream!svars
<1>5. ASSUME AllCommandsDone
      PROVE  UNCHANGED Stream!svars
  BY <1>5 DEF AllCommandsDone, Stream!svars, recv
<1>6. CASE MainStep \/ CommandFails
  BY <1>2, <1>3, <1>4, <1>5, <1>6
     DEF MainStep, PerformCommandNew, MissingNewData, WaitForReceiver, CommandFails,
         StopReceiver, WakeReceiver, recv, Stream!SNext
<1>7. CASE ReceiverStep \/ WriteFails
  <2>1. CASE \E n \in 0 .. MaxChunk : WriteData(n)
    BY <1>1, <2>1 DEF Stream!SNext
  <2>2. CASE ~\E n \in 0 .. MaxChunk : WriteData(n)
    BY <1>4, <1>7, <2>2
       DEF ReceiverStep, Inflate, EndOfEntry, TakeWriter, StopReceiving, WaitForWriter,
           WriteFails, ClearWriter, ReceiverExit, WakeMain, main
  <2> QED
    BY <2>1, <2>2
<1>8. CASE SpuriousWakeup
  BY <1>4, <1>8 DEF SpuriousWakeup, main, recv
<1>9. CASE UNCHANGED vars
  BY <1>4, <1>9 DEF vars, main, recv
<1> QED
  BY <1>6, <1>7, <1>8, <1>9 DEF Next, Terminated

\* The two threads implement the stream that BlockImageUpdate relies on, except
\* for the promise of an outcome, for every list, stream and size of pieces:
\* each new command is served in its turn and in full, nothing is written after
\* the end, and success is reported only when all commands have been served.
THEOREM ImplementsStream == Spec => Stream!SInit /\ [][Stream!SNext]_(Stream!svars)
<1>1. Init => Stream!SInit
  BY StreamAssumption, FS_EmptySet DEF Init, Stream!SInit
<1>2. Inv /\ [Next]_vars => [Stream!SNext]_(Stream!svars)
  BY StreamStep
<1> QED
  BY <1>1, <1>2, Always, PTL DEF Spec
=============================================================================
