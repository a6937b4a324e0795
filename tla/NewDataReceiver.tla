------------------------- MODULE NewDataReceiver -------------------------
(***************************************************************************)
(* The two threads that write the data of the "new" commands               *)
(* (updater/blockimg.cpp): the main thread walks the transfer list, a      *)
(* background thread inflates the new data entry of the package.  They     *)
(* meet in NewThreadInfo: the main thread publishes a writer and waits for *)
(* it to disappear, the receiver waits for one, fills it outside the lock  *)
(* and takes it away.                                                      *)
(*                                                                         *)
(* The code between pthread_mutex_lock and the next unlock or cond_wait is *)
(* one action.  Data is counted in units of the stream.                    *)
(***************************************************************************)
EXTENDS Integers, FiniteSets

CONSTANTS
    K,          \* number of new commands in the transfer list
    Need,       \* units each of them needs: [1..K -> Nat \ {0}]
    StreamLen,  \* units the package's entry inflates to
    MaxChunk,   \* largest piece ProcessZipEntryContents hands over
    EmptyPieces,\* brotli compressed pieces that decode to nothing
    Errors      \* writes, inflation and other commands may fail

ASSUME StreamAssumption ==
    /\ K \in Nat
    /\ Need \in [1 .. K -> Nat \ {0}]
    /\ StreamLen \in Nat
    /\ MaxChunk \in Nat \ {0}
    /\ EmptyPieces \in Nat
    /\ Errors \in BOOLEAN

VARIABLES
    \* NewThreadInfo
    writer,             \* the new command to write for, 0 for nullptr
    receiver_available,
    brotli,             \* there is a decoder: the entry is brotli compressed
    \* main thread
    mpc, k, rc,
    \* receiver
    rpc,
    size,               \* units of the current piece still to be written
    empties,            \* empty pieces still to come
    pos,                \* units taken from the stream
    got                 \* the units written for each new command

nti  == <<writer, receiver_available, brotli>>
main == <<mpc, k, rc>>
recv == <<rpc, size, empties, pos>>
vars == <<nti, main, recv, got>>

Least(a, b) == IF a < b THEN a ELSE b

TypeOK ==
    /\ writer \in 0 .. K /\ receiver_available \in BOOLEAN /\ brotli \in BOOLEAN
    /\ mpc \in {"commands", "check", "waiting", "pbiudone", "join", "finished"}
    /\ k \in 1 .. K + 1 /\ rc \in {0, -1}
    /\ rpc \in {"inflate", "check", "waiting", "write", "clear", "exit", "exited"}
    /\ size \in 0 .. MaxChunk /\ empties \in 0 .. EmptyPieces /\ pos \in 0 .. StreamLen
    /\ got \in [1 .. K -> SUBSET (1 .. StreamLen)]

Init ==
    /\ writer = 0 /\ receiver_available = TRUE /\ brotli \in BOOLEAN
    /\ mpc = "commands" /\ k = 1 /\ rc = -1
    /\ rpc = "inflate" /\ size = 0 /\ pos = 0
    /\ empties = IF brotli THEN EmptyPieces ELSE 0
    /\ got = [j \in 1 .. K |-> {}]

\* RangeSinkWriter: what the published writer can still take.
AvailableSpace == Need[writer] - Cardinality(got[writer])

\* pthread_cond_broadcast wakes the other thread, which re-checks its loop.
WakeMain == mpc' = IF mpc = "waiting" THEN "check" ELSE mpc
WakeReceiver == rpc' = IF rpc = "waiting" THEN "check" ELSE rpc

-----------------------------------------------------------------------------
(* Main thread *)

\* Mutant: one command too many.
PerformCommandNewTooFar ==
    /\ mpc = "commands" /\ k <= K + 1
    /\ writer' = k /\ WakeReceiver
    /\ mpc' = "check"
    /\ UNCHANGED <<receiver_available, brotli, k, rc, size, empties, pos, got>>

\* PerformCommandNew publishes the writer and signals the receiver.
PerformCommandNew ==
    /\ mpc = "commands" /\ k <= K
    /\ writer' = k /\ WakeReceiver
    /\ mpc' = "check"
    /\ UNCHANGED <<receiver_available, brotli, k, rc, size, empties, pos, got>>

\* The loop around pthread_cond_wait.
NewDataWritten ==
    /\ mpc = "check" /\ writer = 0
    /\ mpc' = "commands" /\ k' = k + 1
    /\ UNCHANGED <<nti, rc, recv, got>>

\* Mutant: any wake-up that leaves the writer in place is a failure.
MissingNewDataOnWakeup ==
    /\ mpc = "check" /\ writer # 0
    /\ mpc' = "pbiudone"
    /\ UNCHANGED <<nti, k, rc, recv, got>>

MissingNewData ==
    /\ mpc = "check" /\ writer # 0 /\ ~receiver_available
    /\ mpc' = "pbiudone"
    /\ UNCHANGED <<nti, k, rc, recv, got>>

WaitForReceiver ==
    /\ mpc = "check" /\ writer # 0 /\ receiver_available
    /\ mpc' = "waiting"
    /\ UNCHANGED <<nti, k, rc, recv, got>>

AllCommandsDone ==
    /\ mpc = "commands" /\ k = K + 1
    /\ rc' = 0 /\ mpc' = "pbiudone"
    /\ UNCHANGED <<nti, k, recv, got>>

\* Some other command of the list fails.
CommandFails ==
    /\ mpc = "commands" /\ Errors
    /\ mpc' = "pbiudone"
    /\ UNCHANGED <<nti, k, rc, recv, got>>

\* pbiudone tells the receiver to stop, and joins it.
StopReceiver ==
    /\ mpc = "pbiudone"
    /\ receiver_available' = FALSE /\ WakeReceiver
    /\ mpc' = "join"
    /\ UNCHANGED <<writer, brotli, k, rc, size, empties, pos, got>>

Join ==
    /\ mpc = "join" /\ rpc = "exited"
    /\ mpc' = "finished"
    /\ UNCHANGED <<nti, k, rc, recv, got>>

-----------------------------------------------------------------------------
(* Receiver thread *)

\* ProcessZipEntryContents calls the receiver with the next piece of the
\* entry.  A compressed piece may decode to nothing.
Inflate(n) ==
    /\ rpc = "inflate" /\ pos + n <= StreamLen
    /\ IF n = 0 THEN empties > 0 /\ empties' = empties - 1
                ELSE UNCHANGED empties
    /\ size' = n
    /\ rpc' = "check"
    /\ UNCHANGED <<nti, main, pos, got>>

EndOfEntry ==
    /\ rpc = "inflate"
    /\ pos = StreamLen \/ Errors
    /\ rpc' = "exit"
    /\ UNCHANGED <<nti, main, size, empties, pos, got>>

\* The loop around the receiver's pthread_cond_wait.
TakeWriter ==
    /\ rpc = "check" /\ writer # 0
    /\ rpc' = "write"
    /\ UNCHANGED <<nti, main, size, empties, pos, got>>

StopReceiving ==
    /\ rpc = "check" /\ writer = 0 /\ ~receiver_available
    /\ rpc' = "exit"
    /\ UNCHANGED <<nti, main, size, empties, pos, got>>

WaitForWriter ==
    /\ rpc = "check" /\ writer = 0 /\ receiver_available
    /\ rpc' = "waiting"
    /\ UNCHANGED <<nti, main, size, empties, pos, got>>

\* Mutant: the space left in the writer is not looked at.
WriteNowUnbounded == IF brotli /\ size > 0 THEN 1 .. size ELSE {size}

\* The raw receiver writes all that fits; the decoder fills a buffer that
\* is no larger than that, or has no output yet.
WriteNow ==
    IF brotli /\ size > 0 THEN 1 .. Least(size, AvailableSpace)
    ELSE {Least(size, AvailableSpace)}

\* nti->writer->Write, without the lock.
WriteData(n) ==
    /\ rpc = "write" /\ n \in WriteNow
    /\ got' = [got EXCEPT ![writer] = @ \cup (pos + 1 .. pos + n)]
    /\ pos' = pos + n /\ size' = size - n
    /\ rpc' = IF AvailableSpace = n THEN "clear"
              ELSE IF n = size THEN "inflate" ELSE "check"
    /\ UNCHANGED <<nti, main, empties>>

WriteFails ==
    /\ rpc = "write" /\ Errors
    /\ rpc' = "exit"
    /\ UNCHANGED <<nti, main, size, empties, pos, got>>

\* The writer is finished: take it away and signal the main thread.
ClearWriter ==
    /\ rpc = "clear"
    /\ writer' = 0 /\ WakeMain
    /\ rpc' = IF size > 0 THEN "check" ELSE "inflate"
    /\ UNCHANGED <<receiver_available, brotli, k, rc, size, empties, pos, got>>

\* Mutant: the main thread is not told that no more data will come.
ReceiverExitSilently ==
    /\ rpc = "exit"
    /\ receiver_available' = FALSE
    /\ rpc' = "exited"
    /\ UNCHANGED <<writer, brotli, main, size, empties, pos, got>>

\* The end of unzip_new_data.
ReceiverExit ==
    /\ rpc = "exit"
    /\ receiver_available' = FALSE
    /\ IF writer # 0 THEN WakeMain ELSE mpc' = mpc
    /\ rpc' = "exited"
    /\ UNCHANGED <<writer, brotli, k, rc, size, empties, pos, got>>

\* pthread_cond_wait may return without a signal.
SpuriousWakeup ==
    \/ mpc = "waiting" /\ mpc' = "check" /\ UNCHANGED <<nti, k, rc, recv, got>>
    \/ rpc = "waiting" /\ rpc' = "check" /\ UNCHANGED <<nti, main, size, empties, pos, got>>

-----------------------------------------------------------------------------
MainStep ==
    \/ PerformCommandNew \/ NewDataWritten \/ MissingNewData
    \/ WaitForReceiver \/ AllCommandsDone \/ StopReceiver \/ Join

ReceiverStep ==
    \/ \E n \in 0 .. MaxChunk : Inflate(n)
    \/ EndOfEntry \/ TakeWriter \/ StopReceiving \/ WaitForWriter
    \/ \E n \in 0 .. MaxChunk : WriteData(n)
    \/ ClearWriter \/ ReceiverExit

Terminated == mpc = "finished" /\ UNCHANGED vars

Next ==
    \/ MainStep \/ ReceiverStep
    \/ CommandFails \/ WriteFails \/ SpuriousWakeup \/ Terminated

Spec == Init /\ [][Next]_vars

\* Both threads are scheduled as long as they can run.
FairSpec == Spec /\ WF_vars(MainStep) /\ WF_vars(ReceiverStep)

-----------------------------------------------------------------------------
(* Properties *)

\* "At this point nti->writer is set, and we own it": while the receiver
\* uses the writer outside the lock, the main thread is in its wait loop for
\* that very command.
ReceiverOwnsWriter ==
    rpc \in {"write", "clear"} =>
        /\ mpc \in {"check", "waiting"}
        /\ writer = k
        /\ receiver_available

\* New data is written in stream order: what has been taken from the stream has
\* been written, once and without gaps, earlier parts of it for earlier
\* commands; no command gets more than it needs, those the main thread went past
\* got all of it, and those it has not reached nothing.
NewDataInOrder ==
    /\ \A u \in 1 .. StreamLen : u <= pos <=> \E j \in 1 .. K : u \in got[j]
    /\ \A i, j \in 1 .. K : i < j => \A u \in got[i], v \in got[j] : u < v
    /\ \A j \in 1 .. K :
         /\ Cardinality(got[j]) <= Need[j]
         /\ j < k \/ rc = 0 => Cardinality(got[j]) = Need[j]
         /\ j > k => got[j] = {}

\* The two threads implement the stream of NewDataStream.
Stream == INSTANCE NewDataStream WITH
    taken <- pos, out <- got, done <- k - 1,
    given <- IF k <= K THEN Cardinality(got[k]) ELSE 0,
    outcome <- IF mpc # "finished" THEN "running" ELSE IF rc = 0 THEN "success" ELSE "failure"

\* Whatever the order of the two threads' steps, of signals and of failures,
\* every new command is served from the stream in its turn and in full before
\* the next one, nothing is written after the end, and success is reported only
\* when all are served.  No wake-up is lost: an outcome is always reported,
\* whether the stream is short, long or fails and whichever thread stops first.
ServesTheStream == Stream!StreamSpec
=============================================================================
