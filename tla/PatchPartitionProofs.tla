------------------------ MODULE PatchPartitionProofs ------------------------
(***************************************************************************)
(* What PatchPartition guarantees for every script, every number of chunks *)
(* and every number and kind of faults: calls that returned true have      *)
(* written their target, a partition that is patched and synced is never   *)
(* put at risk again, the source of a patch can be had from the partition  *)
(* or from the backup, what the check accepted stays patchable, success    *)
(* means that the targets are on the flash, and logs are deleted last.     *)
(***************************************************************************)
EXTENDS PatchPartition, TLAPS

\* A call of patch_partition or --flash is past the choice of its source.
Working ==
    \/ pc \in {"save", "saving", "apply", "write", "fsync", "verify", "unlink"}
    \/ pc = "free" /\ then = "save"

InCall == Working => job <= N

\* The calls before the current one have written their target, and so has the
\* current one when its verification is over.
WrittenInv ==
    /\ pc = "patch" \/ Working => \A j \in 1 .. N : j < job => TargetFound(j)
    /\ pc = "unlink" => TargetFound(job)

\* Flash and page cache differ only where something is dirty; only devices
\* that were not patched are dirty, or about to be written.
DirtyInv ==
    /\ \A d \in Devices, c \in Chunks :
         disk[d][c] # durable[d][c] => <<d, c>> \in dirty
    /\ \A d \in Devices, c \in Chunks : <<d, c>> \in dirty =>
         /\ disk[d][c] = "target"
         /\ \E b \in Chunks : durable[d][b] # "target"
    /\ pc = "verify" => dirty = {}
    /\ Working /\ pc \notin {"fsync", "verify", "unlink"} =>
         \E b \in Chunks : durable[Jobs[job].target][b] # "target"

PatchInv == TypeOK /\ InCall /\ WrittenInv /\ DirtyInv

\* The backup is whole, and of this call's source, from before the first write
\* until the target is written and synced.  The tool makes none.
SavedInv ==
    /\ Tool => pc \notin {"space", "free", "save", "saving"}
    /\ ~Tool /\ pc = "saving" => saved.job = job
    /\ ~Tool /\ pc \in {"apply", "write", "fsync", "verify", "unlink"} => BackupFound(job)
    /\ pc = "unlink" => dirty = {}

\* The calls before the current one are done for good, or were taken to be
\* from what the page cache said.
SettledInv ==
    pc = "patch" \/ Working => \A j \in 1 .. N : j < job =>
        Settled(Jobs[j].target, "target") \/ j \in misled

\* Thus a source is touched only when all the calls before are.
OrderInv == \A j \in 1 .. N :
    \/ Settled(Jobs[j].source, "source")
    \/ \A k \in 1 .. N : k < j => Settled(Jobs[k].target, "target") \/ k \in misled

Found(j) == TargetFound(j) \/ SourceFound(j) \/ BackupFound(j)

\* What the check has found is still there when the call's turn comes.
CheckInv ==
    /\ pc = "space" \/ (pc = "free" /\ then = "check") => job = 1
    /\ ~Tool => \A j \in 1 .. N : (\A i \in misled : i >= j) =>
        /\ pc = "check" /\ j < job => Found(j)
        /\ pc = "patch" /\ j >= job => Found(j)
        /\ Working /\ j > job => Found(j)

SuccessInv == result = "success" => pc = "idle"

\* The log directory is looked at when nothing is left in the other one.
LogInv == pc = "free" /\ dir = "log" => \A g \in files \ Open : g[1] = "log"

-----------------------------------------------------------------------------

\* A job is a record with a target and a source device.
LEMMA JobType ==
    ASSUME NEW j \in 1 .. N
    PROVE  Jobs[j] \in Job /\ Jobs[j].target \in Devices /\ Jobs[j].source \in Devices
<1>1. Jobs \in Seq(Job)
  BY JobsAssumption
<1>2. Jobs[j] \in Job
  BY <1>1 DEF N
<1> QED
  BY <1>2 DEF Job

\* N is a natural number and there is at least one chunk.
LEMMA Sizes == N \in Nat /\ C \in Nat /\ 1 \in Chunks
<1>1. Jobs \in Seq(Job) /\ C \in Nat \ {0}
  BY JobsAssumption
<1>2. N \in Nat
  BY <1>1 DEF N
<1> QED
  BY <1>1, <1>2 DEF Chunks

\* Init satisfies the invariant.
LEMMA PatchInitInv == Init => PatchInv
<1> SUFFICES ASSUME Init PROVE PatchInv
  OBVIOUS
<1> USE Sizes
<1>1. TypeOK
  <2>1. Leftover \subseteq Nat /\ FaultKinds \subseteq Kinds
    BY JobsAssumption
  <2>2. disk \in [Devices -> [Chunks -> Content]]
    BY DEF Init, Content
  <2>3. saved \in [job : 0 .. N, size : Nat]
    <3>1. PICK s \in Leftover : saved = [job |-> 0, size |-> s]
      BY DEF Init
    <3> QED
      BY <2>1, <3>1
  <2>4. job \in 1 .. N + 1 /\ chunk \in 1 .. C + 1 /\ start \in Chunks
    BY DEF Init
  <2>5. attempt \in 0 .. 1 /\ faults \in [Kinds -> Nat]
    BY <2>1 DEF Init
  <2> QED
    BY <2>2, <2>3, <2>4, <2>5 DEF Init, TypeOK
<1>2. InCall /\ WrittenInv
  BY DEF Init, InCall, WrittenInv, Working
<1>3. DirtyInv
  BY DEF Init, DirtyInv, Working
<1> QED
  BY <1>1, <1>2, <1>3 DEF PatchInv

\* What the constants contribute to the proofs about steps.
LEMMA Constants ==
    /\ ImageSize \in Nat /\ FaultKinds \subseteq Kinds
    /\ \A i, j \in 1 .. N : i # j => Jobs[i].target # Jobs[j].target
    /\ \A j \in 1 .. N : Jobs[j].target \in Devices
  BY JobsAssumption, ScriptAssumption, JobType

\* A step keeps the types, and the current call stays one of the script's.
LEMMA PatchTypeStep ==
    ASSUME TypeOK, InCall, Next
    PROVE  TypeOK' /\ InCall'
<1> USE Sizes, Constants
<1> USE DEF TypeOK, InCall, Working, device, cache, history, Abort
<1>1. CASE Begin
  BY <1>1 DEF Begin
<1>2. CASE ApplyPatchSpace
  BY <1>2 DEF ApplyPatchSpace
<1>3. CASE PatchPartitionCheck
  BY <1>3 DEF PatchPartitionCheck
<1>4. CASE ChecksDone
  BY <1>4 DEF ChecksDone
<1>5. CASE ScriptDone
  BY <1>5 DEF ScriptDone
<1>6. CASE AlreadyPatched
  BY <1>6 DEF AlreadyPatched
<1>7. CASE PatchFromSource
  BY <1>7 DEF PatchFromSource
<1>8. CASE FlashPartition
  BY <1>8 DEF FlashPartition, EnterWrite, Chunks
<1>9. CASE NoMatch
  BY <1>9 DEF NoMatch
<1>10. CASE EnoughSpace
  BY <1>10 DEF EnoughSpace, TypeOK
<1>11. CASE RemoveFile
  BY <1>11 DEF RemoveFile
<1>12. CASE NextDirectory
  BY <1>12 DEF NextDirectory
<1>13. CASE TruncateBackup
  <2>1. job \in 1 .. N /\ risked' \in {risked, risked \cup {job}}
    BY <1>13 DEF TruncateBackup
  <2>2. saved' \in [job : 0 .. N, size : Nat]
    BY <1>13 DEF TruncateBackup
  <2> QED
    BY <1>13, <2>1, <2>2 DEF TruncateBackup
<1>14. CASE WriteBackup
  BY <1>14 DEF WriteBackup
<1>15. CASE BackupSaved
  BY <1>15 DEF BackupSaved
<1>16. CASE ApplyPatch
  BY <1>16 DEF ApplyPatch, EnterWrite, Chunks
<1>17. CASE UnlinkBackup
  BY <1>17 DEF UnlinkBackup
<1>18. CASE WriteChunk
  <2>1. Jobs[job].target \in Devices /\ chunk \in Chunks
    BY <1>18 DEF WriteChunk, Chunks
  <2>2. /\ disk' \in [Devices -> [Chunks -> Content]]
        /\ dirty' \subseteq Devices \X Chunks
    BY <1>18, <2>1 DEF WriteChunk, Content
  <2> QED
    BY <1>18, <2>2 DEF WriteChunk, Chunks
<1>19. CASE WriteDone
  BY <1>19 DEF WriteDone
<1>20. CASE Fsync
  <2>1. disk' \in [Devices -> [Chunks -> Content]]
    BY <1>20 DEF Fsync, Content
  <2>2. faults' \in [Kinds -> Nat]
    BY <1>20 DEF Fsync, Fault, Kinds
  <2> QED
    BY <1>20, <2>1, <2>2 DEF Fsync
<1>21. CASE VerifySucceeds
  BY <1>21 DEF VerifySucceeds
<1>22. CASE VerifyFails
  <2>1. /\ UNCHANGED <<disk, durable, dirty, saved, files, risked, job, then, dir, faults>>
        /\ Mismatches \subseteq Chunks
    BY <1>22 DEF VerifyFails, Mismatches
  <2>2. start' \in Chunks /\ (chunk' = start' \/ chunk' = chunk)
    BY <1>22, <2>1 DEF VerifyFails
  <2>3. attempt' \in 0 .. 1
    BY <1>22 DEF VerifyFails
  <2>4. chunk' \in 1 .. C + 1
    BY <2>2 DEF Chunks
  <2> QED
    BY <1>22, <2>1, <2>2, <2>3, <2>4 DEF VerifyFails
<1>23. CASE StepFails
  BY <1>23 DEF StepFails, Fault, Kinds
<1>24. CASE Kill
  BY <1>24 DEF Kill, Fault, Kinds
<1>25. CASE PowerLoss
  <2>1. disk' \in [Devices -> [Chunks -> Content]]
    BY <1>25 DEF PowerLoss, Content
  <2> QED
    BY <1>25, <2>1 DEF PowerLoss, Fault, Kinds
<1> QED
  BY <1>1, <1>2, <1>3, <1>4, <1>5, <1>6, <1>7, <1>8, <1>9, <1>10, <1>11, <1>12, <1>13,
     <1>14, <1>15, <1>16, <1>17, <1>18, <1>19, <1>20, <1>21, <1>22, <1>23, <1>24, <1>25
     DEF Next, Patching

\* A step keeps what finished calls have written: writes and bad chunks only
\* concern the target of the current call.
LEMMA WrittenStep ==
    ASSUME PatchInv, Next
    PROVE  WrittenInv'
<1> USE Sizes, Constants
<1> USE DEF PatchInv, WrittenInv, InCall, Working, TargetFound, device, cache, history, Abort
<1>1. CASE Begin
  BY <1>1 DEF Begin
<1>2. CASE ApplyPatchSpace
  BY <1>2 DEF ApplyPatchSpace
<1>3. CASE PatchPartitionCheck
  BY <1>3 DEF PatchPartitionCheck
<1>4. CASE ChecksDone
  BY <1>4 DEF ChecksDone
<1>5. CASE ScriptDone
  BY <1>5 DEF ScriptDone
<1>6. CASE AlreadyPatched
  BY <1>6 DEF AlreadyPatched, TypeOK
<1>7. CASE PatchFromSource
  BY <1>7 DEF PatchFromSource
<1>8. CASE FlashPartition
  BY <1>8 DEF FlashPartition, EnterWrite
<1>9. CASE NoMatch
  BY <1>9 DEF NoMatch
<1>10. CASE EnoughSpace
  BY <1>10 DEF EnoughSpace, TypeOK
<1>11. CASE RemoveFile
  BY <1>11 DEF RemoveFile
<1>12. CASE NextDirectory
  BY <1>12 DEF NextDirectory
<1>13. CASE TruncateBackup
  BY <1>13 DEF TruncateBackup
<1>14. CASE WriteBackup
  BY <1>14 DEF WriteBackup
<1>15. CASE BackupSaved
  BY <1>15 DEF BackupSaved
<1>16. CASE ApplyPatch
  BY <1>16 DEF ApplyPatch, EnterWrite
<1>17. CASE UnlinkBackup
  BY <1>17 DEF UnlinkBackup, TypeOK
<1>18. CASE WriteChunk
  <2>1. job \in 1 .. N /\ chunk \in Chunks
    BY <1>18 DEF WriteChunk, TypeOK, Chunks
  <2>2. \A d \in Devices, c \in Chunks :
          disk'[d][c] = IF d = Jobs[job].target /\ c = chunk THEN "target" ELSE disk[d][c]
    BY <1>18, <2>1 DEF WriteChunk, TypeOK
  <2> QED
    BY <1>18, <2>1, <2>2 DEF WriteChunk
<1>19. CASE WriteDone
  BY <1>19 DEF WriteDone
<1>20. CASE Fsync
  <2>1. job \in 1 .. N
    BY <1>20 DEF Fsync, TypeOK
  <2>2. \A d \in Devices : d # Jobs[job].target => disk'[d] = disk[d]
    BY <1>20, <2>1 DEF Fsync, TypeOK
  <2> QED
    BY <1>20, <2>1, <2>2 DEF Fsync
<1>21. CASE VerifySucceeds
  BY <1>21 DEF VerifySucceeds, Mismatches, TypeOK
<1>22. CASE VerifyFails
  BY <1>22 DEF VerifyFails
<1>23. CASE StepFails
  BY <1>23 DEF StepFails
<1>24. CASE Kill
  BY <1>24 DEF Kill
<1>25. CASE PowerLoss
  BY <1>25 DEF PowerLoss
<1> QED
  BY <1>1, <1>2, <1>3, <1>4, <1>5, <1>6, <1>7, <1>8, <1>9, <1>10, <1>11, <1>12, <1>13,
     <1>14, <1>15, <1>16, <1>17, <1>18, <1>19, <1>20, <1>21, <1>22, <1>23, <1>24, <1>25
     DEF Next, Patching

\* A step keeps the relation between page cache and flash.
LEMMA DirtyStep ==
    ASSUME PatchInv, Next
    PROVE  DirtyInv'
<1> USE Sizes, Constants
<1> USE DEF PatchInv, DirtyInv, InCall, Working, device, cache, history, Abort
<1>1. CASE Begin
  BY <1>1 DEF Begin
<1>2. CASE ApplyPatchSpace
  BY <1>2 DEF ApplyPatchSpace
<1>3. CASE PatchPartitionCheck
  BY <1>3 DEF PatchPartitionCheck
<1>4. CASE ChecksDone
  BY <1>4 DEF ChecksDone
<1>5. CASE ScriptDone
  BY <1>5 DEF ScriptDone
<1>6. CASE AlreadyPatched
  BY <1>6 DEF AlreadyPatched
<1>7. CASE PatchFromSource
  <2>1. \E b \in Chunks : durable[Jobs[job].target][b] # "target"
    <3>1. job \in 1 .. N /\ Jobs[job].target \in Devices
      BY <1>7 DEF PatchFromSource, TypeOK
    <3>2. PICK b \in Chunks : disk[Jobs[job].target][b] # "target"
      BY <1>7 DEF PatchFromSource, TargetFound
    <3> QED
      BY <1>7, <3>1, <3>2 DEF PatchFromSource
  <2> QED
    BY <1>7, <2>1 DEF PatchFromSource
<1>8. CASE FlashPartition
  <2>1. \E b \in Chunks : durable[Jobs[job].target][b] # "target"
    <3>1. job \in 1 .. N /\ Jobs[job].target \in Devices
      BY <1>8 DEF FlashPartition, TypeOK
    <3>2. PICK b \in Chunks : disk[Jobs[job].target][b] # "target"
      BY <1>8 DEF FlashPartition, TargetFound
    <3> QED
      BY <1>8, <3>1, <3>2 DEF FlashPartition
  <2> QED
    BY <1>8, <2>1 DEF FlashPartition, EnterWrite
<1>9. CASE NoMatch
  BY <1>9 DEF NoMatch
<1>10. CASE EnoughSpace
  BY <1>10 DEF EnoughSpace, TypeOK
<1>11. CASE RemoveFile
  BY <1>11 DEF RemoveFile
<1>12. CASE NextDirectory
  BY <1>12 DEF NextDirectory
<1>13. CASE TruncateBackup
  BY <1>13 DEF TruncateBackup
<1>14. CASE WriteBackup
  BY <1>14 DEF WriteBackup
<1>15. CASE BackupSaved
  BY <1>15 DEF BackupSaved
<1>16. CASE ApplyPatch
  BY <1>16 DEF ApplyPatch, EnterWrite
<1>17. CASE UnlinkBackup
  BY <1>17 DEF UnlinkBackup
<1>18. CASE WriteChunk
  <2>1. job \in 1 .. N /\ chunk \in Chunks
    BY <1>18 DEF WriteChunk, TypeOK, Chunks
  <2>2. \A d \in Devices, c \in Chunks :
          disk'[d][c] = IF d = Jobs[job].target /\ c = chunk THEN "target" ELSE disk[d][c]
    BY <1>18, <2>1 DEF WriteChunk, TypeOK
  <2>3. \A d \in Devices, c \in Chunks :
          <<d, c>> \in dirty' <=> <<d, c>> \in dirty \/ (d = Jobs[job].target /\ c = chunk)
    BY <1>18 DEF WriteChunk
  <2>4. \E b \in Chunks : durable[Jobs[job].target][b] # "target"
    BY <1>18 DEF WriteChunk
  <2> QED
    BY <1>18, <2>1, <2>2, <2>3, <2>4 DEF WriteChunk
<1>19. CASE WriteDone
  BY <1>19 DEF WriteDone
<1>20. CASE Fsync
  BY <1>20 DEF Fsync
<1>21. CASE VerifySucceeds
  BY <1>21 DEF VerifySucceeds
<1>22. CASE VerifyFails
  <2>1. \E b \in Chunks : durable[Jobs[job].target][b] # "target"
    <3>1. job \in 1 .. N /\ Jobs[job].target \in Devices
      BY <1>22 DEF VerifyFails, TypeOK
    <3>2. PICK b \in Chunks : disk[Jobs[job].target][b] # "target"
      BY <1>22 DEF VerifyFails, Mismatches
    <3> QED
      BY <1>22, <3>1, <3>2 DEF VerifyFails
  <2> QED
    BY <1>22, <2>1 DEF VerifyFails
<1>23. CASE StepFails
  BY <1>23 DEF StepFails
<1>24. CASE Kill
  BY <1>24 DEF Kill
<1>25. CASE PowerLoss
  BY <1>25 DEF PowerLoss
<1> QED
  BY <1>1, <1>2, <1>3, <1>4, <1>5, <1>6, <1>7, <1>8, <1>9, <1>10, <1>11, <1>12, <1>13,
     <1>14, <1>15, <1>16, <1>17, <1>18, <1>19, <1>20, <1>21, <1>22, <1>23, <1>24, <1>25
     DEF Next, Patching

\* The invariant is inductive.
LEMMA PatchInvInductive == PatchInv /\ [Next]_vars => PatchInv'
<1> SUFFICES ASSUME PatchInv, [Next]_vars PROVE PatchInv'
  OBVIOUS
<1>1. CASE Next
  BY <1>1, PatchTypeStep, WrittenStep, DirtyStep DEF PatchInv
<1>2. CASE UNCHANGED vars
  BY <1>2 DEF PatchInv, TypeOK, InCall, WrittenInv, DirtyInv, Working, TargetFound,
     vars, device, cache, history
<1> QED
  BY <1>1, <1>2

\* The invariant holds in every behaviour.
LEMMA PatchInvHolds == Spec => []PatchInv
  BY PatchInitInv, PatchInvInductive, PTL DEF Spec

\* Every call leaves devices, backup and position well formed, however often
\* the script is interrupted and run again.
THEOREM PatchTypeCorrect == Spec => []TypeOK
<1>1. PatchInv => TypeOK
  BY DEF PatchInv
<1> QED
  BY <1>1, PatchInvHolds, PTL

\* A call of PatchPartition or FlashPartition that returns true has written its
\* whole target and read it back, and no later call of the script undoes it,
\* for every script, number of chunks and faults of every kind.
THEOREM PatchWritten == Spec => []PatchedMeansWritten
<1>1. PatchInv => PatchedMeansWritten
  BY DEF PatchInv, WrittenInv, PatchedMeansWritten
<1> QED
  BY <1>1, PatchInvHolds, PTL

-----------------------------------------------------------------------------
(* What a power loss cannot take *)

\* Only a write, a sync and a power loss change what a device holds.
LEMMA DeviceUnchanged ==
    ASSUME Next, ~WriteChunk, ~Fsync, ~PowerLoss
    PROVE  UNCHANGED device
  BY DEF Next, Patching, Begin, ApplyPatchSpace, PatchPartitionCheck, ChecksDone,
     ScriptDone, AlreadyPatched, PatchFromSource, FlashPartition, NoMatch, EnoughSpace,
     RemoveFile, NextDirectory, TruncateBackup, WriteBackup, BackupSaved, ApplyPatch,
     UnlinkBackup, WriteDone, VerifySucceeds, VerifyFails, StepFails, Kill

\* A device whose image is on the flash has nothing unsynced.
LEMMA SettledClean ==
    ASSUME PatchInv, NEW d \in Devices, NEW image \in {"source", "target"}, Settled(d, image)
    PROVE  \A c \in Chunks : <<d, c>> \notin dirty
  BY DEF PatchInv, DirtyInv, Settled

\* An image on the flash is only lost to a write of the call whose target it is.
LEMMA SettledKept ==
    ASSUME PatchInv, Next, NEW d \in Devices, NEW image \in {"source", "target"},
           Settled(d, image), ~(WriteChunk /\ d = Jobs[job].target)
    PROVE  Settled(d, image)'
<1>1. \A c \in Chunks : <<d, c>> \notin dirty
  BY SettledClean
<1>2. CASE WriteChunk
  <2>1. job \in 1 .. N /\ Jobs[job].target \in Devices /\ d # Jobs[job].target
    BY <1>2, Sizes, Constants DEF WriteChunk, PatchInv, TypeOK, InCall, Working
  <2> QED
    BY <1>2, <2>1 DEF WriteChunk, PatchInv, TypeOK, Settled
<1>3. CASE Fsync
  <2>1. disk'[d] = disk[d]
    <3>1. PICK bad \in SUBSET {c \in Chunks : <<Jobs[job].target, c>> \in dirty} :
            disk' = [disk EXCEPT ![Jobs[job].target] =
                       [c \in Chunks |-> IF c \in bad THEN "other" ELSE @[c]]]
      BY <1>3 DEF Fsync
    <3>2. disk[d] = [c \in Chunks |-> disk[d][c]]
      BY DEF PatchInv, TypeOK
    <3>3. CASE d = Jobs[job].target
      <4>1. bad = {}
        BY <1>1, <3>1, <3>3
      <4> QED
        BY <3>1, <3>2, <3>3, <4>1 DEF PatchInv, TypeOK
    <3>4. CASE d # Jobs[job].target
      BY <3>1, <3>4 DEF PatchInv, TypeOK
    <3> QED
      BY <3>3, <3>4
  <2> QED
    BY <1>3, <2>1 DEF Fsync, Settled
<1>4. CASE PowerLoss
  BY <1>1, <1>4 DEF PowerLoss, Settled
<1>5. CASE ~WriteChunk /\ ~Fsync /\ ~PowerLoss
  BY <1>5, DeviceUnchanged DEF device, Settled
<1> QED
  BY <1>2, <1>3, <1>4, <1>5

\* A patched partition on the flash is not even written.
LEMMA TargetKept ==
    ASSUME PatchInv, Next, NEW j \in 1 .. N, Settled(Jobs[j].target, "target")
    PROVE  Settled(Jobs[j].target, "target")'
<1>1. ~(WriteChunk /\ Jobs[j].target = Jobs[job].target)
  BY DEF PatchInv, DirtyInv, Working, WriteChunk, Settled
<1> QED
  BY <1>1, SettledKept, Constants

\* No step, a power loss or a bad write included, touches a partition that is
\* patched and on the flash: PatchPartition is idempotent.
THEOREM PatchedIsSafe == Spec => PatchedStays
<1> DEFINE Stays == \A j \in 1 .. N :
             Settled(Jobs[j].target, "target") => Settled(Jobs[j].target, "target")'
<1>1. PatchInv /\ [Next]_vars => [Stays]_vars
  BY TargetKept
<1> QED
  BY <1>1, PatchInvHolds, PTL DEF Spec, PatchedStays

-----------------------------------------------------------------------------
(* The backup *)

\* A script only patches: there is no call that writes without a backup.
LEMMA ScriptPatches ==
    ASSUME ~Tool
    PROVE  \A j \in 1 .. N : Jobs[j].kind # "flash"
  BY ScriptAssumption

\* Every step keeps the backup the current call relies on.
LEMMA SavedStep ==
    ASSUME PatchInv, SavedInv, Next
    PROVE  SavedInv'
<1> USE Sizes, Constants, ScriptPatches
<1> USE DEF PatchInv, TypeOK, InCall, Working, SavedInv, BackupFound, BackupSource, device, cache, history, Abort
<1>1. CASE Begin \/ ApplyPatchSpace \/ PatchPartitionCheck \/ ChecksDone \/ ScriptDone
  BY <1>1 DEF Begin, ApplyPatchSpace, PatchPartitionCheck, ChecksDone, ScriptDone
<1>2. CASE AlreadyPatched \/ PatchFromSource \/ NoMatch
  BY <1>2 DEF AlreadyPatched, PatchFromSource, NoMatch
<1>3. CASE FlashPartition
  BY <1>3 DEF FlashPartition, EnterWrite
<1>4. CASE EnoughSpace \/ RemoveFile \/ NextDirectory
  BY <1>4 DEF EnoughSpace, RemoveFile, NextDirectory
<1>5. CASE TruncateBackup
  BY <1>5 DEF TruncateBackup
<1>6. CASE WriteBackup
  BY <1>6 DEF WriteBackup
<1>7. CASE BackupSaved
  <2>1. ~Tool => saved.job = job /\ saved.size = ImageSize /\ saved \in [job : 0 .. N, size : Nat]
    BY <1>7 DEF BackupSaved
  <2>2. ~Tool => saved = [job |-> job, size |-> ImageSize]
    BY <2>1
  <2> QED
    BY <1>7, <2>2 DEF BackupSaved
<1>8. CASE ApplyPatch
  BY <1>8 DEF ApplyPatch, EnterWrite
<1>9. CASE UnlinkBackup
  BY <1>9 DEF UnlinkBackup
<1>10. CASE WriteChunk \/ WriteDone
  BY <1>10 DEF WriteChunk, WriteDone
<1>11. CASE Fsync
  BY <1>11 DEF Fsync
<1>12. CASE VerifySucceeds
  BY <1>12 DEF VerifySucceeds, DirtyInv
<1>13. CASE VerifyFails
  BY <1>13 DEF VerifyFails
<1>14. CASE StepFails \/ Kill \/ PowerLoss
  BY <1>14 DEF StepFails, Kill, PowerLoss
<1> QED
  BY <1>1, <1>2, <1>3, <1>4, <1>5, <1>6, <1>7, <1>8, <1>9, <1>10, <1>11, <1>12, <1>13, <1>14
     DEF Next, Patching

\* The source of a call is only overwritten while the backup is whole.
LEMMA WriteBackedUp ==
    ASSUME PatchInv, SavedInv, NEW j \in 1 .. N, WriteChunk, Jobs[j].source = Jobs[job].target
    PROVE  j = job /\ BackupSource /\ BackupFound(j) /\ BackupFound(j)'
<1>1. job \in 1 .. N /\ pc = "write" /\ UNCHANGED <<cache, job>>
  BY Sizes DEF WriteChunk, PatchInv, TypeOK, InCall, Working
<1>2. j = job /\ ~Tool
  BY <1>1, ScriptAssumption
<1> QED
  BY <1>1, <1>2 DEF SavedInv, BackupFound, BackupSource, cache

\* An image on the flash stays, or the backup has it.
LEMMA ImageKept ==
    ASSUME PatchInv, SavedInv, Next, NEW j \in 1 .. N, HasImage(j)
    PROVE  HasImage(j)' \/ (BackupSource /\ BackupFound(j)')
<1>1. CASE Settled(Jobs[j].target, "target")
  BY <1>1, TargetKept DEF HasImage
<1>2. CASE Settled(Jobs[j].source, "source")
  <2>1. CASE WriteChunk /\ Jobs[j].source = Jobs[job].target
    BY <2>1, WriteBackedUp
  <2>2. CASE ~(WriteChunk /\ Jobs[j].source = Jobs[job].target)
    BY <1>2, <2>2, SettledKept, JobType DEF HasImage
  <2> QED
    BY <2>1, <2>2
<1> QED
  BY <1>1, <1>2 DEF HasImage

\* What an early exit was told is not forgotten.
LEMMA MisledGrows ==
    ASSUME Next
    PROVE  misled \subseteq misled'
  BY DEF history, Next, Patching, Begin, ApplyPatchSpace, PatchPartitionCheck, ChecksDone,
     ScriptDone, AlreadyPatched, PatchFromSource, FlashPartition, NoMatch, EnoughSpace,
     RemoveFile, NextDirectory, TruncateBackup, WriteBackup, BackupSaved, ApplyPatch, UnlinkBackup,
     WriteChunk, WriteDone, Fsync, VerifySucceeds, VerifyFails, StepFails, Kill, PowerLoss

\* A target that reads right when nothing is unsynced is on the flash.
LEMMA CleanTargetSettled ==
    ASSUME PatchInv, NEW j \in 1 .. N, TargetFound(j), dirty = {}
    PROVE  Settled(Jobs[j].target, "target")
  BY Constants DEF PatchInv, DirtyInv, TargetFound, Settled

\* A call that returns leaves its target on the flash, or was misled.
LEMMA SettledStep ==
    ASSUME PatchInv, SavedInv, SettledInv, Next
    PROVE  SettledInv'
<1> SUFFICES ASSUME pc' = "patch" \/ Working', NEW j \in 1 .. N, j < job'
             PROVE  Settled(Jobs[j].target, "target")' \/ j \in misled'
  BY DEF SettledInv
<1>1. job \in Nat /\ job \in 1 .. N + 1 /\ N \in Nat /\ (Working => job \in 1 .. N)
  BY Sizes DEF PatchInv, TypeOK, InCall
<1>2. CASE (pc = "patch" \/ Working) /\ j < job
  BY <1>2, TargetKept, MisledGrows DEF SettledInv
<1>3. CASE AlreadyPatched
  <2>1. j = job => Settled(Jobs[j].target, "target")' \/ j \in misled'
    BY <1>3 DEF AlreadyPatched, Settled, device
  <2> QED
    BY <1>1, <1>2, <1>3, <2>1 DEF AlreadyPatched
<1>4. CASE UnlinkBackup \/ VerifySucceeds
  <2>1. Working /\ dirty = {} /\ TargetFound(job)
    BY <1>4 DEF UnlinkBackup, VerifySucceeds, Working, PatchInv, DirtyInv, SavedInv, WrittenInv,
       Mismatches, TargetFound
  <2>2. j = job => Settled(Jobs[j].target, "target")'
    BY <2>1, CleanTargetSettled, TargetKept
  <2> QED
    BY <1>1, <1>2, <1>4, <2>1, <2>2 DEF UnlinkBackup, VerifySucceeds
<1>5. CASE ~AlreadyPatched /\ ~UnlinkBackup /\ ~VerifySucceeds
  <2>1. CASE Begin \/ ApplyPatchSpace \/ PatchPartitionCheck \/ ChecksDone \/ ScriptDone
    BY <1>1, <1>2, <2>1 DEF Begin, ApplyPatchSpace, PatchPartitionCheck, ChecksDone, ScriptDone, Working, Abort
  <2>2. CASE PatchFromSource \/ FlashPartition \/ NoMatch
    BY <1>2, <2>2 DEF PatchFromSource, FlashPartition, NoMatch, Abort, EnterWrite, Working
  <2>3. CASE EnoughSpace \/ RemoveFile \/ NextDirectory
    BY <1>2, <2>3 DEF EnoughSpace, RemoveFile, NextDirectory, Abort, Working, PatchInv, TypeOK
  <2>4. CASE TruncateBackup \/ WriteBackup \/ BackupSaved \/ ApplyPatch
    BY <1>2, <2>4 DEF TruncateBackup, WriteBackup, BackupSaved, ApplyPatch, EnterWrite, Working
  <2>5. CASE WriteChunk \/ WriteDone \/ Fsync \/ VerifyFails
    BY <1>2, <2>5 DEF WriteChunk, WriteDone, Fsync, VerifyFails, Abort, Working
  <2>6. CASE StepFails \/ Kill \/ PowerLoss
    BY <2>6 DEF StepFails, Kill, PowerLoss, Abort, Working
  <2> QED
    BY <1>5, <2>1, <2>2, <2>3, <2>4, <2>5, <2>6 DEF Next, Patching
<1> QED
  BY <1>3, <1>4, <1>5

\* A source is given up only to its own call, all of whose predecessors are done.
LEMMA OrderStep ==
    ASSUME PatchInv, SavedInv, SettledInv, OrderInv, Next
    PROVE  OrderInv'
<1> SUFFICES ASSUME NEW j \in 1 .. N
             PROVE  \/ Settled(Jobs[j].source, "source")'
                    \/ \A k \in 1 .. N : k < j => Settled(Jobs[k].target, "target")' \/ k \in misled'
  BY DEF OrderInv
<1>1. CASE \A k \in 1 .. N : k < j => Settled(Jobs[k].target, "target") \/ k \in misled
  BY <1>1, TargetKept, MisledGrows
<1>2. CASE Settled(Jobs[j].source, "source")
  <2>1. CASE WriteChunk /\ Jobs[j].source = Jobs[job].target
    <3>1. j = job /\ Working
      BY <2>1, WriteBackedUp DEF WriteChunk, Working
    <3> QED
      BY <1>1, <3>1 DEF SettledInv
  <2>2. CASE ~(WriteChunk /\ Jobs[j].source = Jobs[job].target)
    BY <1>2, <2>2, SettledKept, JobType
  <2> QED
    BY <2>1, <2>2
<1> QED
  BY <1>1, <1>2 DEF OrderInv

\* A whole backup goes when the image is on the flash, or is put at risk by its
\* own call, or when an early exit was misled.
LEMMA BackupKept ==
    ASSUME PatchInv, SavedInv, SettledInv, OrderInv, Next,
           NEW j \in 1 .. N, BackupSource, BackupFound(j)
    PROVE  BackupFound(j)' \/ HasImage(j)' \/ j \in risked' \/ \E i \in misled' : i <= j
<1> USE Sizes, Constants
<1>1. CASE TruncateBackup
  <2>1. UNCHANGED device /\ misled' = misled
    BY <1>1 DEF TruncateBackup
  <2>2. HasImage(j)' <=> HasImage(j)
    BY <2>1 DEF HasImage, Settled, device
  <2>3. Working /\ job \in 1 .. N /\ ~Settled(Jobs[job].target, "target")
    BY <1>1 DEF TruncateBackup, PatchInv, TypeOK, InCall, DirtyInv, Working, Settled
  <2>4. CASE j = job
    BY <1>1, <2>2, <2>4 DEF TruncateBackup
  <2>5. CASE j < job
    BY <2>1, <2>2, <2>3, <2>5 DEF SettledInv, HasImage
  <2>6. CASE job < j
    BY <2>1, <2>2, <2>3, <2>6 DEF OrderInv, HasImage
  <2> QED
    BY <2>3, <2>4, <2>5, <2>6
<1>2. CASE WriteBackup
  BY <1>2 DEF WriteBackup, BackupFound
<1>3. CASE UnlinkBackup
  <2>1. pc = "unlink" /\ job \in 1 .. N /\ UNCHANGED device
    BY <1>3 DEF UnlinkBackup, PatchInv, TypeOK, InCall, Working
  <2>2. j = job
    BY <2>1 DEF SavedInv, BackupFound, BackupSource
  <2>3. TargetFound(job) /\ dirty = {}
    BY <2>1 DEF PatchInv, WrittenInv, SavedInv
  <2>4. Settled(Jobs[job].target, "target")
    BY <2>1, <2>3 DEF PatchInv, DirtyInv, TargetFound, Settled
  <2> QED
    BY <2>1, <2>2, <2>4 DEF HasImage, Settled, device
<1>4. CASE ~TruncateBackup /\ ~WriteBackup /\ ~UnlinkBackup
  <2>1. saved' = saved
    BY <1>4 DEF cache, Next, Patching, Begin, ApplyPatchSpace, PatchPartitionCheck, ChecksDone,
       ScriptDone, AlreadyPatched, PatchFromSource, FlashPartition, NoMatch, EnoughSpace,
       RemoveFile, NextDirectory, BackupSaved, ApplyPatch, WriteChunk, WriteDone, Fsync,
       VerifySucceeds, VerifyFails, StepFails, Kill, PowerLoss
  <2> QED
    BY <2>1 DEF BackupFound
<1> QED
  BY <1>1, <1>2, <1>3, <1>4

\* The risk is over only when the backup is whole.
LEMMA RiskKept ==
    ASSUME PatchInv, SavedInv, Next, NEW j \in 1 .. N, j \in risked
    PROVE  j \in risked' \/ (BackupSource /\ BackupFound(j)')
<1>1. CASE TruncateBackup
  BY <1>1 DEF TruncateBackup
<1>2. CASE BackupSaved
  <2>1. ~Tool
    BY <1>2 DEF BackupSaved, SavedInv
  <2>2. saved \in [job : 0 .. N, size : Nat] /\ saved.job = job /\ saved.size = ImageSize
    BY <1>2, <2>1 DEF BackupSaved, SavedInv, PatchInv, TypeOK
  <2>3. saved = [job |-> job, size |-> ImageSize]
    BY <2>2
  <2> QED
    BY <1>2, <2>1, <2>3 DEF BackupSaved, BackupFound, BackupSource
<1>3. CASE ~TruncateBackup /\ ~BackupSaved
  BY <1>3 DEF cache, history, Next, Patching, Begin, ApplyPatchSpace, PatchPartitionCheck, ChecksDone,
     ScriptDone, AlreadyPatched, PatchFromSource, FlashPartition, NoMatch, EnoughSpace,
     RemoveFile, NextDirectory, WriteBackup, ApplyPatch, UnlinkBackup, WriteChunk, WriteDone,
     Fsync, VerifySucceeds, VerifyFails, StepFails, Kill, PowerLoss
<1> QED
  BY <1>1, <1>2, <1>3

ResumeInv == PatchInv /\ SavedInv /\ SettledInv /\ OrderInv /\ Resumable

\* It is inductive: what keeps the source of a call safe goes only when
\* something else keeps it.
LEMMA ResumeInductive == ResumeInv /\ [Next]_vars => ResumeInv'
<1> SUFFICES ASSUME ResumeInv, [Next]_vars PROVE ResumeInv'
  OBVIOUS
<1>1. PatchInv'
  BY PatchInvInductive DEF ResumeInv
<1>2. CASE Next
  <2>1. SavedInv' /\ SettledInv' /\ OrderInv'
    BY <1>2, SavedStep, SettledStep, OrderStep DEF ResumeInv
  <2>2. ASSUME NEW j \in 1 .. N
        PROVE  \/ HasImage(j)' \/ (BackupSource /\ BackupFound(j)')
               \/ j \in risked' \/ \E i \in misled' : i <= j
    <3>1. CASE \E i \in misled : i <= j
      BY <1>2, <3>1, MisledGrows
    <3>2. CASE HasImage(j)
      BY <1>2, <3>2, ImageKept DEF ResumeInv
    <3>3. CASE BackupSource /\ BackupFound(j)
      BY <1>2, <3>3, BackupKept DEF ResumeInv
    <3>4. CASE j \in risked
      BY <1>2, <3>4, RiskKept DEF ResumeInv
    <3> QED
      BY <3>1, <3>2, <3>3, <3>4 DEF ResumeInv, Resumable
  <2> QED
    BY <1>1, <2>1, <2>2 DEF ResumeInv, Resumable, BackupSource
<1>3. CASE UNCHANGED vars
  <2>1. SavedInv' /\ SettledInv' /\ OrderInv'
    BY <1>3 DEF ResumeInv, SavedInv, SettledInv, OrderInv, Settled, Working, BackupFound,
       vars, device, cache, history
  <2>2. Resumable'
    BY <1>3 DEF ResumeInv, Resumable, HasImage, Settled, BackupFound, BackupSource,
       vars, device, cache, history
  <2> QED
    BY <1>1, <2>1, <2>2 DEF ResumeInv
<1> QED
  BY <1>2, <1>3

\* The partitions hold their sources in the beginning.
LEMMA ResumeInit == Init => ResumeInv
<1> SUFFICES ASSUME Init PROVE ResumeInv
  OBVIOUS
<1>1. SavedInv /\ SettledInv
  BY DEF Init, SavedInv, SettledInv, Working
<1>2. ASSUME NEW j \in 1 .. N PROVE Settled(Jobs[j].source, "source")
  BY JobType DEF Init, Settled
<1> QED
  BY <1>1, <1>2, PatchInitInv DEF ResumeInv, OrderInv, Resumable, HasImage

\* Thus it always holds.
LEMMA ResumeInvHolds == Spec => []ResumeInv
  BY ResumeInit, ResumeInductive, PTL DEF Spec

(***************************************************************************)
(* GenerateTarget and WriteBufferToPartition: for every script or run of   *)
(* the tool, and any number of deaths, power losses, errors and bad writes *)
(* every partition is patched, or has its source on the flash or in the    *)
(* backup.  The two exceptions are part of the formula: a source that was  *)
(* read from the backup while its own call writes the backup again, and    *)
(* what an early exit from the page cache has let another call truncate.   *)
(***************************************************************************)
THEOREM PatchResumable == Spec => []Resumable
<1>1. ResumeInv => Resumable
  BY DEF ResumeInv
<1> QED
  BY <1>1, ResumeInvHolds, PTL

-----------------------------------------------------------------------------
(* What success means *)

\* The script succeeds only at its end, and is over then.
LEMMA SuccessStep ==
    ASSUME SuccessInv, Next
    PROVE  SuccessInv' /\ (result' = "success" => result = "success" \/ ScriptDone)
<1> USE DEF SuccessInv, Abort
<1>1. CASE Begin \/ ApplyPatchSpace \/ PatchPartitionCheck \/ ChecksDone \/ ScriptDone
  BY <1>1 DEF Begin, ApplyPatchSpace, PatchPartitionCheck, ChecksDone, ScriptDone
<1>2. CASE AlreadyPatched \/ PatchFromSource \/ FlashPartition \/ NoMatch
  BY <1>2 DEF AlreadyPatched, PatchFromSource, FlashPartition, NoMatch, EnterWrite
<1>3. CASE EnoughSpace \/ RemoveFile \/ NextDirectory
  BY <1>3 DEF EnoughSpace, RemoveFile, NextDirectory
<1>4. CASE TruncateBackup \/ WriteBackup \/ BackupSaved \/ ApplyPatch \/ UnlinkBackup
  BY <1>4 DEF TruncateBackup, WriteBackup, BackupSaved, ApplyPatch, UnlinkBackup, EnterWrite
<1>5. CASE WriteChunk \/ WriteDone \/ Fsync \/ VerifySucceeds \/ VerifyFails
  BY <1>5 DEF WriteChunk, WriteDone, Fsync, VerifySucceeds, VerifyFails
<1>6. CASE StepFails \/ Kill \/ PowerLoss
  BY <1>6 DEF StepFails, Kill, PowerLoss
<1> QED
  BY <1>1, <1>2, <1>3, <1>4, <1>5, <1>6 DEF Next, Patching

DoneInv == PatchInv /\ SavedInv /\ SettledInv /\ SuccessInv /\ PatchedMeansTarget

\* It is inductive: the last call is over when the script ends.
LEMMA DoneInductive == DoneInv /\ [Next]_vars => DoneInv'
<1> SUFFICES ASSUME DoneInv, [Next]_vars PROVE DoneInv'
  OBVIOUS
<1>1. PatchInv'
  BY PatchInvInductive DEF DoneInv
<1>2. CASE Next
  <2>1. SavedInv' /\ SettledInv' /\ SuccessInv'
    BY <1>2, SavedStep, SettledStep, SuccessStep DEF DoneInv
  <2>2. ASSUME result' = "success", NEW j \in 1 .. N
        PROVE  Settled(Jobs[j].target, "target")' \/ j \in misled'
    <3>1. CASE result = "success"
      BY <1>2, <3>1, TargetKept, MisledGrows DEF DoneInv, PatchedMeansTarget
    <3>2. CASE ScriptDone
      BY <1>2, <3>2, TargetKept, MisledGrows, Sizes DEF DoneInv, SettledInv, ScriptDone
    <3> QED
      BY <1>2, <2>2, <3>1, <3>2, SuccessStep DEF DoneInv
  <2> QED
    BY <1>1, <2>1, <2>2 DEF DoneInv, PatchedMeansTarget
<1>3. CASE UNCHANGED vars
  BY <1>1, <1>3 DEF DoneInv, SavedInv, SettledInv, SuccessInv, PatchedMeansTarget, Settled, BackupFound,
     Working, vars, device, cache, history
<1> QED
  BY <1>2, <1>3

\* Thus it always holds.
LEMMA DoneInvHolds == Spec => []DoneInv
<1>1. Init => DoneInv
  BY ResumeInit DEF Init, DoneInv, ResumeInv, SuccessInv, PatchedMeansTarget
<1> QED
  BY <1>1, DoneInductive, PTL DEF Spec

(***************************************************************************)
(* PatchPartition's success can be trusted after any number of deaths,     *)
(* errors, power losses and bad writes, for every script and tool run: the *)
(* targets are on the flash then, but for one whose early exit ("nothing   *)
(* for us to do") was misled by the page cache.                            *)
(***************************************************************************)
THEOREM SuccessIsDurable == Spec => []PatchedMeansTarget
<1>1. DoneInv => PatchedMeansTarget
  BY DEF DoneInv
<1> QED
  BY <1>1, DoneInvHolds, PTL

-----------------------------------------------------------------------------
(* The one backup file of all the calls *)

\* While a call writes its own target, nothing of a later call is touched.
LEMMA LaterFound ==
    ASSUME PatchInv, SavedInv, OrderInv, ~Tool, Working, Next, ~PowerLoss,
           NEW j \in 1 .. N, j > job, \A i \in misled : i >= j, Found(j)
    PROVE  Found(j)'
<1>1. job \in 1 .. N /\ j # job
  BY Sizes DEF PatchInv, TypeOK, InCall
<1>2. Jobs[j].target # Jobs[job].target /\ Jobs[j].source # Jobs[job].target
  BY <1>1, ScriptAssumption
<1>3. CASE WriteChunk \/ Fsync
  <2>1. \A d \in Devices : d # Jobs[job].target => disk'[d] = disk[d]
    BY <1>3, Sizes DEF WriteChunk, Fsync, PatchInv, TypeOK
  <2> QED
    BY <1>2, <1>3, <2>1, JobType DEF WriteChunk, Fsync, Found, TargetFound, SourceFound, BackupFound, cache
<1>4. CASE TruncateBackup
  <2>1. ~Settled(Jobs[job].target, "target") /\ job \notin misled
    BY <1>1, <1>4 DEF TruncateBackup, PatchInv, DirtyInv, Working, Settled
  <2>2. Settled(Jobs[j].source, "source")
    BY <1>1, <2>1 DEF OrderInv
  <2> QED
    BY <1>4, <2>2 DEF TruncateBackup, device, Found, SourceFound, Settled
<1>5. CASE WriteBackup \/ UnlinkBackup
  <2>1. ~BackupFound(j)
    BY <1>1, <1>5 DEF WriteBackup, UnlinkBackup, SavedInv, BackupFound
  <2> QED
    BY <1>5, <2>1 DEF WriteBackup, UnlinkBackup, device, Found, TargetFound, SourceFound
<1>6. CASE ~WriteChunk /\ ~Fsync /\ ~TruncateBackup /\ ~WriteBackup /\ ~UnlinkBackup
  <2>1. UNCHANGED <<disk, saved>>
    BY <1>6 DEF device, cache, history, Next, Patching, Begin, ApplyPatchSpace, PatchPartitionCheck, ChecksDone,
       ScriptDone, AlreadyPatched, PatchFromSource, FlashPartition, NoMatch, EnoughSpace,
       RemoveFile, NextDirectory, BackupSaved, ApplyPatch, WriteDone,
       VerifySucceeds, VerifyFails, StepFails, Kill
  <2> QED
    BY <2>1 DEF Found, TargetFound, SourceFound, BackupFound
<1> QED
  BY <1>3, <1>4, <1>5, <1>6

\* What a step does outside of a call leaves devices and backup alone.
LEMMA FoundUnchanged ==
    ASSUME Next, ~Working, ~PowerLoss
    PROVE  \A j \in 1 .. N : Found(j)' <=> Found(j)
<1>1. UNCHANGED <<disk, saved>>
  BY DEF Working, device, cache, history, Next, Patching, Begin, ApplyPatchSpace, PatchPartitionCheck, ChecksDone,
     ScriptDone, AlreadyPatched, PatchFromSource, FlashPartition, NoMatch, EnoughSpace,
     RemoveFile, NextDirectory, TruncateBackup, WriteBackup, BackupSaved, ApplyPatch,
     UnlinkBackup, WriteChunk, WriteDone, Fsync, VerifySucceeds, VerifyFails, StepFails, Kill
<1> QED
  BY <1>1 DEF Found, TargetFound, SourceFound, BackupFound

\* The check's findings hold until each call has had its turn.
LEMMA CheckStep ==
    ASSUME PatchInv, SavedInv, OrderInv, CheckInv, Next
    PROVE  CheckInv'
<1> USE DEF CheckInv, Abort
<1>1. pc' = "space" \/ (pc' = "free" /\ then' = "check") => job' = 1
  <2>1. then \in {"check", "save"}
    BY DEF PatchInv, TypeOK
  <2>2. CASE Begin \/ ApplyPatchSpace \/ RemoveFile \/ NextDirectory
    BY <2>2 DEF Begin, ApplyPatchSpace, RemoveFile, NextDirectory
  <2>3. CASE EnoughSpace
    BY <2>1, <2>3 DEF EnoughSpace
  <2>4. CASE ~Begin /\ ~ApplyPatchSpace /\ ~RemoveFile /\ ~NextDirectory /\ ~EnoughSpace
    <3>1. pc' # "space" /\ (pc' = "free" => then' = "save" \/ (pc = "free" /\ then' = then /\ job' = job))
      BY <2>4 DEF Next, Patching, PatchPartitionCheck, ChecksDone,
         ScriptDone, AlreadyPatched, PatchFromSource, FlashPartition, NoMatch,
         TruncateBackup, WriteBackup, BackupSaved, ApplyPatch, EnterWrite,
         UnlinkBackup, WriteChunk, WriteDone, Fsync, VerifySucceeds, VerifyFails, StepFails, Kill, PowerLoss
    <3> QED
      BY <3>1
  <2> QED
    BY <2>2, <2>3, <2>4
<1> SUFFICES ASSUME ~Tool, NEW j \in 1 .. N, \A i \in misled' : i >= j
             PROVE  /\ pc' = "check" /\ j < job' => Found(j)'
                    /\ pc' = "patch" /\ j >= job' => Found(j)'
                    /\ Working' /\ j > job' => Found(j)'
  BY <1>1
<1>2. \A i \in misled : i >= j
  BY MisledGrows
<1>3. job \in 1 .. N + 1 /\ N \in Nat /\ job \in Int
  BY Sizes DEF PatchInv, TypeOK
<1>4. CASE PowerLoss \/ StepFails \/ Kill
  BY <1>4 DEF PowerLoss, StepFails, Kill, Working
<1>5. CASE Working /\ ~PowerLoss /\ ~StepFails /\ ~Kill
  <2>1. j > job => Found(j)'
    BY <1>2, <1>5, LaterFound
  <2>2. /\ pc' # "check"
        /\ pc' = "patch" => job' = job + 1
        /\ Working' => job' = job
    BY <1>2, <1>5, ScriptPatches, Sizes DEF PatchInv, TypeOK, InCall, SavedInv, Working, Next, Patching, Begin, ApplyPatchSpace,
       PatchPartitionCheck, ChecksDone, ScriptDone, AlreadyPatched, PatchFromSource, FlashPartition,
       NoMatch, EnoughSpace, RemoveFile, NextDirectory, TruncateBackup, WriteBackup, BackupSaved,
       ApplyPatch, EnterWrite, UnlinkBackup, WriteChunk, WriteDone, Fsync, VerifySucceeds, VerifyFails
  <2> QED
    BY <1>3, <2>1, <2>2
<1>6. CASE ~Working /\ ~PowerLoss /\ ~StepFails /\ ~Kill
  <2>1. Found(j)' <=> Found(j)
    BY <1>6, FoundUnchanged
  <2>2. CASE Begin \/ ApplyPatchSpace \/ EnoughSpace \/ RemoveFile \/ NextDirectory
    BY <1>6, <2>2 DEF Working, Begin, ApplyPatchSpace, EnoughSpace, RemoveFile, NextDirectory, PatchInv, TypeOK
  <2>3. CASE PatchPartitionCheck
    BY <1>2, <1>3, <2>1, <2>3 DEF PatchPartitionCheck, Working, Found
  <2>4. CASE ChecksDone
    BY <1>2, <1>3, <2>1, <2>4 DEF ChecksDone, Working
  <2>5. CASE ScriptDone \/ NoMatch
    BY <2>5 DEF ScriptDone, NoMatch, Working
  <2>6. CASE AlreadyPatched
    BY <1>2, <1>3, <2>1, <2>6 DEF AlreadyPatched, Working
  <2>7. CASE PatchFromSource
    BY <1>2, <1>3, <2>1, <2>7 DEF PatchFromSource, Working, BackupSource
  <2>8. CASE FlashPartition
    BY <2>8, ScriptPatches, Sizes, <1>3 DEF FlashPartition
  <2> QED
    BY <1>2, <1>6, <2>2, <2>3, <2>4, <2>5, <2>6, <2>7, <2>8 DEF Next, Patching, Working,
       TruncateBackup, WriteBackup, BackupSaved, ApplyPatch, UnlinkBackup, WriteChunk, WriteDone,
       Fsync, VerifySucceeds, VerifyFails
<1> QED
  BY <1>4, <1>5, <1>6

ScriptInv == PatchInv /\ SavedInv /\ SettledInv /\ OrderInv /\ CheckInv

\* The invariant of the checks is inductive, ...
LEMMA ScriptInductive == ScriptInv /\ [Next]_vars => ScriptInv'
<1> SUFFICES ASSUME ScriptInv, [Next]_vars PROVE ScriptInv'
  OBVIOUS
<1>1. PatchInv'
  BY PatchInvInductive DEF ScriptInv
<1>2. CASE Next
  BY <1>1, <1>2, SavedStep, SettledStep, OrderStep, CheckStep DEF ScriptInv
<1>3. CASE UNCHANGED vars
  BY <1>1, <1>3 DEF ScriptInv, SavedInv, SettledInv, OrderInv, CheckInv, Found, TargetFound, SourceFound,
     BackupFound, Settled, Working, vars, device, cache, history
<1> QED
  BY <1>2, <1>3

\* ... and thus always holds.
LEMMA ScriptInvHolds == Spec => []ScriptInv
<1>1. Init => ScriptInv
  <2> SUFFICES ASSUME Init PROVE ScriptInv
    OBVIOUS
  <2>1. PatchInv /\ SavedInv /\ SettledInv /\ OrderInv
    BY ResumeInit DEF ResumeInv
  <2> QED
    BY <2>1 DEF Init, ScriptInv, CheckInv, Working
<1> QED
  BY <1>1, ScriptInductive, PTL DEF Spec

(***************************************************************************)
(* patch_partition_check is worth something: a partition it has accepted   *)
(* can be patched when its turn comes, for every script and whatever       *)
(* attempts were cut off before, although all its partitions share one     *)
(* backup file and the calls before have overwritten and removed it.  The  *)
(* exception in the formula: an early exit of a call before it, now or in  *)
(* an earlier attempt, was misled by the page cache.                       *)
(***************************************************************************)
THEOREM CheckIsEnough == Spec => []CheckedMeansPatchable
<1>1. ScriptInv => CheckedMeansPatchable
  BY Sizes DEF ScriptInv, CheckInv, CheckedMeansPatchable, Found, PatchInv, TypeOK
<1> QED
  BY <1>1, ScriptInvHolds, PTL

-----------------------------------------------------------------------------
(* The files in /cache *)

RemovalInv == TypeOK /\ InCall /\ LogInv /\ NewestLogsLast

\* Files are removed one at a time, those of one directory in its order.
LEMMA RemovalInductive == RemovalInv /\ [Next]_vars => RemovalInv'
<1> SUFFICES ASSUME RemovalInv, [Next]_vars PROVE RemovalInv'
  OBVIOUS
<1> USE DEF RemovalInv
<1>1. TypeOK' /\ InCall'
  <2>1. CASE Next
    BY <2>1, PatchTypeStep
  <2>2. CASE UNCHANGED vars
    BY <2>2 DEF TypeOK, InCall, Working, vars, device, cache, history
  <2> QED
    BY <2>1, <2>2
<1>2. files \subseteq ({"cache", "log"} \X Nat)
  BY JobsAssumption DEF TypeOK
<1>3. CASE RemoveFile
  <2>1. PICK f \in Expendable(dir) : First(f) /\ files' = files \ {f}
    BY <1>3 DEF RemoveFile
  <2>2. /\ pc = "free" /\ pc' = pc /\ dir' = dir
        /\ f \in files \ Open /\ f[1] = dir
    BY <1>3, <2>1 DEF RemoveFile, Expendable
  <2>3. LogInv'
    BY <2>1, <2>2 DEF LogInv
  <2>4. ASSUME NEW g \in files' \ Open, f[1] = "log"
        PROVE  g[1] = "log" /\ g[2] < f[2]
    <3>1. g \in files \ Open /\ g # f /\ g[1] = "log"
      BY <2>1, <2>2, <2>4 DEF LogInv
    <3>2. g[2] <= f[2]
      BY <2>1, <2>2, <2>4, <3>1 DEF First, Expendable
    <3>3. g = <<g[1], g[2]>> /\ f = <<f[1], f[2]>> /\ g[2] \in Nat /\ f[2] \in Nat
      BY <1>2, <2>2, <3>1
    <3>4. g[2] # f[2]
      BY <2>4, <3>1, <3>3
    <3> QED
      BY <3>1, <3>2, <3>3, <3>4
  <2>5. NewestLogsLast'
    BY <2>1, <2>4 DEF NewestLogsLast
  <2> QED
    BY <1>1, <2>3, <2>5
<1>4. CASE Next /\ ~RemoveFile
  <2>1. files' = files
    BY <1>4 DEF cache, Next, Patching, Begin, ApplyPatchSpace, PatchPartitionCheck, ChecksDone,
       ScriptDone, AlreadyPatched, PatchFromSource, FlashPartition, NoMatch, EnoughSpace,
       NextDirectory, TruncateBackup, WriteBackup, BackupSaved, ApplyPatch,
       UnlinkBackup, WriteChunk, WriteDone, Fsync, VerifySucceeds, VerifyFails, StepFails, Kill, PowerLoss
  <2>2. CASE NextDirectory
    <3>1. dir = "cache" => \A g \in files \ Open : g[1] = "log"
      BY <1>2, <2>2 DEF NextDirectory, Expendable
    <3> QED
      BY <1>1, <2>1, <2>2, <3>1 DEF NextDirectory, LogInv, NewestLogsLast, Abort
  <2>3. CASE ~NextDirectory
    <3>1. pc' = "free" /\ dir' = "log" => pc = "free" /\ dir = "log"
      BY <1>4, <2>3 DEF Next, Patching, Begin, ApplyPatchSpace, PatchPartitionCheck, ChecksDone, Abort,
         ScriptDone, AlreadyPatched, PatchFromSource, FlashPartition, NoMatch, EnoughSpace, EnterWrite,
         TruncateBackup, WriteBackup, BackupSaved, ApplyPatch, TypeOK,
         UnlinkBackup, WriteChunk, WriteDone, Fsync, VerifySucceeds, VerifyFails, StepFails, Kill, PowerLoss
    <3> QED
      BY <1>1, <2>1, <3>1 DEF LogInv, NewestLogsLast
  <2> QED
    BY <2>2, <2>3
<1>5. CASE UNCHANGED vars
  BY <1>1, <1>5 DEF LogInv, NewestLogsLast, vars, cache
<1> QED
  BY <1>3, <1>4, <1>5

(***************************************************************************)
(* CheckAndFreeSpaceOnCache: however often it is called and interrupted,   *)
(* for every set of files and of open files, a log is deleted only when    *)
(* all expendable files of /cache and all its older rotations are gone.    *)
(***************************************************************************)
THEOREM LogsGoLast == Spec => []NewestLogsLast
<1>1. Init => RemovalInv
  BY PatchInitInv DEF Init, RemovalInv, PatchInv, LogInv, NewestLogsLast
<1>2. RemovalInv => NewestLogsLast
  BY DEF RemovalInv
<1> QED
  BY <1>1, <1>2, RemovalInductive, PTL DEF Spec

=============================================================================
