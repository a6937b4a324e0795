-------------------------- MODULE PatchPartition --------------------------
(***************************************************************************)
(* applypatch: patching whole partitions (boot, recovery) with a backup of *)
(* the source in /cache (applypatch/applypatch.cpp, freecache.cpp), as it  *)
(* is called by an update script (apply_patch_space, patch_partition_check,*)
(* patch_partition) and by the applypatch tool (--patch, --flash).         *)
(*                                                                         *)
(* A script checks all its partitions and then patches them one by one.    *)
(* All of them share the one backup file.  The process can die, the device *)
(* lose its power and a write come back wrong at any point; the script is  *)
(* then run again from its beginning.                                      *)
(***************************************************************************)
EXTENDS Integers, Sequences, FiniteSets

CONSTANTS
    Devices,    \* block devices, and image files for --flash
    C,          \* chunks of a partition
    Jobs,       \* the calls, in order: [kind, target, source]
    Tool,       \* the applypatch tool, run for each job: no check, no backup
    Capacity,   \* units of /cache
    ImageSize,  \* units the backup of a source takes
    CacheFiles, \* other files: <<"cache", n>> in /cache, <<"log", n>> in
                \* /cache/recovery; n is the order of the names in the one,
                \* the index of the log in the other; one unit each
    Open,       \* those some process has open
    Leftover,   \* sizes of a backup an abandoned update may have left behind
    FaultKinds, \* subset of Kinds
    MaxFaults   \* faults in one behaviour

N == Len(Jobs)
Chunks == 1 .. C

\* Content of a chunk: that of the image a source hash or a target hash
\* stands for, or anything else.
Content == {"source", "target", "other"}

Kinds == {"kill", "power", "io", "badflash"}

Job == [kind : {"patch", "flash"}, target : Devices, source : Devices]

ASSUME JobsAssumption ==
    /\ C \in Nat \ {0} /\ Jobs \in Seq(Job) /\ Tool \in BOOLEAN
    /\ Capacity \in Nat /\ ImageSize \in Nat \ {0}
    /\ CacheFiles \subseteq ({"cache", "log"} \X Nat) /\ Open \subseteq CacheFiles
    /\ Leftover \subseteq Nat
    /\ FaultKinds \subseteq Kinds /\ MaxFaults \in Nat

\* No partition is patched twice, and none is the source of a call after it
\* has been patched.  The tool reads one partition and writes another.
ASSUME ScriptAssumption ==
    /\ \A i, j \in 1 .. N : i # j => /\ Jobs[i].target # Jobs[j].target
                                     /\ Jobs[i].target # Jobs[j].source
    /\ Tool => \A j \in 1 .. N : Jobs[j].target # Jobs[j].source
    /\ ~Tool => \A j \in 1 .. N : Jobs[j].kind = "patch"

VARIABLES
    disk, durable,  \* the devices seen through the page cache, and the flash
    dirty,          \* chunks written and not yet synced
    saved,          \* Paths::cache_temp_source(): whose source, and how much of it
    files,          \* the other files that are left in /cache
    risked,         \* history: calls that truncate the only copy of their own source
    misled,         \* history: calls whose early exit found a target that only
                    \* the page cache held
    pc, job, result,
    then, dir,      \* CheckAndFreeSpaceOnCache: its caller, its directory
    chunk, start, attempt,  \* WriteBufferToPartition
    faults          \* how many of each kind

device == <<disk, durable, dirty>>
cache  == <<saved, files>>
history == <<risked, misled>>
vars   == <<device, cache, history, pc, job, result, then, dir, chunk, start, attempt, faults>>

TypeOK ==
    /\ disk \in [Devices -> [Chunks -> Content]]
    /\ durable \in [Devices -> [Chunks -> Content]]
    /\ dirty \subseteq Devices \X Chunks
    /\ saved \in [job : 0 .. N, size : Nat]
    /\ files \subseteq CacheFiles /\ risked \subseteq 1 .. N /\ misled \subseteq 1 .. N
    /\ pc \in {"idle", "space", "check", "patch", "free", "save", "saving", "apply",
               "write", "fsync", "verify", "unlink"}
    /\ job \in 1 .. N + 1
    /\ result \in {"none", "success", "nomatch", "space", "io"}
    /\ then \in {"check", "save"} /\ dir \in {"cache", "log"}
    /\ chunk \in 1 .. C + 1 /\ start \in Chunks /\ attempt \in 0 .. 1
    /\ faults \in [Kinds -> Nat]

\* The devices that are sources hold their source; where the target is another
\* device it holds something else.
Init ==
    /\ disk = [d \in Devices |-> [c \in Chunks |->
                 IF \E j \in 1 .. N : Jobs[j].source = d THEN "source" ELSE "other"]]
    /\ durable = disk /\ dirty = {}
    /\ saved \in [job : {0}, size : Leftover]
    /\ files = CacheFiles /\ risked = {} /\ misled = {}
    /\ pc = "idle" /\ job = 1 /\ result = "none"
    /\ then = "check" /\ dir = "cache"
    /\ chunk = 1 /\ start = 1 /\ attempt = 0
    /\ faults = [kind \in Kinds |-> 0]

-----------------------------------------------------------------------------
(* What the functions look at *)

\* ReadPartitionToBuffer without the backup.
TargetFound(j) == \A c \in Chunks : disk[Jobs[j].target][c] = "target"
SourceFound(j) == \A c \in Chunks : disk[Jobs[j].source][c] = "source"

\* ReadPartitionToBuffer's second choice: the backup, if its hash is right.
BackupFound(j) == saved = [job |-> j, size |-> ImageSize]

BackupSource == ~Tool

\* The whole of a device holds the given image, and a power loss would leave it.
Settled(d, image) == \A c \in Chunks : disk[d][c] = image /\ durable[d][c] = image
HasImage(j) == Settled(Jobs[j].target, "target") \/ Settled(Jobs[j].source, "source")

\* FreeSpaceForFile.
FreeSpace == Capacity - Cardinality(files) - saved.size

\* FindExpendableFiles: the regular files of one directory nobody has open.
\* cache_temp_source is not one of the files.
Expendable(d) == {f \in files \ Open : f[1] = d}

\* One more fault of the kind.
Fault(kind) ==
    /\ kind \in FaultKinds
    /\ faults["kill"] + faults["power"] + faults["io"] + faults["badflash"] < MaxFaults
    /\ faults' = [faults EXCEPT ![kind] = @ + 1]

\* The caller of a failing function aborts the script.
Abort(why) == pc' = "idle" /\ result' = why

-----------------------------------------------------------------------------
(* The script *)

\* RunUpdate evaluates the script from its beginning; the tool is run for its
\* first job.
Begin ==
    /\ pc = "idle"
    /\ pc' = IF Tool THEN "patch" ELSE "space"
    /\ job' = 1 /\ result' = "none"
    /\ UNCHANGED <<device, cache, history, then, dir, chunk, start, attempt, faults>>

\* apply_patch_space: a retry skips the check.
ApplyPatchSpace ==
    /\ pc = "space"
    /\ \/ pc' = "check"
       \/ pc' = "free"
    /\ then' = "check" /\ dir' = "cache"
    /\ UNCHANGED <<device, cache, history, job, result, chunk, start, attempt, faults>>

\* Mutant: the result of the check is not looked at.
PatchPartitionCheckIgnored ==
    /\ pc = "check" /\ job <= N
    /\ job' = job + 1
    /\ UNCHANGED <<device, cache, history, pc, result, then, dir, chunk, start, attempt, faults>>

PatchPartitionCheck ==
    /\ pc = "check" /\ job <= N
    /\ \/ /\ TargetFound(job) \/ SourceFound(job) \/ BackupFound(job)
          /\ job' = job + 1 /\ UNCHANGED <<pc, result>>
       \/ /\ ~TargetFound(job) /\ ~SourceFound(job) /\ ~BackupFound(job)
          /\ Abort("nomatch") /\ UNCHANGED job
    /\ UNCHANGED <<device, cache, history, then, dir, chunk, start, attempt, faults>>

ChecksDone ==
    /\ pc = "check" /\ job = N + 1
    /\ pc' = "patch" /\ job' = 1
    /\ UNCHANGED <<device, cache, history, result, then, dir, chunk, start, attempt, faults>>

ScriptDone ==
    /\ pc = "patch" /\ job = N + 1
    /\ Abort("success")
    /\ UNCHANGED <<device, cache, history, job, then, dir, chunk, start, attempt, faults>>

-----------------------------------------------------------------------------
(* PatchPartition and FlashPartition *)

\* The early-exit case of both functions.
AlreadyPatched ==
    /\ pc = "patch" /\ job <= N /\ TargetFound(job)
    /\ job' = job + 1
    /\ misled' = IF Settled(Jobs[job].target, "target") THEN misled ELSE misled \cup {job}
    /\ UNCHANGED <<device, cache, risked, pc, result, then, dir, chunk, start, attempt, faults>>

\* WriteBufferToPartition up to its loop.
EnterWrite == pc' = "write" /\ chunk' = 1 /\ start' = 1 /\ attempt' = 0

\* Mutant: a patch that starts without looking at the target.
PatchFromSourceAnyway ==
    /\ pc = "patch" /\ job <= N /\ Jobs[job].kind = "patch"
    /\ SourceFound(job) \/ (BackupSource /\ BackupFound(job))
    /\ pc' = IF BackupSource THEN "free" ELSE "apply"
    /\ then' = "save" /\ dir' = "cache"
    /\ UNCHANGED <<device, cache, history, job, result, chunk, start, attempt, faults>>

\* PatchPartition finds its source on the device or in the backup.
PatchFromSource ==
    /\ pc = "patch" /\ job <= N /\ Jobs[job].kind = "patch" /\ ~TargetFound(job)
    /\ SourceFound(job) \/ (BackupSource /\ BackupFound(job))
    /\ pc' = IF BackupSource THEN "free" ELSE "apply"
    /\ then' = "save" /\ dir' = "cache"
    /\ UNCHANGED <<device, cache, history, job, result, chunk, start, attempt, faults>>

FlashPartition ==
    /\ pc = "patch" /\ job <= N /\ Jobs[job].kind = "flash" /\ ~TargetFound(job)
    /\ SourceFound(job)
    /\ EnterWrite
    /\ UNCHANGED <<device, cache, history, job, result, then, dir, faults>>

NoMatch ==
    /\ pc = "patch" /\ job <= N /\ ~TargetFound(job)
    /\ ~SourceFound(job) /\ ~(BackupSource /\ BackupFound(job))
    /\ Abort("nomatch")
    /\ UNCHANGED <<device, cache, history, job, then, dir, chunk, start, attempt, faults>>

-----------------------------------------------------------------------------
(* CheckAndFreeSpaceOnCache, for ImageSize units *)

EnoughSpace ==
    /\ pc = "free" /\ FreeSpace >= ImageSize
    /\ pc' = then
    /\ UNCHANGED <<device, cache, history, job, result, then, dir, chunk, start, attempt, faults>>

\* Mutant: logs by name as well.
FirstByName(f) == \A g \in Expendable(dir) : f[2] <= g[2]

\* The order in which RemoveFilesInDirectory deletes: by name in /cache, the
\* highest index first among the logs.
First(f) == \A g \in Expendable(dir) : IF dir = "cache" THEN f[2] <= g[2] ELSE f[2] >= g[2]

RemoveFile ==
    /\ pc = "free" /\ FreeSpace < ImageSize
    /\ \E f \in Expendable(dir) : First(f) /\ files' = files \ {f}
    /\ UNCHANGED <<device, saved, history, pc, job, result, then, dir, chunk, start, attempt, faults>>

\* Mutant: the log directory is forgotten.
NextDirectoryNever ==
    /\ pc = "free" /\ FreeSpace < ImageSize /\ Expendable(dir) = {}
    /\ Abort("space")
    /\ UNCHANGED <<device, cache, history, job, then, dir, chunk, start, attempt, faults>>

NextDirectory ==
    /\ pc = "free" /\ FreeSpace < ImageSize /\ Expendable(dir) = {}
    /\ \/ /\ dir = "cache" /\ dir' = "log" /\ UNCHANGED <<pc, result>>
       \/ /\ dir = "log" /\ Abort("space") /\ UNCHANGED dir
    /\ UNCHANGED <<device, cache, history, job, then, chunk, start, attempt, faults>>

-----------------------------------------------------------------------------
(* GenerateTarget *)

\* SaveFileContents opens the backup with O_TRUNC, also when it is the only
\* copy of the source it has been read from, or of another call's, ...
TruncateBackup ==
    /\ pc = "save"
    /\ saved' = [job |-> job, size |-> 0]
    /\ risked' = IF BackupFound(job) /\ ~HasImage(job) THEN risked \cup {job} ELSE risked
    /\ pc' = "saving"
    /\ UNCHANGED <<device, files, misled, job, result, then, dir, chunk, start, attempt, faults>>

\* ... and writes it, with O_SYNC.
WriteBackup ==
    /\ pc = "saving" /\ saved.size < ImageSize /\ FreeSpace > 0
    /\ saved' = [saved EXCEPT !.size = @ + 1]
    /\ UNCHANGED <<device, files, history, pc, job, result, then, dir, chunk, start, attempt, faults>>

\* Mutant: the backup is not waited for.
BackupSavedEarly ==
    /\ pc = "saving"
    /\ pc' = "apply" /\ risked' = risked \ {job}
    /\ UNCHANGED <<device, saved, files, misled, job, result, then, dir, chunk, start, attempt, faults>>

BackupSaved ==
    /\ pc = "saving" /\ saved.size = ImageSize
    /\ pc' = "apply" /\ risked' = risked \ {job}
    /\ UNCHANGED <<device, saved, files, misled, job, result, then, dir, chunk, start, attempt, faults>>

\* The patch is applied in memory and the result has the target's hash.
ApplyPatch ==
    /\ pc = "apply"
    /\ EnterWrite
    /\ UNCHANGED <<device, cache, history, job, result, then, dir, faults>>

UnlinkBackup ==
    /\ pc = "unlink"
    /\ saved' = IF BackupSource THEN [job |-> 0, size |-> 0] ELSE saved
    /\ pc' = "patch" /\ job' = job + 1
    /\ UNCHANGED <<device, files, history, result, then, dir, chunk, start, attempt, faults>>

-----------------------------------------------------------------------------
(* WriteBufferToPartition *)

\* Mutant: the write goes one chunk too far.
WriteChunkTooFar ==
    /\ pc = "write" /\ chunk <= C + 1
    /\ disk' = [disk EXCEPT ![Jobs[job].target][chunk] = "target"]
    /\ dirty' = dirty \cup {<<Jobs[job].target, chunk>>}
    /\ chunk' = chunk + 1
    /\ UNCHANGED <<durable, cache, history, pc, job, result, then, dir, start, attempt, faults>>

WriteChunk ==
    /\ pc = "write" /\ chunk <= C
    /\ disk' = [disk EXCEPT ![Jobs[job].target][chunk] = "target"]
    /\ dirty' = dirty \cup {<<Jobs[job].target, chunk>>}
    /\ chunk' = chunk + 1
    /\ UNCHANGED <<durable, cache, history, pc, job, result, then, dir, start, attempt, faults>>

\* Mutant: no sync before the verification.
WriteDoneUnsynced ==
    /\ pc = "write" /\ chunk = C + 1
    /\ pc' = "verify"
    /\ UNCHANGED <<device, cache, history, job, result, then, dir, chunk, start, attempt, faults>>

WriteDone ==
    /\ pc = "write" /\ chunk = C + 1
    /\ pc' = "fsync"
    /\ UNCHANGED <<device, cache, history, job, result, then, dir, chunk, start, attempt, faults>>

\* fsync, sync of everything, and dropping the caches: from here on reads see
\* the flash, and a chunk the flash has not taken well is seen.
Fsync ==
    /\ pc = "fsync"
    /\ \E bad \in SUBSET {c \in Chunks : <<Jobs[job].target, c>> \in dirty} :
         /\ IF bad = {} THEN UNCHANGED faults ELSE Fault("badflash")
         /\ disk' = [disk EXCEPT ![Jobs[job].target] =
                       [c \in Chunks |-> IF c \in bad THEN "other" ELSE @[c]]]
    /\ durable' = disk' /\ dirty' = {}
    /\ pc' = "verify"
    /\ UNCHANGED <<cache, history, job, result, then, dir, chunk, start, attempt>>

\* Mutant: only what the last attempt has written is compared, and the
\* comparison stops one chunk early.
MismatchesShort == {c \in Chunks : c < C /\ c >= start /\ disk[Jobs[job].target][c] # "target"}

\* The verification reads the partition from its beginning.
Mismatches == {c \in Chunks : disk[Jobs[job].target][c] # "target"}

VerifySucceeds ==
    /\ pc = "verify" /\ Mismatches = {}
    /\ pc' = IF Jobs[job].kind = "flash" THEN "patch" ELSE "unlink"
    /\ job' = IF Jobs[job].kind = "flash" THEN job + 1 ELSE job
    /\ UNCHANGED <<device, cache, history, result, then, dir, chunk, start, attempt, faults>>

\* The second attempt writes from the first mismatch on; there is no third.
VerifyFails ==
    /\ pc = "verify" /\ Mismatches # {}
    /\ \/ /\ attempt = 0 /\ attempt' = 1
          /\ start' \in {p \in Mismatches : \A c \in Mismatches : p <= c}
          /\ chunk' = start' /\ pc' = "write" /\ UNCHANGED result
       \/ /\ attempt = 1 /\ Abort("io") /\ UNCHANGED <<chunk, start, attempt>>
    /\ UNCHANGED <<device, cache, history, job, then, dir, faults>>

-----------------------------------------------------------------------------
(* What goes wrong *)

\* A call fails: reading a partition or the patch, asking for the free space,
\* writing the backup or the partition.
StepFails ==
    /\ Fault("io")
    /\ pc \in {"check", "patch", "free", "save", "saving", "apply", "write", "fsync", "verify"}
    /\ Abort("io")
    /\ UNCHANGED <<device, cache, history, job, then, dir, chunk, start, attempt>>

Kill ==
    /\ Fault("kill") /\ pc # "idle"
    /\ pc' = "idle"
    /\ UNCHANGED <<device, cache, history, job, result, then, dir, chunk, start, attempt>>

\* An unsynced chunk is old, new or torn afterwards.
PowerLoss ==
    /\ Fault("power")
    /\ \E after \in [dirty -> {"old", "new", "torn"}] :
         disk' = [d \in Devices |-> [c \in Chunks |->
                    IF <<d, c>> \in dirty
                    THEN [old |-> durable[d][c], new |-> disk[d][c], torn |-> "other"][after[<<d, c>>]]
                    ELSE durable[d][c]]]
    /\ durable' = disk' /\ dirty' = {}
    /\ pc' = "idle"
    /\ UNCHANGED <<cache, history, job, result, then, dir, chunk, start, attempt>>

-----------------------------------------------------------------------------

Patching ==
    \/ ApplyPatchSpace \/ PatchPartitionCheck \/ ChecksDone \/ ScriptDone
    \/ AlreadyPatched \/ PatchFromSource \/ FlashPartition \/ NoMatch
    \/ EnoughSpace \/ RemoveFile \/ NextDirectory
    \/ TruncateBackup \/ WriteBackup \/ BackupSaved \/ ApplyPatch \/ UnlinkBackup
    \/ WriteChunk \/ WriteDone \/ Fsync \/ VerifySucceeds \/ VerifyFails

Next == Begin \/ Patching \/ StepFails \/ Kill \/ PowerLoss

Spec == Init /\ [][Next]_vars

\* A running script goes on, and an unfinished update is started again.
FairSpec == Spec /\ WF_vars(Patching) /\ WF_vars(Begin /\ result # "success")

-----------------------------------------------------------------------------
(* Properties *)

\* When a call returns true its target has been written whole and read back
\* right, also when a write had to be repeated or an earlier attempt did part of
\* the work, and the calls after it do not change that.
PatchedMeansWritten == pc = "patch" => \A j \in 1 .. N : j < job => TargetFound(j)

\* "The patch was already applied, this file has the desired hash, nothing for
\* us to do": after success every target is on the flash, except one whose early
\* exit found it in the page cache only, after an attempt that was cut off
\* between its writes and its fsync.
PatchedMeansTarget ==
    result = "success" => \A j \in 1 .. N : Settled(Jobs[j].target, "target") \/ j \in misled

\* "The patching could be resumed on interruption" (applypatch.h): however often
\* it is interrupted, every partition is patched, or its source is on the flash
\* or complete in the backup.  There are two ways to lose the source: its own
\* call truncates the backup it has just read it from, and is interrupted before
\* it is complete again; or an early exit from the page cache, its own or that of
\* an earlier call, lets another call truncate the backup.
Resumable ==
    \A j \in 1 .. N :
        \/ HasImage(j) \/ (BackupSource /\ BackupFound(j))
        \/ j \in risked \/ \E i \in misled : i <= j

\* A partition that patch_partition_check has accepted can be patched when its
\* turn comes, although the partitions before it use the same backup file and
\* some attempts have been cut off.  Excepted are scripts in which one of those
\* before it has, in some attempt, taken its early exit from the page cache.
CheckedMeansPatchable ==
    pc = "patch" /\ job <= N /\ ~Tool /\ (\A i \in misled : i >= job) =>
         TargetFound(job) \/ SourceFound(job) \/ BackupFound(job)

\* A partition that is patched and synced stays so: calling the function again
\* is harmless, even if the power is lost meanwhile.
PatchedStays ==
    [][\A j \in 1 .. N :
         Settled(Jobs[j].target, "target") => Settled(Jobs[j].target, "target")']_vars

\* CheckAndFreeSpaceOnCache deletes a log only if it must: the older logs and
\* the other files in /cache, unless open, are gone before.
NewestLogsLast ==
    \A f \in CacheFiles \ files : f[1] = "log" =>
        \A g \in files \ Open : g[1] = "log" /\ g[2] < f[2]

\* Finitely many faults do not prevent success, unless a source was lost in one
\* of the two ways of Resumable.
EventuallyPatched == <>(result = "success") \/ <>[](risked # {}) \/ <>(misled # {})

=============================================================================
