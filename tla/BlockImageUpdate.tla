------------------------- MODULE BlockImageUpdate -------------------------
(***************************************************************************)
(* block_image_verify and block_image_update (updater/blockimg.cpp) on one *)
(* partition: a transfer list is executed in place, command by command,    *)
(* and may be interrupted at any point and started again from whatever the *)
(* earlier attempts left on the partition and under /cache/recovery.       *)
(*                                                                         *)
(* Blocks stand for the ranges of the commands' RangeSets.  A hash is      *)
(* collision free, so a command carries, instead of the hashes, the        *)
(* content each source and each target block must have.  Stash files are   *)
(* named by the hash of what they hold: they appear here as their names.   *)
(***************************************************************************)
EXTENDS Integers, FiniteSets

CONSTANTS
    Block,       \* the ranges of blocks of the partition
    Content,     \* what a range can be meant to hold
    Garbage,     \* any other content: torn, discarded, half written
    StashId,     \* names of stash files (SHA-1 of their contents)
    None,        \* no stash, no saved index
    N,           \* number of commands of the transfer list
    Cmd,         \* the transfer list: [0..N-1 -> Command]
    InitialImages, \* what the partition may hold before the first attempt
    StaleLastCmd,\* indices another package's attempt may have left behind
    Faults,      \* which faults happen: subset of FaultKind
    MaxFaults    \* bound on the number of faults

CmdIndex == 0 .. N-1

FaultKind == {"kill", "power", "io", "abort"}

Copying == {"move", "diff"}            \* move, bsdiff, imgdiff
Blind   == {"new", "zero", "erase", "compute_hash_tree"}
Writing == Copying \cup Blind

(***************************************************************************)
(* src and tgt give the expected content of the blocks the command reads   *)
(* and writes; uses are the stashes a copying command reads; id is the     *)
(* operand of stash and free, and for a copying command the name under     *)
(* which its whole source is stashed when source and target overlap.       *)
(***************************************************************************)
Image == UNION {[S -> Content] : S \in SUBSET Block}

Command == [type : Writing \cup {"stash", "free"},
            src : Image, tgt : Image, uses : SUBSET StashId, id : StashId]

ASSUME ListAssumption ==
    /\ N \in Nat
    /\ Cmd \in [CmdIndex -> Command]
    /\ InitialImages \subseteq [Block -> Content \cup {Garbage}]
    /\ Garbage \notin Content
    /\ None \notin StashId
    /\ None \notin Int
    /\ StaleLastCmd \subseteq Nat
    /\ Faults \subseteq FaultKind
    /\ MaxFaults \in Nat

(***************************************************************************)
(* What the creator of the list guarantees (the comment before             *)
(* BlockImageVerifyFn): no block is read, or written, after it has been    *)
(* written.                                                                *)
(***************************************************************************)
ASSUME CreatorAssumption ==
    \A j, k \in CmdIndex : j < k /\ Cmd[j].type \in Writing =>
        /\ DOMAIN Cmd[j].tgt \cap DOMAIN Cmd[k].tgt = {}
        /\ Cmd[k].type # "compute_hash_tree" =>
             DOMAIN Cmd[j].tgt \cap DOMAIN Cmd[k].src = {}

VARIABLES
    \* persistent
    disk,      \* the partition as seen through the page cache
    durable,   \* what the flash holds
    dirty,     \* blocks written (or discarded) since the last fsync
    stash,     \* complete stash files in the stash directory
    stashdir,  \* the stash directory exists
    lastCmd,   \* index in /cache/recovery/last_command, or None
    marker,    \* <stashbase>.UPDATED exists
    \* CommandParameters and locals of PerformBlockImageUpdate
    pc, canwrite, isRetry, createdstash, skip, saved, i, todo, freestash,
    isunresumable, stashMap, consumed,
    result,    \* what the last attempt returned, if it did: "t" or "" ("empty")
    verified,  \* history: some verification run has succeeded
    faults     \* number of faults so far

disks   == <<disk, durable, dirty>>
cache   == <<stash, stashdir, lastCmd, marker>>
params  == <<canwrite, isRetry, createdstash, saved>>
locals  == <<skip, i, todo, freestash, isunresumable, stashMap, consumed>>
outcome == <<result, verified, faults>>
vars    == <<disks, cache, pc, params, locals, outcome>>

Stored == Content \cup {Garbage}

DiskTypeOK ==
    /\ disk \in [Block -> Stored] /\ durable \in [Block -> Stored]
    /\ dirty \subseteq Block

CacheTypeOK ==
    /\ stash \subseteq StashId /\ stashdir \in BOOLEAN
    /\ lastCmd \in Nat \cup {None} /\ marker \in BOOLEAN

ParamsTypeOK ==
    /\ canwrite \in BOOLEAN /\ isRetry \in BOOLEAN /\ createdstash \in BOOLEAN
    /\ skip \in BOOLEAN /\ saved \in Nat \cup {None}
    /\ (skip => saved # None)

LocalsTypeOK ==
    /\ i \in 0 .. N /\ (pc \in {"write", "sync", "index"} => i < N)
    /\ todo \subseteq Block
    /\ (pc = "write" => todo \subseteq DOMAIN Cmd[i].tgt)
    /\ freestash \in StashId \cup {None} /\ isunresumable \in BOOLEAN
    /\ stashMap \in [StashId -> CmdIndex \cup {None}]
    /\ consumed \subseteq CmdIndex

ControlTypeOK ==
    /\ pc \in {"idle", "cmd", "write", "sync", "index",
               "delstash", "dellast", "setmarker", "done", "failed"}
    /\ result \in {"none", "t", "empty"}
    /\ verified \in BOOLEAN /\ faults \in Nat

TypeOK ==
    DiskTypeOK /\ CacheTypeOK /\ ParamsTypeOK /\ LocalsTypeOK /\ ControlTypeOK

-----------------------------------------------------------------------------
(* Reading the partition and the stash *)

\* ReadBlocks followed by VerifyBlocks: the blocks hold the expected content.
VerifyBlocks(image) == \A b \in DOMAIN image : disk[b] = image[b]

\* Mutant: a verification trusts the blocks it has seen a stash command for.
LoadStashUnchecked(id) ==
    IF ~canwrite /\ stashMap[id] # None THEN TRUE ELSE id \in stash

\* LoadStash.  A verification run looks at the blocks a skipped stash
\* command would have stashed, and at nothing else, when it knows them.
LoadStash(id) ==
    IF ~canwrite /\ stashMap[id] # None
    THEN VerifyBlocks(Cmd[stashMap[id]].src)
    ELSE id \in stash

\* LoadSourceBlocks: a stash that cannot be loaded makes the hash differ.
SourceVerified(c) ==
    VerifyBlocks(c.src) /\ \A id \in c.uses : LoadStash(id)

\* WriteStash leaves a file under its final name only when it is complete
\* (written aside, synced, renamed, directory synced).
WriteStash(id) == stash \cup {id}
FreeStash(id) == stash \ {id}

Overlap(c) == DOMAIN c.src \cap DOMAIN c.tgt # {}

-----------------------------------------------------------------------------
Init ==
    /\ disk \in InitialImages /\ durable = disk /\ dirty = {}
    /\ stash = {} /\ stashdir = FALSE
    /\ lastCmd \in {None} \cup StaleLastCmd
    /\ marker = FALSE
    /\ pc = "idle"
    /\ canwrite = FALSE /\ isRetry = FALSE /\ createdstash = FALSE
    /\ skip = FALSE /\ saved = None /\ i = 0 /\ todo = {} /\ freestash = None
    /\ isunresumable = FALSE /\ stashMap = [id \in StashId |-> None]
    /\ consumed = {}
    /\ result = "none" /\ verified = FALSE /\ faults = 0

Fault(kind) ==
    /\ kind \in Faults /\ faults < MaxFaults
    /\ faults' = faults + 1

(***************************************************************************)
(* Entry of PerformBlockImageUpdate up to the command loop.                *)
(***************************************************************************)
\* "Skipping already updated partition ... based on marker".
SkipUpdatedPartition(write) ==
    /\ pc = "idle"
    /\ marker
    /\ canwrite' = write /\ isRetry' = TRUE
    /\ result' = "t"
    /\ UNCHANGED <<disks, cache, pc, createdstash, saved, locals, verified,
                   faults>>

Begin(write, retry) ==
    /\ pc = "idle"
    /\ ~(retry /\ marker)
    /\ marker' = FALSE
    /\ canwrite' = write /\ isRetry' = retry
    /\ createdstash' = ~stashdir /\ stashdir' = TRUE

\* Mutant: skipping stays allowed when there is no index to parse.
ParseAllowsSkipping == saved' = lastCmd /\ skip' = TRUE

ParseLastCommandFile == saved' = lastCmd /\ skip' = (lastCmd # None)

\* The fields of CommandParameters before the first command.
InitParameters ==
    /\ i' = 0 /\ todo' = {} /\ freestash' = None /\ isunresumable' = FALSE
    /\ stashMap' = [id \in StashId |-> None] /\ consumed' = {}
    /\ result' = "none"

\* Mutants: CreateStash takes a directory that exists for a failure; it
\* cleans more than the partial files.
StartRejectsStashDir(write, retry) ==
    /\ Begin(write, retry) /\ ParseLastCommandFile /\ InitParameters
    /\ pc' = IF stashdir THEN "failed" ELSE "cmd"
    /\ UNCHANGED <<disks, stash, lastCmd, verified, faults>>

Start(write, retry) ==
    /\ Begin(write, retry) /\ ParseLastCommandFile /\ InitParameters
    /\ pc' = "cmd"
    /\ UNCHANGED <<disks, stash, lastCmd, verified, faults>>

\* CreateStash finds too little space on /cache: the directory stays.
CreateStashFails(write, retry) ==
    /\ Begin(write, retry) /\ Fault("io")
    /\ result' = "empty"
    /\ UNCHANGED <<disks, stash, lastCmd, pc, saved, locals, verified>>

-----------------------------------------------------------------------------
(* The command loop *)

\* No performer in the verification's command map.
NotVerified == ~canwrite /\ Cmd[i].type \in Blind

\* Mutant: new commands are skipped as well.
AlreadyExecutedSkipsNew == canwrite /\ skip /\ i <= saved

\* Executed before the interruption, according to last_command; new data is
\* read sequentially, so new commands are never skipped.
AlreadyExecuted ==
    canwrite /\ skip /\ i <= saved /\ Cmd[i].type # "new"

SkipCommand ==
    /\ pc = "cmd" /\ i < N
    /\ NotVerified \/ AlreadyExecuted
    /\ i' = i + 1
    /\ UNCHANGED <<disks, cache, pc, params, skip, todo, freestash,
                   isunresumable, stashMap, consumed, outcome>>

Performing(types) ==
    /\ pc = "cmd" /\ i < N /\ Cmd[i].type \in types
    /\ ~NotVerified /\ ~AlreadyExecuted

\* Where the loop goes once a performer that wrote nothing returns 0: an
\* update syncs and saves the index, a verification takes the next command.
NextCommand ==
    IF canwrite THEN pc' = "sync" /\ i' = i ELSE pc' = "cmd" /\ i' = i + 1

PerformCommandStash ==
    /\ Performing({"stash"})
    /\ LET c == Cmd[i] IN
       IF LoadStash(c.id)
       THEN UNCHANGED <<stash, stashMap>>
       ELSE /\ stashMap' = [stashMap EXCEPT ![c.id] = i]
            /\ stash' = IF canwrite /\ VerifyBlocks(c.src)
                        THEN WriteStash(c.id) ELSE stash
    /\ NextCommand
    /\ UNCHANGED <<disks, stashdir, lastCmd, marker, params, skip, todo,
                   freestash, isunresumable, consumed, outcome>>

\* Mutant: a verification frees stashes it did not create.
PerformCommandFreeAlways ==
    /\ Performing({"free"})
    /\ stashMap' = [stashMap EXCEPT ![Cmd[i].id] = None]
    /\ stash' = FreeStash(Cmd[i].id)
    /\ NextCommand
    /\ UNCHANGED <<disks, stashdir, lastCmd, marker, params, skip, todo,
                   freestash, isunresumable, consumed, outcome>>

PerformCommandFree ==
    /\ Performing({"free"})
    /\ stashMap' = [stashMap EXCEPT ![Cmd[i].id] = None]
    /\ stash' = IF canwrite \/ createdstash THEN FreeStash(Cmd[i].id) ELSE stash
    /\ NextCommand
    /\ UNCHANGED <<disks, stashdir, lastCmd, marker, params, skip, todo,
                   freestash, isunresumable, consumed, outcome>>

(***************************************************************************)
(* move, bsdiff and imgdiff: LoadSrcTgtVersion3 and its three outcomes.    *)
(***************************************************************************)
\* The target blocks already hold what the command would write.
TargetVerified ==
    /\ Performing(Copying)
    /\ VerifyBlocks(Cmd[i].tgt)
    /\ NextCommand
    /\ UNCHANGED <<disks, cache, params, skip, todo, freestash,
                   isunresumable, stashMap, consumed, outcome>>

CanExecute(c) ==
    \/ SourceVerified(c)
    \/ Overlap(c) /\ LoadStash(c.id)

\* Mutant: overlapping source blocks are not stashed.
CopySourceUnstashed ==
    /\ Performing(Copying) /\ canwrite
    /\ ~VerifyBlocks(Cmd[i].tgt) /\ CanExecute(Cmd[i])
    /\ todo' = DOMAIN Cmd[i].tgt /\ pc' = "write"
    /\ UNCHANGED <<disks, cache, params, skip, i, freestash, isunresumable,
                   stashMap, consumed, outcome>>

\* The source is available: an update stashes it if the target overlaps it,
\* unless it comes from such a stash already, and starts writing.
CopySource ==
    /\ Performing(Copying) /\ canwrite
    /\ ~VerifyBlocks(Cmd[i].tgt) /\ CanExecute(Cmd[i])
    /\ IF SourceVerified(Cmd[i]) /\ Overlap(Cmd[i])
       THEN /\ stash' = WriteStash(Cmd[i].id)
            /\ freestash' = IF Cmd[i].id \in stash THEN None ELSE Cmd[i].id
       ELSE UNCHANGED <<stash, freestash>>
    /\ todo' = DOMAIN Cmd[i].tgt /\ pc' = "write"
    /\ UNCHANGED <<disks, stashdir, lastCmd, marker, params, skip, i,
                   isunresumable, stashMap, consumed, outcome>>

\* A verification finds that the command can be executed.  If the saved
\* index says that it has been, the index is not to be trusted.
VerifyCopy ==
    /\ Performing(Copying) /\ ~canwrite
    /\ ~VerifyBlocks(Cmd[i].tgt) /\ CanExecute(Cmd[i])
    /\ IF skip /\ i <= saved
       THEN skip' = FALSE /\ lastCmd' = None
       ELSE UNCHANGED <<skip, lastCmd>>
    /\ i' = i + 1
    /\ UNCHANGED <<disks, stash, stashdir, marker, pc, params, todo, freestash,
                   isunresumable, stashMap, consumed, outcome>>

\* "partition has unexpected contents".
Unresumable ==
    /\ Performing(Copying)
    /\ ~VerifyBlocks(Cmd[i].tgt) /\ ~CanExecute(Cmd[i])
    /\ isunresumable' = TRUE /\ pc' = "failed"
    /\ UNCHANGED <<disks, cache, params, skip, i, todo, freestash, stashMap,
                   consumed, outcome>>

(***************************************************************************)
(* zero, new, erase and compute_hash_tree do not look at their target.     *)
(***************************************************************************)
StartWrite ==
    /\ Performing(Blind)
    /\ Cmd[i].type = "compute_hash_tree" => VerifyBlocks(Cmd[i].src)
    /\ todo' = DOMAIN Cmd[i].tgt /\ pc' = "write"
    /\ UNCHANGED <<disks, cache, params, skip, i, freestash, isunresumable,
                   stashMap, consumed, outcome>>

\* The root hash computed from the blocks differs from the expected one.
RootHashMismatch ==
    /\ Performing({"compute_hash_tree"})
    /\ ~VerifyBlocks(Cmd[i].src)
    /\ pc' = "failed"
    /\ UNCHANGED <<disks, cache, params, locals, outcome>>

NewCommands(n) == {j \in 0 .. n-1 : Cmd[j].type = "new"}

\* The content that reaches target block b of the current command.  The new
\* data are one stream: they land where they belong only if every earlier
\* new command has taken its part.
Written(b) ==
    IF \/ Cmd[i].type = "erase"
       \/ Cmd[i].type = "new" /\ consumed # NewCommands(i)
    THEN Garbage
    ELSE Cmd[i].tgt[b]

WriteRange(b) ==
    /\ pc = "write" /\ b \in todo
    /\ disk' = [disk EXCEPT ![b] = Written(b)]
    /\ dirty' = dirty \cup {b}
    /\ todo' = todo \ {b}
    /\ UNCHANGED <<durable, cache, pc, params, skip, i, freestash,
                   isunresumable, stashMap, consumed, outcome>>

\* The performer returns 0, after FreeStash of a source it stashed itself.
FinishWrite ==
    /\ pc = "write" /\ todo = {}
    /\ stash' = FreeStash(freestash) /\ freestash' = None
    /\ consumed' = IF Cmd[i].type = "new" THEN consumed \cup {i} ELSE consumed
    /\ pc' = "sync"
    /\ UNCHANGED <<disks, stashdir, lastCmd, marker, params, skip, i, todo,
                   isunresumable, stashMap, outcome>>

\* Mutant: the command's writes are not flushed before the index is saved.
FsyncMissing ==
    /\ pc = "sync"
    /\ pc' = "index"
    /\ UNCHANGED <<disks, cache, params, locals, outcome>>

Fsync ==
    /\ pc = "sync"
    /\ durable' = disk /\ dirty' = {}
    /\ pc' = "index"
    /\ UNCHANGED <<disk, cache, params, locals, outcome>>

UpdateLastCommandIndex ==
    /\ pc = "index"
    /\ lastCmd' = i
    /\ i' = i + 1 /\ pc' = "cmd"
    /\ UNCHANGED <<disks, stash, stashdir, marker, params, skip, todo,
                   freestash, isunresumable, stashMap, consumed, outcome>>

\* "Failed to update the last command file": only a warning.
UpdateLastCommandIndexFails ==
    /\ pc = "index" /\ Fault("io")
    /\ i' = i + 1 /\ pc' = "cmd"
    /\ UNCHANGED <<disks, cache, params, skip, todo, freestash, isunresumable,
                   stashMap, consumed, result, verified>>

-----------------------------------------------------------------------------
(* pbiudone *)

AllCommandsDone ==
    /\ pc = "cmd" /\ i = N
    /\ pc' = IF canwrite THEN "delstash" ELSE "done"
    /\ UNCHANGED <<disks, cache, params, locals, outcome>>

\* DeleteStash removes the files one by one, then the directory.
DeleteStashFile(id) ==
    /\ pc = "delstash" /\ id \in stash
    /\ stash' = stash \ {id}
    /\ UNCHANGED <<disks, stashdir, lastCmd, marker, pc, params, locals,
                   outcome>>

DeleteStashDir ==
    /\ pc = "delstash" /\ stash = {}
    /\ stashdir' = FALSE /\ pc' = "dellast"
    /\ UNCHANGED <<disks, stash, lastCmd, marker, params, locals, outcome>>

DeleteLastCommandFile ==
    /\ pc = "dellast"
    /\ lastCmd' = None /\ pc' = "setmarker"
    /\ UNCHANGED <<disks, stash, stashdir, marker, params, locals, outcome>>

SetUpdatedMarker ==
    /\ pc = "setmarker"
    /\ marker' = TRUE /\ pc' = "done"
    /\ UNCHANGED <<disks, stash, stashdir, lastCmd, params, locals, outcome>>

\* "Failed to set updated marker; continuing".
SetUpdatedMarkerFails ==
    /\ pc = "setmarker" /\ Fault("io")
    /\ pc' = "done"
    /\ UNCHANGED <<disks, cache, params, locals, result, verified>>

\* The last fsync; its failure is not reported.
FinalFsync ==
    \/ durable' = disk /\ dirty' = {}
    \/ dirty # {} /\ UNCHANGED <<durable, dirty>>

\* The tail of pbiudone: last_command and the stash go if the update cannot
\* be resumed, the stash also if a verification created it.
Return ==
    /\ pc \in {"done", "failed"}
    /\ FinalFsync
    /\ lastCmd' = IF isunresumable THEN None ELSE lastCmd
    /\ IF isunresumable \/ (~canwrite /\ createdstash)
       THEN stash' = {} /\ stashdir' = FALSE
       ELSE UNCHANGED <<stash, stashdir>>
    /\ result' = IF pc = "done" THEN "t" ELSE "empty"
    /\ verified' = (verified \/ (pc = "done" /\ ~canwrite))
    /\ pc' = "idle"
    /\ UNCHANGED <<disk, marker, params, locals, faults>>

-----------------------------------------------------------------------------
(* Faults *)

\* What may be lost of the range being written when the performer stops: a
\* retry discards a range before it writes it, and a write may be cut short.
InFlight == {{}} \cup IF pc = "write" THEN {{b} : b \in todo} ELSE {}

Torn(lost) ==
    /\ disk' = [b \in Block |-> IF b \in lost THEN Garbage ELSE disk[b]]
    /\ dirty' = dirty \cup lost

\* A read, write, fsync or patch fails: the performer, or the loop, gives up.
CommandFails ==
    /\ pc \in {"cmd", "write", "sync"}
    /\ pc = "cmd" => i < N /\ ~NotVerified /\ ~AlreadyExecuted
    /\ Fault("io")
    /\ \E lost \in InFlight : Torn(lost)
    /\ pc' = "failed"
    /\ UNCHANGED <<durable, cache, params, locals, result, verified>>

\* The list of this attempt has an abort line here, as the repository's tests do
\* to interrupt an update.
PerformCommandAbort ==
    /\ pc = "cmd" /\ i < N /\ ~AlreadyExecuted
    /\ Fault("abort")
    /\ pc' = "failed"
    /\ UNCHANGED <<disks, cache, params, locals, result, verified>>

\* The updater process dies; what it wrote stays in the page cache.
Kill ==
    /\ pc # "idle" /\ Fault("kill")
    /\ \E lost \in InFlight : Torn(lost)
    /\ pc' = "idle" /\ result' = "none"
    /\ UNCHANGED <<durable, cache, params, locals, verified>>

\* The device loses power: of each block written since the last fsync, the
\* flash has the old content, the new one or neither.
PowerLoss ==
    /\ Fault("power")
    /\ \E lost \in InFlight, f \in [dirty -> {"old", "new", "torn"}] :
         disk' = [b \in Block |->
                     IF b \in lost THEN Garbage
                     ELSE IF b \notin dirty \/ f[b] = "new" THEN disk[b]
                     ELSE IF f[b] = "old" THEN durable[b] ELSE Garbage]
    /\ durable' = disk' /\ dirty' = {}
    /\ pc' = "idle" /\ result' = "none"
    /\ UNCHANGED <<cache, params, locals, verified>>

-----------------------------------------------------------------------------
Step ==
    \/ SkipCommand \/ PerformCommandStash \/ PerformCommandFree
    \/ TargetVerified \/ CopySource \/ VerifyCopy \/ Unresumable
    \/ StartWrite \/ RootHashMismatch
    \/ \E b \in Block : WriteRange(b)
    \/ FinishWrite \/ Fsync \/ UpdateLastCommandIndex
    \/ AllCommandsDone
    \/ \E id \in StashId : DeleteStashFile(id)
    \/ DeleteStashDir \/ DeleteLastCommandFile \/ SetUpdatedMarker \/ Return

Next ==
    \/ \E write \in BOOLEAN : SkipUpdatedPartition(write)
    \/ \E write, retry \in BOOLEAN :
          Start(write, retry) \/ CreateStashFails(write, retry)
    \/ Step
    \/ UpdateLastCommandIndexFails \/ SetUpdatedMarkerFails
    \/ CommandFails \/ PerformCommandAbort \/ Kill \/ PowerLoss

Spec == Init /\ [][Next]_vars

\* The updater process runs until it returns or dies, and recovery (or the
\* user) runs an update that has not succeeded again.
FairSpec ==
    /\ Spec
    /\ WF_vars(Step)
    /\ SF_vars(\E retry \in BOOLEAN : Start(TRUE, retry))

-----------------------------------------------------------------------------
(* Properties *)

\* The target of c is complete and survives any fault.
Settled(c) ==
    \A b \in DOMAIN c.tgt :
        disk[b] = c.tgt[b] /\ durable[b] = c.tgt[b] /\ b \notin dirty

\* An update that reports success, by executing the list or by trusting the
\* marker, has put every target block on the flash: skipped commands were
\* executed, and new data landed where it belongs.
SuccessMeansTarget ==
    result = "t" /\ canwrite =>
        \A j \in CmdIndex : Cmd[j].type \in Writing \ {"erase"} => Settled(Cmd[j])

\* Whatever the saved index lets a later update skip has reached the flash,
\* even if the update is interrupted again while it re-executes commands.
SavedIndexSound ==
    \A j \in CmdIndex :
        /\ lastCmd # None /\ j <= lastCmd
        /\ Cmd[j].type \in Writing \ {"erase", "new"}
        => Settled(Cmd[j])

\* The marker promises a retry that there is nothing left to do.
MarkerSound ==
    marker => \A j \in CmdIndex :
                 Cmd[j].type \in Writing \ {"erase"} => Settled(Cmd[j])

\* Once a verification has said "update may be resumed", no interruption of
\* the updates that follow leaves the partition in a state from which
\* neither the source nor the target of some command can be recovered.
VerifiedMeansResumable == verified => ~isunresumable

\* The same for a partition that starts out as the intended source image,
\* verified or not.
Resumable == ~isunresumable

\* A verification run leaves the partition alone, and throws stashed blocks
\* away only after it has found that the update cannot be resumed.
VerifyReadOnly ==
    [][~canwrite /\ pc # "idle" /\ faults' = faults =>
         disk' = disk /\ (stash' # stash => isunresumable)]_vars

\* An update that is interrupted a bounded number of times and run again
\* gets to the end.
EventuallyUpdated == <>(canwrite /\ result = "t")
=============================================================================
