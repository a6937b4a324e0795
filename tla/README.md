# Verification of the recovery

TLA+ models, TLC runs and TLAPS proofs for the recovery in this repository
(AOSP's `bootable/recovery` with the TWRP and OrangeFox layers). The project
starts with what can leave a device without a bootable system: the
in-place, interruptible update of a partition by the `updater` binary, the two
threads that carry it out, and the patching of whole partitions by applypatch.
It goes on to the places where several processes or several boots have to
agree: the way of an update request from Android through uncrypt and the
bootloader control block to the recovery's scripts, the command line of the
recovery, and adb backup and restore.

Everything here is checked from this directory:

    tlc -workers 2 -config interrupted.cfg MCBlockImageUpdate
    tlapm BlockImageUpdateProofs.tla
    tlapm PatchPartitionProofs.tla
    tlapm NewDataReceiverProofs.tla
    tlapm CliCommandProofs.tla
    tlapm BootCommandProofs.tla
    tlapm AdbBackupProofs.tla
    tlapm AdbBackupRestorableProofs.tla
    tlapm AdbRestoreProofs.tla

`PROJECT.json` lists the runs with the properties each one checks, the source
lines every definition stands for, the mutants that show what each property
detects, the findings, the hazards and the theorems.

## 1. Inventory

| Component | State it keeps | Operations | Talks to | What is hard | What makes it correct |
|---|---|---|---|---|---|
| Block image update (`updater/blockimg.cpp`) | partition blocks, stash directory, `last_command`, `.UPDATED` marker; per run: position, saved index, stash map | `block_image_verify`, `block_image_update`, nine kinds of commands | receiver thread, `/cache`, block device | death and power loss at any point, retry from what is left, commands that overwrite their source | success means target on flash; an interrupted update can be resumed |
| New-data receiver (same file) | `NewThreadInfo`: writer, `receiver_available` | receive (plain, brotli), stop, join | main thread by mutex and condition | ownership of the writer, lost wake-ups, early end on either side | data lands in stream order; nobody waits for ever |
| Commands (`updater/commands.cpp`) | none | parse a transfer list line | block image update | malformed lines | parsed form is the line's meaning |
| Updater, runtime, edify functions (`updater/*.cpp`, `edify/`) | edify `State`, command pipe to recovery | evaluate the script; mount, format, write images | recovery's installer | several partitions share files in `/cache` | the script's result is reported once |
| Dynamic partitions (`updater/dynamic_partitions.cpp`) | its own marker | update metadata | device mapper | marker and metadata change in two steps | metadata updated once per package |
| applypatch (`applypatch/`) | the backup of a source in `/cache`, the partition | patch, flash, check, free space | `/cache`, partitions, the script | death and power loss between backup, write and sync; one backup file for all partitions; a full `/cache` | a call that succeeds has written its target; source, target or backup always complete |
| Bootloader control block (`bootloader_message/`, `install/get_args.cpp`, `startupArgs.cpp`) | `command` and `recovery` fields in `/misc`, options of this start | write, read, turn into script lines, clear | uncrypt, boot loader, `twrp.cpp` | cleared before its commands have run; crash or power loss in between; a write to `/misc` that fails | a command is run, once, and not again after each boot |
| AOSP recovery (`recovery.cpp`) | retry count | install, wipe, retry by reboot | boot loader, installer | not built: `Android.mk` takes `twrp.cpp` instead, and `recovery.cpp` calls a five-argument `InstallPackage` that no longer exists | - |
| Installer (`install/`, `twrpinstall/`) | package map, updater child and its pipe | verify, run the update binary | updater, minadbd | child death, cancellation | nothing unverified is run |
| Sideload (`fuse_sideload/`, `minadbd/`) | block cache with pinned hashes, command socket | read, exit, command and status messages | adb host, installer | host stalls or changes data between reads | a block read twice is the same block |
| uncrypt (`uncrypt/`, `otautil/sysutil.cpp`) | block map and its temporary, ring of buffers, the package's blocks | rewrite the package in clear, map it, set up and clear the control block; read through the map | Android's update client, recovery | death and power loss before map and blocks are durable, a run after an interrupted one | a map names only blocks that hold the package |
| update_verifier | none | read the care map, mark the slot | bootloader HAL | several reader threads | slot marked only if every block reads |
| adb backup (`adbbu/`, `twrpAdbBuFifo.cpp`) | control and data FIFOs, chunk counters, digest | backup, restore | partition manager, twrpTar, adbd | control and data race on separate FIFOs that are polled; an end that is closed early | what a finished backup holds can be restored; both processes end |
| Partition manager, twrpTar | partition list, archive lists | mount, wipe, back up, restore | GUI, scripts, adb | several archive threads, cancellation | every file in exactly one archive |
| OpenRecoveryScript (`openrecoveryscript.cpp`) | `/tmp/openrecoveryscript`, the script in `/cache` | insert, copy, remove, run line by line | control block, GUI, partition manager | a crash between copy, removal and execution | a script runs once |
| Command line and GUI actions (`orscmd/`, `gui/gui.cpp`, `gui/action.cpp`) | FIFOs `orsin` and `orsout`, `orsout` stream, `tw_busy`, `m_thread_running`, page | read a command, run it in the action thread, answer; start an action; start and end a page | OpenRecoveryScript, theme | the FIFOs are created anew by one thread while another polls them, and tools hold old ones | one action at a time; a tool that ends well has been served |
| Settings (`data.cpp`) | key-value store | get, set, save | everything | - | - |
| Otautil | none | range sets, paths | everything above | boundaries of ranges | set operations are those of sets |
| Drawing, input, MTP, decryption, start-up, vendored tools | - | - | - | - | not in scope, see section 7 |

### How an update runs

The installer verifies a package and forks its update binary, which evaluates
an edify script. The script calls `block_image_verify` for a partition and,
if that returns "t", `block_image_update`; a full package calls only the
latter. Both are `PerformBlockImageUpdate` with a flag. It walks through a
transfer list: `stash` and `free` manage saved source blocks in `/cache`,
`move`, `bsdiff` and `imgdiff` compute target blocks from source blocks,
`new` takes them from the package through the receiver thread, `zero`,
`erase` and `compute_hash_tree` need no input of that kind. After each command an
update syncs the partition and saves the command's index in
`/cache/recovery/last_command`. When an attempt is cut short, the same package is run
again, as a retry or not; a retry skips what the index says is done,
and skips a whole partition if its marker is there.

Partitions that are patched as a whole (boot, recovery) go through
applypatch: the script checks the space in `/cache` (`apply_patch_space`), then every partition
(`patch_partition_check`), then patches them one after the other
(`patch_partition`). Before a partition is overwritten its source is copied to
the one backup file; it is removed when the target has been read back.

### How a request reaches the recovery

Android downloads a package to `/data`, lets uncrypt rewrite its blocks in
clear and list them in `/cache/recovery/block.map`, and has it write
`boot-recovery` with its options to the control block. The recovery
(`twrp.cpp`) reads the options, inserts a line for each into
`/tmp/openrecoveryscript`, and clears the control block at once. After the
decryption page it runs these lines, then a script an application may have left in
`/cache`, and reboots if one of them succeeded. Otherwise it shows its main page,
where the `twrp` tool can send commands: it writes to `orsin`, the GUI thread
reads the command and starts the action thread, which appends the command to
the same script file, runs it and closes the answer in `orsout`.

### How adb backup works

adbd starts `bu`, which tells TWRP to back up. TWRP announces each partition on the control FIFO
and writes it to the data FIFO; bu merges both into a stream of chunks with
headers, padding and a digest for each file. A restore takes the stream
apart again; here TWRP answers with `TWEOF` when it has its partition, so that
bu goes on to the next one.

## 2. Modules

### BlockImageUpdate

One partition, one transfer list, any number of attempts. Its state is the
partition seen through the page cache (`disk`), the flash (`durable`), the
unsynced blocks (`dirty`), and the four things that live in `/cache` (`stash`, `stashdir`,
`lastCmd`, `marker`); then the fields of `CommandParameters` and the locals
of `PerformBlockImageUpdate`, under their names where TLA+ allows it. `pc` says where in the function
the attempt is.

| Action | Code |
|---|---|
| `SkipUpdatedPartition`, `Start`, `CreateStashFails` | entry up to the command loop: marker, `CreateStash`, `ParseLastCommandFile` |
| `SkipCommand` | commands without a performer in a verification, and those at or below the saved index |
| `PerformCommandStash`, `PerformCommandFree` | the functions of that name |
| `TargetVerified`, `CopySource`, `VerifyCopy`, `Unresumable` | the three results of `LoadSrcTgtVersion3`, in `PerformCommandMove` and `PerformCommandDiff`, the second one for each mode |
| `StartWrite`, `RootHashMismatch` | `zero`, `new`, `erase`, `compute_hash_tree` up to their first write |
| `WriteRange`, `FinishWrite` | the writes of a command, range by range and in any order, then `FreeStash` |
| `Fsync`, `UpdateLastCommandIndex`, `UpdateLastCommandIndexFails` | the end of a turn of the loop |
| `AllCommandsDone`, `DeleteStashFile`, `DeleteStashDir`, `DeleteLastCommandFile`, `SetUpdatedMarker`, `SetUpdatedMarkerFails`, `Return` | `pbiudone`, step by step because death can come between any two |
| `CommandFails`, `PerformCommandAbort` | I/O and patch errors; the `abort` line of the tests |
| `Kill`, `PowerLoss` | external: the process dies, or the device does |

What is abstracted:

* A block of the model is a range of the list; what matters of its content is
  whether it is what a source or a target hash asks for. Hashes are collision
  free, so commands carry contents instead of hashes.
* A stash file is its name, since `WriteStash` makes it appear under that name
  only when it is complete (written to `.partial`, synced, renamed, directory
  synced). Corruption of a complete stash file is not modelled, nor is the
  `UpdateLastCommandIndex` file ever torn, for the same reason.
* `erase` may leave anything; the properties say nothing of erased blocks.
* The new data are one stream. `consumed` records which `new` commands have
  taken their part in this attempt; a `new` that runs while an earlier one has
  not lands wrong data (`Written`). That the threads really deliver the stream
  in order is what `NewDataReceiver` is about.
* The patch functions compute the target from a verified source and patch, or
  fail (`CommandFails`).
* `PowerLoss` leaves each unsynced block old, new or torn. The code's own view
  of `/cache` is taken: a file it has fsynced together with its directory
  survives. The unlinks, which are not followed by a sync, are taken to
  survive as well (a hazard without a property yet).
* A run of the script that does not reach this partition is not modelled.

`ListAssumption` gives the constants their types. `CreatorAssumption` is what
the comment above `BlockImageVerifyFn` asks of the creator of a list: no
block is written twice or read after it has been written (except by the hash
tree, which is computed over what was written).

### NewDataReceiver

The main thread publishes a `RangeSinkWriter` in `NewThreadInfo` and waits
until it is gone; the receiver, called back by the zip library with pieces of
the stream, waits for a writer, fills it without holding the lock and takes it
away. Every stretch of code between a lock and the next unlock or wait is one
action. `brotli` chooses between `receive_new_data` and
`receive_brotli_new_data`; the decoder may take several pieces before it has
output, and may have output for several writers in one piece.
`SpuriousWakeup` is what POSIX allows `pthread_cond_wait` to do. Data are
counted in units and the constant `Errors` lets either side fail anywhere.

`NewDataStream` is what it promises: one stream, commands served in turn and in
full, success only when all are served, an outcome in the end. It is what the
variable `consumed` of `BlockImageUpdate` stands on. `ServesTheStream` is the
refinement: `pos` is what has been taken, `got` what was given, `k - 1` the
commands served.

### PatchPartition

A script that checks and then patches several partitions, run again from its
beginning after every failure; or, with `Tool`, the applypatch program run for
each job (`--patch` from another partition, `--flash` from a file), which neither
checks nor makes a backup. `disk`, `durable` and `dirty` are as in
`BlockImageUpdate`; `saved` is the backup (whose, and how much of it),
`files` what else is left in `/cache`. `job` is the call the script is at. Two history variables record what goes wrong:
`risked` the calls that truncate the backup when it is the only copy of their own source, until it is whole again, and
`misled` the calls whose early exit found a target that only the page cache held.

| Action | Code |
|---|---|
| `Begin`, `ApplyPatchSpace`, `PatchPartitionCheck`, `ChecksDone`, `ScriptDone` | the script and its functions in `updater/install.cpp` |
| `AlreadyPatched`, `PatchFromSource`, `FlashPartition`, `NoMatch` | `PatchPartition`, `FlashPartition`, with `ReadPartitionToBuffer`'s choice between device and backup |
| `EnoughSpace`, `RemoveFile`, `NextDirectory` | `CheckAndFreeSpaceOnCache`, `RemoveFilesInDirectory`, `FindExpendableFiles` |
| `TruncateBackup`, `WriteBackup`, `BackupSaved`, `ApplyPatch`, `UnlinkBackup` | `GenerateTarget` with `SaveFileContents` |
| `WriteChunk`, `WriteDone`, `Fsync`, `VerifySucceeds`, `VerifyFails` | `WriteBufferToPartition`, both attempts |
| `StepFails`, `Kill`, `PowerLoss` | I/O errors; external: death of the process or the device. `Fsync` also lets the flash take chunks badly, which the read-back is there for |

What is abstracted:

* A chunk is what the source hash asks for, what the target hash asks for, or
  something else. For `--flash`, "source" stands for the file that has the target's
  hash. The patch in memory gives the target or fails (`StepFails`).
* The backup is written with `O_SYNC` and taken to be durable, and its unlink
  to survive a power loss. A failing unlink is left out.
* A read error of a partition aborts the call, although the code would first
  try the backup.
* `sync()` flushes every device, dropping the caches makes reads see the flash.
* `WriteBufferToPartition` is damaged by a merge (`applypatch.cpp`, lines 192 to
  194). The read-back is taken to compare the whole partition from its
  beginning, as the loop around these lines does.
* The files in `/cache` are of one unit each; those of each directory have an
  order, which is the one they are deleted in.

`ScriptAssumption`: no partition is patched twice or is the source of another
call once patched, and the tool reads one partition and writes another.

### Uncrypt and BootCommand

`Uncrypt` is uncrypt's `ProductBlockMap` and the reader of its result in
`otautil/sysutil.cpp`. `raw` and `dir` are device and `/cache` as the system sees
them, `rawDisk` and `dirDisk` what a power loss leaves; `u` holds the locals,
the ring of buffers with `head` and `tail` among them. `MapBlockFile` is the mapping of the ranges one after the
other: `next[k]` is where range k goes, and the last one has to end with the file. `BootCommand` extends it with
the control block, the boot loader, the start of the recovery and its scripts.

| Action | Code |
|---|---|
| `Download` | external: Android stores a package in some layout of blocks, encrypted or not |
| `StartUncrypt`, `RemoveMap`, `WriteHeader`, `ReadBlock`, `DrainWindow`, `WriteRanges`, `FsyncMap`, `FsyncBlocks`, `RenameMap`, `SyncDir`, `UncryptFails` | `uncrypt_wrapper` and `ProductBlockMap`, call by call |
| `setup_bcb`, `clear_bcb`, `RequestFastboot`, `RequestScript`, `RebootToRecovery`, `BootLoader` | uncrypt's functions of that name; external: the other ways into the recovery |
| `get_args`, `processRecoveryArgs`, `Clear_Bootloader_Message`, `FastbootPage`, `Decrypt_Page`, `process_recovery_mode` | `main` of `twrp.cpp` up to the scripts |
| `RunTmpScript`, `CopyScriptFile`, `UnlinkScriptFile`, `RunLine`, `EndScript`, `FinishScripts` | `Run_OpenRecoveryScript_Action`, `check_for_script_file`, `run_script_file` |
| `HomeReboot`, `Run_CLI_Command` | the main page |
| `Crash`, `PowerLoss` | external: init starts the recovery again, with `/tmp` kept; or everything restarts |

What is abstracted:

* A block holds a numbered block of a package, in clear or encrypted, or
  garbage, which is what reading a block in clear through the decryption gives. A map file is
  its lines; writing over another map may leave the end of its text, as without `O_TRUNC` (`LeftBehind`: which of the two texts is longer is left open, since
  it does not follow from the numbers of lines).
* A file that was not synced holds any prefix of its lines after a power loss; the journal
  keeps operations on the directory in order.
* A command of a script succeeds or fails as it likes; an installation also
  needs a map that parses. The `reboot` command of a script is left out, and so is a
  failure to insert a line into the script in `/tmp`.

### CliCommand

The `twrp` tools, the GUI thread and the action threads. Every file created under
one of the two names is a generation; a process holds the generation it opened. `orsout` is the
stream pointer of that name: NULL, opening, open, or closed and not reset.

`setup_ors_command` has no lock and is called by either thread, so each of its system calls is a step of its own: `at[p]` is the next one
that thread p has to make, and `Following` their order. `mkfifo` fails where the name is taken and `open` where it is gone, which happens
only when the other thread is between its calls (`collided`), and both may fail by themselves (`Fails`); each failing branch is
the one of the code. The descriptor that `ors_read_fd` loses when it is overwritten stays open (`leaked`), and between `close` and the
assignment the variable holds a closed one (`stale`), which `gui_startPage` takes for a listener. Where `fopen` finds no file it creates a regular one (`plain`),
which no tool and no writer waits for.

| Action | Code |
|---|---|
| `gui_startPage`, `RunPages`, `PageDone`, `EndPage` | `gui_startPage` and the loop of `runPages` |
| `ReadCommand`, `Fopen`, `FopenFails`, `RejectBusy`, `RunBuiltin`, `StartCommand`, `GuiBack` | `ors_command_read`, with the wait in `fopen` |
| `CommandDone`, `RestartListener` | `ors_command_done`, by either thread |
| `CloseListener`, `ResetListener`, `UnlinkIn`, `MkfifoIn`, `UnlinkOut`, `MkfifoOut`, `OpenListener` | the calls of `setup_ors_command` and of its failing branches, and the closing in `runPages`, `gui_startPage` and `ors_command_read` |
| `StartAction`, `operation_start`, `Run_CLI_Command`, `operation_end`, `ThreadExit` | `GUIAction` and `ActionThread` |
| `OpenIn`, `Write`, `OpenOut`, `ReadAll` | `main` of `orscmd.cpp` |

`alone` remembers that no two tools overlapped. `cancel_thread` and what a
command prints are left out, and so are `set_select_fd`, the use of a descriptor's number for another file after it was closed,
action lists that the caller's thread runs itself, and a failure of `Insert_ORS_Command` (`openrecoveryscript.cpp:786`), after which the action ends
without the command: `executed` counts that as run.

### AdbBackup and AdbRestore

Two models of the two directions. In `AdbBackup` the stream is bytes, since
alignment is what it is about: reads may be short, `R` bytes are a
structure and `M` a chunk. TWRP's side is `WriteStreamHeader`,
`WriteFileHeader`, `OpenData`, `WriteData`, `CloseData`, `WriteTWEOF`, `Release`,
`WriteStreamTrailer`, `BackupFails`; bu's is the polling loop of `twrpback::backup`,
one action for each read of a FIFO and what follows from it. The operator `Restore`
takes a stream apart as `twrpback::restore` does, so that `BackupRestorable` compares what went in
with what would come out: `RestoreRun` is the state after each block, a recursive function from `RestoreStart`
by `RestoreBlock`. `mishap` records that bu read data before its header, be it in its loop or while draining the file before
("early"), dropped data it had read while draining ("lost"), or wrote past the end of a chunk there ("overrun").

In `AdbRestore` the unit is a block of 512 bytes and the stream is well formed: `adb` is its next block, `left` the
data blocks that follow it in its chunk, and `BlockAfter` says what comes next. The model is about three FIFOs,
of which the data FIFO is opened and closed for each file and loses its content
when the last end is closed (`Kept`), about `SIGPIPE` turned into an error, and about who waits for whom.
`tweofrcvd`, which the code does not initialise, starts with either value.
`overtaken` records that bu sent a file while TWRP was busy with another.

Options, formats of names and the digests' computation are left out; a digest is
the sequence, or the number, of the bytes it covers.

### The modules named `...Proofs`

`BlockImageUpdateProofs`, `PatchPartitionProofs`, `NewDataReceiverProofs`, `CliCommandProofs`, `BootCommandProofs` (with
`Uncrypt`, which `BootCommand` extends), `AdbBackupProofs`, `AdbBackupRestorableProofs` (which extends it) and `AdbRestoreProofs` hold the theorems of section 5. The modules named `MC...` only define lists,
images and sizes for the configurations.

## 3. Runs

| Run | Instance | Question |
|---|---|---|
| `interrupted` | 9 commands of every kind on 8 ranges, two of them with overlapping source and target; 2 faults among death, I/O error, abort line | Do success and the saved index tell the truth, does the update stay resumable, does a verification leave things alone, does the update finish in the end? |
| `power_loss` | 7 commands, none overwriting its own source; the ranges they read hold source, target or garbage in any combination; 2 faults among power loss, death and I/O error | Does a successful verification really mean that the update, interrupted or not, can be completed? |
| `new_data` | 3 commands needing 1, 3 and 1 units, 6 units in pieces of up to 3, plain or brotli with up to 2 pieces that decode to nothing, failures | Ownership of the writer; do both receivers implement the abstract stream? |
| `patch_script` | 2 partitions of 3 chunks patched in place, a `/cache` with 6 files that has to be cleaned, maybe part of an old backup or a larger one; 3 faults of any kind | Can source or target always be had, does the patch succeed in the end? Do calls that succeed write their target, is it on the flash after success, is what the check accepted still patchable later, is a patched partition left alone, what is deleted from `/cache`? |
| `applypatch_tool` | a `--patch` and a `--flash`; 3 faults of any kind | Are the targets on the flash when all runs have returned 0? |
| `adb_backup` | 3 files: compressed ones that end within a structure, an image of more than a chunk, a last file that may be drained with the image; reads of up to 2 bytes, chunks of 6, FIFO of 4 | Can every finished backup be restored, is its format right, do bu and TWRP end? |
| `adb_restore` | 3 partitions of 1, 7 and 3 blocks in chunks of a header and 3 blocks, FIFO of 2 blocks, TWRP may fail | Is a restored partition intact, do digests match, do both ends come to an end? |
| `boot_command` | 2 packages in layouts with two fragments and with one, window of 2, 1 request, 3 faults among failures, crashes and power losses | Does an installation read its package, is a map complete, is a request run at most once and not lost, does the recovery come to rest? |
| `cli_commands` | 2 tools, 1 user action with one or two operations, 3 pages of which the second takes no commands, 1 failing `mkfifo`, `open` or `fopen` | One action at a time, answers go where they belong, a tool that ends well was served, the listener is restarted rightly |
| `cli_answers` | the same without user action and failure | Is a started command answered? |
| `interrupted_twice`, `cli_busy` | see the findings | Statements of the code that do not hold |

Bounds. `MaxFaults` limits the faults of one behaviour; attempts are not
limited, and verifications, fresh runs and retries come in any order. Two
faults are needed to interrupt the resumption of an interrupted update, which
is where the first finding is. The lists are the shortest that contain
every command, a stash used by a later command, a `new` on either side of an
overlapping copy and a hash tree over written blocks; two ranges for one
command let it be interrupted half-way. For the receiver, a command larger
than a piece, a piece larger than a command, and a stream longer than the
commands need all occur; a stream that ends early comes from `Errors`.
For most safety properties the bounds do not matter:
section 5 proves them without any.

For applypatch, two faults are needed to reach the rewriting of a backup that was just read (below), and a third
one to interrupt what follows. `Capacity` and `ImageSize` of `patch_script`
leave room for two backups once `/cache` has been cleaned, and not without
cleaning it; with less, a resumed patch finds none (see below). Three faults let both attempts of a write
fail and the run after it be interrupted.

For adb, a file shorter than a structure, one that fills it and one that needs a second
chunk are the cases the chunk arithmetic distinguishes; the third file shows what a counter
left by the second does. For the boot, `WINDOW_SIZE` 2 makes the ring wrap on a package of three blocks;
two packages let the second map be written over the first one's; three faults allow a failed attempt
of uncrypt, a crash and a power loss in one behaviour. For the command line, two tools let one overlap the other, and the
pages let the listener be restarted by both threads at once. One user action is enough to be refused or to refuse.
`cli_answers` has none, to keep its time down; the property was found to hold with one as well, and 1.3 million states.

Fairness. `FairSpec` of the update has weak fairness on the steps of a running
attempt, since the process runs until it returns or dies, and strong fairness
on starting an update, since recovery reboots into the same package until it
succeeds or the retry limit is reached, and the user can start it again;
strong because an endless series of verifications in between is allowed by
the model but is not what a script does. The faults have no fairness, and
their number is bounded, without which nothing could be promised. In the receiver, each of
the two threads has weak fairness: the scheduler lets a thread that can run
run. Neither errors nor spurious wake-ups are assumed to happen. In `PatchPartition` a
running script has weak fairness, and so has running it again as long as it has not succeeded:
recovery, or the user, runs the package again. In the adb models both processes have weak
fairness: bu polls in a loop, TWRP runs its backup or restore to the end. In `CliCommand` the GUI thread,
every action thread and a tool that has opened its FIFO have it; that the user does anything, that a
tool is started or that a page ends is not assumed. In `BootCommand` only
the boot loader and the running recovery have it (`RecoveryStep`): Android and the user need not act.

## 4. Properties

* `SuccessMeansTarget`: an update that returns "t" has put every target block
  on the flash, whether it executed the commands, skipped them or trusted the
  marker.
* `SavedIndexSound`: whatever a later attempt may skip because of the saved index is on
  the flash.
* `MarkerSound`: the same for a partition skipped because of its marker (proved; a retry that
  trusts the marker makes it a part of `SuccessMeansTarget` for TLC).
* `Resumable`, `VerifiedMeansResumable`: no attempt ever finds that neither
  the source nor the target of a command can be had, starting from the
  intended source image, or from any image a verification has accepted.
* `VerifyReadOnly`: a verification writes no block and deletes no stash of an
  interrupted update before it has found the update unresumable.
* `EventuallyUpdated`: finitely many interruptions do not prevent success.
* `ReceiverOwnsWriter`, `NewDataInOrder`: the hand-over of the writer and the order of the
  stream.
* `ServesTheStream`: the two threads implement `NewDataStream`; its fairness makes
  this include that no wake-up is lost and both threads end.

For `PatchPartition`:

* `PatchedMeansWritten`: a call that returns true has written its target and
  read it back, and the calls after it do not change that.
* `PatchedMeansTarget`: after success the targets are on the flash, except one
  whose early exit found it in the page cache only (`misled`, see the observations).
* `Resumable`: source, target or backup is complete, at every moment and as a power loss would leave it, with two
  exceptions (see the observations): a call that truncates the backup it has read its own source from (`risked`), and a call at
  or after one that was `misled`, whose backup another call may have truncated.
* `CheckedMeansPatchable`: what the check accepted can be patched when its turn
  comes, although other partitions used the backup file meanwhile and attempts were cut off; excepted are scripts
  in which a call before it was `misled`, in this attempt or an earlier one.
* `PatchedStays`: what is patched and synced is never at risk again.
* `NewestLogsLast`: the order in which `/cache` is cleaned.
* `EventuallyPatched`: finitely many faults do not prevent success, unless one of them came while a call was writing again the backup
  it had read, or a call was `misled`; there is room for the backup, on resumption too.

For the adb models:

* `BackupRestorable`: what bu calls a finished backup comes out whole of a
  restore, unless one of the three mishaps happened. `StreamFormat`: headers and
  trailers alternate as `twadbstream.h` says, mishaps or not.
* `BothEnd`: TWRP always ends, and bu does once TWRP has sent `TWENDADB` or `TWERROR`. Of a backup that fails on its way bu is not told, and may poll on.
* `RestoredIntact`: a partition taken for restored has its own blocks and no others;
  `DigestsMatch`: a good stream passes the digest check although TWRP leaves the padding unread. Both except runs in
  which bu overtook TWRP.
* `RestoreEnds`: success ends both processes, and failure ends bu, except where it waits in `open`
  for a reader that will not come.

For `Uncrypt` and `BootCommand`:

* `InstallReadsThePackage`: from the moment the request is in the control block until the installation,
  reading through the map gives the package. `MapCompleteOrAbsent`: under its
  final name the map is whole or missing.
* `AtMostOnce`: without crashes the options of a request are run in order and at most once; a script in `/cache` as well, without power loss.
* `NotLost`: a request is run, unless power or `/misc` fails or `/data` stays locked; a crash alone does not lose it.
* `RecoveryEnds`: no endless loop of boots and scripts.

For `CliCommand`: `OneActionAtATime`, `AnswerOfRunningCommand` (the open stream is that
of the running command), `ExitMeansHandled` (a tool that ran alone and ends with success was served once or told so),
`ListensToTheName` (a recovery at rest on a page that takes commands listens to the FIFO that the name denotes), `StartedIsAnswered` (a tool that ran alone and whose command was
started reads the end of its answer). All hold with the two threads' calls in any order, with these exceptions, each for something that does go wrong (see the observations):
`ListensToTheName` for runs with a failure of its own and for what follows a collision of the two threads (`collided`), until one of them sets up the listener while the other is not
at work on it; `ExitMeansHandled` for a tool that opened a regular file, and `StartedIsAnswered` for an answer written to one (`plain`).

### Findings

1. `interrupted_twice`. `new` commands below the saved index run again on
   resumption, and the index each of them saves is its own. Interrupted there,
   the next attempt starts from a smaller index and repeats a `free` whose
   stash id has been used again since. The list is the one of the
   repository's test, which interrupts it only once. No block of the device is
   damaged, but the update cannot be completed.
2. `cli_busy`. The listener polls only while `orsout` is NULL. When a command is rejected because
   an operation is in progress, the stream is closed and the pointer kept; when the action thread of a user's action exists
   but has not set `tw_busy` yet, the command is accepted, refused by `threadActions`, and its
   stream stays open. Either way no further command is read on this or a later page, and in the second case the tool hangs.

### Observations without a run

Met while modelling; each can be had from the models by the change named.

Block image update:

* For a command whose source and target overlap the stash of the source is
  deleted when the writes return, before the `fsync`. A power loss between the
  two can leave the blocks torn and the stash gone (`interrupted.cfg` with "power"
  among the fault kinds and `VerifiedMeansResumable`). Lists without overlap do not have
  the problem (`power_loss`), and the death of the process alone does not cause it (`interrupted`).
* Nothing ties the saved index to a package (`StaleLastCmd`). A verification of copying
  commands notices and deletes a stale index; a list without any
  does not, so its `zero` and `erase` commands are skipped.
* A stash is taken for done by its blocks' content. If a block that was stashed is overwritten with the very content it had (the model's
  example: `stash` of block 1, a `zero` that writes the same content there, a `diff` that uses the stash), and the first attempt found
  the block damaged, so that it made no stash, and died after the `zero`, then a verification finds the block intact and accepts. The update that
  follows skips the `stash` command, which lies before the saved index, and has no source for the `diff` (`VerifiedMeansResumable` for
  such a list). Nothing in the code rules such a list out.

applypatch:

* A patch that resumes from the backup writes the backup
  again, and truncates it first. Interrupted there, with the partition half
  written, neither source nor target is left (`Resumable` without `risked`, with two faults).
* The early exit reads the target through the page cache. If
  the process died between its last write and its fsync, the next attempt
  in the same boot reports success for data that a power loss still takes away (`PatchedMeansTarget` without `misled`). With
  two partitions the script goes on to the second, whose call truncates the backup of the first: a power loss then takes both
  copies of the first (`Resumable` without `misled`). It also happens the other way round: in the
  attempt in which the first reports success from the page cache the power is lost while the second partition is half written, which
  undoes the target of the first as a whole; the next attempt patches it again and truncates the second's backup (`Resumable` with
  `j \in misled` instead of `i <= j`).
  `PatchResumable` proves that these and the rewriting above are the only ways to lose both.

adb:

* The loop that drains a file after `TWEOF` is `while ((bytes = read(...) != 0))`: `bytes` is 0 or 1, a
  failed read counts as one byte, and of every piece read only the first byte is written to the stream. Compressed data
  that is still in the FIFO when `TWEOF` is seen is lost (`BackupRestorable` without `mishap`).
* The same loop does not stop at the end of the file. Where TWRP has gone on to the next one and its data is in the FIFO,
  the first bytes of that file are written to the stream, and digested, as part of the file before.
* Data is read whatever the last command was, so that the first data of a file can be
  written before its header.
* `tweofrcvd` is not initialised, and is reset only where a trailer looks at it: bu may send
  the next file while TWRP is reading the previous one, whose reader then takes its blocks (`RestoredIntact` without `overtaken`).
  It takes no odd initial value: a `TWEOF` that arrives after its trailer stays set for the next file, at whose trailer bu then does not wait.
  Once it has overtaken TWRP, bu also loses its place in the chunks: `TWDATA` headers are written as data, and the digest of a good
  stream does not match.
* A restore that fails while bu waits in `open` for a reader leaves bu there for ever.

Command line:

* Between `orsout = NULL` and the new FIFOs the GUI thread may still read the old one:
  the second of two tools run in a row can be left without an answer, or have written to a FIFO that is about to go. Two tools at once
  can get each other's output. A tool that waits in `open` on a FIFO that is then unlinked hangs.
* The GUI thread itself blocks in `fopen` of `orsout` until a tool opens the other end; where the action thread unlinks that FIFO before a tool has opened it, for ever.
* A page that ends or starts while the action thread is in `ors_command_done` has both threads in `setup_ors_command`. The second `mkfifo` of a name
  then fails: a thread that finds `orsin` there returns without a listener, one that finds `orsout` there unlinks `orsin`, and an `open` that finds `orsin` gone unlinks both.
  The page takes commands, and until the next page nothing listens (`ListensToTheName` without `collided`).
* An `fopen` of the GUI thread between the action thread's `unlink` and `mkfifo` of `orsout` makes a regular file. The `mkfifo` then fails, and again there
  is no listener; and the tool does not wait for the end of the answer, but exits with 0 at what is the end of the file by then (`ExitMeansHandled` without `plain`).
* An action thread that outlives its page sets up a listener on a page that does not allow commands.

Boot:

* `get_args.cpp` says (lines 56 to 58) that recovery will "always boot into recovery to finish the pending work", until
  `finish_recovery()` is called. `twrp.cpp` clears the control block at line 515, before the work; a power loss in the middle of an installation boots into Android.
* A crash between inserting the lines and clearing the control block runs them twice, a crash in the middle of a script runs it again from its beginning, and one after the clearing
  forgets `SkipDecryption` and fastboot mode.
* Lines that are pending because `/data` stayed locked are run by whatever command the `twrp` tool sends next.
* The removal of the script in `/cache` is not synced: after a power loss it may run again.
* A failed installation followed by a script that succeeds reboots as if all was well.
* `block.map.tmp` is opened without `O_TRUNC`: a map with a shorter text than the one of an interrupted run keeps the tail of that, with fewer ranges or as many, and does not parse, although
  uncrypt reports 100 (`staleTail`).
* uncrypt run again after a reboot over blocks it has already decrypted writes garbage (`reread`).

A resumed patch of applypatch asks for room for a second backup, although it will overwrite the first, which may
not be deleted: with `Capacity = 3` and `ImageSize = 2` one death makes `EventuallyPatched`
fail. And the comment in `applypatch.h` says that space is freed "by removing
older logs", while files of `/cache` that are not logs are deleted before any
log, a package that is mapped but not open among them.

## 5. Proofs

### Block image update

`BlockImageUpdateProofs`, for every transfer list that satisfies the two
assumptions, every initial image, every set of fault kinds (power loss
included) and every bound on their number.

* `TypeCorrect`: `Spec => []TypeOK`.
* `SavedIndexIsSound`: `Spec => []SavedIndexSound`, and `UpdateSound`: `Spec => [](MarkerSound /\ SuccessMeansTarget)`, if no other
  package left an index behind (`StaleLastCmd = {}`, the hypothesis that a stale index shows to be needed, see the observations).

The three properties are not inductive by themselves. `Inv` adds what
holds in the middle of an attempt:

* `ControlInv`: where the attempt can be, given mode and position.
* `ExecutedInv`: during an update, the commands before the current one that
  write blocks are settled, i.e. their target is in the cache, on the flash
  and not dirty. For the current command: written once its performer
  returned, settled once synced.
* `SavedInv`: the index read at the start only promises settled commands, and
  still does so although `last_command` itself may move backwards (finding 1 loses
  stashes, never written blocks).
* `IndexInv`, `StreamInv`: the saved index is at most the last one executed,
  and `consumed` is exactly the set of `new` commands passed, so that new
  data lands where it belongs.
* `CommandInv`: while a command writes, the part of its target that is no
  longer to do holds the new content.

The heart is `SettledStable`: a settled command stays settled over every
step, because `CreatorAssumption` makes targets disjoint (`TargetsDisjoint`)
and because a settled block is not dirty, so that neither a torn write nor a power loss
touches it. `InvInductive` goes through the actions one by one.
`Inv` was model-checked on the instances above before it was proved.

* `VerificationReadOnly`: `Spec => VerifyReadOnly`, without the hypothesis about the saved index. Its invariant `ReadOnlyInv`
  says that only an update gets to the steps that write or delete, and that a stash directory which the verification has just made
  is empty, so that removing it takes nothing from an interrupted update.
* `UpdateResumable`: `Spec => []Resumable`, for a partition that starts out as the source image, after any number of faults.

The hypotheses of `UpdateResumable`, which TLC evaluates to true on the lists of `interrupted` and `power_loss` started
from their source images, are those that the findings and observations show to be needed. `StashesInOrder`: what a command uses was stashed
before it and not freed before it; finding 1 is what happens to a list that stashes an id again after its `free`. `PowerSafe`: where power may be lost, no command overlaps its own
source, because its stash is deleted before the partition is synced. `SourceImages`: the sources of all commands are there at first. The invariant is `Recoverable`: every command that copies
is done, or its source is intact together with its stashes, each of which is on `/cache` or will be made by a `stash` command that no later attempt
skips (`Pending`) and whose blocks nothing has overwritten; or its overlapping source is on `/cache` as a whole. "Intact" includes the flash where power may
be lost. `CopyInv` is the same for the command that is executing, `MapInv` for the map of stashes of a verification, which deletes and writes nothing and finds
the blocks of a missing stash in place instead. The crux is the order of the list's overwrites: `CreatorAssumption` lets a command overwrite only what no later command
reads but from a stash, and a stash is passed by the saved index only once it is on `/cache`.

* `VerifiedIsResumable`: `Spec => []VerifiedMeansResumable`, for a partition that starts with any contents.

It has the hypotheses of `UpdateResumable` without `SourceImages`, and two more. `StashedBlocksChange`: a block that is stashed is overwritten only with
something else; the observation in section 4 is what happens otherwise. `OwnIds`: the stash that an overlapping command makes of its source
shares its name with no `stash` command and no other such stash. Names are hashes of contents, so this is about contents too; the argument needs it, and
TLC found no violation on small lists without it. Both are true on the lists of `interrupted` and `power_loss`.
The argument is that a partition is recoverable for ever or doomed for ever. `Doomed(k)`: the target of command k is not there, and neither is its source: a block that
it reads is wrong in cache and on flash (`Wrong`), or a stash that it uses is neither on `/cache` nor to be had from
the blocks of any `stash` command before it (`Lost`). No step undoes this, since nothing gets past command k and what comes before it writes none of these blocks with the content they should have;
a verification of a doomed partition fails at command k at the latest, if it still believes in it, so that `verified` means `Recoverable`, and from
there on `UpdateResumable`'s steps apply. `StashMapInv` says which `stash` command an entry of the map of stashes stands for, so that the blocks a verification
finds in place of a stash are the ones a later update would stash. `VerifiedInv` was model-checked first, on `power_loss` and on the list of
`interrupted` with arbitrary blocks; that is how the need for `StashedBlocksChange` was found.

### applypatch

`PatchPartitionProofs`, for every script that satisfies the assumptions, any
number of chunks, any `/cache` and any number of faults of all kinds.

* `PatchTypeCorrect`: `Spec => []TypeOK`.
* `PatchWritten`: `Spec => []PatchedMeansWritten`.
* `PatchedIsSafe`: `Spec => PatchedStays`.
* `PatchResumable`: `Spec => []Resumable`.
* `SuccessIsDurable`: `Spec => []PatchedMeansTarget`.
* `CheckIsEnough`: `Spec => []CheckedMeansPatchable`.
* `LogsGoLast`: `Spec => []NewestLogsLast`.

`PatchInv`, for the first three, is `TypeOK` and three parts. `InCall`: from the choice of the source
on, `job` is a job, so that there is a target to write.
`WrittenInv`: the targets of the calls before the current one are written,
not only between two calls but all through them, because `ScriptAssumption`
makes targets distinct; and the current one's when only the backup remains to be removed.
`DirtyInv`: page cache and flash differ only in dirty chunks; a dirty chunk
holds the target's content and belongs to a device that is not all target on the flash; and a call
past its early exit works on such a device. The last part is what
`PatchedStays` needs: whatever can still be torn or written badly is on a
device that was not yet patched. It holds on the second attempt of a write too, because
there the read-back saw the flash.

The other theorems add to it what they need. `ResumeInv`: from the end of the backup to its unlinking the backup file
is the one of the running call and complete (`SavedInv`), so that a step which disturbs the partition finds the backup there,
the calls before the current one are settled or were misled (`SettledInv`), and a source is touched only when all the calls before
are (`OrderInv`). So a call that truncates the backup of an earlier call finds that one's target on the flash, and one that truncates
the backup of a later call finds that one's source there, unless a call was misled.
`DoneInv` takes `SettledInv` to the end of the script.
`ScriptInv`: what the check has found of the calls to come is still there (`CheckInv`), by the same argument. `RemovalInv`: the log directory is reached when nothing is left to delete in the other one.

### New data

`NewDataReceiverProofs`, for every list of `new` commands, stream, size of pieces and either kind of
compression, with spurious wake-ups and failures.

* `ReceiverTypeCorrect`, `WriterOwned`, `DataInOrder`: `Spec => []TypeOK`,
  `Spec => []ReceiverOwnsWriter`, `Spec => []NewDataInOrder`.
* `ImplementsStream`: `Spec => Stream!SInit /\ [][Stream!SNext]_(Stream!svars)`, the refinement without its fairness.

`Inv` adds three parts. `Hand` is the protocol: between two commands
the writer is null, during the wait it is null or the waiting command's, and
`receiver_available` is taken back only by a thread that has ended or by the main thread when it no longer has a writer
out, or only one that the receiver has already left behind. This is what makes `WriterOwned` inductive: when the receiver finds a writer,
the main thread must be waiting for it. `Piece`: the piece in hand is what comes next and does not exceed the stream.
`Progress`: the current command has nothing before its writer is published and everything once it is gone, so that
going on to the next command means that this one is served. `WriteFits`, about one write, serves both the invariant and
the refinement.

### The command line

`CliCommandProofs`, for any number of tools, user actions, pages and failures of `mkfifo`, `open` and `fopen`, and every interleaving of the threads' calls.

* `CliTypeCorrect`, `OneActionHasTheThread`, `AnswerIsOfItsCommand`, `ListenerHasTheNames`, `ExitCodeIsTrue`:
  `Spec => []P` for `TypeOK`, `OneActionAtATime`, `AnswerOfRunningCommand`, `ListensToTheName`, `ExitMeansHandled`.

`CliInv` has a part for each. `OneInv`: an active action means that `m_thread_running` is set, which is what a new one checks.
`AnswerInv`: the GUI thread holds a command only while `orsout` is NULL or opened by itself, and then no command is running.
`ListenInv` is about runs without failure or collision: no thread is undoing a set-up, and either some thread is ahead of opening the listener (`Ahead`: in `setup_ors_command`), or
the listener is open on the generation that `orsin` denotes, or the page takes no commands or is over. Where the last thread in `setup_ors_command` opens the
listener, the name is the one it finds. For this `AtInv` says which calls a thread can be at where, and that a stale descriptor is about to be reset.
`OnceInv`: the command of a tool is in exactly one place (not sent, once in one queue, held by the GUI thread, started, or over), and every
step moves it forward. `AloneInv`: while no two tools overlap, the open answer, unless it is a regular file, is read by the tool it was opened for, so that end of file means that
its command is over. `PlainInv`: no tool waits at a regular file.

### Boot command and uncrypt

`BootCommandProofs`, for all layouts of packages, every `WINDOW_SIZE` above 1, any number of requests and of faults.

* `BootTypeCorrect`: `Spec => []TypeOK`; the bounds of the ring are in it.
* `CommandsRunOnce`: `Spec => []AtMostOnce`.
* `MapIsComplete`: `Spec => []MapCompleteOrAbsent`.
* `InstallFindsThePackage`: `Spec => []InstallReadsThePackage`.

`WindowType` ties the ring to the position: what lies between `head` and `tail`, modulo the window, is `pos - head_block`.
`OptionsInv`: the options are in the control block, on their way into the script, next in it, or have been run, in the order
asked for. `ScriptInv` is the same for the script in `/cache`.
For the package: `RangeInv`, the ranges list the first `head_block` blocks in order (with the place where each range
begins as the witness, which is what the reader's `next` will be); `DirInv` and `MapInv`, nothing has the map's final name before
it is whole and synced; `DataInv`, block i is in clear in its slot of the ring while it is in the window and on the device once it has left it, unless a block was decrypted twice
(`reread`); `InstallInv`, from uncrypt's "100" on map and blocks are complete on the device, not only in the cache.

### adb backup

`AdbBackupProofs`, for any number and sizes of files, every size of structures, chunks (of at least two structures) and FIFOs, with a backup that fails or not.

* `BackupTypeCorrect`: `Spec => []TypeOK`, with the bound on bu's counter of the bytes of a chunk.
* `StreamHasTheFormat`: `Spec => []StreamFormat`.

`ChunkInv` is what makes the bound inductive: before a read a chunk has room for a whole structure, and a header is written
only into an empty one. For the format, `QueueInv` says that the commands in the FIFO are the next ones of the backup, where the number of commands taken is the
number of structures in the stream (and one more during the loop after `TWEOF`), and the number sent follows from where TWRP is; only a refused backup
has another command, and no other. `OneMark` and `NoMark` say what a structure and data do to the structures in a stream.

* `BackupIsRestorable` (`AdbBackupRestorableProofs`): `Spec => []BackupRestorable`.

What `restore()` makes of a stream is a recursive function of its blocks. That it is defined by its recursion (`RunDefined`) and that a longer stream has the same
run up to the blocks it shares are proved by induction, which is stated for sets of numbers (`Least`, from `WFMin` and `NatLessThanWellFounded`) since
the provers cannot instantiate the library's rule for predicates. From there on everything is about one block or one byte more.
The invariant `RestorableInv` holds as long as no mishap has happened and TWRP has not failed. `StepInv` is its heart: a restore of the stream written so far is `InStep` with bu, i.e. at the
same file, as far into the chunk as bu's counter says but for the bytes that do not fill a block, having digested what bu digested but for these, and
with every file before it whole (`OtherFiles`). `FifoInv`: the data FIFO holds in order what lies between the last byte bu has read
(`ReadFile`) and the last TWRP has written (`WrittenFile`). `ProgressInv` and `PhaseInv` tie the two processes' places to each other, so that bu handles the `TWEOF` of a file only when TWRP has written
all of it; with no byte dropped or overrun, `FileComplete` then gives the whole file before its trailer, and the
padding brings the stream to the end of a block, so that the trailer is a block of its own. `RestorableInv` was
model-checked on six instances of sizes of files, structures, chunks and FIFO. Planning the proof showed that
the model had not recorded the "early" data of the loop after `TWEOF`, an exception the theorem needs.

### adb restore

`AdbRestoreProofs`, for any number and sizes of partitions, chunks of at least two blocks, every FIFO, with TWRP failing or not.

* `RestoreTypeCorrect`, `RestoreIsIntact`, `DigestIsOfTheStream`: `Spec => []P` for `TypeOK`, `RestoredIntact`, `DigestsMatch`.

`EofInv` counts: bu has not heard of more partitions than TWRP has finished. `QueueInv`: headers are on their way in order. Both hold always; the rest of
`RestoreInv` as long as bu has not overtaken TWRP. `StepInv`: both are at the same partition, or bu is one header ahead and waits in `open`.
`DataInv`: the FIFO continues where the partition read so far ends. `ChunkInv`: bu is in step with the chunks of the stream, or has lost its reader and
writes no more, which is why no chunk header gets into a partition. `DigestInv`: every data block read has been digested exactly once, whether
it was written, refused or left unread. `TrailerInv`: bu's digest follows the trailer's and is equal to it.

### What is only model-checked

Every invariant that a run checks is also the subject of a theorem. What remains with TLC are the liveness properties, which need fairness and `ENABLED` and are outside of
what the prover handles; that no wake-up is lost in `NewDataReceiver` is one of them, and the fairness of `ServesTheStream` with it.
Hypotheses of theorems (`StashesInOrder`, `PowerSafe`, `SourceImages`, `OwnIds`, `StashedBlocksChange`, `StaleLastCmd = {}`) are about the list and the first attempt; TLC evaluated them on the runs' lists,
outside of the configurations.

## 6. Plan

1. Done: the block image update, its receiver thread with the abstract stream it
   implements, applypatch, uncrypt and the boot command, the command line with the action thread, adb backup and restore.
2. `OtaSession`: a script over several partitions, with the one `last_command`
   file and the markers they share and the marker of the dynamic partition
   metadata. Each partition is reduced to what
   `BlockImageUpdate` is shown to guarantee; the reduction stated as an abstract
   specification that `BlockImageUpdate` implements.
3. `Sideload`: `fuse_sideload` with its pinned hashes, minadbd and the
   installer's command socket, with a host that stalls, disconnects or changes its data.
4. `UpdateVerifier`: the reader threads. `SortedRangeSet` and `RangeSet::Split` as
   operators checked against sets. The threads of `twrpTar`.
5. Proofs: done for every invariant and safety property of the modules above. New modules of this plan come with theirs.

## 7. Not modelled

Codecs (bspatch, imgpatch, imgdiff), parsers (edify, command lines), drawing and
input, MTP, decryption and the device utilities of TWRP and OrangeFox have
little state that a model would say something about, or work on a real
device; `libblkid`, `fuse`, `exfat`, `dosfstools`, `pigz`, `openaes`,
`libpixelflinger`, `libtar`, `libmincrypt`, `fb2png`, `minzip`, `simg2img` and
`gpt` are third-party code. Within `blockimg.cpp`, `range_sha1`,
`check_first_block` and `block_image_recover` are read-only or
independent of the update, and are left out. `recovery.cpp` and
`recovery_main.cpp` are not part of the build; their retry loop is covered by
letting every attempt of the update be a fresh one or a retry.

Of the modelled parts: uncrypt's `write_wipe_package`, its debug modes and its accept loop; `cancel_thread` of the
action thread, and the file manager's and settings' actions; the `TWERROR` that a read-only restore sends (to bu it is the same
as a failure followed by `TWENDADB`); adb streams that are damaged on the host; and what a command of a
script does to the device.

Most of the repository's lines are vendored libraries, tables, themes, drawing and
device utilities. The models take the parts whose state several steps, threads, processes or boots share; a share of
all lines says little about them.
