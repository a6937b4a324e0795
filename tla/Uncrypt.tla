------------------------------ MODULE Uncrypt -------------------------------
(***************************************************************************)
(* uncrypt (uncrypt/uncrypt.cpp): while Android still runs, the blocks of  *)
(* an update package on /data are rewritten in place without encryption,   *)
(* and a block map that lists them is renamed into /cache/recovery; later  *)
(* the recovery reads the package through the map, without mounting /data  *)
(* (BlockMapData and MemMapping, otautil/sysutil.cpp).                     *)
(*                                                                         *)
(* A package is a number, its content the sequence of its blocks; a block  *)
(* of the device holds a block of a package in clear or encrypted, or      *)
(* garbage: clear text that was decrypted once more.  A map file is the    *)
(* sequence of its lines.  `dir` and `raw` are what the running system     *)
(* sees, `dirDisk` and `rawDisk` what a power loss leaves at least.        *)
(***************************************************************************)
EXTENDS Integers, Sequences, SequencesExt

CONSTANTS Disk,           \* blocks of the device, an interval of numbers
          Layouts,        \* the device blocks a package may be stored in
          MaxPackages,    \* packages downloaded
          WINDOW_SIZE,
          MaxFailures     \* system calls of uncrypt that fail

ASSUME UncryptAssumption ==
    /\ Disk \subseteq Nat
    /\ \A l \in Layouts : /\ l \in Seq(Disk) /\ Len(l) > 0
                          /\ \A i, j \in DOMAIN l : l[i] = l[j] => i = j
    /\ MaxPackages \in Nat /\ MaxFailures \in Nat
    /\ WINDOW_SIZE \in Nat /\ WINDOW_SIZE > 1

VARIABLES
    encrypted,          \* what FindBlockDevice says of /data
    pkg, layout,        \* the package last downloaded and its blocks
    cached,             \* its clear text is in the page cache
    raw, rawDisk,
    dir, dirDisk,       \* block.map, block.map.tmp, and whether the data is synced
    upc,                \* program counter of uncrypt
    u,                  \* its locals
    status,             \* the last status sent: "none", "100" or "-1"
    reread,             \* it read back a block that was already in clear
    staleTail,          \* a longer block.map.tmp was overwritten and its end left
    failures

uncryptVars == <<encrypted, pkg, layout, cached, raw, rawDisk, dir, dirDisk, upc, u,
                 status, reread, staleTail, failures>>
package == <<encrypted, pkg, layout, cached>>
notes == <<status, reread, staleTail, failures>>

None == <<>>
Clear(p, i) == [in |-> "clear", pkg |-> p, block |-> i]
Cipher(p, i) == [in |-> "cipher", pkg |-> p, block |-> i]
Garbage == [in |-> "garbage", pkg |-> 0, block |-> 0]
Locals == [pos |-> 0, head_block |-> 0, head |-> 0, tail |-> 0,
           buffers |-> [j \in 0..(WINDOW_SIZE - 1) |-> Garbage], ranges |-> <<>>]

UncryptInit ==
    /\ encrypted \in BOOLEAN
    /\ pkg = 0 /\ layout = <<>> /\ cached = FALSE
    /\ raw = [d \in Disk |-> Garbage] /\ rawDisk = raw
    /\ dir = [map |-> None, tmp |-> None, synced |-> TRUE] /\ dirDisk = dir
    /\ upc = "idle" /\ u = Locals /\ status = "none"
    /\ reread = FALSE /\ staleTail = FALSE /\ failures = 0

(* Android downloads a package and syncs it.                               *)
Download ==
    /\ upc = "idle" /\ pkg < MaxPackages
    /\ pkg' = pkg + 1
    /\ \E l \in Layouts :
          /\ layout' = l
          /\ raw' = [d \in Disk |->
                IF \E i \in DOMAIN l : l[i] = d
                THEN LET i == CHOOSE i \in DOMAIN l : l[i] = d
                     IN  IF encrypted THEN Cipher(pkg + 1, i) ELSE Clear(pkg + 1, i)
                ELSE raw[d]]
    /\ rawDisk' = raw'
    /\ cached' = TRUE /\ status' = "none" /\ reread' = FALSE
    /\ UNCHANGED <<encrypted, dir, dirDisk, upc, u, staleTail, failures>>

(* What a read of block i of the package returns.                          *)
ReadFully(i) ==
    LET b == raw[layout[i]]
    IN  IF cached \/ b.in = "cipher" THEN Clear(pkg, i) ELSE Garbage

-----------------------------------------------------------------------------
(* Writing lines over a file that is not truncated.                        *)
Overwrite(old, new) == new \o SubSeq(old, Len(new) + 1, Len(old))

(* What is left behind a new map of the text of the old one: nothing, or    *)
(* the end of its last line. A text of more lines may be the shorter one.   *)
LeftBehind(old, new) ==
    {<<>>} \cup (IF Len(old) > 1 /\ old # new THEN {<<Last(old)>>} ELSE {})

(* The device and size lines are one line here, with the number of blocks. *)
Header == << <<Len(layout)>> >>

(* The range list: start and end of each run of consecutive blocks.        *)
add_block_to_ranges(ranges, block) ==
    IF ranges # <<>> /\ block = Last(ranges)[2]
    THEN [ranges EXCEPT ![Len(ranges)][2] = @ + 1]
    ELSE Append(ranges, <<block, block + 1>>)

-----------------------------------------------------------------------------
(***************************************************************************)
(* ProductBlockMap, one action per step a crash can follow.                *)
(***************************************************************************)
StartUncrypt ==
    /\ upc = "idle" /\ pkg > 0 /\ status # "100"
    /\ upc' = "remove" /\ u' = Locals /\ status' = "none"
    /\ UNCHANGED <<package, raw, rawDisk, dir, dirDisk, reread, staleTail, failures>>

RemoveMap ==
    /\ upc = "remove"
    /\ dir' = [dir EXCEPT !.map = None]
    /\ upc' = "header"
    /\ UNCHANGED <<package, raw, rawDisk, dirDisk, u, notes>>

WriteHeader ==
    /\ upc = "header"
    /\ dir' = [dir EXCEPT !.tmp = Overwrite(@, Header), !.synced = FALSE]
    /\ upc' = "loop"
    /\ UNCHANGED <<package, raw, rawDisk, dirDisk, u, notes>>

(* Block head_block leaves the window: it is looked up with FIBMAP, listed *)
(* and, on an encrypted device, written in clear.                          *)
HeadRaw == IF encrypted THEN [raw EXCEPT ![layout[u.head_block + 1]] = u.buffers[u.head]]
           ELSE raw

(* Mutant: head does not wrap around.                                      *)
WriteHeadUnwrapped(r) == [r EXCEPT !.ranges = add_block_to_ranges(@, layout[r.head_block + 1]),
                                   !.head = @ + 1,
                                   !.head_block = @ + 1]

WriteHead(r) == [r EXCEPT !.ranges = add_block_to_ranges(@, layout[r.head_block + 1]),
                          !.head = (@ + 1) % WINDOW_SIZE,
                          !.head_block = @ + 1]

WindowFull == (u.tail + 1) % WINDOW_SIZE = u.head

ReadBlock ==
    /\ upc = "loop" /\ u.pos < Len(layout)
    /\ raw' = IF WindowFull THEN HeadRaw ELSE raw
    /\ LET data == IF encrypted THEN ReadFully(u.pos + 1) ELSE Garbage
       IN  /\ u' = [(IF WindowFull THEN WriteHead(u) ELSE u) EXCEPT
                      !.buffers[u.tail] = data,
                      !.pos = @ + 1,
                      !.tail = (@ + 1) % WINDOW_SIZE]
           /\ reread' = (reread \/ (encrypted /\ data = Garbage))
    /\ UNCHANGED <<package, rawDisk, dir, dirDisk, upc, status, staleTail, failures>>

DrainWindow ==
    /\ upc = "loop" /\ u.pos = Len(layout) /\ u.head # u.tail
    /\ raw' = HeadRaw
    /\ u' = WriteHead(u)
    /\ UNCHANGED <<package, rawDisk, dir, dirDisk, upc, notes>>

WriteRanges ==
    /\ upc = "loop" /\ u.pos = Len(layout) /\ u.head = u.tail
    /\ LET lines == Header \o << <<Len(u.ranges)>> >> \o u.ranges
       IN  \E tail \in LeftBehind(dir.tmp, lines) :
              /\ dir' = [dir EXCEPT !.tmp = lines \o tail, !.synced = FALSE]
              /\ staleTail' = (staleTail \/ tail # <<>>)
    /\ upc' = "fsyncMap"
    /\ UNCHANGED <<package, raw, rawDisk, dirDisk, u, status, reread, failures>>

(* Mutant: the map is renamed unsynced.                                    *)
FsyncMapSkipped ==
    /\ upc = "fsyncMap"
    /\ upc' = "fsyncBlocks"
    /\ UNCHANGED <<package, raw, rawDisk, dir, dirDisk, u, notes>>

(* fsync of the file also commits the journal.                             *)
FsyncMap ==
    /\ upc = "fsyncMap"
    /\ dir' = [dir EXCEPT !.synced = TRUE]
    /\ dirDisk' = dir'
    /\ upc' = "fsyncBlocks"
    /\ UNCHANGED <<package, raw, rawDisk, u, notes>>

(* Mutant: the map is renamed before the blocks are on the device.         *)
FsyncBlocksSkipped ==
    /\ upc = "fsyncBlocks"
    /\ upc' = "rename"
    /\ UNCHANGED <<package, raw, rawDisk, dir, dirDisk, u, notes>>

FsyncBlocks ==
    /\ upc = "fsyncBlocks"
    /\ rawDisk' = raw
    /\ upc' = "rename"
    /\ UNCHANGED <<package, raw, dir, dirDisk, u, notes>>

RenameMap ==
    /\ upc = "rename"
    /\ dir' = [dir EXCEPT !.map = dir.tmp, !.tmp = None]
    /\ upc' = "syncDir"
    /\ UNCHANGED <<package, raw, rawDisk, dirDisk, u, notes>>

(* The directory is synced, and uncrypt_wrapper reports success.           *)
SyncDir ==
    /\ upc = "syncDir"
    /\ dirDisk' = dir
    /\ upc' = "idle" /\ u' = Locals /\ status' = "100"
    /\ UNCHANGED <<package, raw, rawDisk, dir, reread, staleTail, failures>>

(* A system call fails: the error code is returned and "-1" is sent.       *)
UncryptFails ==
    /\ upc # "idle" /\ failures < MaxFailures
    /\ failures' = failures + 1
    /\ upc' = "idle" /\ u' = Locals /\ status' = "-1"
    /\ UNCHANGED <<package, raw, rawDisk, dir, dirDisk, reread, staleTail>>

UncryptStep == RemoveMap \/ WriteHeader \/ ReadBlock \/ DrainWindow \/ WriteRanges
               \/ FsyncMap \/ FsyncBlocks \/ RenameMap \/ SyncDir

(***************************************************************************)
(* The power fails: a block keeps its last or its durable content, and the *)
(* journal of /cache an earlier state of the directory: the one before, or *)
(* after, the removal of the map, or the present one; of lines that were   *)
(* not synced only the first may be left, or none.                         *)
(***************************************************************************)
Torn(d, file) == IF d.synced \/ file = None THEN {file} ELSE {file, SubSeq(file, 1, 1), None}

UncryptPowerLoss ==
    /\ \E kept \in SUBSET {d \in Disk : raw[d] # rawDisk[d]} :
          raw' = [d \in Disk |-> IF d \in kept THEN rawDisk[d] ELSE raw[d]]
    /\ rawDisk' = raw'
    /\ \E d \in {dirDisk, dir, [dirDisk EXCEPT !.map = IF dir.map = None THEN None ELSE @]} :
       \E map \in Torn(d, d.map), tmp \in Torn(d, d.tmp) :
          dir' = [map |-> map, tmp |-> tmp, synced |-> TRUE]
    /\ dirDisk' = dir'
    /\ cached' = FALSE
    /\ upc' = "idle" /\ u' = Locals
    /\ status' = "none"
    /\ UNCHANGED <<encrypted, pkg, layout, reread, staleTail, failures>>

-----------------------------------------------------------------------------
(***************************************************************************)
(* BlockMapData::ParseBlockMapFile and MemMapping::MapBlockFile: the       *)
(* ranges of the map are put one after the other.  `next` is the place, in *)
(* blocks, of each range and, last, the place after all of them.           *)
(***************************************************************************)
RangeSize(map, k) == map[k + 2][2] - map[k + 2][1]

MapBlockFile(map, next) ==
    /\ next[1] = 0
    /\ \A k \in 1..(Len(map) - 2) : next[k + 1] = next[k] + RangeSize(map, k)
    /\ next[Len(map) - 1] = map[1][1]

Nexts(map) == [1..(Len(map) - 1) -> 0..map[1][1]]

Parses(map) ==
    /\ Len(map) >= 3
    /\ Len(map[2]) = 1 /\ map[2][1] > 0
    /\ Len(map) = 2 + map[2][1]
    /\ \A k \in 3..Len(map) : Len(map[k]) = 2 /\ map[k][1] < map[k][2]
    /\ \E next \in Nexts(map) : MapBlockFile(map, next)

(* What is read at the place of each block.                                *)
ReadsThroughMap(map, content) ==
    /\ map[1][1] = Len(content)
    /\ \E next \in Nexts(map) :
          /\ MapBlockFile(map, next)
          /\ \A k \in 1..(Len(map) - 2) : \A i \in 1..RangeSize(map, k) :
                raw[map[k + 2][1] + i - 1] = content[next[k] + i]

PackageInClear == [i \in DOMAIN layout |-> Clear(pkg, i)]
=============================================================================
