------------------------- MODULE BootCommandProofs --------------------------
(***************************************************************************)
(* What Uncrypt and BootCommand guarantee for every package layout, window *)
(* size and number of requests, crashes and power losses: types, among     *)
(* them the bounds of uncrypt's window; that the options of the BCB and    *)
(* the script in /cache are executed at most once; that the block map is   *)
(* whole or missing; and that an installation reads the package through    *)
(* it.                                                                     *)
(***************************************************************************)
EXTENDS BootCommand, TLAPS

\* What Android asks for through the BCB; "script" and "cli" never are.
Options == {"install", "wipe data", "wipe cache"}
Extra == {"script", "cli"}
Scripts == {<<>>, <<"script">>}

FlagType ==
    /\ mode \in Modes
    /\ fastboot_mode \in BOOLEAN /\ SkipDecryption \in BOOLEAN
    /\ locked \in BOOLEAN /\ encrypted \in BOOLEAN
    /\ cached \in BOOLEAN /\ reread \in BOOLEAN /\ staleTail \in BOOLEAN
    /\ phase \in 0..3 /\ ret_val \in 0..1
    /\ mode = "run" => phase \in 1..3
    /\ code1 \in {0, 1, 3} /\ code2 \in {0, 1, 3}
    /\ status \in {"none", "100", "-1"}

CountType ==
    /\ crashes \in Nat /\ losses \in Nat /\ miscFails \in Nat /\ ranScript \in Nat

Messages == [command : {"none", "boot-recovery", "boot-fastboot"}, recovery : Seq(Options)]
BcbType ==
    /\ bcb \in Messages
    /\ args \in Seq(Options) /\ asked \in Seq(Options) /\ ran \in Seq(Options)

ScriptType ==
    /\ orsFile \in Scripts /\ orsDisk \in Scripts
    /\ script \in Seq(Cmds) /\ lines \in Seq(Cmds)

\* The blocks in the window are those from head_block up to pos; idle, the
\* locals have their initial values.
WindowType ==
    /\ u = [pos |-> u.pos, head_block |-> u.head_block, head |-> u.head, tail |-> u.tail,
            buffers |-> u.buffers, ranges |-> u.ranges]
    /\ layout = <<>> \/ layout \in Layouts
    /\ upc = "idle" => u = Locals
    /\ u.head \in 0..(WINDOW_SIZE - 1) /\ u.tail \in 0..(WINDOW_SIZE - 1)
    /\ u.pos \in 0..Len(layout) /\ u.head_block \in Nat
    /\ u.pos - u.head_block = IF u.head <= u.tail THEN u.tail - u.head
                              ELSE u.tail - u.head + WINDOW_SIZE

BootType == FlagType /\ CountType /\ BcbType /\ ScriptType /\ WindowType

\* The options in s come next, before anything else that is in s.
Ready(s) ==
    \A i \in DOMAIN s :
       \/ \A j \in i..Len(s) : s[j] \in Extra
       \/ Len(ran) + i <= Len(asked) /\ s[i] = asked[Len(ran) + i]

Starting == {"android", "boot", "main", "insert"}

\* The options are in the BCB, on their way to the script, ready in it, or run.
OptionsOK ==
    /\ Len(ran) <= Len(asked) /\ \A i \in DOMAIN ran : ran[i] = asked[i]
    /\ bcb.recovery # <<>> => bcb.recovery = asked /\ ran = <<>> /\ mode \in Starting
    /\ mode \in Starting \ {"insert"} => script = <<>>
    /\ mode = "insert" => \/ args = <<>> /\ script = <<>>
                          \/ ran = <<>> /\ script \o args = asked
    /\ mode \notin Starting \cup {"run"} => Ready(script)
    /\ mode = "run" => Ready(lines)
OptionsInv == crashes = 0 /\ miscFails = 0 => OptionsOK

NoScript(s) == \A i \in DOMAIN s : s[i] # "script"

\* The script in /cache is there, copied, being run, or has been run.
ScriptOK ==
    /\ ranScript <= 1
    /\ orsFile # <<>> => ranScript = 0
    /\ mode = "copied" => script = orsFile /\ orsFile = <<"script">>
    /\ mode \notin {"copied", "run"} => NoScript(script)
    /\ mode = "run" => \/ NoScript(lines)
                       \/ lines = <<"script">> /\ ranScript = 0 /\ orsFile = <<>>
ScriptInv == crashes = 0 /\ losses = 0 => ScriptOK

\* Block i of the package, head_block < i <= pos, waits in this buffer.
Slot(r, i) == LET x == r.head + i - r.head_block - 1
              IN  IF x < WINDOW_SIZE THEN x ELSE x - WINDOW_SIZE

\* The ranges list the first n blocks of the package in order.
Size(r) == r[2] - r[1]
ListsAt(r, from, to, l) == /\ r[1] < r[2] /\ to = from + Size(r)
                           /\ \A i \in 1..Size(r) : l[from + i] = r[1] + i - 1
Lists(ranges, n, l) ==
    \E next \in [1..(Len(ranges) + 1) -> 0..n] :
       /\ next[1] = 0 /\ next[Len(ranges) + 1] = n
       /\ \A k \in 1..Len(ranges) : ListsAt(ranges[k], next[k], next[k + 1], l)

\* A complete map of the package.
Whole(map, l) == /\ Len(map) >= 3
                 /\ map[1] = <<Len(l)>> /\ map[2] = <<Len(map) - 2>>
                 /\ \A k \in 3..Len(map) : map[k] \in Nat \X Nat
                 /\ Lists([k \in 1..(Len(map) - 2) |-> map[k + 2]],
                          Len(l), l)

\* The directory: types, what is synced, and which maps are complete.
Line == Seq(Nat)
Dirs == [map : Seq(Line), tmp : Seq(Line), synced : BOOLEAN]
Steps == {"idle", "remove", "header", "loop", "fsyncMap", "fsyncBlocks", "rename", "syncDir"}
DirInv ==
    /\ upc \in Steps
    /\ dir \in Dirs /\ dirDisk \in Dirs
    /\ dir.map # None => dir.synced
    /\ dirDisk.map # None => dirDisk.synced
    /\ upc \in {"header", "loop", "fsyncMap", "fsyncBlocks", "rename"} => dir.map = None
    /\ upc \in {"fsyncBlocks", "rename", "syncDir"} => dir.synced
    /\ upc # "idle" => layout \in Layouts
    /\ pkg \in Nat /\ (pkg > 0 => layout \in Layouts)

RangeInv ==
    /\ u.ranges \in Seq(Nat \X Nat)
    /\ Lists(u.ranges, u.head_block, layout)
    /\ upc \in {"fsyncMap", "fsyncBlocks", "rename", "syncDir"} => u.head_block = Len(layout)

MapInv ==
    ~staleTail =>
      /\ dir.map # None => Parses(dir.map)
      /\ dirDisk.map # None => Parses(dirDisk.map)
      /\ upc \in {"fsyncMap", "fsyncBlocks", "rename"} => Whole(dir.tmp, layout)
      /\ upc = "syncDir" => Whole(dir.map, layout)

\* The blocks that left the window are in clear on the device, those in the
\* window are in clear in its buffers.
DataInv ==
    /\ DOMAIN raw = Disk /\ DOMAIN rawDisk = Disk /\ DOMAIN u.buffers = 0..(WINDOW_SIZE - 1)
    /\ ~encrypted => \A i \in DOMAIN layout : /\ raw[layout[i]] = Clear(pkg, i)
                                              /\ rawDisk[layout[i]] = Clear(pkg, i)
    /\ encrypted /\ ~reread =>
         /\ \A i \in 1..u.head_block : raw[layout[i]] = Clear(pkg, i)
         /\ \A i \in (u.head_block + 1)..u.pos : u.buffers[Slot(u, i)] = Clear(pkg, i)
    /\ upc \in {"rename", "syncDir"} => rawDisk = raw

\* An installation that is reported as prepared, or asked for, is prepared,
\* and would be after a power loss.
HasInstall(s) == \E i \in DOMAIN s : s[i] = "install"
Pending == HasInstall(bcb.recovery) \/ HasInstall(args) \/ HasInstall(script)

Prepared ==
    /\ dir.map = dirDisk.map /\ Whole(dir.map, layout)
    /\ \A i \in DOMAIN layout : /\ raw[layout[i]] = Clear(pkg, i)
                                /\ rawDisk[layout[i]] = Clear(pkg, i)

InstallInv ==
    /\ mode \in {"android", "boot"} => script = <<>> /\ args = <<>>
    /\ status = "100" => upc = "idle"
    /\ ~reread /\ ~staleTail /\ (status = "100" \/ Pending) => Prepared

MapsInv == DirInv /\ RangeInv /\ MapInv /\ DataInv /\ InstallInv
BootInv == BootType /\ OptionsInv /\ ScriptInv /\ MapsInv

-----------------------------------------------------------------------------
(* Types.                                                                  *)

\* (x + 1) % WINDOW_SIZE runs through the window and starts over.
LEMMA Wrap ==
    ASSUME NEW x \in 0..(WINDOW_SIZE - 1)
    PROVE  (x + 1) % WINDOW_SIZE = IF x = WINDOW_SIZE - 1 THEN 0 ELSE x + 1
<1>1. WINDOW_SIZE \in Nat /\ WINDOW_SIZE > 1
  BY UncryptAssumption
<1>2. CASE x = WINDOW_SIZE - 1
  BY <1>1, <1>2
<1>3. CASE x # WINDOW_SIZE - 1
  BY <1>1, <1>3
<1> QED
  BY <1>2, <1>3

\* A package has a number of blocks.
LEMMA LayoutLength == layout = <<>> \/ layout \in Layouts => Len(layout) \in Nat
  BY UncryptAssumption

\* uncrypt starts with an empty window.
LEMMA LocalsType == Locals.pos = 0 /\ Locals.head_block = 0 /\ Locals.head = 0 /\ Locals.tail = 0
  BY DEF Locals

\* Every step keeps flags and modes well formed.
LEMMA FlagStep == FlagType /\ Next => FlagType'
<1> SUFFICES ASSUME FlagType, Next PROVE FlagType'
  OBVIOUS
<1> USE DEF FlagType, Modes, vars, process, files, asking, running, faults, uncryptVars
<1>1. CASE AndroidStep
  <2>1. UncryptStep \/ UncryptFails \/ StartUncrypt \/ Download
    BY <1>1 DEF AndroidStep
  <2>2. /\ encrypted' = encrypted /\ cached' \in BOOLEAN /\ reread' \in BOOLEAN
        /\ staleTail' \in BOOLEAN /\ status' \in {"none", "100", "-1"}
    <3>1. CASE UncryptStep
      BY <3>1 DEF UncryptStep, RemoveMap, WriteHeader, ReadBlock, DrainWindow, WriteRanges,
                  FsyncMap, FsyncBlocks, RenameMap, SyncDir, package, notes
    <3>2. CASE UncryptFails \/ StartUncrypt \/ Download
      BY <3>2 DEF UncryptFails, StartUncrypt, Download, package
    <3> QED
      BY <2>1, <3>1, <3>2
  <2> QED
    BY <1>1, <2>2 DEF AndroidStep, boot
<1>2. CASE setup_bcb \/ clear_bcb \/ RequestFastboot \/ RequestScript
  <2>1. UNCHANGED <<uncryptVars, mode, process>>
    BY <1>2, Zenon DEF setup_bcb, clear_bcb, RequestFastboot, RequestScript
  <2> QED
    BY <2>1
<1>3. CASE Restart
  <2>1. /\ mode' = "boot" /\ phase' = 0 /\ ret_val' = 0 /\ code1' = 1 /\ code2' = 1
        /\ UNCHANGED status
    BY <1>3 DEF Restart, Idle
  <2>2. /\ cached' = FALSE /\ fastboot_mode' = FALSE /\ SkipDecryption' = FALSE
        /\ locked' = encrypted /\ UNCHANGED <<encrypted, reread, staleTail>>
    BY <1>3, Zenon DEF Restart, Idle
  <2>3. /\ cached' \in BOOLEAN /\ fastboot_mode' \in BOOLEAN /\ SkipDecryption' \in BOOLEAN
        /\ locked' \in BOOLEAN /\ encrypted' \in BOOLEAN /\ reread' \in BOOLEAN
        /\ staleTail' \in BOOLEAN
    BY <2>2, Zenon
  <2> QED
    BY <2>1, <2>3
<1>4. CASE BootLoader \/ processRecoveryArgs \/ Clear_Bootloader_Message
  <2>1. /\ mode' \in Modes \ {"run"}
        /\ UNCHANGED <<phase, ret_val, code1, code2, status>>
    BY <1>4 DEF BootLoader, processRecoveryArgs, Clear_Bootloader_Message
  <2>2. /\ UNCHANGED <<fastboot_mode, locked, encrypted, cached, reread, staleTail>>
        /\ SkipDecryption' \in {TRUE, SkipDecryption}
    BY <1>4, Zenon DEF BootLoader, processRecoveryArgs, Clear_Bootloader_Message
  <2>3. SkipDecryption' \in BOOLEAN
    BY <2>2, Zenon
  <2> QED
    BY <2>1, <2>2, <2>3
<1>5. CASE get_args
  BY <1>5 DEF get_args
<1>6. CASE Decrypt_Page \/ process_recovery_mode
  BY <1>6 DEF Decrypt_Page, process_recovery_mode
<1>7. CASE RunTmpScript \/ CopyScriptFile \/ UnlinkScriptFile \/ Run_CLI_Command
  BY <1>7 DEF RunTmpScript, CopyScriptFile, UnlinkScriptFile, Run_CLI_Command, OpenScript
<1>8. CASE RunLine
  BY <1>8 DEF RunLine
<1>9. CASE EndScript
  BY <1>9 DEF EndScript
<1>10. CASE FinishScripts /\ ~Restart
  BY <1>10 DEF FinishScripts
<1>11. CASE Crash
  <2>1. /\ mode' = "main" /\ phase' = 0 /\ ret_val' = 0 /\ code1' = 1 /\ code2' = 1
        /\ UNCHANGED status
    BY <1>11 DEF Crash, Idle
  <2>2. /\ fastboot_mode' = FALSE /\ SkipDecryption' = FALSE
        /\ locked' = encrypted /\ UNCHANGED <<encrypted, cached, reread, staleTail>>
    BY <1>11, Zenon DEF Crash, Idle
  <2>3. /\ cached' \in BOOLEAN /\ fastboot_mode' \in BOOLEAN /\ SkipDecryption' \in BOOLEAN
        /\ locked' \in BOOLEAN /\ encrypted' \in BOOLEAN /\ reread' \in BOOLEAN
        /\ staleTail' \in BOOLEAN
    BY <2>2, Zenon
  <2> QED
    BY <2>1, <2>3
<1>12. CASE PowerLoss
  <2>1. /\ mode' = "boot" /\ phase' = 0 /\ ret_val' = 0 /\ code1' = 1 /\ code2' = 1
        /\ status' = "none"
    BY <1>12 DEF PowerLoss, UncryptPowerLoss, Idle
  <2>2. /\ cached' = FALSE /\ fastboot_mode' = FALSE /\ SkipDecryption' = FALSE
        /\ locked' = encrypted /\ UNCHANGED <<encrypted, reread, staleTail>>
    BY <1>12, Zenon DEF PowerLoss, UncryptPowerLoss, Idle
  <2>3. /\ cached' \in BOOLEAN /\ fastboot_mode' \in BOOLEAN /\ SkipDecryption' \in BOOLEAN
        /\ locked' \in BOOLEAN /\ encrypted' \in BOOLEAN /\ reread' \in BOOLEAN
        /\ staleTail' \in BOOLEAN
    BY <2>2, Zenon
  <2> QED
    BY <2>1, <2>3
<1> QED
  BY <1>1, <1>2, <1>3, <1>4, <1>5, <1>6, <1>7, <1>8, <1>9, <1>10, <1>11, <1>12
     DEF Next, RecoveryStep, RebootToRecovery, FastbootPage, HomeReboot, FinishScripts

\* Counters stay numbers.
LEMMA CountStep == CountType /\ Next => CountType'
<1> SUFFICES ASSUME CountType, Next PROVE CountType'
  OBVIOUS
<1> USE DEF CountType, vars, process, files, asking, running, faults, uncryptVars
<1>1. CASE AndroidStep
  BY <1>1 DEF AndroidStep, boot
<1>2. CASE setup_bcb \/ clear_bcb \/ RequestFastboot \/ RequestScript
  <2>1. UNCHANGED <<crashes, losses, miscFails>>
    BY <1>2, Zenon DEF setup_bcb, clear_bcb, RequestFastboot, RequestScript
  <2>2. ranScript' = 0 \/ ranScript' = ranScript
    BY <1>2, Zenon DEF setup_bcb, clear_bcb, RequestFastboot, RequestScript, Ask
  <2> QED
    BY <2>1, <2>2
<1>3. CASE Restart
  BY <1>3 DEF Restart
<1>4. CASE BootLoader \/ processRecoveryArgs \/ Decrypt_Page \/ process_recovery_mode
  BY <1>4 DEF BootLoader, processRecoveryArgs, Decrypt_Page, process_recovery_mode
<1>5. CASE get_args \/ Clear_Bootloader_Message
  BY <1>5 DEF get_args, Clear_Bootloader_Message, WriteMisc
<1>6. CASE RunTmpScript \/ CopyScriptFile \/ UnlinkScriptFile \/ Run_CLI_Command \/ EndScript
  BY <1>6 DEF RunTmpScript, CopyScriptFile, UnlinkScriptFile, Run_CLI_Command, EndScript
<1>7. CASE RunLine
  BY <1>7 DEF RunLine
<1>8. CASE FinishScripts /\ ~Restart
  BY <1>8 DEF FinishScripts
<1>9. CASE Crash \/ PowerLoss
  BY <1>9 DEF Crash, PowerLoss
<1> QED
  BY <1>1, <1>2, <1>3, <1>4, <1>5, <1>6, <1>7, <1>8, <1>9
     DEF Next, RecoveryStep, RebootToRecovery, FastbootPage, HomeReboot, FinishScripts

\* Sequences over a set.
LEMMA HeadOf == ASSUME NEW S, NEW s \in Seq(S), s # <<>> PROVE Head(s) \in S
  OBVIOUS

\* What is in a sequence of elements of S, ...
LEMMA ElementOf == ASSUME NEW S, NEW s \in Seq(S), NEW i \in 1..Len(s) PROVE s[i] \in S
  OBVIOUS

\* ... the empty one, ...
LEMMA EmptySeq == ASSUME NEW S PROVE <<>> \in Seq(S)
  OBVIOUS

\* ... short ones, and one with an element put at its end.
LEMMA SmallSeq == ASSUME NEW S, NEW a \in S, NEW b \in S, NEW s \in Seq(S)
                  PROVE  /\ <<a>> \in Seq(S) /\ <<a, b>> \in Seq(S)
                         /\ Append(s, a) \in Seq(S)
  OBVIOUS

\* A control block is made of a command and options.
LEMMA MessageOf ==
    /\ \A c \in {"none", "boot-recovery", "boot-fastboot"}, r \in Seq(Options) :
          [command |-> c, recovery |-> r] \in Messages
    /\ \A m \in Messages : m.recovery \in Seq(Options)
  BY DEF Messages

\* Every option is a command of a script.
LEMMA OptionsAreCmds == ASSUME NEW o \in Options PROVE o \in Cmds
  BY DEF Options, Cmds

\* The line executed next: an option of the BCB, the script, or a command of
\* the twrp tool.
LEMMA NextLine == ScriptType /\ lines # <<>> => Head(lines) \in Options \cup Extra
<1>1. Cmds = Options \cup Extra
  BY DEF Cmds, Options, Extra
<1> QED
  BY <1>1, HeadOf DEF ScriptType

\* Every step keeps the control block and the options well formed.
LEMMA BcbStep == BcbType /\ ScriptType /\ Next => BcbType'
<1> SUFFICES ASSUME BcbType, ScriptType, Next PROVE BcbType'
  OBVIOUS
<1> USE DEF BcbType, vars, process, files, asking, running, faults, uncryptVars
<1>1. CASE AndroidStep
  BY <1>1 DEF AndroidStep, boot
<1>2. CASE setup_bcb
  <2>1. PICK options \in {<<"install">>, <<"wipe data", "wipe cache">>} :
            bcb' = Bcb(options) /\ Ask(options)
    BY <1>2 DEF setup_bcb
  <2>2. "install" \in Options /\ "wipe data" \in Options /\ "wipe cache" \in Options
    BY DEF Options
  <2>3. options \in Seq(Options)
    BY <2>2, SmallSeq, Zenon
  <2>4. UNCHANGED args
    BY <1>2 DEF setup_bcb
  <2>5. asked' = options /\ ran' = <<>> /\ bcb' = [command |-> "boot-recovery", recovery |-> options]
    BY <2>1 DEF Bcb, Ask
  <2> QED
    BY <2>3, <2>4, <2>5, MessageOf, EmptySeq, Zenon
<1>3. CASE clear_bcb \/ RequestFastboot \/ RequestScript
  <2>1. /\ asked' = <<>> /\ ran' = <<>> /\ UNCHANGED args
        /\ \E c \in {"none", "boot-recovery", "boot-fastboot"} :
              bcb' = [command |-> c, recovery |-> <<>>]
    BY <1>3 DEF clear_bcb, RequestFastboot, RequestScript, Ask, Bcb, NoBcb
  <2> QED
    BY <2>1, MessageOf, EmptySeq, Zenon
<1>4. CASE Restart
  BY <1>4 DEF Restart, Idle
<1>5. CASE BootLoader \/ Decrypt_Page \/ process_recovery_mode
  BY <1>5 DEF BootLoader, Decrypt_Page, process_recovery_mode
<1>6. CASE processRecoveryArgs
  BY <1>6 DEF processRecoveryArgs
<1>7. CASE get_args
  <2>1. args' \in {bcb.recovery, <<>>} /\ UNCHANGED <<asked, ran>>
    BY <1>7 DEF get_args
  <2>2. bcb' = bcb \/ bcb' = [command |-> "boot-recovery", recovery |-> bcb.recovery]
    BY <1>7 DEF get_args, WriteMisc, Bcb
  <2> QED
    BY <2>1, <2>2, MessageOf, EmptySeq, Zenon
<1>8. CASE Clear_Bootloader_Message
  <2>1. UNCHANGED <<args, asked, ran>>
    BY <1>8 DEF Clear_Bootloader_Message
  <2>2. bcb' = bcb \/ bcb' = [command |-> "none", recovery |-> <<>>]
    BY <1>8 DEF Clear_Bootloader_Message, WriteMisc, NoBcb
  <2> QED
    BY <2>1, <2>2, MessageOf, EmptySeq, Zenon
<1>9. CASE RunTmpScript \/ CopyScriptFile \/ UnlinkScriptFile \/ Run_CLI_Command \/ EndScript
  BY <1>9 DEF RunTmpScript, CopyScriptFile, UnlinkScriptFile, Run_CLI_Command, EndScript
<1>10. CASE RunLine
  <2>1. ran' = ran \/ (Head(lines) \notin Extra /\ ran' = Append(ran, Head(lines)))
    BY <1>10 DEF RunLine, Extra
  <2>2. Head(lines) \in Options \cup Extra
    BY <1>10, NextLine DEF RunLine
  <2>3. ran' \in Seq(Options)
    BY <2>1, <2>2
  <2> QED
    BY <1>10, <2>3 DEF RunLine
<1>11. CASE FinishScripts /\ ~Restart
  BY <1>11 DEF FinishScripts
<1>12. CASE Crash \/ PowerLoss
  <2>1. args' = <<>> /\ UNCHANGED <<bcb, asked, ran>>
    BY <1>12 DEF Crash, PowerLoss, Idle
  <2> QED
    BY <2>1
<1> QED
  BY <1>1, <1>2, <1>3, <1>4, <1>5, <1>6, <1>7, <1>8, <1>9, <1>10, <1>11, <1>12
     DEF Next, RecoveryStep, RebootToRecovery, FastbootPage, HomeReboot, FinishScripts

\* Every step keeps the scripts well formed.
LEMMA ScriptStep == BcbType /\ ScriptType /\ Next => ScriptType'
<1> SUFFICES ASSUME BcbType, ScriptType, Next PROVE ScriptType'
  OBVIOUS
<1> USE DEF ScriptType, Scripts, vars, process, files, asking, running, faults, uncryptVars
<1>0. "script" \in Cmds /\ "cli" \in Cmds
  BY DEF Cmds
<1>1. CASE AndroidStep
  BY <1>1 DEF AndroidStep, boot
<1>2. CASE setup_bcb \/ clear_bcb \/ RequestFastboot \/ RequestScript
  BY <1>2 DEF setup_bcb, clear_bcb, RequestFastboot, RequestScript
<1>3. CASE Restart
  BY <1>3 DEF Restart, Idle
<1>4. CASE BootLoader \/ Decrypt_Page \/ process_recovery_mode
  BY <1>4 DEF BootLoader, Decrypt_Page, process_recovery_mode
<1>5. CASE get_args \/ Clear_Bootloader_Message
  BY <1>5 DEF get_args, Clear_Bootloader_Message
<1>6. CASE processRecoveryArgs
  <2>1. Head(args) \in Cmds
    BY <1>6, HeadOf, OptionsAreCmds DEF processRecoveryArgs, BcbType
  <2> QED
    BY <1>6, <2>1 DEF processRecoveryArgs
<1>7. CASE RunTmpScript \/ CopyScriptFile \/ UnlinkScriptFile
  BY <1>0, <1>7, SmallSeq DEF RunTmpScript, CopyScriptFile, UnlinkScriptFile, OpenScript
<1>8. CASE Run_CLI_Command
  <2>1. Append(script, "cli") \in Seq(Cmds)
    BY <1>0
  <2> QED
    BY <1>8, <2>1 DEF Run_CLI_Command, OpenScript
<1>9. CASE RunLine
  BY <1>9 DEF RunLine
<1>10. CASE EndScript
  BY <1>10 DEF EndScript
<1>11. CASE FinishScripts /\ ~Restart
  BY <1>11 DEF FinishScripts
<1>12. CASE Crash
  BY <1>12 DEF Crash, Idle
<1>13. CASE PowerLoss
  BY <1>13 DEF PowerLoss, Idle
<1> QED
  BY <1>1, <1>2, <1>3, <1>4, <1>5, <1>6, <1>7, <1>8, <1>9, <1>10, <1>11, <1>12, <1>13
     DEF Next, RecoveryStep, RebootToRecovery, FastbootPage, HomeReboot, FinishScripts

\* The fields of a window, and the distance from head to tail in it.
Fields(r) == r = [pos |-> r.pos, head_block |-> r.head_block, head |-> r.head, tail |-> r.tail,
                  buffers |-> r.buffers, ranges |-> r.ranges]

Window(r) ==
    /\ r.head \in 0..(WINDOW_SIZE - 1) /\ r.tail \in 0..(WINDOW_SIZE - 1)
    /\ r.pos \in Nat /\ r.head_block \in Nat
    /\ r.pos - r.head_block = IF r.head <= r.tail THEN r.tail - r.head
                              ELSE r.tail - r.head + WINDOW_SIZE

\* The head leaves a window that is not empty.
LEMMA HeadLeaves ==
    ASSUME NEW r, Fields(r), Window(r), r.head # r.tail
    PROVE  /\ Fields(WriteHead(r)) /\ Window(WriteHead(r))
           /\ WriteHead(r).pos = r.pos /\ WriteHead(r).tail = r.tail
           /\ WriteHead(r).head = (r.head + 1) % WINDOW_SIZE
           /\ WriteHead(r).head_block = r.head_block + 1 /\ WriteHead(r).buffers = r.buffers
           /\ WriteHead(r).ranges = add_block_to_ranges(r.ranges, layout[r.head_block + 1])
<1>1. /\ Fields(WriteHead(r))
      /\ WriteHead(r).pos = r.pos /\ WriteHead(r).tail = r.tail
      /\ WriteHead(r).head = (r.head + 1) % WINDOW_SIZE
      /\ WriteHead(r).head_block = r.head_block + 1 /\ WriteHead(r).buffers = r.buffers
      /\ WriteHead(r).ranges = add_block_to_ranges(r.ranges, layout[r.head_block + 1])
  <2>1. PICK p, b, h, t, bufs, rs :
            r = [pos |-> p, head_block |-> b, head |-> h, tail |-> t, buffers |-> bufs, ranges |-> rs]
    BY Zenon DEF Fields
  <2>2. WriteHead(r) = [pos |-> p, head_block |-> b + 1, head |-> (h + 1) % WINDOW_SIZE, tail |-> t,
                        buffers |-> bufs, ranges |-> add_block_to_ranges(rs, layout[b + 1])]
    <3>1. DOMAIN r = {"pos", "head_block", "head", "tail", "buffers", "ranges"}
      BY <2>1
    <3>2. /\ WriteHead(r).pos = p /\ WriteHead(r).tail = t /\ WriteHead(r).buffers = bufs
          /\ WriteHead(r).head_block = b + 1
      BY <2>1, <3>1 DEF WriteHead
    <3>3. /\ WriteHead(r).head = (h + 1) % WINDOW_SIZE
          /\ WriteHead(r).ranges = add_block_to_ranges(rs, layout[b + 1])
      BY <2>1, <3>1 DEF WriteHead
    <3>4. WriteHead(r) = [x \in DOMAIN r |-> WriteHead(r)[x]]
      BY <3>1 DEF WriteHead
    <3> QED
      BY <3>1, <3>2, <3>3, <3>4
  <2> QED
    BY <2>1, <2>2 DEF Fields
<1>2. WriteHead(r).head = IF r.head = WINDOW_SIZE - 1 THEN 0 ELSE r.head + 1
  BY <1>1, Wrap DEF Window
<1>3. WINDOW_SIZE \in Nat /\ WINDOW_SIZE > 1
  BY UncryptAssumption
<1>4. Window(WriteHead(r))
  <2>1. CASE r.head = WINDOW_SIZE - 1
    BY <1>1, <1>2, <1>3, <2>1 DEF Window
  <2>2. CASE r.head # WINDOW_SIZE - 1
    BY <1>1, <1>2, <1>3, <2>2 DEF Window
  <2> QED
    BY <2>1, <2>2
<1> QED
  BY <1>1, <1>4

\* A block enters a window that is not full.
Entered(r, data) == [r EXCEPT !.buffers[r.tail] = data, !.pos = @ + 1,
                              !.tail = (@ + 1) % WINDOW_SIZE]

\* A block read into a window that is not full: the window grows at its tail.
LEMMA BlockEnters ==
    ASSUME NEW r, NEW data, Fields(r), Window(r), (r.tail + 1) % WINDOW_SIZE # r.head
    PROVE  /\ Fields(Entered(r, data)) /\ Window(Entered(r, data))
           /\ Entered(r, data).pos = r.pos + 1 /\ Entered(r, data).head = r.head
           /\ Entered(r, data).head_block = r.head_block /\ Entered(r, data).ranges = r.ranges
           /\ Entered(r, data).buffers = [r.buffers EXCEPT ![r.tail] = data]
<1>1. /\ Fields(Entered(r, data))
      /\ Entered(r, data).pos = r.pos + 1 /\ Entered(r, data).head = r.head
      /\ Entered(r, data).tail = (r.tail + 1) % WINDOW_SIZE
      /\ Entered(r, data).head_block = r.head_block /\ Entered(r, data).ranges = r.ranges
      /\ Entered(r, data).buffers = [r.buffers EXCEPT ![r.tail] = data]
  <2>1. PICK p, b, h, t, bufs, rs :
            r = [pos |-> p, head_block |-> b, head |-> h, tail |-> t, buffers |-> bufs, ranges |-> rs]
    BY Zenon DEF Fields
  <2>2. Entered(r, data) = [pos |-> p + 1, head_block |-> b, head |-> h,
                            tail |-> (t + 1) % WINDOW_SIZE,
                            buffers |-> [bufs EXCEPT ![t] = data], ranges |-> rs]
    <3>1. DOMAIN r = {"pos", "head_block", "head", "tail", "buffers", "ranges"}
      BY <2>1
    <3>2. /\ Entered(r, data).pos = p + 1 /\ Entered(r, data).tail = (t + 1) % WINDOW_SIZE
          /\ Entered(r, data).buffers = [bufs EXCEPT ![t] = data]
      BY <2>1, <3>1 DEF Entered
    <3>3. /\ Entered(r, data).head_block = b /\ Entered(r, data).head = h
          /\ Entered(r, data).ranges = rs
      BY <2>1, <3>1 DEF Entered
    <3>4. Entered(r, data) = [x \in DOMAIN r |-> Entered(r, data)[x]]
      BY <3>1 DEF Entered
    <3> QED
      BY <3>1, <3>2, <3>3, <3>4
  <2>3. Fields(Entered(r, data))
    BY <2>2 DEF Fields
  <2>4. /\ r.pos = p /\ r.head_block = b /\ r.head = h /\ r.tail = t /\ r.buffers = bufs
        /\ r.ranges = rs
    BY <2>1
  <2>5. /\ Entered(r, data).pos = p + 1 /\ Entered(r, data).tail = (t + 1) % WINDOW_SIZE
        /\ Entered(r, data).buffers = [bufs EXCEPT ![t] = data]
        /\ Entered(r, data).head_block = b /\ Entered(r, data).head = h
        /\ Entered(r, data).ranges = rs
    BY <2>2
  <2> QED
    BY <2>3, <2>4, <2>5, Zenon
<1>2. Entered(r, data).tail = IF r.tail = WINDOW_SIZE - 1 THEN 0 ELSE r.tail + 1
  BY <1>1, Wrap DEF Window
<1>3. WINDOW_SIZE \in Nat /\ WINDOW_SIZE > 1
  BY UncryptAssumption
<1>4. Window(Entered(r, data))
  BY <1>1, <1>2, <1>3 DEF Window
<1> QED
  BY <1>1, <1>4

\* The window of a new run.
LEMMA FreshWindow == Fields(Locals) /\ Window(Locals)
  BY UncryptAssumption DEF Fields, Window, Locals

\* A block is read: first the head of a full window leaves, then there is room.
Room == IF WindowFull THEN WriteHead(u) ELSE u

\* ReadBlock makes room when the window is full, and then reads into it.
LEMMA ReadEnters ==
    ASSUME WindowType, ReadBlock
    PROVE  /\ Fields(Room) /\ Window(Room) /\ Room.pos = u.pos /\ Room.tail = u.tail
           /\ (Room.tail + 1) % WINDOW_SIZE # Room.head
           /\ WindowFull => u.head # u.tail
           /\ Fields(u') /\ Window(u') /\ u'.pos = u.pos + 1 /\ u'.head = Room.head
           /\ u'.head_block = Room.head_block /\ u'.ranges = Room.ranges
           /\ u'.buffers = [Room.buffers EXCEPT ![u.tail] =
                               IF encrypted THEN ReadFully(u.pos + 1) ELSE Garbage]
<1>1. Fields(u) /\ Window(u)
  BY LayoutLength DEF WindowType, Fields, Window
<1>2. /\ Fields(Room) /\ Window(Room) /\ Room.pos = u.pos /\ Room.tail = u.tail
      /\ (Room.tail + 1) % WINDOW_SIZE # Room.head
      /\ WindowFull => u.head # u.tail
  <2>1. CASE WindowFull
    <3>1. u.head # u.tail /\ (u.head + 1) % WINDOW_SIZE # u.head
      <4>1. WINDOW_SIZE \in Nat /\ WINDOW_SIZE > 1
        BY UncryptAssumption
      <4>2. u.head \in 0..(WINDOW_SIZE - 1) /\ u.tail \in 0..(WINDOW_SIZE - 1)
        BY <1>1 DEF Window
      <4>3. u.head = IF u.tail = WINDOW_SIZE - 1 THEN 0 ELSE u.tail + 1
        BY <2>1, <4>2, Wrap DEF WindowFull
      <4>4. (u.head + 1) % WINDOW_SIZE = IF u.head = WINDOW_SIZE - 1 THEN 0 ELSE u.head + 1
        BY <4>2, Wrap
      <4> QED
        BY <4>1, <4>2, <4>3, <4>4
    <3> QED
      BY <1>1, <2>1, <3>1, HeadLeaves DEF WindowFull, Room
  <2>2. CASE ~WindowFull
    BY <1>1, <2>2 DEF WindowFull, Room
  <2> QED
    BY <2>1, <2>2
<1>3. u' = [Room EXCEPT !.buffers[u.tail] = IF encrypted THEN ReadFully(u.pos + 1) ELSE Garbage,
                        !.pos = @ + 1, !.tail = (@ + 1) % WINDOW_SIZE]
  BY Zenon DEF ReadBlock, Room
<1> DEFINE data == IF encrypted THEN ReadFully(u.pos + 1) ELSE Garbage
<1>4. u' = Entered(Room, data)
  BY <1>2, <1>3 DEF Entered
<1> HIDE DEF data
<1>5. /\ Fields(Entered(Room, data)) /\ Window(Entered(Room, data))
      /\ Entered(Room, data).pos = Room.pos + 1 /\ Entered(Room, data).head = Room.head
      /\ Entered(Room, data).head_block = Room.head_block
      /\ Entered(Room, data).ranges = Room.ranges
      /\ Entered(Room, data).buffers = [Room.buffers EXCEPT ![Room.tail] = data]
  BY <1>2, BlockEnters, Zenon
<1>6. /\ Fields(u') /\ Window(u') /\ u'.pos = u.pos + 1 /\ u'.head = Room.head
      /\ u'.head_block = Room.head_block /\ u'.ranges = Room.ranges
      /\ u'.buffers = [Room.buffers EXCEPT ![u.tail] = data]
  BY <1>2, <1>4, <1>5, Zenon
<1> QED
  BY <1>2, <1>6, Zenon DEF data

\* Every step keeps the window within its bounds.
LEMMA WindowStep == WindowType /\ Next => WindowType'
<1> SUFFICES ASSUME WindowType, Next PROVE WindowType'
  OBVIOUS
<1>1. Fields(u) /\ Window(u) /\ u.pos <= Len(layout)
  BY LayoutLength DEF WindowType, Fields, Window
<1>2. ASSUME u' = Locals, UNCHANGED layout PROVE WindowType'
  <2>1. Len(layout) \in Nat
    BY LayoutLength DEF WindowType
  <2> QED
    BY <1>2, <2>1, FreshWindow, LocalsType DEF WindowType, Fields, Window
<1>3. CASE UNCHANGED <<u, upc, layout>>
  BY <1>3 DEF WindowType
<1>4. CASE Download
  <2>1. layout' \in Layouts /\ u' = Locals
    BY <1>4 DEF Download, WindowType
  <2>2. Len(layout') \in Nat
    BY <2>1, UncryptAssumption
  <2> QED
    BY <2>1, <2>2, FreshWindow, LocalsType DEF WindowType, Fields, Window
<1>5. CASE SyncDir \/ UncryptFails \/ StartUncrypt \/ UncryptPowerLoss
  BY <1>2, <1>5 DEF SyncDir, UncryptFails, StartUncrypt, UncryptPowerLoss, package
<1>6. CASE RemoveMap \/ WriteHeader \/ WriteRanges \/ FsyncMap \/ FsyncBlocks \/ RenameMap
  <2>1. UNCHANGED <<u, layout>> /\ upc' # "idle"
    BY <1>6 DEF RemoveMap, WriteHeader, WriteRanges, FsyncMap, FsyncBlocks, RenameMap, package
  <2> QED
    BY <2>1 DEF WindowType
<1>7. CASE DrainWindow
  <2>1. u' = WriteHead(u) /\ UNCHANGED <<layout, upc>> /\ upc # "idle" /\ u.head # u.tail
    BY <1>7 DEF DrainWindow, package
  <2>2. Fields(u') /\ Window(u') /\ u'.pos = u.pos
    BY <1>1, <2>1, HeadLeaves
  <2> QED
    BY <2>1, <2>2 DEF WindowType, Fields, Window
<1>8. CASE ReadBlock
  <2>1. Fields(u') /\ Window(u') /\ u'.pos = u.pos + 1
    BY <1>8, ReadEnters
  <2>2. u.pos < Len(layout) /\ UNCHANGED <<layout, upc>> /\ upc # "idle"
    BY <1>8 DEF ReadBlock, package
  <2>3. Len(layout) \in Nat
    BY LayoutLength DEF WindowType
  <2> QED
    BY <1>1, <2>1, <2>2, <2>3 DEF WindowType, Fields, Window
<1>9. CASE AndroidStep
  BY <1>4, <1>5, <1>6, <1>7, <1>8, <1>9 DEF AndroidStep, UncryptStep
<1>10. CASE Restart \/ Crash
  BY <1>3, <1>10 DEF Restart, Crash, uncryptVars
<1>11. CASE setup_bcb \/ clear_bcb \/ RequestFastboot \/ RequestScript \/ Run_CLI_Command
  BY <1>3, <1>11, Zenon
     DEF setup_bcb, clear_bcb, RequestFastboot, RequestScript, Run_CLI_Command, uncryptVars
<1>12. CASE RecoveryStep /\ ~Restart
  BY <1>3, <1>12
     DEF RecoveryStep, BootLoader, get_args, processRecoveryArgs, Clear_Bootloader_Message,
         FastbootPage, Decrypt_Page, process_recovery_mode, RunTmpScript, CopyScriptFile,
         UnlinkScriptFile, RunLine, EndScript, FinishScripts, uncryptVars
<1> QED
  BY <1>5, <1>9, <1>10, <1>11, <1>12 DEF Next, RebootToRecovery, HomeReboot, PowerLoss

\* The types of the run hold for any layout, window and number of steps.
LEMMA BootTypeOK == BootType => TypeOK
<1> SUFFICES ASSUME BootType PROVE TypeOK
  OBVIOUS
<1>1. \A s \in Seq(Options) : s \in Seq(Cmds)
  BY OptionsAreCmds
<1>2. bcb \in [command : {"none", "boot-recovery", "boot-fastboot"}, recovery : Seq(Cmds)]
  BY <1>1 DEF BootType, BcbType, Messages
<1>3. <<>> \in Seq(Cmds) /\ <<"script">> \in Seq(Cmds)
  BY DEF Cmds
<1>4. {args, script, orsFile, orsDisk, lines, asked, ran} \subseteq Seq(Cmds)
  BY <1>1, <1>3, Zenon DEF BootType, BcbType, ScriptType, Scripts
<1>5. {fastboot_mode, SkipDecryption, locked, encrypted, cached, reread,
       staleTail} \subseteq BOOLEAN
  BY Zenon DEF BootType, FlagType
<1>6. u.head_block \in 0..u.pos
  BY UncryptAssumption, LayoutLength DEF BootType, WindowType
<1> QED
  BY <1>2, <1>4, <1>5, <1>6 DEF BootType, FlagType, WindowType, TypeOK

-----------------------------------------------------------------------------
(* At most once.                                                           *)

\* What run_script_file has still to run, after a line.
LEMMA ReadyTail ==
    ASSUME BootType, lines # <<>>, Ready(lines)
    PROVE  /\ Head(lines) \in Extra =>
                 \A i \in DOMAIN Tail(lines) : \A j \in i..Len(Tail(lines)) : Tail(lines)[j] \in Extra
           /\ Head(lines) \notin Extra =>
                 /\ Len(ran) + 1 <= Len(asked) /\ Head(lines) = asked[Len(ran) + 1]
                 /\ \A i \in DOMAIN Tail(lines) :
                       \/ \A j \in i..Len(Tail(lines)) : Tail(lines)[j] \in Extra
                       \/ /\ Len(ran) + 1 + i <= Len(asked)
                          /\ Tail(lines)[i] = asked[Len(ran) + 1 + i]
<1>1. /\ lines \in Seq(Cmds) /\ ran \in Seq(Options) /\ asked \in Seq(Options)
      /\ Len(lines) \in Nat /\ Len(lines) > 0 /\ Len(ran) \in Nat /\ Len(asked) \in Nat
  BY DEF BootType, BcbType, ScriptType
<1>2. /\ Head(lines) = lines[1] /\ Len(Tail(lines)) = Len(lines) - 1
      /\ \A i \in 1..(Len(lines) - 1) : Tail(lines)[i] = lines[i + 1]
      /\ DOMAIN Tail(lines) = 1..(Len(lines) - 1) /\ DOMAIN lines = 1..Len(lines)
  BY <1>1
<1>3. \A i \in 1..Len(lines) :
         \/ \A j \in i..Len(lines) : lines[j] \in Extra
         \/ Len(ran) + i <= Len(asked) /\ lines[i] = asked[Len(ran) + i]
  BY <1>2 DEF Ready
<1>4. \A o \in Options : o \notin Extra
  BY DEF Options, Extra
<1>5. \A i \in 1..Len(asked) : asked[i] \in Options
  BY <1>1
<1>6. CASE Head(lines) \in Extra
  <2>1. \A j \in 1..Len(lines) : lines[j] \in Extra
    BY <1>1, <1>2, <1>3, <1>4, <1>5, <1>6
  <2> QED
    BY <1>1, <1>2, <1>6, <2>1
<1>7. CASE Head(lines) \notin Extra
  <2>1. Len(ran) + 1 <= Len(asked) /\ Head(lines) = asked[Len(ran) + 1]
    BY <1>1, <1>2, <1>3, <1>7
  <2>2. ASSUME NEW i \in 1..(Len(lines) - 1)
        PROVE  \/ \A j \in i..Len(Tail(lines)) : Tail(lines)[j] \in Extra
               \/ /\ Len(ran) + 1 + i <= Len(asked)
                  /\ Tail(lines)[i] = asked[Len(ran) + 1 + i]
    <3>1. i + 1 \in 1..Len(lines) /\ Len(ran) + (i + 1) = Len(ran) + 1 + i
      BY <1>1
    <3>2. CASE \A j \in (i + 1)..Len(lines) : lines[j] \in Extra
      BY <1>1, <1>2, <3>1, <3>2
    <3>3. CASE Len(ran) + (i + 1) <= Len(asked) /\ lines[i + 1] = asked[Len(ran) + (i + 1)]
      BY <1>1, <1>2, <3>1, <3>3
    <3> QED
      BY <1>3, <3>1, <3>2, <3>3
  <2> QED
    BY <1>2, <1>7, <2>1, <2>2
<1> QED
  BY <1>6, <1>7

\* A command of the twrp tool after the options.
LEMMA ReadyAppend == BootType /\ Ready(script) => Ready(Append(script, "cli"))
<1> SUFFICES ASSUME BootType, Ready(script) PROVE Ready(Append(script, "cli"))
  OBVIOUS
<1> DEFINE t == Append(script, "cli")
<1>1. /\ script \in Seq(Cmds) /\ Len(script) \in Nat /\ DOMAIN script = 1..Len(script)
      /\ Len(t) = Len(script) + 1 /\ DOMAIN t = 1..Len(t)
      /\ \A i \in 1..Len(script) : t[i] = script[i]
      /\ t[Len(t)] = "cli" /\ "cli" \in Extra
  BY DEF BootType, ScriptType, Extra
<1> HIDE DEF t
<1>2. SUFFICES ASSUME NEW i \in 1..Len(t)
               PROVE  \/ \A j \in i..Len(t) : t[j] \in Extra
                      \/ Len(ran) + i <= Len(asked) /\ t[i] = asked[Len(ran) + i]
  BY <1>1 DEF Ready, t
<1>3. CASE i = Len(t)
  BY <1>1, <1>3
<1>4. CASE i # Len(t)
  <2>1. i \in 1..Len(script)
    BY <1>1, <1>4
  <2>2. CASE \A j \in i..Len(script) : script[j] \in Extra
    BY <1>1, <2>1, <2>2
  <2>3. CASE Len(ran) + i <= Len(asked) /\ script[i] = asked[Len(ran) + i]
    BY <1>1, <2>1, <2>3
  <2> QED
    BY <1>1, <2>1, <2>2, <2>3 DEF Ready
<1> QED
  BY <1>3, <1>4

\* An option moves from args to the script.
LEMMA MoveHead ==
    ASSUME NEW S, NEW T, NEW s \in Seq(S), NEW t \in Seq(T), t # <<>>
    PROVE  Append(s, Head(t)) \o Tail(t) = s \o t
  OBVIOUS

\* The counters of the faults do not go back.
LEMMA FaultsGrow ==
    CountType /\ Next => /\ crashes' = 0 => crashes = 0
                         /\ losses' = 0 => losses = 0
                         /\ miscFails' = 0 => miscFails = 0
<1> SUFFICES ASSUME CountType, Next
             PROVE  crashes' \in {crashes, crashes + 1} /\ losses' \in {losses, losses + 1}
                    /\ miscFails' \in {miscFails, miscFails + 1}
  BY DEF CountType
<1> USE DEF faults
<1>1. CASE AndroidStep \/ Restart
  BY <1>1 DEF AndroidStep, boot, Restart
<1>2. CASE setup_bcb \/ clear_bcb \/ RequestFastboot \/ RequestScript \/ Run_CLI_Command
  BY <1>2, Zenon DEF setup_bcb, clear_bcb, RequestFastboot, RequestScript, Run_CLI_Command
<1>3. CASE Crash \/ PowerLoss \/ get_args \/ Clear_Bootloader_Message
  BY <1>3 DEF Crash, PowerLoss, get_args, Clear_Bootloader_Message, WriteMisc
<1>4. CASE RecoveryStep /\ ~Restart
  BY <1>3, <1>4
     DEF RecoveryStep, BootLoader, processRecoveryArgs, FastbootPage, Decrypt_Page,
         process_recovery_mode, RunTmpScript, CopyScriptFile, UnlinkScriptFile, RunLine, EndScript,
         FinishScripts
<1> QED
  BY <1>1, <1>2, <1>3, <1>4 DEF Next, RebootToRecovery, HomeReboot

\* No step runs an option twice or out of order, while nothing crashes.
LEMMA OptionsStep == BootType /\ BootType' /\ OptionsInv /\ Next => OptionsInv'
<1> SUFFICES ASSUME BootType, BootType', OptionsInv, Next, crashes' = 0, miscFails' = 0
             PROVE  OptionsOK'
  BY DEF OptionsInv
<1>0. OptionsOK
  BY FaultsGrow DEF OptionsInv, BootType
<1> USE DEF Starting, process, files, asking, running, faults, uncryptVars
\* An empty script is ready, and nothing is ready or not because of its place.
<1>1. ASSUME UNCHANGED <<bcb, ran, asked>>, script' = <<>>, mode' = "boot" PROVE OptionsOK'
  <2>1. bcb.recovery # <<>> => bcb.recovery = asked /\ ran = <<>>
    BY <1>0 DEF OptionsOK
  <2> QED
    BY <1>0, <1>1, <2>1 DEF OptionsOK
<1>2. ASSUME UNCHANGED <<bcb, ran, asked>>, bcb.recovery = <<>>, mode' \notin Starting \cup {"run"},
             Ready(script)'
      PROVE  OptionsOK'
  BY <1>0, <1>2 DEF OptionsOK
<1>3. ASSUME UNCHANGED <<bcb, ran, asked>>, bcb.recovery = <<>>, mode' = "run", Ready(lines)'
      PROVE  OptionsOK'
  BY <1>0, <1>3 DEF OptionsOK
<1>4. ASSUME UNCHANGED <<ran, asked>>, script' = <<>> PROVE Ready(script)'
  BY <1>4 DEF Ready
<1>5. CASE AndroidStep
  BY <1>0, <1>5 DEF AndroidStep, boot, OptionsOK, Ready
<1>6. CASE setup_bcb \/ clear_bcb \/ RequestFastboot \/ RequestScript
  <2>1. /\ mode = "android" /\ UNCHANGED <<mode, script>>
        /\ ran' = <<>> /\ (bcb'.recovery # <<>> => bcb'.recovery = asked')
    <3>1. CASE setup_bcb
      <4>1. PICK options \in {<<"install">>, <<"wipe data", "wipe cache">>} :
                bcb' = Bcb(options) /\ Ask(options)
        BY <3>1 DEF setup_bcb
      <4>2. bcb'.recovery = options /\ asked' = options /\ ran' = <<>>
        BY <4>1 DEF Bcb, Ask
      <4>3. mode = "android" /\ UNCHANGED <<mode, script>>
        BY <3>1 DEF setup_bcb, InAndroid
      <4> QED
        BY <4>2, <4>3
    <3>2. CASE clear_bcb \/ RequestFastboot \/ RequestScript
      BY <3>2 DEF clear_bcb, RequestFastboot, RequestScript, InAndroid, Ask, Bcb, NoBcb
    <3> QED
      BY <1>6, <3>1, <3>2
  <2>2. asked' \in Seq(Options)
    BY DEF BootType, BcbType
  <2> QED
    BY <1>0, <2>1, <2>2 DEF OptionsOK
<1>7. CASE Restart \/ PowerLoss
  BY <1>1, <1>7 DEF Restart, PowerLoss
<1>8. CASE BootLoader
  BY <1>0, <1>8 DEF BootLoader, OptionsOK
<1>9. CASE get_args
  <2>1. /\ mode = "main" /\ mode' = "insert" /\ UNCHANGED <<ran, asked, script>>
        /\ args' = bcb.recovery /\ bcb' = Bcb(bcb.recovery)
    BY <1>9 DEF get_args, WriteMisc, BootType, CountType
  <2>2. bcb'.recovery = bcb.recovery /\ script = <<>> /\ script \o args' = args'
    BY <1>0, <2>1 DEF Bcb, OptionsOK, BootType, BcbType
  <2> QED
    BY <1>0, <2>1, <2>2 DEF OptionsOK
<1>10. CASE processRecoveryArgs
  <2>1. /\ mode = "insert" /\ args # <<>> /\ UNCHANGED <<mode, bcb, ran, asked>>
        /\ script' = Append(script, Head(args)) /\ args' = Tail(args)
    BY <1>10 DEF processRecoveryArgs
  <2>2. script' \o args' = script \o args
    BY <2>1, MoveHead DEF BootType, BcbType, ScriptType
  <2> QED
    BY <1>0, <2>1, <2>2 DEF OptionsOK
<1>11. CASE Clear_Bootloader_Message
  <2>1. /\ mode = "insert" /\ args = <<>> /\ UNCHANGED <<script, ran, asked>>
        /\ mode' \in {"fastboot", "decrypt"} /\ bcb'.recovery = <<>>
    BY <1>11 DEF Clear_Bootloader_Message, WriteMisc, NoBcb, BootType, CountType
  <2>2. script \in Seq(Cmds) /\ asked \in Seq(Options)
    BY DEF BootType, ScriptType, BcbType
  <2>3. script = <<>> \/ (ran = <<>> /\ script = asked)
    BY <1>0, <2>1, <2>2 DEF OptionsOK
  <2>4. Ready(script)'
    BY <2>1, <2>2, <2>3 DEF Ready
  <2> QED
    BY <1>0, <2>1, <2>4 DEF OptionsOK
<1>12. CASE Decrypt_Page \/ process_recovery_mode \/ (FinishScripts /\ ~Restart)
  <2>1. /\ mode \notin Starting \cup {"run"} /\ mode' \notin Starting \cup {"run"}
        /\ UNCHANGED <<bcb, script, ran, asked>>
    BY <1>12 DEF Decrypt_Page, process_recovery_mode, FinishScripts
  <2> QED
    BY <1>0, <1>2, <2>1 DEF OptionsOK, Ready
<1>13. CASE RunTmpScript \/ UnlinkScriptFile
  <2>1. /\ mode \notin Starting \cup {"run"} /\ UNCHANGED <<bcb, script, ran, asked>>
        /\ mode' = "check" \/ (mode' = "run" /\ lines' = script)
    BY <1>13 DEF RunTmpScript, UnlinkScriptFile, OpenScript
  <2> QED
    BY <1>0, <1>2, <1>3, <2>1 DEF OptionsOK, Ready
<1>14. CASE CopyScriptFile
  <2>1. /\ mode = "check" /\ mode' \in {"copied", "finish"} /\ UNCHANGED <<bcb, ran, asked>>
        /\ script' = script \/ script' = orsFile
    BY <1>14 DEF CopyScriptFile
  <2>2. \A i \in DOMAIN orsFile : \A j \in i..Len(orsFile) : orsFile[j] \in Extra
    BY DEF BootType, ScriptType, Scripts, Extra
  <2> QED
    BY <1>0, <1>2, <2>1, <2>2 DEF OptionsOK, Ready
<1>15. CASE RunLine
  <2>1. /\ mode = "run" /\ lines # <<>> /\ lines' = Tail(lines) /\ UNCHANGED <<mode, bcb, asked>>
        /\ Head(lines) \in Extra => ran' = ran
        /\ Head(lines) \notin Extra => ran' = Append(ran, Head(lines))
    BY <1>15 DEF RunLine, Extra
  <2>2. Ready(lines) /\ bcb.recovery = <<>>
    BY <1>0, <2>1 DEF OptionsOK
  <2>3. CASE Head(lines) \in Extra
    <3>1. Ready(lines)'
      BY <2>1, <2>2, <2>3, ReadyTail DEF Ready
    <3> QED
      BY <1>3, <2>1, <2>2, <2>3, <3>1
  <2>4. CASE Head(lines) \notin Extra
    <3>1. /\ ran \in Seq(Options) /\ Len(ran) \in Nat /\ Len(asked) \in Nat
          /\ ran' = Append(ran, Head(lines)) /\ Len(ran') = Len(ran) + 1
          /\ DOMAIN ran' = 1..(Len(ran) + 1) /\ ran'[Len(ran) + 1] = Head(lines)
          /\ \A i \in 1..Len(ran) : ran'[i] = ran[i]
      <4>1. ran \in Seq(Options) /\ asked \in Seq(Options) /\ ran' = Append(ran, Head(lines))
        BY <2>1, <2>4 DEF BootType, BcbType
      <4> QED
        BY <4>1
    <3>2. Ready(lines)'
      BY <2>1, <2>2, <2>4, <3>1, ReadyTail DEF Ready
    <3>3. Len(ran') <= Len(asked) /\ \A i \in DOMAIN ran' : ran'[i] = asked[i]
      <4>1. Len(ran) + 1 <= Len(asked) /\ Head(lines) = asked[Len(ran) + 1]
        BY <2>1, <2>2, <2>4, ReadyTail
      <4>2. \A i \in 1..Len(ran) : ran[i] = asked[i]
        BY <1>0, <3>1 DEF OptionsOK
      <4> QED
        BY <3>1, <4>1, <4>2
    <3> QED
      BY <2>1, <2>2, <3>2, <3>3 DEF OptionsOK
  <2> QED
    BY <2>3, <2>4
<1>16. CASE EndScript
  <2>1. /\ mode = "run" /\ mode' \in {"check", "finish", "home"} /\ UNCHANGED <<bcb, ran, asked>>
        /\ script' = <<>>
    BY <1>16 DEF EndScript, BootType, FlagType
  <2> QED
    BY <1>0, <1>2, <1>4, <2>1 DEF OptionsOK
<1>17. CASE Run_CLI_Command
  <2>1. /\ mode = "home" /\ mode' = "run" /\ UNCHANGED <<bcb, ran, asked>>
        /\ lines' = Append(script, "cli")
    BY <1>17 DEF Run_CLI_Command, OpenScript
  <2> QED
    BY <1>0, <1>3, <2>1, ReadyAppend DEF OptionsOK, Ready
<1>18. CASE Crash
  BY <1>18 DEF Crash, BootType, CountType
<1> QED
  BY <1>5, <1>6, <1>7, <1>8, <1>9, <1>10, <1>11, <1>12, <1>13, <1>14, <1>15, <1>16, <1>17, <1>18
     DEF Next, RecoveryStep, RebootToRecovery, FastbootPage, HomeReboot, FinishScripts

\* No step runs the script in /cache twice, while nothing crashes.
LEMMA ScriptInvStep == BootType /\ ScriptInv /\ Next => ScriptInv'
<1> SUFFICES ASSUME BootType, ScriptInv, Next, crashes' = 0, losses' = 0
             PROVE  ScriptOK'
  BY DEF ScriptInv
<1>0. ScriptOK
  BY FaultsGrow DEF ScriptInv, BootType
<1> USE DEF process, files, asking, running, faults, uncryptVars
<1>1. ASSUME UNCHANGED <<ranScript, orsFile>>, mode' \notin {"copied", "run"}, NoScript(script)'
      PROVE  ScriptOK'
  BY <1>0, <1>1 DEF ScriptOK
<1>2. ASSUME UNCHANGED <<ranScript, orsFile>>, mode' = "run", NoScript(lines)' PROVE ScriptOK'
  BY <1>0, <1>2 DEF ScriptOK
<1>3. CASE AndroidStep
  BY <1>0, <1>3 DEF AndroidStep, boot, ScriptOK, NoScript
<1>4. CASE setup_bcb \/ clear_bcb \/ RequestFastboot \/ RequestScript
  <2>1. /\ mode = "android" /\ UNCHANGED <<mode, script>>
        /\ \/ UNCHANGED <<orsFile, ranScript>>
           \/ ranScript' = 0
    BY <1>4, Zenon DEF setup_bcb, clear_bcb, RequestFastboot, RequestScript, InAndroid, Ask
  <2> QED
    BY <1>0, <2>1 DEF ScriptOK, NoScript
<1>5. CASE Restart
  BY <1>1, <1>5 DEF Restart, NoScript
<1>6. CASE BootLoader \/ get_args \/ Clear_Bootloader_Message \/ Decrypt_Page
           \/ process_recovery_mode \/ (FinishScripts /\ ~Restart)
  <2>1. /\ mode \notin {"copied", "run"} /\ mode' \notin {"copied", "run"}
        /\ UNCHANGED <<ranScript, orsFile, script>>
    BY <1>6 DEF BootLoader, get_args, Clear_Bootloader_Message, Decrypt_Page,
                process_recovery_mode, FinishScripts
  <2> QED
    BY <1>0, <1>1, <2>1 DEF ScriptOK, NoScript
<1>7. CASE processRecoveryArgs
  <2>1. /\ mode = "insert" /\ UNCHANGED <<mode, ranScript, orsFile>> /\ args # <<>>
        /\ script' = Append(script, Head(args))
    BY <1>7 DEF processRecoveryArgs
  <2>2. Head(args) # "script"
    BY <2>1, HeadOf DEF BootType, BcbType, Options
  <2>3. NoScript(script)'
    BY <1>0, <2>1, <2>2 DEF ScriptOK, NoScript, BootType, ScriptType
  <2> QED
    BY <1>1, <2>1, <2>3
<1>8. CASE RunTmpScript
  <2>1. /\ mode = "action" /\ UNCHANGED <<ranScript, orsFile, script>>
        /\ mode' = "check" \/ (mode' = "run" /\ lines' = script)
    BY <1>8 DEF RunTmpScript, OpenScript
  <2> QED
    BY <1>0, <1>1, <1>2, <2>1 DEF ScriptOK, NoScript
<1>9. CASE CopyScriptFile
  <2>1. /\ mode = "check" /\ UNCHANGED <<ranScript, orsFile>>
        /\ \/ mode' = "finish" /\ script' = script
           \/ mode' = "copied" /\ orsFile # <<>> /\ script' = orsFile
    BY <1>9 DEF CopyScriptFile
  <2>2. orsFile # <<>> => orsFile = <<"script">>
    BY DEF BootType, ScriptType, Scripts
  <2> QED
    BY <1>0, <2>1, <2>2 DEF ScriptOK, NoScript
<1>10. CASE UnlinkScriptFile
  <2>1. /\ mode = "copied" /\ mode' = "run" /\ lines' = script /\ orsFile' = <<>>
        /\ UNCHANGED ranScript
    BY <1>10 DEF UnlinkScriptFile, OpenScript
  <2> QED
    BY <1>0, <2>1 DEF ScriptOK
<1>11. CASE RunLine
  <2>1. /\ mode = "run" /\ mode' = "run" /\ lines # <<>> /\ lines' = Tail(lines)
        /\ UNCHANGED orsFile
        /\ Head(lines) = "script" => ranScript' = ranScript + 1
        /\ Head(lines) # "script" => ranScript' = ranScript
    BY <1>11 DEF RunLine
  <2>2. lines \in Seq(Cmds)
    BY DEF BootType, ScriptType
  <2>3. CASE NoScript(lines)
    <3>1. Head(lines) # "script" /\ NoScript(Tail(lines))
      BY <2>1, <2>2, <2>3 DEF NoScript
    <3> QED
      BY <1>2, <2>1, <3>1 DEF NoScript
  <2>4. CASE lines = <<"script">> /\ ranScript = 0 /\ orsFile = <<>>
    <3>1. Head(lines) = "script" /\ Tail(lines) = <<>>
      BY <2>4
    <3> QED
      BY <2>1, <2>4, <3>1 DEF ScriptOK, NoScript
  <2> QED
    BY <1>0, <2>1, <2>3, <2>4 DEF ScriptOK
<1>12. CASE EndScript
  <2>1. /\ mode' \in {"check", "finish", "home"} /\ script' = <<>>
        /\ UNCHANGED <<ranScript, orsFile>>
    BY <1>12 DEF EndScript, BootType, FlagType
  <2> QED
    BY <1>1, <2>1 DEF NoScript
<1>13. CASE Run_CLI_Command
  <2>1. /\ mode = "home" /\ mode' = "run" /\ lines' = Append(script, "cli")
        /\ UNCHANGED <<ranScript, orsFile>>
    BY <1>13 DEF Run_CLI_Command, OpenScript
  <2>2. NoScript(lines)'
    BY <1>0, <2>1 DEF ScriptOK, NoScript, BootType, ScriptType
  <2> QED
    BY <1>2, <2>1, <2>2
<1>14. CASE Crash \/ PowerLoss
  BY <1>14 DEF Crash, PowerLoss, BootType, CountType
<1> QED
  BY <1>3, <1>4, <1>5, <1>6, <1>7, <1>8, <1>9, <1>10, <1>11, <1>12, <1>13, <1>14
     DEF Next, RecoveryStep, RebootToRecovery, FastbootPage, HomeReboot, FinishScripts

-----------------------------------------------------------------------------
(* The block map and the blocks of the package.                            *)

\* Outside Android and without a power loss, what uncrypt left is kept; a
\* restart makes it durable.
kept == <<encrypted, pkg, layout, raw, dir, upc, u, status, reread, staleTail>>

\* Only Android's steps and power losses change what uncrypt works on.
LEMMA UncryptFrame ==
    Next => \/ AndroidStep \/ PowerLoss
            \/ /\ UNCHANGED kept
               /\ UNCHANGED <<dirDisk, rawDisk>> \/ (dirDisk' = dir /\ rawDisk' = raw)
<1> SUFFICES ASSUME Next, ~AndroidStep, ~PowerLoss
             PROVE  UNCHANGED uncryptVars \/ (UNCHANGED kept /\ dirDisk' = dir /\ rawDisk' = raw)
  BY DEF uncryptVars, kept
<1>1. CASE Restart
  BY <1>1, Zenon DEF Restart, kept
<1>2. CASE setup_bcb \/ clear_bcb \/ RequestFastboot \/ RequestScript \/ Run_CLI_Command \/ Crash
  BY <1>2, Zenon DEF setup_bcb, clear_bcb, RequestFastboot, RequestScript, Run_CLI_Command, Crash
<1>3. CASE RecoveryStep /\ ~Restart
  BY <1>3, Zenon
     DEF RecoveryStep, BootLoader, get_args, processRecoveryArgs, Clear_Bootloader_Message,
         FastbootPage, Decrypt_Page, process_recovery_mode, RunTmpScript, CopyScriptFile,
         UnlinkScriptFile, RunLine, EndScript, FinishScripts
<1> QED
  BY <1>1, <1>2, <1>3 DEF Next, RebootToRecovery, HomeReboot

\* Lines written over lines are lines.
LEMMA OverwriteType ==
    ASSUME NEW S, NEW old \in Seq(S), NEW over \in Seq(S)
    PROVE  Overwrite(old, over) \in Seq(S)
<1>1. Len(old) \in Nat /\ Len(over) \in Nat
  OBVIOUS
<1>2. SubSeq(old, Len(over) + 1, Len(old)) \in Seq(S)
  BY <1>1
<1> QED
  BY <1>2 DEF Overwrite

\* What is left behind new lines is lines too.
LEMMA LeftType ==
    ASSUME NEW S, NEW old \in Seq(S), NEW over, NEW tail \in LeftBehind(old, over)
    PROVE  tail \in Seq(S)
<1>1. CASE tail = <<>>
  BY <1>1
<1>2. CASE Len(old) > 1 /\ tail = <<Last(old)>>
  <2>1. old[Len(old)] \in S
    <3>1. Len(old) \in Nat /\ Len(old) \in 1..Len(old)
      BY <1>2
    <3> QED
      BY <3>1
  <2> QED
    BY <1>2, <2>1 DEF Last
<1> QED
  BY <1>1, <1>2 DEF LeftBehind

\* The states of the directory.
LEMMA DirOf ==
    /\ \A m \in Seq(Line), t \in Seq(Line), b \in BOOLEAN :
          [map |-> m, tmp |-> t, synced |-> b] \in Dirs
    /\ \A d \in Dirs : /\ d.map \in Seq(Line) /\ d.tmp \in Seq(Line) /\ d.synced \in BOOLEAN
                       /\ d = [map |-> d.map, tmp |-> d.tmp, synced |-> d.synced]
  BY DEF Dirs

\* The updates of the directory, field by field.
LEMMA DirExcept ==
    ASSUME NEW d \in Dirs, NEW m, NEW t, NEW b
    PROVE  /\ [d EXCEPT !.map = m] = [map |-> m, tmp |-> d.tmp, synced |-> d.synced]
           /\ [d EXCEPT !.synced = b] = [map |-> d.map, tmp |-> d.tmp, synced |-> b]
           /\ [d EXCEPT !.map = m, !.tmp = t] = [map |-> m, tmp |-> t, synced |-> d.synced]
           /\ [d EXCEPT !.tmp = t, !.synced = b] = [map |-> d.map, tmp |-> t, synced |-> b]
<1>1. PICK m0, t0, b0 : d = [map |-> m0, tmp |-> t0, synced |-> b0]
  BY DirOf
<1>2. [d EXCEPT !.map = m] = [map |-> m, tmp |-> d.tmp, synced |-> d.synced]
  BY <1>1
<1>3. [d EXCEPT !.synced = b] = [map |-> d.map, tmp |-> d.tmp, synced |-> b]
  BY <1>1
<1>4. [d EXCEPT !.map = m, !.tmp = t] = [map |-> m, tmp |-> t, synced |-> d.synced]
  <2> DEFINE e == [d EXCEPT !.map = m, !.tmp = t]
  <2>1. e.map = m /\ e.tmp = t /\ e.synced = d.synced
    BY <1>1
  <2>2. e = [x \in {"map", "tmp", "synced"} |-> e[x]]
    BY <1>1
  <2> HIDE DEF e
  <2>3. e = [map |-> m, tmp |-> t, synced |-> d.synced]
    BY <2>1, <2>2
  <2> QED
    BY <2>3 DEF e
<1>5. [d EXCEPT !.tmp = t, !.synced = b] = [map |-> d.map, tmp |-> t, synced |-> b]
  <2> DEFINE e == [d EXCEPT !.tmp = t, !.synced = b]
  <2>1. e.map = d.map /\ e.tmp = t /\ e.synced = b
    BY <1>1
  <2>2. e = [x \in {"map", "tmp", "synced"} |-> e[x]]
    BY <1>1
  <2> HIDE DEF e
  <2>3. e = [map |-> d.map, tmp |-> t, synced |-> b]
    BY <2>1, <2>2
  <2> QED
    BY <2>3 DEF e
<1> QED
  BY <1>2, <1>3, <1>4, <1>5

\* A power loss leaves a synced file alone.
LEMMA TornType ==
    ASSUME NEW d \in Dirs, NEW f \in Seq(Line), NEW g \in Torn(d, f)
    PROVE  g \in Seq(Line) /\ (d.synced \/ f = None => g = f)
<1>1. SubSeq(f, 1, 1) \in Seq(Line) \/ f = None
  <2>1. f # None => Len(f) \in Nat /\ Len(f) >= 1
    BY DEF None
  <2> QED
    BY <2>1
<1>2. None \in Seq(Line)
  BY EmptySeq DEF None
<1> QED
  BY <1>1, <1>2 DEF Torn

\* The lines uncrypt writes.
MapOf(ranges) == Header \o << <<Len(ranges)>> >> \o ranges

\* What uncrypt writes to the map are lines.
LEMMA LinesType ==
    ASSUME Len(layout) \in Nat, NEW ranges \in Seq(Nat \X Nat)
    PROVE  Header \in Seq(Line) /\ MapOf(ranges) \in Seq(Line)
<1>1. <<Len(layout)>> \in Line /\ <<Len(ranges)>> \in Line
  BY DEF Line
<1>2. ranges \in Seq(Line)
  <2>1. ASSUME NEW k \in 1..Len(ranges) PROVE ranges[k] \in Line
    <3>1. ranges[k] \in Nat \X Nat
      OBVIOUS
    <3>2. PICK a \in Nat, b \in Nat : ranges[k] = <<a, b>>
      BY <3>1
    <3>3. <<a, b>> \in Seq(Nat)
      OBVIOUS
    <3> QED
      BY <3>2, <3>3 DEF Line
  <2> QED
    BY <2>1
<1>3. << <<Len(layout)>> >> \in Seq(Line) /\ << <<Len(ranges)>> >> \in Seq(Line)
  BY <1>1, SmallSeq
<1>4. Header \in Seq(Line)
  BY <1>3 DEF Header
<1>5. Header \o << <<Len(ranges)>> >> \in Seq(Line)
  BY <1>3, <1>4
<1> QED
  BY <1>2, <1>4, <1>5 DEF MapOf

\* The power fails: block.map is one of those before, or gone, and it is not
\* torn; a map that is visible and durable is kept.
LEMMA PowerLossDir ==
    ASSUME DirInv, UncryptPowerLoss
    PROVE  /\ dir' \in Dirs /\ dirDisk' = dir' /\ dir'.synced
           /\ dir'.map \in {dir.map, dirDisk.map, None}
           /\ dir.map = dirDisk.map => dir'.map = dir.map
<1>1. PICK d \in {dirDisk, dir, [dirDisk EXCEPT !.map = IF dir.map = None THEN None ELSE @]} :
        \E map \in Torn(d, d.map), tmp \in Torn(d, d.tmp) :
            dir' = [map |-> map, tmp |-> tmp, synced |-> TRUE]
  BY DEF UncryptPowerLoss
<1>2. PICK map \in Torn(d, d.map), tmp \in Torn(d, d.tmp) :
        dir' = [map |-> map, tmp |-> tmp, synced |-> TRUE]
  BY <1>1
<1>3. [dirDisk EXCEPT !.map = IF dir.map = None THEN None ELSE @]
        = [map |-> IF dir.map = None THEN None ELSE dirDisk.map,
           tmp |-> dirDisk.tmp, synced |-> dirDisk.synced]
  BY DirExcept DEF DirInv
<1>4. dir \in Dirs /\ dirDisk \in Dirs /\ None \in Seq(Line)
  BY EmptySeq DEF DirInv, None
<1>5. /\ d \in Dirs /\ d.map \in {dir.map, dirDisk.map, None}
      /\ dir.map = dirDisk.map => d.map = dir.map
  <2>1. CASE d = dir \/ d = dirDisk
    BY <1>4, <2>1
  <2>2. CASE d = [map |-> IF dir.map = None THEN None ELSE dirDisk.map,
                  tmp |-> dirDisk.tmp, synced |-> dirDisk.synced]
    <3>1. (IF dir.map = None THEN None ELSE dirDisk.map) \in Seq(Line)
      BY <1>4, DirOf
    <3>2. d \in Dirs
      BY <1>4, <2>2, <3>1, DirOf
    <3> QED
      BY <2>2, <3>2
  <2> QED
    BY <1>1, <1>3, <2>1, <2>2
<1>6. d.map # None => d.synced
  <2>1. CASE d = dir \/ d = dirDisk
    BY <2>1 DEF DirInv
  <2>2. CASE d = [map |-> IF dir.map = None THEN None ELSE dirDisk.map,
                  tmp |-> dirDisk.tmp, synced |-> dirDisk.synced]
    <3>1. d.synced = dirDisk.synced /\ (d.map # None => dirDisk.map # None)
      BY <2>2
    <3> QED
      BY <3>1 DEF DirInv
  <2> QED
    BY <1>1, <1>3, <2>1, <2>2
<1>7. d.map \in Seq(Line) /\ d.tmp \in Seq(Line)
  BY <1>5, DirOf
<1>8. map = d.map /\ map \in Seq(Line) /\ tmp \in Seq(Line)
  BY <1>5, <1>6, <1>7, TornType
<1>9. dir' \in Dirs /\ dir'.map = d.map /\ dir'.synced
  BY <1>2, <1>8, DirOf
<1>10. dirDisk' = dir'
  BY DEF UncryptPowerLoss
<1> QED
  BY <1>5, <1>9, <1>10

\* Every step keeps the directory in order: no map before it is synced.
LEMMA DirStep == WindowType /\ RangeInv /\ DirInv /\ Next => DirInv'
<1> SUFFICES ASSUME WindowType, RangeInv, DirInv, Next PROVE DirInv'
  OBVIOUS
<1>0. Len(layout) \in Nat /\ dir \in Dirs /\ dirDisk \in Dirs /\ None \in Seq(Line)
  BY LayoutLength, EmptySeq DEF WindowType, DirInv, None
<1> USE DEF package, notes, Steps
<1>1. CASE RemoveMap
  <2>1. dir' = [map |-> None, tmp |-> dir.tmp, synced |-> dir.synced]
    BY <1>0, <1>1, DirExcept DEF RemoveMap
  <2>2. dir' \in Dirs
    BY <1>0, <2>1, DirOf
  <2> QED
    BY <1>1, <2>1, <2>2 DEF RemoveMap, DirInv
<1>2. CASE WriteHeader
  <2>1. dir' = [map |-> dir.map, tmp |-> Overwrite(dir.tmp, Header), synced |-> FALSE]
    BY <1>0, <1>2, DirExcept DEF WriteHeader
  <2>2. Overwrite(dir.tmp, Header) \in Seq(Line)
    BY <1>0, DirOf, LinesType, OverwriteType DEF RangeInv
  <2>3. dir' \in Dirs
    BY <1>0, <2>1, <2>2, DirOf
  <2> QED
    BY <1>2, <2>1, <2>3 DEF WriteHeader, DirInv
<1>3. CASE ReadBlock \/ DrainWindow
  BY <1>3 DEF ReadBlock, DrainWindow, DirInv
<1>4. CASE WriteRanges
  <2>0. PICK tail \in LeftBehind(dir.tmp, MapOf(u.ranges)) :
            dir' = [dir EXCEPT !.tmp = MapOf(u.ranges) \o tail, !.synced = FALSE]
    BY <1>4, Zenon DEF WriteRanges, MapOf
  <2>1. dir' = [map |-> dir.map, tmp |-> MapOf(u.ranges) \o tail, synced |-> FALSE]
    BY <1>0, <2>0, DirExcept
  <2>2. MapOf(u.ranges) \o tail \in Seq(Line)
    <3>1. tail \in Seq(Line)
      BY <1>0, DirOf, LeftType
    <3> QED
      BY <1>0, <3>1, LinesType DEF RangeInv
  <2>3. dir' \in Dirs
    BY <1>0, <2>1, <2>2, DirOf
  <2> QED
    BY <1>4, <2>1, <2>3 DEF WriteRanges, DirInv
<1>5. CASE FsyncMap
  <2>1. dir' = [map |-> dir.map, tmp |-> dir.tmp, synced |-> TRUE]
    BY <1>0, <1>5, DirExcept DEF FsyncMap
  <2>2. dir' \in Dirs
    BY <1>0, <2>1, DirOf
  <2> QED
    BY <1>5, <2>1, <2>2 DEF FsyncMap, DirInv
<1>6. CASE FsyncBlocks
  BY <1>6 DEF FsyncBlocks, DirInv
<1>7. CASE RenameMap
  <2>1. dir' = [map |-> dir.tmp, tmp |-> None, synced |-> dir.synced]
    BY <1>0, <1>7, DirExcept DEF RenameMap
  <2>2. dir' \in Dirs
    BY <1>0, <2>1, DirOf
  <2> QED
    BY <1>7, <2>1, <2>2 DEF RenameMap, DirInv
<1>8. CASE SyncDir
  BY <1>8 DEF SyncDir, DirInv
<1>9. CASE UncryptFails \/ StartUncrypt
  BY <1>9 DEF UncryptFails, StartUncrypt, DirInv
<1>10. CASE Download
  BY <1>10 DEF Download, DirInv
<1>11. CASE AndroidStep
  BY <1>1, <1>2, <1>3, <1>4, <1>5, <1>6, <1>7, <1>8, <1>9, <1>10, <1>11
     DEF AndroidStep, UncryptStep
<1>12. CASE PowerLoss
  <2>1. UncryptPowerLoss
    BY <1>12 DEF PowerLoss
  <2>2. upc' = "idle" /\ UNCHANGED <<pkg, layout>>
    BY <2>1 DEF UncryptPowerLoss
  <2> QED
    BY <2>1, <2>2, PowerLossDir DEF DirInv
<1>13. CASE UNCHANGED kept /\ (UNCHANGED <<dirDisk, rawDisk>> \/ (dirDisk' = dir /\ rawDisk' = raw))
  BY <1>13 DEF kept, DirInv
<1> QED
  BY <1>11, <1>12, <1>13, UncryptFrame

\* A sequence with one element replaced.
LEMMA SeqExcept ==
    ASSUME NEW S, NEW s \in Seq(S), NEW i \in 1..Len(s), NEW e \in S
    PROVE  /\ [s EXCEPT ![i] = e] \in Seq(S) /\ Len([s EXCEPT ![i] = e]) = Len(s)
           /\ [s EXCEPT ![i] = e][i] = e
           /\ \A k \in 1..Len(s) : k # i => [s EXCEPT ![i] = e][k] = s[k]
  OBVIOUS

\* A range has a start and an end.
LEMMA PairOf ==
    ASSUME NEW p \in Nat \X Nat
    PROVE  \E a \in Nat, c \in Nat : p = <<a, c>>
OBVIOUS

\* add_block_to_ranges lists one more block.
LEMMA AddBlock ==
    ASSUME NEW ranges \in Seq(Nat \X Nat), NEW n \in Nat, layout[n + 1] \in Nat, Lists(ranges, n, layout)
    PROVE  /\ add_block_to_ranges(ranges, layout[n + 1]) \in Seq(Nat \X Nat)
           /\ Lists(add_block_to_ranges(ranges, layout[n + 1]), n + 1, layout)
<1> DEFINE b == layout[n + 1]
           len == Len(ranges)
<1>0. len \in Nat /\ DOMAIN ranges = 1..len /\ b \in Nat
  OBVIOUS
<1>1. PICK next \in [1..(len + 1) -> 0..n] :
       /\ next[1] = 0 /\ next[len + 1] = n
       /\ \A k \in 1..len : ListsAt(ranges[k], next[k], next[k + 1], layout)
  BY DEF Lists
<1> HIDE DEF b, len
<1>2. CASE len # 0 /\ b = ranges[len][2]
  <2> DEFINE R == [ranges EXCEPT ![len][2] = @ + 1]
             next2 == [next EXCEPT ![len + 1] = n + 1]
  <2>0. len \in 1..Len(ranges) /\ ranges \in Seq(Nat \X Nat)
    BY <1>0, <1>2 DEF len
  <2>1. PICK a \in Nat, c \in Nat : ranges[len] = <<a, c>>
    <3>1. ranges[len] \in Nat \X Nat
      BY <2>0
    <3> QED
      BY <3>1, PairOf
  <2>2. c = b /\ [ranges[len] EXCEPT ![2] = ranges[len][2] + 1] = <<a, b + 1>>
    BY <1>0, <1>2, <2>1
  <2>3. R = [ranges EXCEPT ![len] = <<a, b + 1>>]
    BY <1>0, <1>2, <2>2
  <2> HIDE DEF R
  <2>4. /\ R \in Seq(Nat \X Nat) /\ Len(R) = len /\ R[len] = <<a, b + 1>>
        /\ \A k \in 1..(len - 1) : R[k] = ranges[k]
    <3>1. <<a, b + 1>> \in Nat \X Nat /\ len \in 1..len
      BY <1>0, <1>2
    <3>2. /\ R \in Seq(Nat \X Nat) /\ Len(R) = len /\ R[len] = <<a, b + 1>>
          /\ \A k \in 1..len : k # len => R[k] = ranges[k]
      BY <2>3, <3>1, SeqExcept DEF len
    <3> QED
      BY <1>0, <3>2
  <2>5. /\ next2 \in [1..(len + 1) -> 0..(n + 1)] /\ next2[len + 1] = n + 1
        /\ \A k \in 1..len : next2[k] = next[k]
    BY <1>0, <1>1
  <2> HIDE DEF next2
  <2>6. ListsAt(R[len], next2[len], next2[len + 1], layout)
    <3>1. /\ a < b /\ n = next[len] + (b - a)
          /\ \A i \in 1..(b - a) : layout[next[len] + i] = a + i - 1
      <4>1. ListsAt(ranges[len], next[len], next[len + 1], layout)
        BY <1>0, <1>1, <1>2
      <4>2. ranges[len][1] = a /\ ranges[len][2] = b /\ next[len + 1] = n
        BY <1>1, <2>1, <2>2
      <4> QED
        BY <4>1, <4>2 DEF ListsAt, Size
    <3>2. next[len] \in Nat /\ next2[len] = next[len]
      BY <1>0, <1>1, <1>2, <2>5
    <3>3. /\ next[len] + (b + 1 - a) = n + 1 /\ a + (b + 1 - a) - 1 = b
          /\ a < b + 1 /\ n + 1 = next[len] + (b + 1 - a)
      <4> DEFINE f == next[len]
      <4>1. f \in Nat /\ a < b /\ n = f + (b - a)
        BY <3>1, <3>2
      <4> HIDE DEF f
      <4>2. f + (b + 1 - a) = n + 1 /\ a + (b + 1 - a) - 1 = b /\ a < b + 1
        BY <1>0, <4>1
      <4> QED
        BY <4>2 DEF f
    <3>4. \A i \in 1..(b + 1 - a) : layout[next[len] + i] = a + i - 1
      <4>1. layout[n + 1] = b
        BY DEF b
      <4>2. \A i \in 1..(b + 1 - a) : i \in 1..(b - a) \/ i = b + 1 - a
        BY <1>0, <3>1
      <4> QED
        BY <3>1, <3>3, <4>1, <4>2
    <3>5. R[len][1] = a /\ R[len][2] = b + 1 /\ next2[len + 1] = n + 1
      BY <2>4, <2>5
    <3> QED
      <4>1. Size(R[len]) = b + 1 - a
        BY <1>0, <3>5 DEF Size
      <4> QED
        BY <3>2, <3>3, <3>4, <3>5, <4>1, Zenon DEF ListsAt
  <2>7. ASSUME NEW k \in 1..len PROVE ListsAt(R[k], next2[k], next2[k + 1], layout)
    <3>1. CASE k = len
      BY <2>6, <3>1
    <3>2. CASE k # len
      <4>1. k \in 1..(len - 1) /\ k + 1 \in 1..len
        BY <1>0, <3>2
      <4>2. R[k] = ranges[k] /\ next2[k] = next[k] /\ next2[k + 1] = next[k + 1]
        BY <2>4, <2>5, <4>1
      <4> QED
        BY <1>1, <4>2
    <3> QED
      BY <3>1, <3>2
  <2>8. next2[1] = 0
    <3>1. 1 \in 1..len
      BY <1>0, <1>2
    <3> QED
      BY <1>1, <2>5, <3>1
  <2>9. Lists(R, n + 1, layout)
    BY <2>4, <2>5, <2>7, <2>8 DEF Lists
  <2>10. add_block_to_ranges(ranges, b) = R
    BY <1>0, <1>2 DEF add_block_to_ranges, Last, R, len
  <2> QED
    BY <2>4, <2>9, <2>10 DEF b
<1>3. CASE ~(len # 0 /\ b = ranges[len][2])
  <2> DEFINE R == Append(ranges, <<b, b + 1>>)
             next2 == [k \in 1..(len + 2) |-> IF k = len + 2 THEN n + 1 ELSE next[k]]
  <2>1. /\ R \in Seq(Nat \X Nat) /\ Len(R) = len + 1 /\ R[len + 1] = <<b, b + 1>>
        /\ \A k \in 1..len : R[k] = ranges[k]
    BY <1>0 DEF len
  <2>2. /\ next2 \in [1..(len + 2) -> 0..(n + 1)] /\ next2[len + 2] = n + 1
        /\ \A k \in 1..(len + 1) : next2[k] = next[k]
    BY <1>0, <1>1
  <2> HIDE DEF R, next2
  <2>3. ListsAt(R[len + 1], next2[len + 1], next2[len + 2], layout)
    <3>1. R[len + 1][1] = b /\ R[len + 1][2] = b + 1 /\ next2[len + 1] = n
      <4>1. len + 1 \in 1..(len + 1)
        BY <1>0
      <4>2. next2[len + 1] = n
        BY <1>1, <2>2, <4>1
      <4> QED
        BY <2>1, <4>2
    <3> QED
      <4>1. /\ b < b + 1 /\ n + 1 = n + (b + 1 - b) /\ b + 1 - 1 = b
            /\ \A i \in 1..(b + 1 - b) : i = 1
        BY <1>0
      <4>2. layout[n + 1] = b /\ b \in Nat
        BY <1>0 DEF b
      <4> HIDE DEF b
      <4>3. Size(R[len + 1]) = 1
        BY <3>1, <4>2 DEF Size
      <4>4. /\ R[len + 1][1] < R[len + 1][2]
            /\ next2[len + 2] = next2[len + 1] + Size(R[len + 1])
        BY <2>2, <3>1, <4>1, <4>3
      <4>5. ASSUME NEW i \in 1..Size(R[len + 1])
            PROVE  layout[next2[len + 1] + i] = R[len + 1][1] + i - 1
        <5>1. i = 1
          BY <4>3
        <5> QED
          BY <3>1, <4>1, <4>2, <5>1
      <4> QED
        BY <4>4, <4>5 DEF ListsAt
  <2>4. ASSUME NEW k \in 1..(len + 1) PROVE ListsAt(R[k], next2[k], next2[k + 1], layout)
    <3>1. CASE k = len + 1
      BY <1>0, <2>3, <3>1
    <3>2. CASE k # len + 1
      <4>1. k \in 1..len /\ k + 1 \in 1..(len + 1)
        BY <1>0, <3>2
      <4>2. R[k] = ranges[k] /\ next2[k] = next[k] /\ next2[k + 1] = next[k + 1]
        BY <2>1, <2>2, <4>1
      <4> QED
        BY <1>1, <4>1, <4>2
    <3> QED
      BY <3>1, <3>2
  <2>5. next2[1] = 0
    BY <1>0, <1>1, <2>2
  <2>6. Len(R) = len + 1 /\ Len(R) + 1 = len + 2
    BY <1>0, <2>1
  <2>7. Lists(R, n + 1, layout)
    <3>1. next2 \in [1..(Len(R) + 1) -> 0..(n + 1)] /\ next2[Len(R) + 1] = n + 1
      BY <2>2, <2>6
    <3>2. \A k \in 1..Len(R) : ListsAt(R[k], next2[k], next2[k + 1], layout)
      BY <2>4, <2>6
    <3> QED
      BY <2>5, <3>1, <3>2, Zenon DEF Lists
  <2>8. add_block_to_ranges(ranges, b) = R
    <3>1. ranges # <<>> => len # 0
      BY DEF len
    <3> QED
      BY <1>3, <3>1, Zenon DEF add_block_to_ranges, Last, R, len
  <2> QED
    BY <2>1, <2>7, <2>8 DEF b
<1> QED
  BY <1>2, <1>3

\* No ranges list no blocks.
LEMMA NoRanges == <<>> \in Seq(Nat \X Nat) /\ Lists(<<>>, 0, layout)
<1> DEFINE next == [k \in 1..(Len(<<>>) + 1) |-> 0]
<1>1. next \in [1..(Len(<<>>) + 1) -> 0..0] /\ next[1] = 0 /\ next[Len(<<>>) + 1] = 0
  OBVIOUS
<1>2. 1..Len(<<>>) = {}
  OBVIOUS
<1> HIDE DEF next
<1>3. Lists(<<>>, 0, layout)
  BY <1>1, <1>2, Zenon DEF Lists
<1> QED
  BY <1>3

\* WriteHead lists the block that leaves.
LEMMA HeadListed ==
    ASSUME WindowType, RangeInv, layout \in Layouts, u.head # u.tail
    PROVE  /\ WriteHead(u).ranges \in Seq(Nat \X Nat)
           /\ Lists(WriteHead(u).ranges, WriteHead(u).head_block, layout)
<1>1. Fields(u) /\ Window(u)
  BY LayoutLength DEF WindowType, Fields, Window
<1>2. /\ WriteHead(u).head_block = u.head_block + 1
      /\ WriteHead(u).ranges = add_block_to_ranges(u.ranges, layout[u.head_block + 1])
  BY <1>1, HeadLeaves
<1>3. layout \in Seq(Disk) /\ Disk \subseteq Nat /\ WINDOW_SIZE \in Nat
  BY UncryptAssumption
<1>4. u.head_block \in Nat /\ u.head_block + 1 \in 1..Len(layout)
  <2>1. /\ u.head \in 0..(WINDOW_SIZE - 1) /\ u.tail \in 0..(WINDOW_SIZE - 1)
        /\ u.pos \in 0..Len(layout) /\ u.head_block \in Nat
        /\ u.pos - u.head_block = IF u.head <= u.tail THEN u.tail - u.head
                                  ELSE u.tail - u.head + WINDOW_SIZE
    BY DEF WindowType
  <2>2. Len(layout) \in Nat
    BY <1>3
  <2> QED
    BY <1>3, <2>1, <2>2
<1>5. layout[u.head_block + 1] \in Nat
  BY <1>3, <1>4, ElementOf
<1> QED
  BY <1>2, <1>4, <1>5, AddBlock DEF RangeInv

\* Every step keeps the ranges a list of the blocks written so far.
LEMMA RangeStep == WindowType /\ DirInv /\ RangeInv /\ Next => RangeInv'
<1> SUFFICES ASSUME WindowType, DirInv, RangeInv, Next PROVE RangeInv'
  OBVIOUS
<1> USE DEF package, notes
<1>1. ASSUME u' = Locals, upc' \in {"idle", "remove"} PROVE RangeInv'
  <2>1. u'.ranges = <<>> /\ u'.head_block = 0
    BY <1>1 DEF Locals
  <2>2. Lists(<<>>, 0, layout)'
    BY NoRanges DEF Lists, ListsAt
  <2> QED
    BY <1>1, <2>1, <2>2, NoRanges DEF RangeInv
<1>2. CASE UNCHANGED <<u, layout, upc>>
  BY <1>2 DEF RangeInv
<1>3. CASE Download
  <2>1. u' = Locals /\ upc' = "idle"
    BY <1>3 DEF Download, WindowType
  <2> QED
    BY <1>1, <2>1
<1>4. CASE SyncDir \/ UncryptFails \/ StartUncrypt \/ PowerLoss
  <2>1. u' = Locals /\ upc' \in {"idle", "remove"}
    BY <1>4 DEF SyncDir, UncryptFails, StartUncrypt, PowerLoss, UncryptPowerLoss
  <2> QED
    BY <1>1, <2>1
<1>5. CASE RemoveMap \/ WriteHeader \/ FsyncMap \/ FsyncBlocks \/ RenameMap
  <2>1. UNCHANGED <<u, layout>>
    BY <1>5 DEF RemoveMap, WriteHeader, FsyncMap, FsyncBlocks, RenameMap
  <2>2. \/ upc' \in {"header", "loop"}
        \/ upc \in {"fsyncMap", "fsyncBlocks", "rename"}
    BY <1>5 DEF RemoveMap, WriteHeader, FsyncMap, FsyncBlocks, RenameMap
  <2> QED
    BY <2>1, <2>2 DEF RangeInv
<1>6. CASE WriteRanges
  <2>1. UNCHANGED <<u, layout>> /\ u.pos = Len(layout) /\ u.head = u.tail
    BY <1>6 DEF WriteRanges
  <2>2. u.head_block = Len(layout)
    BY <2>1, LayoutLength, UncryptAssumption DEF WindowType
  <2> QED
    BY <2>1, <2>2 DEF RangeInv
<1>7. CASE DrainWindow
  <2>1. UNCHANGED <<layout, upc>> /\ upc = "loop" /\ u' = WriteHead(u) /\ u.head # u.tail
    BY <1>7 DEF DrainWindow
  <2>2. layout \in Layouts
    BY <2>1 DEF DirInv
  <2> QED
    BY <2>1, <2>2, HeadListed DEF RangeInv
<1>8. CASE ReadBlock
  <2>1. UNCHANGED <<layout, upc>> /\ upc = "loop"
    BY <1>8 DEF ReadBlock
  <2>2. layout \in Layouts
    BY <2>1 DEF DirInv
  <2>3. u'.ranges = Room.ranges /\ u'.head_block = Room.head_block
    BY <1>8, ReadEnters
  <2>4. Room.ranges \in Seq(Nat \X Nat) /\ Lists(Room.ranges, Room.head_block, layout)
    BY <1>8, <2>2, ReadEnters, HeadListed DEF Room, RangeInv
  <2>5. u'.ranges \in Seq(Nat \X Nat) /\ Lists(u'.ranges, u'.head_block, layout)
    BY <2>3, <2>4
  <2> QED
    BY <2>1, <2>5 DEF RangeInv
<1>9. CASE AndroidStep
  BY <1>3, <1>4, <1>5, <1>6, <1>7, <1>8, <1>9 DEF AndroidStep, UncryptStep
<1> QED
  BY <1>2, <1>4, <1>9, UncryptFrame DEF kept

\* The ranges of a map.
RangesOf(map) == [k \in 1..(Len(map) - 2) |-> map[k + 2]]

\* The recovery can parse a complete map.
LEMMA WholeParses ==
    ASSUME NEW map \in Seq(Line), Len(layout) \in Nat, Whole(map, layout)
    PROVE  map # None /\ Parses(map)
<1> DEFINE ranges == RangesOf(map)
           len == Len(map) - 2
<1>1. len \in Nat /\ len > 0 /\ Len(map) = 2 + len
  BY DEF Whole
<1>2. /\ Len(ranges) = len
      /\ \A k \in 1..len : ranges[k] = map[k + 2]
  BY <1>1 DEF RangesOf
<1>3. map[1][1] = Len(layout) /\ map[2] = <<len>>
  BY DEF Whole
<1>4. Lists(ranges, Len(layout), layout) /\ \A k \in 3..Len(map) : map[k] \in Nat \X Nat
  BY DEF Whole, RangesOf
<1> HIDE DEF ranges, len
<1>5. PICK next \in [1..(len + 1) -> 0..Len(layout)] :
       /\ next[1] = 0 /\ next[len + 1] = Len(layout)
       /\ \A k \in 1..len : ListsAt(ranges[k], next[k], next[k + 1], layout)
  BY <1>2, <1>4 DEF Lists
<1>6. next \in Nexts(map) /\ Len(map) - 1 = len + 1
  BY <1>1, <1>3, <1>5 DEF Nexts
<1>7. \A k \in 1..len : next[k + 1] = next[k] + RangeSize(map, k) /\ map[k + 2][1] < map[k + 2][2]
  BY <1>2, <1>5 DEF ListsAt, Size, RangeSize
<1>8. MapBlockFile(map, next)
  BY <1>1, <1>3, <1>5, <1>6, <1>7 DEF MapBlockFile, len
<1>9. ASSUME NEW k \in 3..Len(map) PROVE Len(map[k]) = 2 /\ map[k][1] < map[k][2]
  <2>1. map[k] \in Nat \X Nat
    BY <1>4
  <2>2. k - 2 \in 1..len /\ (k - 2) + 2 = k
    BY <1>1
  <2> QED
    BY <1>7, <2>1, <2>2
<1>10. Len(map[2]) = 1 /\ map[2][1] = len
  BY <1>3
<1>11. \E n \in Nexts(map) : MapBlockFile(map, n)
  BY <1>6, <1>8
<1>12. Len(map) >= 3 /\ map[2][1] > 0 /\ Len(map) = 2 + map[2][1]
  BY <1>1, <1>10
<1> QED
  BY <1>9, <1>10, <1>11, <1>12 DEF Parses, None

\* What uncrypt writes at the end is a complete map.
LEMMA WrittenWhole ==
    ASSUME layout \in Layouts, NEW ranges \in Seq(Nat \X Nat), Lists(ranges, Len(layout), layout)
    PROVE  Whole(MapOf(ranges), layout)
<1> DEFINE map == MapOf(ranges)
           len == Len(ranges)
<1>1. Len(layout) \in Nat /\ Len(layout) > 0 /\ len \in Nat
  BY UncryptAssumption
<1>2. len > 0
  <2>1. PICK next \in [1..(len + 1) -> 0..Len(layout)] : next[1] = 0 /\ next[len + 1] = Len(layout)
    BY DEF Lists
  <2> QED
    BY <1>1, <2>1
<1>3. /\ Len(map) = 2 + len /\ map[1] = <<Len(layout)>> /\ map[2] = <<len>>
      /\ \A k \in 1..len : map[k + 2] = ranges[k]
  BY <1>1 DEF MapOf, Header
<1> HIDE DEF map
<1>4. Len(map) - 2 = len /\ Len(map) >= 3
  BY <1>1, <1>2, <1>3
<1>5. RangesOf(map) = ranges
  <2>1. ranges = [k \in 1..len |-> ranges[k]]
    OBVIOUS
  <2> QED
    BY <1>3, <1>4, <2>1 DEF RangesOf
<1>6. ASSUME NEW k \in 3..Len(map) PROVE map[k] \in Nat \X Nat
  <2>1. k - 2 \in 1..len /\ (k - 2) + 2 = k
    BY <1>1, <1>3
  <2>2. map[k] = ranges[k - 2]
    BY <1>3, <2>1
  <2> QED
    BY <2>1, <2>2, ElementOf
<1>7. Whole(map, layout)
  BY <1>3, <1>4, <1>5, <1>6 DEF Whole, RangesOf
<1> QED
  BY <1>7 DEF map

\* Every step keeps the maps whole, where no tail of an older one is left.
LEMMA MapStep == WindowType /\ DirInv /\ RangeInv /\ MapInv /\ Next => MapInv'
<1> SUFFICES ASSUME WindowType, DirInv, RangeInv, MapInv, Next PROVE MapInv'
  OBVIOUS
<1>0. dir \in Dirs /\ dirDisk \in Dirs /\ dir.tmp \in Seq(Line) /\ dir.map \in Seq(Line)
      /\ Len(layout) \in Nat
  BY DirOf, LayoutLength DEF DirInv, WindowType
<1> USE DEF package, notes
<1>1. CASE RemoveMap
  <2>1. dir'.map = None /\ upc' = "header" /\ UNCHANGED <<dirDisk, staleTail>>
    BY <1>0, <1>1, DirExcept DEF RemoveMap
  <2> QED
    BY <2>1 DEF MapInv
<1>2. CASE WriteHeader
  <2>1. dir'.map = dir.map /\ upc' = "loop" /\ UNCHANGED <<dirDisk, staleTail>>
    BY <1>0, <1>2, DirExcept DEF WriteHeader
  <2> QED
    BY <2>1 DEF MapInv
<1>3. CASE ReadBlock \/ DrainWindow
  <2>1. UNCHANGED <<dir, dirDisk, staleTail>> /\ upc' = "loop"
    BY <1>3 DEF ReadBlock, DrainWindow
  <2> QED
    BY <2>1 DEF MapInv
<1>4. CASE WriteRanges
  <2>0. PICK tail \in LeftBehind(dir.tmp, MapOf(u.ranges)) :
            /\ dir' = [dir EXCEPT !.tmp = MapOf(u.ranges) \o tail, !.synced = FALSE]
            /\ staleTail' = (staleTail \/ tail # <<>>)
    BY <1>4, Zenon DEF WriteRanges, MapOf
  <2>1. dir'.map = dir.map /\ dir'.tmp = MapOf(u.ranges) \o tail
    BY <1>0, <2>0, DirExcept
  <2>2. /\ upc = "loop" /\ upc' = "fsyncMap" /\ UNCHANGED <<dirDisk, layout>>
        /\ u.pos = Len(layout) /\ u.head = u.tail
    BY <1>4 DEF WriteRanges
  <2>3. layout \in Layouts
    BY <2>2 DEF DirInv
  <2>4. u.head_block = Len(layout)
    BY <2>2, LayoutLength, UncryptAssumption DEF WindowType
  <2>5. Whole(MapOf(u.ranges), layout) /\ MapOf(u.ranges) \in Seq(Line)
    BY <1>0, <2>3, <2>4, WrittenWhole, LinesType DEF RangeInv
  <2>6. ~staleTail' => tail = <<>> /\ ~staleTail
    BY <2>0, Zenon
  <2>7. ~staleTail' => dir'.tmp = MapOf(u.ranges)
    BY <2>1, <2>5, <2>6
  <2>8. ~staleTail' => Whole(dir.tmp, layout)'
    BY <2>2, <2>5, <2>7 DEF Whole
  <2> QED
    BY <2>1, <2>2, <2>6, <2>8 DEF MapInv
<1>5. CASE FsyncMap
  <2>1. /\ dir'.map = dir.map /\ dir'.tmp = dir.tmp /\ dirDisk' = dir'
        /\ upc = "fsyncMap" /\ upc' = "fsyncBlocks" /\ UNCHANGED <<layout, staleTail>>
    BY <1>0, <1>5, DirExcept DEF FsyncMap
  <2> QED
    BY <2>1 DEF MapInv
<1>6. CASE FsyncBlocks
  BY <1>6 DEF FsyncBlocks, MapInv
<1>7. CASE RenameMap
  <2>1. /\ dir'.map = dir.tmp /\ upc = "rename" /\ upc' = "syncDir"
        /\ UNCHANGED <<dirDisk, layout, staleTail>>
    BY <1>0, <1>7, DirExcept DEF RenameMap
  <2>2. ~staleTail => Whole(dir.tmp, layout) /\ Parses(dir.tmp)
    BY <1>0, <2>1, WholeParses DEF MapInv
  <2> QED
    BY <2>1, <2>2 DEF MapInv
<1>8. CASE SyncDir
  BY <1>8 DEF SyncDir, MapInv
<1>9. CASE UncryptFails \/ StartUncrypt
  BY <1>9 DEF UncryptFails, StartUncrypt, MapInv
<1>10. CASE Download
  BY <1>10 DEF Download, MapInv
<1>11. CASE AndroidStep
  BY <1>1, <1>2, <1>3, <1>4, <1>5, <1>6, <1>7, <1>8, <1>9, <1>10, <1>11
     DEF AndroidStep, UncryptStep
<1>12. CASE PowerLoss
  <2>1. UncryptPowerLoss
    BY <1>12 DEF PowerLoss
  <2>2. upc' = "idle" /\ UNCHANGED staleTail
    BY <2>1 DEF UncryptPowerLoss
  <2>3. dirDisk' = dir' /\ dir'.map \in {dir.map, dirDisk.map, None}
    BY <2>1, PowerLossDir
  <2> QED
    BY <2>2, <2>3 DEF MapInv
<1>13. CASE UNCHANGED kept /\ (UNCHANGED <<dirDisk, rawDisk>> \/ (dirDisk' = dir /\ rawDisk' = raw))
  BY <1>13 DEF kept, MapInv
<1> QED
  BY <1>11, <1>12, <1>13, UncryptFrame

\* The buffers of the window: the first block is at head, the next one to be
\* read goes to tail, and the others stay where they are.
LEMMA Slots ==
    ASSUME NEW r, Window(r)
    PROVE  /\ r.head # r.tail => Slot(r, r.head_block + 1) = r.head
           /\ Slot(r, r.pos + 1) = r.tail
           /\ \A i \in (r.head_block + 1)..r.pos :
                 Slot(r, i) \in 0..(WINDOW_SIZE - 1) /\ Slot(r, i) # r.tail
<1> DEFINE h == r.head
           t == r.tail
           b == r.head_block
           p == r.pos
<1>1. /\ h \in 0..(WINDOW_SIZE - 1) /\ t \in 0..(WINDOW_SIZE - 1) /\ p \in Nat /\ b \in Nat
      /\ p - b = IF h <= t THEN t - h ELSE t - h + WINDOW_SIZE
      /\ WINDOW_SIZE \in Nat /\ WINDOW_SIZE > 1
  BY UncryptAssumption DEF Window
<1>2. \A i : Slot(r, i) = IF h + i - b - 1 < WINDOW_SIZE THEN h + i - b - 1
                         ELSE (h + i - b - 1) - WINDOW_SIZE
  BY DEF Slot
<1> HIDE DEF h, t, b, p
<1>3. Slot(r, b + 1) = h
  BY <1>1, <1>2
<1>4. Slot(r, p + 1) = t
  BY <1>1, <1>2
<1>5. ASSUME NEW i \in (b + 1)..p
      PROVE  Slot(r, i) \in 0..(WINDOW_SIZE - 1) /\ Slot(r, i) # t
  BY <1>1, <1>2
<1> QED
  BY <1>3, <1>4, <1>5 DEF h, t, b, p

\* Writing the head does not move the other blocks of the window.
LEMMA SlotsKept ==
    ASSUME NEW r, NEW w, Window(r), r.head # r.tail,
           w.head = (r.head + 1) % WINDOW_SIZE, w.head_block = r.head_block + 1,
           NEW i \in (r.head_block + 2)..r.pos
    PROVE  Slot(w, i) = Slot(r, i)
<1> DEFINE h == r.head
           t == r.tail
           b == r.head_block
           p == r.pos
<1>1. /\ h \in 0..(WINDOW_SIZE - 1) /\ t \in 0..(WINDOW_SIZE - 1) /\ p \in Nat /\ b \in Nat
      /\ p - b = IF h <= t THEN t - h ELSE t - h + WINDOW_SIZE
      /\ WINDOW_SIZE \in Nat /\ WINDOW_SIZE > 1
  BY UncryptAssumption DEF Window
<1>2. w.head = (IF h = WINDOW_SIZE - 1 THEN 0 ELSE h + 1) /\ w.head_block = b + 1
  BY <1>1, Wrap
<1>3. /\ Slot(r, i) = IF h + i - b - 1 < WINDOW_SIZE THEN h + i - b - 1
                      ELSE (h + i - b - 1) - WINDOW_SIZE
      /\ Slot(w, i) = IF w.head + i - (b + 1) - 1 < WINDOW_SIZE THEN w.head + i - (b + 1) - 1
                      ELSE (w.head + i - (b + 1) - 1) - WINDOW_SIZE
  BY <1>2 DEF Slot
<1>4. i \in (b + 2)..p
  OBVIOUS
<1> HIDE DEF h, t, b, p
<1>5. CASE h = WINDOW_SIZE - 1
  BY <1>1, <1>2, <1>3, <1>4, <1>5
<1>6. CASE h # WINDOW_SIZE - 1
  BY <1>1, <1>2, <1>3, <1>4, <1>6
<1> QED
  BY <1>5, <1>6

\* The blocks of a package are different blocks of the device.
LEMMA LayoutBlocks ==
    ASSUME layout \in Layouts
    PROVE  /\ Len(layout) \in Nat /\ DOMAIN layout = 1..Len(layout)
           /\ \A i \in 1..Len(layout) : layout[i] \in Disk
           /\ \A i, j \in 1..Len(layout) : layout[i] = layout[j] => i = j
<1>1. layout \in Seq(Disk) /\ \A i, j \in DOMAIN layout : layout[i] = layout[j] => i = j
  BY UncryptAssumption
<1> QED
  BY <1>1, ElementOf

\* The head of the window is written in clear to its place.
LEMMA HeadInClear ==
    ASSUME WindowType, DataInv, layout \in Layouts, u.head # u.tail
    PROVE  /\ DOMAIN HeadRaw = Disk
           /\ ~encrypted => HeadRaw = raw
           /\ encrypted /\ ~reread =>
                /\ \A i \in 1..WriteHead(u).head_block : HeadRaw[layout[i]] = Clear(pkg, i)
                /\ \A i \in (WriteHead(u).head_block + 1)..u.pos :
                      WriteHead(u).buffers[Slot(WriteHead(u), i)] = Clear(pkg, i)
<1>1. Fields(u) /\ Window(u) /\ u.pos <= Len(layout) /\ u.head_block < u.pos
  <2>1. Fields(u) /\ Window(u) /\ u.pos <= Len(layout)
    BY LayoutLength DEF WindowType, Fields, Window
  <2> QED
    BY <2>1, UncryptAssumption DEF Window
<1>2. /\ WriteHead(u).head = (u.head + 1) % WINDOW_SIZE
      /\ WriteHead(u).head_block = u.head_block + 1 /\ WriteHead(u).buffers = u.buffers
  BY <1>1, HeadLeaves
<1>3. u.head_block \in Nat /\ u.pos \in Nat /\ Len(layout) \in Nat
  BY <1>1, LayoutBlocks DEF Window
<1>4. CASE ~encrypted
  BY <1>4 DEF HeadRaw, DataInv
<1>5. CASE encrypted
  <2>1. HeadRaw = [raw EXCEPT ![layout[u.head_block + 1]] = u.buffers[u.head]]
    BY <1>5 DEF HeadRaw
  <2>2. DOMAIN HeadRaw = Disk /\ DOMAIN raw = Disk
    BY <2>1 DEF DataInv
  <2>3. ASSUME ~reread
        PROVE  /\ \A i \in 1..u.head_block : raw[layout[i]] = Clear(pkg, i)
               /\ \A i \in (u.head_block + 1)..u.pos : u.buffers[Slot(u, i)] = Clear(pkg, i)
    BY <1>5, <2>3 DEF DataInv
  <2>4. u.head_block + 1 \in 1..Len(layout) /\ u.head_block + 1 \in (u.head_block + 1)..u.pos
    BY <1>1, <1>3
  <2>5. ASSUME ~reread PROVE u.buffers[u.head] = Clear(pkg, u.head_block + 1)
    BY <1>1, <2>3, <2>4, <2>5, Slots
  <2>6. ASSUME ~reread, NEW i \in 1..(u.head_block + 1) PROVE HeadRaw[layout[i]] = Clear(pkg, i)
    <3>1. i \in 1..Len(layout)
      BY <1>1, <1>3
    <3>2. CASE i = u.head_block + 1
      BY <2>1, <2>2, <2>4, <2>5, <2>6, <3>2, LayoutBlocks
    <3>3. CASE i # u.head_block + 1
      <4>1. i \in 1..u.head_block /\ layout[i] # layout[u.head_block + 1]
        BY <1>3, <2>4, <3>1, <3>3, LayoutBlocks
      <4>2. HeadRaw[layout[i]] = raw[layout[i]]
        BY <2>1, <2>2, <3>1, <4>1, LayoutBlocks
      <4> QED
        BY <2>3, <2>6, <4>1, <4>2
    <3> QED
      BY <3>2, <3>3
  <2>7. ASSUME ~reread, NEW i \in (u.head_block + 2)..u.pos
        PROVE  u.buffers[Slot(WriteHead(u), i)] = Clear(pkg, i)
    <3>1. i \in (u.head_block + 1)..u.pos
      BY <1>3
    <3>2. Slot(WriteHead(u), i) = Slot(u, i)
      BY <1>1, <1>2, SlotsKept
    <3> QED
      BY <2>3, <2>7, <3>1, <3>2
  <2>8. (u.head_block + 1) + 1 = u.head_block + 2
    BY <1>3
  <2> QED
    BY <1>2, <1>5, <2>2, <2>6, <2>7, <2>8
<1> QED
  BY <1>4, <1>5

\* A block is read into the window.
LEMMA ReadInClear ==
    ASSUME WindowType, DataInv, layout \in Layouts, ReadBlock
    PROVE  DataInv'
<1>1. /\ UNCHANGED <<encrypted, pkg, layout, rawDisk, upc>> /\ upc = "loop"
      /\ raw' = (IF WindowFull THEN HeadRaw ELSE raw)
  BY DEF ReadBlock, package
<1> DEFINE data == IF encrypted THEN ReadFully(u.pos + 1) ELSE Garbage
<1>2. reread' = (reread \/ (encrypted /\ data = Garbage))
  BY Zenon DEF ReadBlock
<1>3. encrypted /\ ~reread' => ~reread /\ data = Clear(pkg, u.pos + 1)
  <2>1. encrypted => data \in {Clear(pkg, u.pos + 1), Garbage}
    BY Zenon DEF ReadFully
  <2> QED
    BY <1>2, <2>1
<1>4. /\ Window(Room) /\ Room.pos = u.pos /\ Room.tail = u.tail
      /\ WindowFull => u.head # u.tail
      /\ u'.pos = u.pos + 1 /\ u'.head = Room.head /\ u'.head_block = Room.head_block
      /\ u'.buffers = [Room.buffers EXCEPT ![u.tail] = data]
  BY ReadEnters
<1> HIDE DEF data
<1>5. Fields(u) /\ Window(u)
  BY LayoutLength DEF WindowType, Fields, Window
<1>6. /\ Room.buffers = u.buffers /\ DOMAIN raw' = Disk /\ (~encrypted => raw' = raw)
      /\ encrypted /\ ~reread =>
           /\ \A i \in 1..Room.head_block : raw'[layout[i]] = Clear(pkg, i)
           /\ \A i \in (Room.head_block + 1)..u.pos : Room.buffers[Slot(Room, i)] = Clear(pkg, i)
  <2>1. CASE WindowFull
    <3>1. raw' = HeadRaw /\ Room = WriteHead(u) /\ u.head # u.tail
      BY <1>1, <1>4, <2>1 DEF Room
    <3>2. WriteHead(u).buffers = u.buffers
      BY <1>5, <3>1, HeadLeaves
    <3> QED
      BY <3>1, <3>2, HeadInClear
  <2>2. CASE ~WindowFull
    BY <1>1, <2>2 DEF Room, DataInv
  <2> QED
    BY <2>1, <2>2
<1>7. \A i : Slot(u', i) = Slot(Room, i)
  BY <1>4 DEF Slot
<1>8. DOMAIN u'.buffers = 0..(WINDOW_SIZE - 1) /\ DOMAIN Room.buffers = 0..(WINDOW_SIZE - 1)
  BY <1>4, <1>6 DEF DataInv
<1>9. ASSUME encrypted, ~reread', NEW i \in (Room.head_block + 1)..(u.pos + 1)
      PROVE  u'.buffers[Slot(Room, i)] = Clear(pkg, i)
  <2>1. Room.head_block \in Nat /\ u.pos \in Nat /\ u.tail \in 0..(WINDOW_SIZE - 1)
    BY <1>4 DEF Window
  <2>2. CASE i = u.pos + 1
    <3>1. Slot(Room, i) = u.tail
      BY <1>4, <2>2, Slots
    <3> QED
      BY <1>3, <1>4, <1>8, <1>9, <2>1, <2>2, <3>1
  <2>3. CASE i # u.pos + 1
    <3>1. i \in (Room.head_block + 1)..u.pos /\ i \in (Room.head_block + 1)..Room.pos
      BY <1>4, <2>1, <2>3
    <3>2. Slot(Room, i) \in 0..(WINDOW_SIZE - 1) /\ Slot(Room, i) # u.tail
      BY <1>4, <3>1, Slots
    <3>3. u'.buffers[Slot(Room, i)] = Room.buffers[Slot(Room, i)]
      BY <1>4, <1>8, <3>2
    <3> QED
      BY <1>3, <1>6, <1>9, <3>1, <3>3
  <2> QED
    BY <2>2, <2>3
<1>10. /\ ~encrypted' => \A i \in DOMAIN layout' : /\ raw'[layout'[i]] = Clear(pkg', i)
                                                   /\ rawDisk'[layout'[i]] = Clear(pkg', i)
       /\ upc' \notin {"rename", "syncDir"} /\ DOMAIN rawDisk' = Disk
  BY <1>1, <1>6 DEF DataInv
<1>11. encrypted' /\ ~reread' =>
         /\ \A i \in 1..u'.head_block : raw'[layout'[i]] = Clear(pkg', i)
         /\ \A i \in (u'.head_block + 1)..u'.pos : u'.buffers[Slot(u', i)] = Clear(pkg', i)
  BY <1>1, <1>3, <1>4, <1>6, <1>7, <1>9
<1> QED
  BY <1>6, <1>8, <1>10, <1>11 DEF DataInv

\* Android stores a package: each block in its place.
LEMMA DownloadStores ==
    ASSUME DataInv, Download
    PROVE  /\ DOMAIN raw' = Disk /\ rawDisk' = raw'
           /\ ~encrypted => \A i \in DOMAIN layout' : raw'[layout'[i]] = Clear(pkg', i)
<1>1. PICK l \in Layouts :
        /\ layout' = l
        /\ raw' = [d \in Disk |->
              IF \E i \in DOMAIN l : l[i] = d
              THEN LET i == CHOOSE i \in DOMAIN l : l[i] = d
                   IN  IF encrypted THEN Cipher(pkg + 1, i) ELSE Clear(pkg + 1, i)
              ELSE raw[d]]
  BY Zenon DEF Download
<1>2. l \in Seq(Disk) /\ \A i, j \in DOMAIN l : l[i] = l[j] => i = j
  BY UncryptAssumption
<1>3. ASSUME ~encrypted, NEW i \in DOMAIN l PROVE raw'[l[i]] = Clear(pkg + 1, i)
  <2>1. l[i] \in Disk
    BY <1>2
  <2>2. (CHOOSE j \in DOMAIN l : l[j] = l[i]) = i
    BY <1>2
  <2>3. raw'[l[i]] = LET k == CHOOSE j \in DOMAIN l : l[j] = l[i]
                     IN  IF encrypted THEN Cipher(pkg + 1, k) ELSE Clear(pkg + 1, k)
    BY <1>1, <2>1
  <2> QED
    BY <1>3, <2>2, <2>3
<1>4. pkg' = pkg + 1 /\ rawDisk' = raw' /\ DOMAIN raw' = Disk
  BY <1>1 DEF Download
<1> QED
  BY <1>1, <1>3, <1>4

\* Every step keeps the blocks behind and in the window in clear.
LEMMA DataStep == WindowType /\ DirInv /\ DataInv /\ Next => DataInv'
<1> SUFFICES ASSUME WindowType, DirInv, DataInv, Next PROVE DataInv'
  OBVIOUS
<1> USE DEF package, notes
<1>1. u' = Locals => /\ u'.head_block = 0 /\ u'.pos = 0
                     /\ DOMAIN u'.buffers = 0..(WINDOW_SIZE - 1)
                     /\ 1..u'.head_block = {} /\ (u'.head_block + 1)..u'.pos = {}
  BY DEF Locals
<1>2. CASE RemoveMap \/ WriteHeader \/ WriteRanges \/ FsyncMap \/ RenameMap
  <2>1. /\ UNCHANGED <<raw, rawDisk, u, encrypted, reread, layout, pkg>>
        /\ upc' \in {"rename", "syncDir"} => upc \in {"rename", "syncDir"}
    BY <1>2, Zenon DEF RemoveMap, WriteHeader, WriteRanges, FsyncMap, RenameMap
  <2> QED
    BY <2>1 DEF DataInv, Slot
<1>3. CASE FsyncBlocks
  BY <1>3 DEF FsyncBlocks, DataInv, Slot
<1>4. CASE SyncDir \/ UncryptFails \/ StartUncrypt
  <2>1. /\ UNCHANGED <<raw, rawDisk, encrypted, layout, pkg>> /\ u' = Locals
        /\ upc' \in {"idle", "remove"}
    BY <1>4 DEF SyncDir, UncryptFails, StartUncrypt
  <2> QED
    BY <1>1, <2>1 DEF DataInv
<1>5. CASE Download
  <2>1. UNCHANGED encrypted /\ u' = Locals /\ upc' = "idle"
    BY <1>5 DEF Download, WindowType
  <2> QED
    BY <1>1, <1>5, <2>1, DownloadStores DEF DataInv
<1>6. CASE DrainWindow
  <2>1. /\ UNCHANGED <<encrypted, pkg, layout, rawDisk, upc, reread>> /\ upc = "loop"
        /\ raw' = HeadRaw /\ u' = WriteHead(u) /\ u.head # u.tail
    BY <1>6 DEF DrainWindow
  <2>2. layout \in Layouts
    BY <2>1 DEF DirInv
  <2>3. Fields(u) /\ Window(u)
    BY LayoutLength DEF WindowType, Fields, Window
  <2>4. u'.pos = u.pos /\ u'.buffers = u.buffers
    BY <2>1, <2>3, HeadLeaves
  <2>5. /\ DOMAIN raw' = Disk /\ DOMAIN rawDisk' = Disk
        /\ DOMAIN u'.buffers = 0..(WINDOW_SIZE - 1)
    BY <2>1, <2>2, <2>4, HeadInClear DEF DataInv
  <2>6. ~encrypted => \A i \in DOMAIN layout : /\ raw'[layout[i]] = Clear(pkg, i)
                                               /\ rawDisk[layout[i]] = Clear(pkg, i)
    BY <2>1, <2>2, HeadInClear DEF DataInv
  <2>7. encrypted /\ ~reread =>
         /\ \A i \in 1..u'.head_block : raw'[layout[i]] = Clear(pkg, i)
         /\ \A i \in (u'.head_block + 1)..u'.pos : u'.buffers[Slot(u', i)] = Clear(pkg, i)
    BY <2>1, <2>2, <2>4, HeadInClear
  <2> QED
    BY <2>1, <2>5, <2>6, <2>7 DEF DataInv
<1>7. CASE ReadBlock
  <2>1. layout \in Layouts
    BY <1>7 DEF ReadBlock, DirInv
  <2> QED
    BY <1>7, <2>1, ReadInClear
<1>8. CASE AndroidStep
  BY <1>2, <1>3, <1>4, <1>5, <1>6, <1>7, <1>8 DEF AndroidStep, UncryptStep
<1>9. CASE PowerLoss
  <2>1. /\ UNCHANGED <<encrypted, layout, pkg>> /\ u' = Locals /\ upc' = "idle" /\ rawDisk' = raw'
        /\ DOMAIN raw' = Disk /\ \A d \in Disk : raw'[d] \in {raw[d], rawDisk[d]}
    BY <1>9 DEF PowerLoss, UncryptPowerLoss
  <2>2. layout = <<>> \/ \A i \in DOMAIN layout : layout[i] \in Disk
    BY LayoutBlocks DEF WindowType
  <2>3. DOMAIN <<>> = {}
    OBVIOUS
  <2> QED
    BY <1>1, <2>1, <2>2, <2>3 DEF DataInv
<1>10. CASE UNCHANGED kept /\ (UNCHANGED <<dirDisk, rawDisk>> \/ (dirDisk' = dir /\ rawDisk' = raw))
  BY <1>10 DEF kept, DataInv, Slot
<1> QED
  BY <1>8, <1>9, <1>10, UncryptFrame

\* A wipe asks for no installation.
LEMMA WipesOnly == ~HasInstall(<<"wipe data", "wipe cache">>)
<1> DEFINE s == <<"wipe data", "wipe cache">>
<1>1. Len(s) = 2 /\ s[1] = "wipe data" /\ s[2] = "wipe cache" /\ DOMAIN s = 1..Len(s)
  OBVIOUS
<1> HIDE DEF s
<1>2. \A i \in DOMAIN s : i = 1 \/ i = 2
  <2>1. \A i \in 1..2 : i = 1 \/ i = 2
    OBVIOUS
  <2> QED
    BY <1>1, <2>1
<1>3. "wipe data" # "install" /\ "wipe cache" # "install"
  OBVIOUS
<1>4. ~HasInstall(s)
  BY <1>1, <1>2, <1>3 DEF HasInstall
<1> QED
  BY <1>4 DEF s

\* Where an installation may come from, outside Android.
LEMMA PendingFrom ==
    ASSUME BootType, Next, ~AndroidStep, Pending'
    PROVE  Pending \/ status = "100"
<1> USE DEF process, files, asking, running, faults, uncryptVars
<1>1. /\ args \in Seq(Options) /\ script \in Seq(Cmds)
      /\ \A i \in DOMAIN orsFile : orsFile[i] # "install"
  BY DEF BootType, BcbType, ScriptType, Scripts
<1>2. ~HasInstall(<<>>)
  BY DEF HasInstall
<1>3. CASE setup_bcb
  <2>1. PICK options \in {<<"install">>, <<"wipe data", "wipe cache">>} :
            /\ IF "install" = Head(options) THEN status = "100" ELSE pkg = 0
            /\ bcb' = Bcb(options)
    BY <1>3 DEF setup_bcb
  <2>2. bcb'.recovery = options /\ UNCHANGED <<args, script>>
    BY <1>3, <2>1 DEF setup_bcb, Bcb
  <2>3. CASE options = <<"install">>
    <3>1. Head(options) = "install"
      BY <2>3
    <3> QED
      BY <2>1, <3>1
  <2>4. CASE options = <<"wipe data", "wipe cache">>
    BY <2>2, <2>4, WipesOnly DEF Pending
  <2> QED
    BY <2>1, <2>3, <2>4
<1>4. CASE clear_bcb \/ RequestFastboot \/ RequestScript
  <2>1. bcb'.recovery = <<>> /\ UNCHANGED <<args, script>>
    BY <1>4 DEF clear_bcb, RequestFastboot, RequestScript, Bcb, NoBcb
  <2> QED
    BY <1>2, <2>1 DEF Pending
<1>5. CASE Restart \/ Crash \/ PowerLoss
  <2>1. UNCHANGED bcb /\ args' = <<>> /\ script' \in {<<>>, script}
    BY <1>5 DEF Restart, Crash, PowerLoss, Idle
  <2> QED
    BY <1>2, <2>1 DEF Pending
<1>6. CASE get_args
  <2>1. bcb'.recovery = bcb.recovery /\ args' \in {bcb.recovery, <<>>} /\ UNCHANGED script
    BY <1>6 DEF get_args, WriteMisc, Bcb
  <2> QED
    BY <1>2, <2>1 DEF Pending
<1>7. CASE processRecoveryArgs
  <2>1. /\ UNCHANGED bcb /\ args # <<>> /\ args' = Tail(args) /\ script' = Append(script, Head(args))
    BY <1>7 DEF processRecoveryArgs
  <2>2. HasInstall(args') => HasInstall(args)
    BY <1>1, <2>1 DEF HasInstall
  <2>3. HasInstall(script') => HasInstall(script) \/ HasInstall(args)
    <3>1. /\ Len(script) \in Nat /\ DOMAIN script = 1..Len(script)
          /\ DOMAIN script' = 1..(Len(script) + 1) /\ script'[Len(script) + 1] = args[1]
          /\ \A i \in 1..Len(script) : script'[i] = script[i]
          /\ 1 \in DOMAIN args
      BY <1>1, <2>1
    <3> QED
      BY <3>1 DEF HasInstall
  <2> QED
    BY <2>1, <2>2, <2>3 DEF Pending
<1>8. CASE Clear_Bootloader_Message
  <2>1. bcb'.recovery \in {bcb.recovery, <<>>} /\ UNCHANGED <<args, script>>
    BY <1>8 DEF Clear_Bootloader_Message, WriteMisc, NoBcb
  <2> QED
    BY <1>2, <2>1 DEF Pending
<1>9. CASE BootLoader \/ Decrypt_Page \/ process_recovery_mode \/ RunTmpScript \/ CopyScriptFile
           \/ UnlinkScriptFile \/ RunLine \/ EndScript \/ (FinishScripts /\ ~Restart)
  <2>1. UNCHANGED <<bcb, args>> /\ script' \in {<<>>, script, orsFile}
    BY <1>9 DEF BootLoader, Decrypt_Page, process_recovery_mode, RunTmpScript, CopyScriptFile,
                UnlinkScriptFile, RunLine, EndScript, FinishScripts
  <2>2. ~HasInstall(orsFile)
    BY <1>1 DEF HasInstall
  <2> QED
    BY <1>2, <2>1, <2>2 DEF Pending
<1>10. CASE Run_CLI_Command
  <2>1. UNCHANGED <<bcb, args>> /\ script' = Append(script, "cli")
    BY <1>10 DEF Run_CLI_Command
  <2>2. HasInstall(script') => HasInstall(script)
    BY <1>1, <2>1 DEF HasInstall
  <2> QED
    BY <2>1, <2>2 DEF Pending
<1> QED
  BY <1>3, <1>4, <1>5, <1>6, <1>7, <1>8, <1>9, <1>10
     DEF Next, RecoveryStep, RebootToRecovery, FastbootPage, HomeReboot, FinishScripts

\* Every boot starts without a script in /tmp.
LEMMA StartsEmpty ==
    ASSUME BootType, Next, mode \in {"android", "boot"} => script = <<>> /\ args = <<>>,
           mode' \in {"android", "boot"}
    PROVE  script' = <<>> /\ args' = <<>>
<1> USE DEF process, files, asking, running, faults, uncryptVars
<1>1. CASE AndroidStep \/ setup_bcb \/ clear_bcb \/ RequestFastboot \/ RequestScript \/ BootLoader
  <2>1. mode \in {"android", "boot"} /\ UNCHANGED <<script, args>>
    BY <1>1, Zenon DEF AndroidStep, boot, setup_bcb, clear_bcb, RequestFastboot, RequestScript,
                       InAndroid, BootLoader
  <2> QED
    BY <2>1
<1>2. CASE Restart \/ PowerLoss
  BY <1>2 DEF Restart, PowerLoss, Idle
<1>3. CASE Crash \/ get_args \/ processRecoveryArgs \/ Clear_Bootloader_Message \/ Decrypt_Page
  BY <1>3 DEF Crash, get_args, processRecoveryArgs, Clear_Bootloader_Message, Decrypt_Page
<1>4. CASE process_recovery_mode \/ RunTmpScript \/ CopyScriptFile \/ UnlinkScriptFile
           \/ Run_CLI_Command \/ (FinishScripts /\ ~Restart)
  BY <1>4 DEF process_recovery_mode, RunTmpScript, CopyScriptFile, UnlinkScriptFile,
              Run_CLI_Command, OpenScript, FinishScripts
<1>5. CASE RunLine
  BY <1>5 DEF RunLine
<1>6. CASE EndScript
  BY <1>6 DEF EndScript, BootType, FlagType
<1> QED
  BY <1>1, <1>2, <1>3, <1>4, <1>5, <1>6
     DEF Next, RecoveryStep, RebootToRecovery, FastbootPage, HomeReboot, FinishScripts

\* What an installation needs is prepared before it is asked for, and kept.
LEMMA InstallStep == BootType /\ MapsInv /\ Next => InstallInv'
<1> SUFFICES ASSUME BootType, MapsInv, Next PROVE InstallInv'
  OBVIOUS
<1>0. DirInv /\ RangeInv /\ MapInv /\ DataInv /\ InstallInv
  BY DEF MapsInv
<1>1. mode' \in {"android", "boot"} => script' = <<>> /\ args' = <<>>
  BY <1>0, StartsEmpty DEF InstallInv
<1>2. CASE AndroidStep
  <2>1. ~Pending'
    <3>1. bcb' = NoBcb /\ script' = <<>> /\ args' = <<>>
      BY <1>0, <1>2 DEF AndroidStep, boot, process, files, InstallInv
    <3> QED
      BY <3>1 DEF Pending, HasInstall, NoBcb
  <2>2. CASE SyncDir
    <3>1. /\ upc = "syncDir" /\ dirDisk' = dir /\ upc' = "idle"
          /\ UNCHANGED <<encrypted, pkg, layout, raw, rawDisk, dir, reread, staleTail>>
      BY <2>2 DEF SyncDir, package
    <3>2. ~reread => \A i \in DOMAIN layout : raw[layout[i]] = Clear(pkg, i)
      <4>1. layout \in Layouts /\ u.head_block = Len(layout)
        BY <1>0, <3>1 DEF DirInv, RangeInv
      <4> QED
        BY <1>0, <4>1, LayoutBlocks DEF DataInv
    <3>3. rawDisk = raw /\ (~staleTail => Whole(dir.map, layout))
      BY <1>0, <3>1 DEF DataInv, MapInv
    <3>4. ~reread /\ ~staleTail => Prepared'
      BY <3>1, <3>2, <3>3 DEF Prepared
    <3> QED
      BY <1>1, <3>1, <3>4 DEF InstallInv
  <2>3. CASE ~SyncDir
    <3>1. status' # "100"
      <4>1. UncryptStep => status' = status /\ upc # "idle"
        BY <2>3 DEF UncryptStep, RemoveMap, WriteHeader, ReadBlock, DrainWindow, WriteRanges,
                    FsyncMap, FsyncBlocks, RenameMap, notes
      <4>2. UncryptFails \/ StartUncrypt \/ Download => status' # "100"
        BY DEF UncryptFails, StartUncrypt, Download
      <4> QED
        BY <1>0, <1>2, <4>1, <4>2 DEF AndroidStep, InstallInv
    <3> QED
      BY <1>1, <2>1, <3>1 DEF InstallInv
  <2> QED
    BY <2>2, <2>3
<1>3. CASE PowerLoss /\ ~AndroidStep
  <2>1. UncryptPowerLoss
    BY <1>3 DEF PowerLoss
  <2>2. /\ UNCHANGED <<pkg, layout, reread, staleTail>> /\ status' = "none"
        /\ \A d \in Disk : raw'[d] \in {raw[d], rawDisk[d]}
        /\ rawDisk' = raw'
    BY <2>1 DEF UncryptPowerLoss
  <2>3. Prepared => Prepared'
    <3>1. SUFFICES ASSUME Prepared PROVE Prepared'
      OBVIOUS
    <3>2. dir'.map = dir.map /\ dirDisk' = dir'
      BY <1>0, <2>1, <3>1, PowerLossDir DEF Prepared
    <3>3. \A i \in DOMAIN layout : layout[i] \in Disk
      BY LayoutBlocks DEF BootType, WindowType
    <3> QED
      BY <2>2, <3>1, <3>2, <3>3 DEF Prepared
  <2>4. Pending' => Pending \/ status = "100"
    BY <1>3, PendingFrom
  <2> QED
    BY <1>0, <1>1, <2>2, <2>3, <2>4 DEF InstallInv
<1>4. CASE /\ ~AndroidStep /\ UNCHANGED kept
           /\ UNCHANGED <<dirDisk, rawDisk>> \/ (dirDisk' = dir /\ rawDisk' = raw)
  <2>1. Pending' => Pending \/ status = "100"
    BY <1>4, PendingFrom
  <2>2. Prepared => Prepared'
    BY <1>4 DEF kept, Prepared
  <2> QED
    BY <1>0, <1>1, <1>4, <2>1, <2>2 DEF InstallInv, kept
<1> QED
  BY <1>2, <1>3, <1>4, UncryptFrame

-----------------------------------------------------------------------------
(* The theorems.                                                           *)

\* The invariant holds at the beginning, ...
LEMMA BootInit == Init => BootInv
<1> SUFFICES ASSUME Init PROVE BootInv
  OBVIOUS
<1>1. FlagType /\ CountType /\ ScriptType
  <2>1. /\ fastboot_mode \in BOOLEAN /\ SkipDecryption \in BOOLEAN /\ locked \in BOOLEAN
        /\ encrypted \in BOOLEAN /\ cached \in BOOLEAN /\ reread \in BOOLEAN
        /\ staleTail \in BOOLEAN
    BY Zenon DEF Init, UncryptInit
  <2> QED
    BY <2>1 DEF Init, UncryptInit, FlagType, CountType, ScriptType, Modes, Scripts
<1>2. BcbType
  BY MessageOf, EmptySeq DEF Init, NoBcb, BcbType
<1>3. /\ u = Locals /\ upc = "idle" /\ layout = <<>> /\ Len(layout) = 0 /\ pkg = 0
      /\ status = "none" /\ dir = [map |-> None, tmp |-> None, synced |-> TRUE] /\ dirDisk = dir
  BY DEF Init, UncryptInit
<1>4. WindowType
  BY <1>3, FreshWindow, LocalsType DEF WindowType, Fields, Window
<1>5. OptionsInv /\ ScriptInv
  <2>1. /\ mode = "android" /\ bcb.recovery = <<>> /\ script = <<>> /\ orsFile = <<>>
        /\ asked = <<>> /\ ran = <<>> /\ ranScript = 0
    BY DEF Init, NoBcb
  <2>2. OptionsOK
    BY <2>1 DEF OptionsOK, Starting
  <2>3. ScriptOK
    BY <2>1 DEF ScriptOK, NoScript
  <2> QED
    BY <2>2, <2>3 DEF OptionsInv, ScriptInv
<1>6. DirInv
  <2>1. dir \in Dirs
    BY <1>3, DirOf, EmptySeq DEF None
  <2> QED
    BY <1>3, <2>1 DEF DirInv, Steps
<1>7. RangeInv
  <2>1. u.ranges = <<>> /\ u.head_block = 0
    BY <1>3 DEF Locals
  <2> QED
    BY <1>3, <2>1, NoRanges DEF RangeInv
<1>8. MapInv
  BY <1>3 DEF MapInv
<1>9. DataInv
  <2>1. /\ DOMAIN raw = Disk /\ rawDisk = raw
        /\ u.head_block = 0 /\ u.pos = 0 /\ DOMAIN u.buffers = 0..(WINDOW_SIZE - 1)
        /\ 1..u.head_block = {} /\ (u.head_block + 1)..u.pos = {} /\ DOMAIN layout = {}
    BY <1>3 DEF Init, UncryptInit, Locals
  <2> QED
    BY <1>3, <2>1 DEF DataInv
<1>10. InstallInv
  <2>1. ~Pending /\ script = <<>> /\ args = <<>>
    BY DEF Init, Pending, HasInstall, NoBcb
  <2> QED
    BY <1>3, <2>1 DEF InstallInv
<1> QED
  BY <1>1, <1>2, <1>4, <1>5, <1>6, <1>7, <1>8, <1>9, <1>10 DEF BootInv, BootType, MapsInv

\* ... and every step keeps it.
LEMMA BootStep == BootInv /\ [Next]_vars => BootInv'
<1> SUFFICES ASSUME BootInv, [Next]_vars PROVE BootInv'
  OBVIOUS
<1>1. CASE Next
  <2>1. BootType'
    BY <1>1, FlagStep, CountStep, BcbStep, ScriptStep, WindowStep DEF BootInv, BootType
  <2>2. OptionsInv' /\ ScriptInv'
    BY <1>1, <2>1, OptionsStep, ScriptInvStep DEF BootInv
  <2>3. DirInv' /\ RangeInv' /\ MapInv' /\ DataInv'
    BY <1>1, DirStep, RangeStep, MapStep, DataStep DEF BootInv, BootType, MapsInv
  <2>4. InstallInv'
    BY <1>1, InstallStep DEF BootInv
  <2> QED
    BY <2>1, <2>2, <2>3, <2>4 DEF BootInv, MapsInv
<1>2. CASE UNCHANGED vars
  <2> USE <1>2 DEF BootInv, vars, uncryptVars, process, files, asking, running, faults
  <2>1. BootType'
    BY DEF BootType, FlagType, CountType, BcbType, ScriptType, WindowType
  <2>2. OptionsInv' /\ ScriptInv'
    BY DEF OptionsInv, OptionsOK, Ready, ScriptInv, ScriptOK, NoScript
  <2>3. DirInv' /\ RangeInv' /\ MapInv'
    BY DEF MapsInv, DirInv, RangeInv, MapInv
  <2>4. DataInv'
    BY DEF MapsInv, DataInv, Slot
  <2>5. InstallInv'
    BY DEF MapsInv, InstallInv, Pending, HasInstall, Prepared
  <2> QED
    BY <2>1, <2>2, <2>3, <2>4, <2>5 DEF MapsInv
<1> QED
  BY <1>1, <1>2

\* Thus it always holds.
LEMMA BootInvHolds == Spec => []BootInv
  BY BootInit, BootStep, PTL DEF Spec

\* Types; among them, head and tail stay in the window and the blocks in it
\* are those of the package (ProductBlockMap).
THEOREM BootTypeCorrect == Spec => []TypeOK
<1>1. BootInv => TypeOK
  BY BootTypeOK DEF BootInv
<1> QED
  BY <1>1, BootInvHolds, PTL

\* startupArgs and Clear_Bootloader_Message: however often Android asks, what
\* it asked for in the BCB is executed in order and at most once, and the
\* script in /cache at most once, under the faults AtMostOnce allows.
THEOREM CommandsRunOnce == Spec => []AtMostOnce
<1>1. BootInv => AtMostOnce
  <2> SUFFICES ASSUME BootInv PROVE AtMostOnce
    OBVIOUS
  <2>1. crashes = 0 /\ miscFails = 0 => IsPrefix(ran, asked)
    <3>1. ran \in Seq(Options) /\ asked \in Seq(Options)
      BY DEF BootInv, BootType, BcbType
    <3>2. crashes = 0 /\ miscFails = 0 =>
             Len(ran) <= Len(asked) /\ \A i \in 1..Len(ran) : ran[i] = asked[i]
      BY <3>1 DEF BootInv, OptionsInv, OptionsOK
    <3> QED
      BY <3>1, <3>2 DEF IsPrefix
  <2>2. crashes = 0 /\ losses = 0 => ranScript <= 1
    BY DEF BootInv, ScriptInv, ScriptOK
  <2> QED
    BY <2>1, <2>2 DEF AtMostOnce
<1> QED
  BY <1>1, BootInvHolds, PTL

\* ProductBlockMap: whatever is interrupted and whatever the power loss leaves
\* of the journal, a file with the final name is a complete block map.
THEOREM MapIsComplete == Spec => []MapCompleteOrAbsent
<1>1. BootInv => MapCompleteOrAbsent
  BY DEF BootInv, MapsInv, MapInv, MapCompleteOrAbsent
<1> QED
  BY <1>1, BootInvHolds, PTL

\* uncrypt_wrapper, setup_bcb and MapBlockFile: for every package, layout and
\* window, an installation in the BCB or in the script finds the package.
THEOREM InstallFindsThePackage == Spec => []InstallReadsThePackage
<1>1. BootInv => InstallReadsThePackage
  <2> SUFFICES ASSUME BootInv, InstallPending, ~reread, ~staleTail
               PROVE  Parses(dir.map) /\ ReadsThroughMap(dir.map, PackageInClear)
    BY DEF InstallReadsThePackage
  <2>1. Pending
    <3>1. bcb.recovery \in Seq(Options)
      BY MessageOf DEF BootInv, BootType, BcbType
    <3>2. bcb.recovery # <<>> /\ Head(bcb.recovery) = "install" => HasInstall(bcb.recovery)
      BY <3>1 DEF HasInstall
    <3> QED
      BY <3>2 DEF InstallPending, Pending, HasInstall
  <2>2. Prepared
    BY <2>1 DEF BootInv, MapsInv, InstallInv
  <2> DEFINE map == dir.map
  <2>3. Whole(map, layout) /\ map \in Seq(Line) /\ Len(layout) \in Nat
    BY <2>2, DirOf, LayoutLength
       DEF Prepared, BootInv, BootType, WindowType, MapsInv, DirInv
  <2>4. Parses(map)
    BY <2>3, WholeParses
  <2>5. ReadsThroughMap(map, PackageInClear)
    <3>1. DOMAIN layout = 1..Len(layout)
      BY LayoutBlocks DEF BootInv, BootType, WindowType
    <3>2. /\ Len(PackageInClear) = Len(layout)
          /\ \A i \in 1..Len(layout) : PackageInClear[i] = raw[layout[i]]
      BY <2>2, <2>3, <3>1 DEF PackageInClear, Prepared
    <3> DEFINE len == Len(map) - 2
    <3> HIDE DEF map
    <3>3. /\ len \in Nat /\ map[1][1] = Len(layout) /\ Len(map) - 1 = len + 1
          /\ Lists(RangesOf(map), Len(layout), layout)
      BY <2>3 DEF Whole, RangesOf
    <3>4. Len(RangesOf(map)) = len /\ \A k \in 1..len : RangesOf(map)[k] = map[k + 2]
      BY <3>3 DEF RangesOf
    <3>5. PICK next \in [1..(len + 1) -> 0..Len(layout)] :
           /\ next[1] = 0 /\ next[len + 1] = Len(layout)
           /\ \A k \in 1..len : ListsAt(map[k + 2], next[k], next[k + 1], layout)
      BY <3>3, <3>4 DEF Lists
    <3>6. next \in Nexts(map)
      BY <3>3, <3>5 DEF Nexts
    <3>7. MapBlockFile(map, next)
      BY <3>3, <3>5 DEF MapBlockFile, ListsAt, Size, RangeSize
    <3>8. ASSUME NEW k \in 1..len, NEW i \in 1..RangeSize(map, k)
          PROVE  raw[map[k + 2][1] + i - 1] = PackageInClear[next[k] + i]
      <4>1. /\ layout[next[k] + i] = map[k + 2][1] + i - 1
            /\ next[k + 1] = next[k] + RangeSize(map, k)
        BY <3>5 DEF ListsAt, Size, RangeSize
      <4>2. k \in 1..(len + 1) /\ k + 1 \in 1..(len + 1)
        BY <3>3
      <4>3. next[k] \in 0..Len(layout) /\ next[k + 1] \in 0..Len(layout)
        BY <3>5, <4>2
      <4>4. next[k] + i \in 1..Len(layout)
        <5>1. map[k + 2] \in Nat \X Nat
          BY <2>3, <3>3 DEF Whole
        <5>2. RangeSize(map, k) \in Int
          BY <5>1 DEF RangeSize
        <5> QED
          BY <2>3, <4>1, <4>3, <5>2
      <4> QED
        BY <3>2, <4>1, <4>4
    <3> QED
      BY <3>2, <3>3, <3>6, <3>7, <3>8 DEF ReadsThroughMap
  <2> QED
    BY <2>4, <2>5
<1> QED
  BY <1>1, BootInvHolds, PTL

=============================================================================
