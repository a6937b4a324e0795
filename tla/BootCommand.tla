---------------------------- MODULE BootCommand -----------------------------
(***************************************************************************)
(* The way of a command from Android to the recovery: uncrypt prepares the *)
(* package (Uncrypt) and writes the bootloader control block (BCB) in      *)
(* /misc, the boot loader starts the recovery, which turns the options of  *)
(* the BCB into lines of /tmp/openrecoveryscript (get_args, startupArgs),  *)
(* clears the BCB (twrp.cpp), runs the lines and then those of the script  *)
(* an application may have left in /cache (openrecoveryscript.cpp), and    *)
(* reboots.  The recovery process may crash, then init starts it again and *)
(* /tmp is kept; the power may fail, then /tmp is lost; a write to /misc   *)
(* may fail.                                                               *)
(*                                                                         *)
(* A command is a record of what it does and where it came from; what it   *)
(* does to the device is left out, and whether it succeeds is left open,   *)
(* except that a package is installed only through a map that parses.      *)
(***************************************************************************)
EXTENDS Uncrypt, FiniteSets

CONSTANTS MaxRequests,    \* requests Android makes
          MaxFaults       \* failures of uncrypt and /misc, crashes, power losses

ASSUME BootAssumption ==
    MaxRequests \in Nat /\ MaxFaults \in Nat

VARIABLES
    mode,               \* where the device is
    bcb,                \* bootloader_message: command and recovery fields
    args,               \* options not yet turned into script lines
    fastboot_mode, SkipDecryption,
    locked,             \* TW_IS_ENCRYPTED
    script,             \* /tmp/openrecoveryscript
    orsFile, orsDisk,   \* the script in /cache, seen and durable
    lines,              \* what run_script_file has not read yet
    phase,              \* which of its callers it returns to
    ret_val, code1, code2,
    asked,              \* the options of the last request
    ran,                \* its commands that were executed, in order
    ranScript,          \* number of times the script in /cache was executed
    requests, crashes, losses, miscFails

process == <<args, fastboot_mode, SkipDecryption, locked, lines, phase, ret_val, code1, code2>>
files == <<script, orsFile, orsDisk>>
asking == <<asked, requests>>
running == <<ran, ranScript>>
faults == <<crashes, losses, miscFails>>
vars == <<uncryptVars, mode, bcb, process, files, asking, running, faults>>

NoBcb == [command |-> "none", recovery |-> <<>>]
Bcb(options) == [command |-> "boot-recovery", recovery |-> options]

Faulty == failures + crashes + losses + miscFails < MaxFaults

Idle == /\ args' = <<>> /\ fastboot_mode' = FALSE /\ SkipDecryption' = FALSE
        /\ locked' = encrypted /\ lines' = <<>> /\ phase' = 0
        /\ ret_val' = 0 /\ code1' = 1 /\ code2' = 1

Init ==
    /\ UncryptInit
    /\ mode = "android" /\ bcb = NoBcb
    /\ args = <<>> /\ fastboot_mode = FALSE /\ SkipDecryption = FALSE
    /\ locked = encrypted /\ lines = <<>> /\ phase = 0
    /\ ret_val = 0 /\ code1 = 1 /\ code2 = 1
    /\ script = <<>> /\ orsFile = <<>> /\ orsDisk = <<>>
    /\ asked = <<>> /\ ran = <<>> /\ ranScript = 0
    /\ requests = 0 /\ crashes = 0 /\ losses = 0 /\ miscFails = 0

boot == <<mode, bcb, process, files, asking, running, faults>>

-----------------------------------------------------------------------------
(***************************************************************************)
(* Android.  setup_bcb writes the options it is sent, clear_bcb takes them *)
(* back; update_package is asked for once uncrypt has reported 100.        *)
(***************************************************************************)
(* A package plays no part in the other requests: they come without one.   *)
InAndroid == mode = "android" /\ upc = "idle" /\ bcb = NoBcb /\ requests < MaxRequests

Ask(options) ==
    /\ asked' = options /\ ran' = <<>> /\ ranScript' = 0
    /\ requests' = requests + 1

setup_bcb ==
    /\ InAndroid
    /\ \E options \in {<<"install">>, <<"wipe data", "wipe cache">>} :
          /\ IF "install" = Head(options) THEN status = "100" ELSE pkg = 0
          /\ bcb' = Bcb(options)
          /\ Ask(options)
    /\ UNCHANGED <<uncryptVars, mode, process, files, faults>>

clear_bcb ==
    /\ mode = "android" /\ bcb # NoBcb
    /\ bcb' = NoBcb
    /\ asked' = <<>> /\ ran' = <<>>
    /\ UNCHANGED <<uncryptVars, mode, process, files, requests, ranScript, faults>>

(* "reboot fastboot", and an application that leaves a script and asks for *)
(* the recovery.                                                           *)
RequestFastboot ==
    /\ InAndroid /\ pkg = 0
    /\ bcb' = [command |-> "boot-fastboot", recovery |-> <<>>]
    /\ Ask(<<>>)
    /\ UNCHANGED <<uncryptVars, mode, process, files, faults>>

RequestScript ==
    /\ InAndroid /\ pkg = 0
    /\ orsFile' = <<"script">> /\ orsDisk' = <<"script">>
    /\ bcb' = Bcb(<<>>)
    /\ Ask(<<>>)
    /\ UNCHANGED <<uncryptVars, mode, process, script, faults>>

(* A reboot syncs the file systems and empties /tmp.                       *)
Restart ==
    /\ mode' = "boot"
    /\ dirDisk' = dir /\ rawDisk' = raw /\ cached' = FALSE
    /\ script' = <<>> /\ orsDisk' = orsFile
    /\ Idle
    /\ UNCHANGED <<encrypted, pkg, layout, raw, dir, upc, u, status, reread, staleTail, failures,
                   bcb, orsFile, asking, running, faults>>

RebootToRecovery == mode = "android" /\ upc = "idle" /\ bcb # NoBcb /\ Restart

(* The boot loader; the user may hold the keys that ask for the recovery.  *)
BootLoader ==
    /\ mode = "boot"
    /\ mode' \in IF bcb = NoBcb THEN {"android", "main"} ELSE {"main"}
    /\ UNCHANGED <<uncryptVars, bcb, process, files, asking, running, faults>>

-----------------------------------------------------------------------------
(***************************************************************************)
(* The start of the recovery.  A write to /misc that fails is only logged, *)
(* one that cannot be read counts as empty.                                *)
(***************************************************************************)
WriteMisc(message) ==
    \/ bcb' = message /\ UNCHANGED miscFails
    \/ Faulty /\ miscFails' = miscFails + 1 /\ UNCHANGED bcb

get_args ==
    /\ mode = "main"
    /\ \/ /\ args' = bcb.recovery
          /\ fastboot_mode' = (bcb.command = "boot-fastboot" /\ bcb.recovery = <<>>)
          /\ WriteMisc(Bcb(bcb.recovery))
       \/ /\ Faulty /\ miscFails' = miscFails + 1
          /\ args' = <<>> /\ fastboot_mode' = FALSE /\ UNCHANGED bcb
    /\ mode' = "insert"
    /\ UNCHANGED <<uncryptVars, SkipDecryption, locked, lines, phase, ret_val, code1, code2,
                   files, asking, running, crashes, losses>>

processRecoveryArgs ==
    /\ mode = "insert" /\ args # <<>>
    /\ script' = Append(script, Head(args))
    /\ SkipDecryption' = IF Head(args) = "install" THEN TRUE ELSE SkipDecryption
    /\ args' = Tail(args)
    /\ UNCHANGED <<uncryptVars, mode, bcb, fastboot_mode, locked, lines, phase, ret_val, code1,
                   code2, orsFile, orsDisk, asking, running, faults>>

Clear_Bootloader_Message ==
    /\ mode = "insert" /\ args = <<>>
    /\ WriteMisc(NoBcb)
    /\ mode' = IF fastboot_mode THEN "fastboot" ELSE "decrypt"
    /\ UNCHANGED <<uncryptVars, process, files, asking, running, crashes, losses>>

FastbootPage == mode = "fastboot" /\ Restart

(* The decrypt page: the user unlocks /data or skips the page.             *)
Decrypt_Page ==
    /\ mode = "decrypt"
    /\ locked' \in IF locked /\ ~SkipDecryption THEN BOOLEAN ELSE {locked}
    /\ mode' = "recovery"
    /\ UNCHANGED <<uncryptVars, bcb, args, fastboot_mode, SkipDecryption, lines, phase, ret_val,
                   code1, code2, files, asking, running, faults>>

(* Mutant: only the script in /cache counts.                               *)
process_recovery_modeFileOnly ==
    /\ mode = "recovery"
    /\ mode' = IF (~locked \/ SkipDecryption) /\ orsFile # <<>> THEN "action" ELSE "home"
    /\ UNCHANGED <<uncryptVars, bcb, process, files, asking, running, faults>>

process_recovery_mode ==
    /\ mode = "recovery"
    /\ mode' = IF (~locked \/ SkipDecryption) /\ (script # <<>> \/ orsFile # <<>>)
               THEN "action" ELSE "home"
    /\ UNCHANGED <<uncryptVars, bcb, process, files, asking, running, faults>>

-----------------------------------------------------------------------------
(***************************************************************************)
(* Run_OpenRecoveryScript_Action: the lines made from the BCB (phase 1),   *)
(* then the script in /cache, copied to /tmp and removed (phase 2).        *)
(* Phase 3 is a command of the twrp tool on the main page.                 *)
(***************************************************************************)
OpenScript(n, file) ==
    /\ mode' = "run" /\ phase' = n
    /\ lines' = file /\ ret_val' = 0

RunTmpScript ==
    /\ mode = "action"
    /\ IF script # <<>> THEN OpenScript(1, script)
       ELSE mode' = "check" /\ UNCHANGED <<phase, lines, ret_val>>
    /\ UNCHANGED <<uncryptVars, bcb, args, fastboot_mode, SkipDecryption, locked, code1, code2,
                   files, asking, running, faults>>

CopyScriptFile ==
    /\ mode = "check"
    /\ IF orsFile # <<>> THEN mode' = "copied" /\ script' = orsFile
       ELSE mode' = "finish" /\ UNCHANGED script
    /\ UNCHANGED <<uncryptVars, bcb, process, orsFile, orsDisk, asking, running,
                   faults>>

(* Mutant: the script stays in /cache.                                     *)
UnlinkScriptFileSkipped ==
    /\ mode = "copied"
    /\ UNCHANGED script /\ OpenScript(2, script)
    /\ UNCHANGED <<uncryptVars, bcb, args, fastboot_mode, SkipDecryption, locked, code1, code2,
                   orsFile, orsDisk, asking, running, faults>>

UnlinkScriptFile ==
    /\ mode = "copied"
    /\ orsFile' = <<>>
    /\ UNCHANGED script /\ OpenScript(2, script)
    /\ UNCHANGED <<uncryptVars, bcb, args, fastboot_mode, SkipDecryption, locked, code1, code2,
                   orsDisk, asking, running, faults>>

(* One line: an installation fails when the map does not parse.            *)
RunLine ==
    /\ mode = "run" /\ lines # <<>> /\ ret_val = 0
    /\ lines' = Tail(lines)
    /\ ret_val' \in IF Head(lines) = "install" /\ ~Parses(dir.map) THEN {1} ELSE {0, 1}
    /\ CASE Head(lines) = "script" -> ranScript' = ranScript + 1 /\ UNCHANGED ran
         [] Head(lines) = "cli" -> UNCHANGED running
         [] OTHER -> ran' = Append(ran, Head(lines)) /\ UNCHANGED ranScript
    /\ UNCHANGED <<uncryptVars, mode, bcb, args, fastboot_mode, SkipDecryption, locked, phase,
                   code1, code2, files, asking, faults>>

(* The end of run_script_file; the code is 3 when the user has set         *)
(* FOX_DISABLE_OTA_AUTO_REBOOT.                                            *)
EndScript ==
    /\ mode = "run" /\ (lines = <<>> \/ ret_val # 0)
    /\ script' = <<>> /\ lines' = <<>>
    /\ \E code \in {ret_val, 3} :
          /\ code1' = IF phase = 1 THEN code ELSE code1
          /\ code2' = IF phase = 2 THEN code ELSE code2
    /\ mode' = CASE phase = 1 -> "check" [] phase = 2 -> "finish" [] phase = 3 -> "home"
    /\ UNCHANGED <<uncryptVars, bcb, args, fastboot_mode, SkipDecryption, locked, phase, ret_val,
                   orsFile, orsDisk, asking, running, faults>>

(* Mutant: the page of the scripts does not end.                           *)
FinishScriptsNoPageDone ==
    /\ mode = "finish"
    /\ 0 \in {code1, code2} /\ 3 \notin {code1, code2}
    /\ Restart

(* Reboot if a script succeeded, unless the user turned that off.          *)
FinishScripts ==
    /\ mode = "finish"
    /\ IF 0 \in {code1, code2} /\ 3 \notin {code1, code2}
       THEN Restart
       ELSE /\ mode' = "home"
            /\ UNCHANGED <<uncryptVars, bcb, process, files, asking, running, faults>>

(* The main page: the user reboots, or runs a command of the twrp tool.    *)
HomeReboot == mode = "home" /\ Restart

Run_CLI_Command ==
    /\ mode = "home" /\ Len(script) < 4
    /\ script' = Append(script, "cli")
    /\ OpenScript(3, script')
    /\ UNCHANGED <<uncryptVars, bcb, args, fastboot_mode, SkipDecryption, locked, code1, code2,
                   orsFile, orsDisk, asking, running, faults>>

-----------------------------------------------------------------------------
InRecovery == mode \notin {"android", "boot"}

(* The process dies and init starts it again.                              *)
Crash ==
    /\ InRecovery /\ mode # "main" /\ Faulty
    /\ crashes' = crashes + 1
    /\ mode' = "main"
    /\ Idle
    /\ UNCHANGED <<uncryptVars, bcb, files, asking, running, losses, miscFails>>

PowerLoss ==
    /\ Faulty
    /\ losses' = losses + 1
    /\ UncryptPowerLoss
    /\ mode' = "boot" /\ script' = <<>>
    /\ orsFile' \in {orsFile, orsDisk} /\ orsDisk' = orsFile'
    /\ Idle
    /\ UNCHANGED <<bcb, asking, running, crashes, miscFails>>

(* Android prepares a package as long as it may still ask for something.   *)
AndroidStep ==
    /\ mode = "android" /\ bcb = NoBcb /\ requests < MaxRequests
    /\ UncryptStep \/ (Faulty /\ UncryptFails) \/ StartUncrypt \/ Download
    /\ UNCHANGED boot

RecoveryStep ==
    \/ BootLoader \/ get_args \/ processRecoveryArgs \/ Clear_Bootloader_Message
    \/ FastbootPage \/ Decrypt_Page \/ process_recovery_mode
    \/ RunTmpScript \/ CopyScriptFile \/ UnlinkScriptFile \/ RunLine \/ EndScript
    \/ FinishScripts

Next ==
    \/ AndroidStep \/ setup_bcb \/ clear_bcb \/ RequestFastboot \/ RequestScript
    \/ RebootToRecovery \/ RecoveryStep
    \/ HomeReboot \/ Run_CLI_Command \/ Crash \/ PowerLoss

(* The boot loader and the recovery go on; Android and the user need not.  *)
Spec == Init /\ [][Next]_vars /\ WF_vars(RecoveryStep)

-----------------------------------------------------------------------------
Cmds == {"install", "wipe data", "wipe cache", "script", "cli"}
Modes == {"android", "boot", "main", "insert", "fastboot", "decrypt", "recovery", "action",
          "check", "copied", "run", "finish", "home"}

TypeOK ==
    /\ mode \in Modes
    /\ bcb \in [command : {"none", "boot-recovery", "boot-fastboot"}, recovery : Seq(Cmds)]
    /\ {args, script, orsFile, orsDisk, lines, asked, ran} \subseteq Seq(Cmds)
    /\ {fastboot_mode, SkipDecryption, locked, encrypted, cached, reread,
        staleTail} \subseteq BOOLEAN
    /\ phase \in 0..3 /\ ret_val \in 0..1 /\ {code1, code2} \subseteq {0, 1, 3}
    /\ u.head \in 0..(WINDOW_SIZE - 1) /\ u.tail \in 0..(WINDOW_SIZE - 1)
    /\ u.pos \in 0..Len(layout) /\ u.head_block \in 0..u.pos
    /\ status \in {"none", "100", "-1"}

(* ProductBlockMap and setup_bcb: from the moment the installation is in   *)
(* the BCB until it is run, whatever power losses and crashes happen, the  *)
(* recovery reads through the block map the package that was downloaded,   *)
(* every block in its place and in clear.  Two cases are excepted: uncrypt *)
(* was run again over blocks it had already decrypted, and a longer        *)
(* block.map.tmp of an interrupted run was written over.                   *)
InstallPending ==
    \/ bcb.recovery # <<>> /\ Head(bcb.recovery) = "install"
    \/ \E i \in DOMAIN script : script[i] = "install"
InstallReadsThePackage ==
    InstallPending /\ ~reread /\ ~staleTail =>
        Parses(dir.map) /\ ReadsThroughMap(dir.map, PackageInClear)

(* ProductBlockMap: whenever uncrypt is interrupted, a file with the final *)
(* name block.map is complete, or there is none.                           *)
MapCompleteOrAbsent ==
    dir.map # None /\ ~staleTail => Parses(dir.map)

(* Clear_Bootloader_Message before the scripts: the options of the BCB are *)
(* executed in order and at most once, a power loss included, as long as   *)
(* the process does not crash and /misc can be written; and the script in  *)
(* /cache, removed before it runs, at most once without crash and power    *)
(* loss.                                                                   *)
AtMostOnce ==
    crashes = 0 =>
        /\ miscFails = 0 => IsPrefix(ran, asked)
        /\ losses = 0 => ranScript <= 1

(* No boot loop: once started, the recovery gets to its main page or back  *)
(* to Android, whatever is in the BCB and in the scripts.                  *)
RecoveryEnds == mode = "main" ~> mode \in {"home", "android"}

(* A command of the BCB is executed, unless Android takes it back, the     *)
(* power fails, /misc fails, or the user leaves /data locked.              *)
NotLost ==
    (bcb.recovery # <<>> /\ mode = "boot") ~>
        ran # <<>> \/ losses + miscFails > 0 \/ (mode = "home" /\ locked)
=============================================================================
