---------------------- MODULE BlockImageUpdateProofs ----------------------
(***************************************************************************)
(* Proofs about BlockImageUpdate, for every transfer list, every image and *)
(* any number of faults of every kind.                                     *)
(***************************************************************************)
EXTENDS BlockImageUpdate, TLAPS

\* The operands of a command have the types the transfer list gives them.
LEMMA CommandType ==
    \A j \in CmdIndex :
        /\ Cmd[j].type \in Writing \cup {"stash", "free"}
        /\ Cmd[j].id \in StashId
        /\ DOMAIN Cmd[j].tgt \subseteq Block
        /\ \A b \in DOMAIN Cmd[j].tgt : Cmd[j].tgt[b] \in Content
<1> SUFFICES ASSUME NEW j \in CmdIndex
             PROVE  /\ Cmd[j].type \in Writing \cup {"stash", "free"}
                    /\ Cmd[j].id \in StashId
                    /\ DOMAIN Cmd[j].tgt \subseteq Block
                    /\ \A b \in DOMAIN Cmd[j].tgt : Cmd[j].tgt[b] \in Content
    OBVIOUS
<1>1. Cmd[j] \in Command
    BY ListAssumption
<1>2. Cmd[j].tgt \in Image
    BY <1>1 DEF Command
<1>3. PICK S \in SUBSET Block : Cmd[j].tgt \in [S -> Content]
    BY <1>2 DEF Image
<1> QED
    BY <1>1, <1>3 DEF Command

-----------------------------------------------------------------------------
\* Every step preserves the types.
LEMMA TypeInductive == TypeOK /\ [Next]_vars => TypeOK'
<1> USE ListAssumption
<1> SUFFICES ASSUME TypeOK, [Next]_vars PROVE TypeOK'
    OBVIOUS
<1> USE DEF TypeOK, DiskTypeOK, CacheTypeOK, ParamsTypeOK, LocalsTypeOK,
            ControlTypeOK, disks, cache, params, locals, outcome
<1>1. CASE \E write \in BOOLEAN : SkipUpdatedPartition(write)
    BY <1>1 DEF SkipUpdatedPartition
<1>2. ASSUME NEW write \in BOOLEAN, NEW retry \in BOOLEAN, Start(write, retry)
      PROVE  TypeOK'
  <2>1. stashMap' \in [StashId -> CmdIndex \cup {None}]
      BY <1>2 DEF Start, ParseLastCommandFile, InitParameters
  <2>2. LocalsTypeOK'
    <3>1. i' \in 0 .. N /\ pc' = "cmd"
        BY <1>2 DEF Start, ParseLastCommandFile, InitParameters
    <3> QED
        BY <1>2, <2>1, <3>1 DEF Start, ParseLastCommandFile, InitParameters
  <2>3. CacheTypeOK' /\ ParamsTypeOK'
      BY <1>2 DEF Start, ParseLastCommandFile, InitParameters, Begin
  <2>4. DiskTypeOK' /\ ControlTypeOK'
      BY <1>2 DEF Start, ParseLastCommandFile, InitParameters
  <2> QED
      BY <2>2, <2>3, <2>4
<1>3. ASSUME NEW write \in BOOLEAN, NEW retry \in BOOLEAN,
             CreateStashFails(write, retry)
      PROVE  TypeOK'
  <2>1. CacheTypeOK' /\ ParamsTypeOK'
      BY <1>3 DEF CreateStashFails, Begin
  <2>2. DiskTypeOK' /\ LocalsTypeOK' /\ ControlTypeOK'
      BY <1>3 DEF CreateStashFails, Fault
  <2> QED
      BY <2>1, <2>2
<1>4. CASE SkipCommand
    BY <1>4 DEF SkipCommand
<1>5. CASE PerformCommandStash
    BY <1>5, CommandType DEF PerformCommandStash, Performing, NextCommand,
                           WriteStash, CmdIndex
<1>6. CASE PerformCommandFree
    BY <1>6, CommandType DEF PerformCommandFree, Performing, NextCommand,
                           FreeStash, CmdIndex
<1>7. CASE TargetVerified
    BY <1>7 DEF TargetVerified, Performing, NextCommand
<1>8. CASE CopySource
    BY <1>8, CommandType DEF CopySource, Performing, WriteStash, CmdIndex
<1>9. CASE VerifyCopy
  <2>1. LocalsTypeOK' /\ ControlTypeOK' /\ DiskTypeOK'
      BY <1>9 DEF VerifyCopy, Performing
  <2>2. CacheTypeOK' /\ ParamsTypeOK'
      BY <1>9 DEF VerifyCopy
  <2> QED
      BY <2>1, <2>2
<1>10. CASE Unresumable
    BY <1>10 DEF Unresumable
<1>11. CASE StartWrite
    BY <1>11, CommandType DEF StartWrite, Performing, CmdIndex
<1>12. CASE RootHashMismatch
    BY <1>12 DEF RootHashMismatch
<1>13. ASSUME NEW b \in Block, WriteRange(b) PROVE TypeOK'
  <2>1. Written(b) \in Stored
      BY <1>13, CommandType DEF WriteRange, Written, CmdIndex, Stored
  <2>2. DiskTypeOK'
      BY <1>13, <2>1 DEF WriteRange
  <2> QED
      BY <1>13, <2>2 DEF WriteRange
<1>14. CASE FinishWrite
    BY <1>14 DEF FinishWrite, FreeStash, CmdIndex
<1>15. CASE Fsync
    BY <1>15 DEF Fsync
<1>16. CASE UpdateLastCommandIndex
    BY <1>16 DEF UpdateLastCommandIndex
<1>17. CASE UpdateLastCommandIndexFails
    BY <1>17 DEF UpdateLastCommandIndexFails, Fault
<1>18. CASE AllCommandsDone
    BY <1>18 DEF AllCommandsDone
<1>19. ASSUME NEW id \in StashId, DeleteStashFile(id) PROVE TypeOK'
    BY <1>19 DEF DeleteStashFile
<1>20. CASE DeleteStashDir
    BY <1>20 DEF DeleteStashDir
<1>21. CASE DeleteLastCommandFile
    BY <1>21 DEF DeleteLastCommandFile
<1>22. CASE SetUpdatedMarker
    BY <1>22 DEF SetUpdatedMarker
<1>23. CASE SetUpdatedMarkerFails
    BY <1>23 DEF SetUpdatedMarkerFails, Fault
<1>24. CASE Return
    BY <1>24 DEF Return, FinalFsync
<1>25. CASE CommandFails
    BY <1>25 DEF CommandFails, Fault, Torn, InFlight, Stored
<1>26. CASE PerformCommandAbort
    BY <1>26 DEF PerformCommandAbort, Fault
<1>27. CASE Kill
    BY <1>27 DEF Kill, Fault, Torn, InFlight, Stored
<1>28. CASE PowerLoss
    BY <1>28 DEF PowerLoss, Fault, InFlight, Stored
<1>29. CASE UNCHANGED vars
    BY <1>29 DEF vars
<1> QED
    BY <1>1, <1>2, <1>3, <1>4, <1>5, <1>6, <1>7, <1>8, <1>9, <1>10, <1>11,
       <1>12, <1>13, <1>14, <1>15, <1>16, <1>17, <1>18, <1>19, <1>20, <1>21,
       <1>22, <1>23, <1>24, <1>25, <1>26, <1>27, <1>28, <1>29
       DEF Next, Step

\* The initial states are well typed.
LEMMA TypeInit == Init => TypeOK
<1> USE ListAssumption
<1> SUFFICES ASSUME Init PROVE TypeOK
    OBVIOUS
<1>1. DiskTypeOK
    BY DEF Init, DiskTypeOK, Stored
<1>2. CacheTypeOK /\ ParamsTypeOK
    BY DEF Init, CacheTypeOK, ParamsTypeOK
<1>3. LocalsTypeOK
  <2>1. stashMap \in [StashId -> CmdIndex \cup {None}]
      BY DEF Init
  <2>2. i \in 0 .. N /\ pc = "idle"
      BY DEF Init
  <2> QED
      BY <2>1, <2>2 DEF Init, LocalsTypeOK
<1>4. ControlTypeOK
    BY DEF Init, ControlTypeOK
<1> QED
    BY <1>1, <1>2, <1>3, <1>4 DEF TypeOK

(***************************************************************************)
(* Type correctness: every attempt, interrupted or not, keeps the state of *)
(* PerformBlockImageUpdate and what it stores on flash well formed.        *)
(***************************************************************************)
THEOREM TypeCorrect == Spec => []TypeOK
    BY TypeInit, TypeInductive, PTL DEF Spec

-----------------------------------------------------------------------------
(***************************************************************************)
(* The inductive invariant behind the soundness of an update.  An attempt  *)
(* relies on the index it has read (saved), which need not be the one on   *)
(* flash any more: a new command executed again lowers that one.           *)
(***************************************************************************)
Writes(j) == Cmd[j].type \in Writing \ {"erase"}

ControlInv ==
    /\ pc # "idle" => result = "none"
    /\ pc \in {"write", "sync", "index", "delstash", "dellast", "setmarker"} => canwrite
    /\ pc \notin {"idle", "done"} => ~marker
    /\ pc \in {"delstash", "dellast", "setmarker", "done"} => i = N

\* What an update that is under way has behind it.
Updating == canwrite /\ pc \notin {"idle", "failed"}

ExecutedInv ==
    Updating => \A j \in CmdIndex : j < i /\ Writes(j) => Settled(Cmd[j])

SavedInv ==
    Updating /\ skip => \A j \in CmdIndex :
        j <= saved /\ Writes(j) /\ Cmd[j].type # "new" => Settled(Cmd[j])

IndexInv ==
    Updating => lastCmd = None \/ lastCmd < i \/ (skip /\ lastCmd = saved)

StreamInv ==
    Updating => consumed = NewCommands(IF pc \in {"sync", "index"} THEN i + 1 ELSE i)

\* How far the current command is.
CommandInv ==
    /\ pc \in {"write", "sync", "index"} => ~AlreadyExecuted
    /\ pc = "write" => Cmd[i].type \in Writing
    /\ pc = "write" /\ Writes(i) =>
         \A b \in DOMAIN Cmd[i].tgt \ todo : disk[b] = Cmd[i].tgt[b]
    /\ pc = "sync" /\ Writes(i) => VerifyBlocks(Cmd[i].tgt)
    /\ pc = "index" /\ Writes(i) => Settled(Cmd[i])

Inv ==
    /\ TypeOK /\ ControlInv
    /\ ExecutedInv /\ SavedInv /\ IndexInv /\ StreamInv /\ CommandInv
    /\ SavedIndexSound /\ MarkerSound /\ SuccessMeansTarget

\* No two commands write the same block.
LEMMA TargetsDisjoint ==
    ASSUME NEW j \in CmdIndex, NEW k \in CmdIndex, j # k,
           Cmd[j].type \in Writing, Cmd[k].type \in Writing
    PROVE  DOMAIN Cmd[j].tgt \cap DOMAIN Cmd[k].tgt = {}
<1>1. CASE j < k
    BY <1>1, CreatorAssumption
<1>2. CASE k < j
    BY <1>2, CreatorAssumption
<1> QED
    BY <1>1, <1>2, ListAssumption DEF CmdIndex

\* A settled target stays settled in any step that leaves its blocks alone,
\* whatever it flushes.
LEMMA SettledStable ==
    ASSUME NEW j \in CmdIndex, Settled(Cmd[j]),
           \A b \in DOMAIN Cmd[j].tgt :
               /\ disk'[b] = disk[b]
               /\ durable'[b] = durable[b] \/ durable'[b] = disk[b]
               /\ b \in dirty' => b \in dirty
    PROVE  Settled(Cmd[j])'
    BY DEF Settled

\* The new commands before command n + 1.
LEMMA NewCommandsStep ==
    ASSUME NEW n \in CmdIndex
    PROVE  NewCommands(n + 1) = IF Cmd[n].type = "new"
                                THEN NewCommands(n) \cup {n} ELSE NewCommands(n)
<1>1. 0 .. (n + 1) - 1 = (0 .. n - 1) \cup {n} /\ n \notin 0 .. n - 1
    BY ListAssumption DEF CmdIndex
<1> QED
    BY <1>1 DEF NewCommands

\* Every step preserves the invariant.
LEMMA InvInductive == Inv /\ [Next]_vars => Inv'
<1> SUFFICES ASSUME Inv, [Next]_vars PROVE Inv'
    OBVIOUS
<1> USE ListAssumption
<1>t. TypeOK'
    BY TypeInductive DEF Inv
<1>r. /\ i \in 0 .. N /\ (pc \in {"write", "sync", "index"} => i < N)
      /\ lastCmd \in Nat \cup {None} /\ saved \in Nat \cup {None}
      /\ canwrite \in BOOLEAN /\ skip \in BOOLEAN /\ (skip => saved # None)
    BY DEF Inv, TypeOK, LocalsTypeOK, CacheTypeOK, ParamsTypeOK
<1>c. ASSUME UNCHANGED disks
      PROVE  \A j \in CmdIndex :
                /\ Settled(Cmd[j])' <=> Settled(Cmd[j])
                /\ VerifyBlocks(Cmd[j].tgt)' <=> VerifyBlocks(Cmd[j].tgt)
    BY <1>c DEF disks, Settled, VerifyBlocks
<1>n. ASSUME i < N
      PROVE  NewCommands(i + 1) = IF Cmd[i].type = "new"
                                  THEN NewCommands(i) \cup {i} ELSE NewCommands(i)
  <2>1. i \in CmdIndex
      BY <1>n, <1>r DEF CmdIndex
  <2> QED
      BY <2>1, NewCommandsStep
<1> USE <1>t, <1>r DEF Inv, cache, params, locals, outcome
\* The blocks of a settled target other than the one being written are
\* neither dirty nor in flight.
<1>k. ASSUME NEW j \in CmdIndex, Writes(j), Settled(Cmd[j]), pc = "write" => j # i
      PROVE  \A b \in DOMAIN Cmd[j].tgt :
                /\ b \in Block /\ b \notin dirty
                /\ disk[b] = Cmd[j].tgt[b] /\ durable[b] = Cmd[j].tgt[b]
                /\ pc = "write" => b \notin todo
  <2>1. pc = "write" => DOMAIN Cmd[j].tgt \cap DOMAIN Cmd[i].tgt = {}
      BY <1>k, TargetsDisjoint DEF CommandInv, Writes, CmdIndex
  <2>2. pc = "write" => todo \subseteq DOMAIN Cmd[i].tgt
      BY DEF TypeOK, LocalsTypeOK
  <2> QED
      BY <1>k, <2>1, <2>2, CommandType DEF Settled
\* A command that an index says was executed is not the one being written.
<1>p. ASSUME pc = "write", NEW j \in CmdIndex, Writes(j), Cmd[j].type # "new",
             (skip /\ j <= saved) \/ (lastCmd # None /\ j <= lastCmd)
      PROVE  j # i
    BY <1>p DEF CommandInv, AlreadyExecuted, ControlInv, IndexInv, Updating, CmdIndex
<1>1. ASSUME NEW write \in BOOLEAN, SkipUpdatedPartition(write) PROVE Inv'
  <2>1. \A j \in CmdIndex : Settled(Cmd[j])' <=> Settled(Cmd[j])
      BY <1>1, <1>c DEF SkipUpdatedPartition
  <2>2. pc' = "idle"
      BY <1>1 DEF SkipUpdatedPartition
  <2>3. ControlInv' /\ ExecutedInv' /\ SavedInv' /\ IndexInv' /\ StreamInv' /\ CommandInv'
      BY <2>2 DEF ControlInv, ExecutedInv, SavedInv, IndexInv, StreamInv,
                  CommandInv, Updating
  <2>4. SavedIndexSound' /\ MarkerSound' /\ SuccessMeansTarget'
      BY <1>1, <2>1 DEF SkipUpdatedPartition, SavedIndexSound, MarkerSound, SuccessMeansTarget
  <2> QED
      BY <2>3, <2>4
<1>2. ASSUME NEW write \in BOOLEAN, NEW retry \in BOOLEAN, Start(write, retry)
      PROVE  Inv'
  <2>1. \A j \in CmdIndex : Settled(Cmd[j])' <=> Settled(Cmd[j])
      BY <1>2, <1>c DEF Start, ParseLastCommandFile, InitParameters
  <2>2. ControlInv' /\ CommandInv' /\ IndexInv' /\ ExecutedInv'
      BY <1>2 DEF Start, ParseLastCommandFile, InitParameters, Begin, ControlInv, CommandInv, IndexInv, ExecutedInv,
               Updating, CmdIndex
  <2>3. StreamInv'
      BY <1>2 DEF Start, ParseLastCommandFile, InitParameters, StreamInv, NewCommands
  <2>4. SavedInv' /\ SavedIndexSound'
      BY <1>2, <2>1 DEF Start, ParseLastCommandFile, InitParameters, SavedInv, SavedIndexSound, Writes
  <2>5. MarkerSound' /\ SuccessMeansTarget'
      BY <1>2 DEF Start, ParseLastCommandFile, InitParameters, Begin, MarkerSound, SuccessMeansTarget
  <2> QED
      BY <2>2, <2>3, <2>4, <2>5
<1>3. ASSUME NEW write \in BOOLEAN, NEW retry \in BOOLEAN,
             CreateStashFails(write, retry)
      PROVE  Inv'
  <2>1. \A j \in CmdIndex : Settled(Cmd[j])' <=> Settled(Cmd[j])
      BY <1>3, <1>c DEF CreateStashFails
  <2>2. pc' = "idle"
      BY <1>3 DEF CreateStashFails, Begin
  <2>3. ControlInv' /\ ExecutedInv' /\ SavedInv' /\ IndexInv' /\ StreamInv' /\ CommandInv'
      BY <2>2 DEF ControlInv, ExecutedInv, SavedInv, IndexInv, StreamInv,
                  CommandInv, Updating
  <2>4. SavedIndexSound' /\ MarkerSound' /\ SuccessMeansTarget'
      BY <1>3, <2>1 DEF CreateStashFails, Begin, SavedIndexSound, MarkerSound, SuccessMeansTarget
  <2> QED
      BY <2>3, <2>4
<1>4. CASE SkipCommand
  <2>1. \A j \in CmdIndex : Settled(Cmd[j])' <=> Settled(Cmd[j])
      BY <1>4, <1>c DEF SkipCommand
  <2>2. ControlInv' /\ CommandInv' /\ IndexInv'
      BY <1>4 DEF SkipCommand, ControlInv, CommandInv, IndexInv, Updating
  <2>3. ExecutedInv'
      BY <1>4, <2>1 DEF SkipCommand, ExecutedInv, SavedInv, Updating, NotVerified,
                     AlreadyExecuted, CmdIndex
  <2>4. StreamInv'
      BY <1>4, <1>n DEF SkipCommand, StreamInv, Updating, NotVerified, AlreadyExecuted
  <2>5. SavedInv' /\ SavedIndexSound' /\ MarkerSound' /\ SuccessMeansTarget'
      BY <1>4, <2>1 DEF SkipCommand, SavedInv, SavedIndexSound, MarkerSound,
                     SuccessMeansTarget, Updating
  <2> QED
      BY <2>2, <2>3, <2>4, <2>5
<1>5. CASE PerformCommandStash
  <2>1. /\ \A j \in CmdIndex : Settled(Cmd[j])' <=> Settled(Cmd[j])
        /\ \A j \in CmdIndex : VerifyBlocks(Cmd[j].tgt)' <=> VerifyBlocks(Cmd[j].tgt)
      BY <1>5, <1>c DEF PerformCommandStash
  <2>2. ControlInv' /\ IndexInv'
      BY <1>5 DEF PerformCommandStash, Performing, NextCommand, ControlInv, IndexInv, Updating
  <2>3. CommandInv'
      BY <1>5, <2>1 DEF PerformCommandStash, Performing, NextCommand, CommandInv, AlreadyExecuted,
                     Writes, Writing, Copying, Blind, CmdIndex
  <2>4. ExecutedInv'
      BY <1>5, <2>1 DEF PerformCommandStash, Performing, NextCommand, ExecutedInv, Updating
  <2>5. StreamInv'
      BY <1>5, <1>n DEF PerformCommandStash, Performing, NextCommand, StreamInv, Updating, Copying
  <2>6. SavedInv' /\ SavedIndexSound' /\ MarkerSound' /\ SuccessMeansTarget'
      BY <1>5, <2>1 DEF PerformCommandStash, Performing, NextCommand, SavedInv, SavedIndexSound,
                     MarkerSound, SuccessMeansTarget, Updating
  <2> QED
      BY <2>2, <2>3, <2>4, <2>5, <2>6
<1>6. CASE PerformCommandFree
  <2>1. /\ \A j \in CmdIndex : Settled(Cmd[j])' <=> Settled(Cmd[j])
        /\ \A j \in CmdIndex : VerifyBlocks(Cmd[j].tgt)' <=> VerifyBlocks(Cmd[j].tgt)
      BY <1>6, <1>c DEF PerformCommandFree
  <2>2. ControlInv' /\ IndexInv'
      BY <1>6 DEF PerformCommandFree, Performing, NextCommand, ControlInv, IndexInv, Updating
  <2>3. CommandInv'
      BY <1>6, <2>1 DEF PerformCommandFree, Performing, NextCommand, CommandInv, AlreadyExecuted,
                     Writes, Writing, Copying, Blind, CmdIndex
  <2>4. ExecutedInv'
      BY <1>6, <2>1 DEF PerformCommandFree, Performing, NextCommand, ExecutedInv, Updating
  <2>5. StreamInv'
      BY <1>6, <1>n DEF PerformCommandFree, Performing, NextCommand, StreamInv, Updating, Copying
  <2>6. SavedInv' /\ SavedIndexSound' /\ MarkerSound' /\ SuccessMeansTarget'
      BY <1>6, <2>1 DEF PerformCommandFree, Performing, NextCommand, SavedInv, SavedIndexSound,
                     MarkerSound, SuccessMeansTarget, Updating
  <2> QED
      BY <2>2, <2>3, <2>4, <2>5, <2>6
<1>7. CASE TargetVerified
  <2>1. /\ \A j \in CmdIndex : Settled(Cmd[j])' <=> Settled(Cmd[j])
        /\ \A j \in CmdIndex : VerifyBlocks(Cmd[j].tgt)' <=> VerifyBlocks(Cmd[j].tgt)
      BY <1>7, <1>c DEF TargetVerified
  <2>2. ControlInv' /\ IndexInv'
      BY <1>7 DEF TargetVerified, Performing, NextCommand, ControlInv, IndexInv, Updating
  <2>3. CommandInv'
      BY <1>7, <2>1 DEF TargetVerified, Performing, NextCommand, CommandInv, AlreadyExecuted,
                     Writes, Writing, Copying, Blind, CmdIndex
  <2>4. ExecutedInv'
      BY <1>7, <2>1 DEF TargetVerified, Performing, NextCommand, ExecutedInv, Updating
  <2>5. StreamInv'
      BY <1>7, <1>n DEF TargetVerified, Performing, NextCommand, StreamInv, Updating, Copying
  <2>6. SavedInv' /\ SavedIndexSound' /\ MarkerSound' /\ SuccessMeansTarget'
      BY <1>7, <2>1 DEF TargetVerified, Performing, NextCommand, SavedInv, SavedIndexSound,
                     MarkerSound, SuccessMeansTarget, Updating
  <2> QED
      BY <2>2, <2>3, <2>4, <2>5, <2>6
<1>8. CASE CopySource
  <2>1. \A j \in CmdIndex : Settled(Cmd[j])' <=> Settled(Cmd[j])
      BY <1>8, <1>c DEF CopySource
  <2>2. ControlInv' /\ IndexInv' /\ StreamInv'
      BY <1>8 DEF CopySource, Performing, ControlInv, IndexInv, StreamInv, Updating, NotVerified
  <2>3. CommandInv'
      BY <1>8 DEF CopySource, Performing, CommandInv, AlreadyExecuted, Writing
  <2>4. ExecutedInv'
      BY <1>8, <2>1 DEF CopySource, Performing, ExecutedInv, Updating
  <2>5. SavedInv' /\ SavedIndexSound' /\ MarkerSound' /\ SuccessMeansTarget'
      BY <1>8, <2>1 DEF CopySource, Performing, SavedInv, SavedIndexSound, MarkerSound,
                     SuccessMeansTarget, Updating
  <2> QED
      BY <2>2, <2>3, <2>4, <2>5
<1>9. CASE StartWrite
  <2>1. \A j \in CmdIndex : Settled(Cmd[j])' <=> Settled(Cmd[j])
      BY <1>9, <1>c DEF StartWrite
  <2>2. ControlInv' /\ IndexInv' /\ StreamInv'
      BY <1>9 DEF StartWrite, Performing, ControlInv, IndexInv, StreamInv, Updating, NotVerified
  <2>3. CommandInv'
      BY <1>9 DEF StartWrite, Performing, CommandInv, AlreadyExecuted, Writing
  <2>4. ExecutedInv'
      BY <1>9, <2>1 DEF StartWrite, Performing, ExecutedInv, Updating
  <2>5. SavedInv' /\ SavedIndexSound' /\ MarkerSound' /\ SuccessMeansTarget'
      BY <1>9, <2>1 DEF StartWrite, Performing, SavedInv, SavedIndexSound, MarkerSound,
                     SuccessMeansTarget, Updating
  <2> QED
      BY <2>2, <2>3, <2>4, <2>5
<1>10. CASE VerifyCopy
  <2>1. \A j \in CmdIndex : Settled(Cmd[j])' <=> Settled(Cmd[j])
      BY <1>10, <1>c DEF VerifyCopy
  <2>2. ControlInv' /\ ExecutedInv' /\ SavedInv' /\ IndexInv' /\ StreamInv' /\ CommandInv'
      BY <1>10 DEF VerifyCopy, Performing, ControlInv, ExecutedInv, SavedInv, IndexInv,
               StreamInv, CommandInv, Updating
  <2>3. SavedIndexSound' /\ MarkerSound' /\ SuccessMeansTarget'
      BY <1>10, <2>1 DEF VerifyCopy, SavedIndexSound, MarkerSound, SuccessMeansTarget
  <2> QED
      BY <2>2, <2>3
<1>11. CASE Unresumable
  <2>1. \A j \in CmdIndex : Settled(Cmd[j])' <=> Settled(Cmd[j])
      BY <1>11, <1>c DEF Unresumable
  <2>2. ControlInv' /\ ExecutedInv' /\ SavedInv' /\ IndexInv' /\ StreamInv' /\ CommandInv'
      BY <1>11 DEF Unresumable, Performing, ControlInv, ExecutedInv, SavedInv, IndexInv,
               StreamInv, CommandInv, Updating
  <2>3. SavedIndexSound' /\ MarkerSound' /\ SuccessMeansTarget'
      BY <1>11, <2>1 DEF Unresumable, SavedIndexSound, MarkerSound, SuccessMeansTarget
  <2> QED
      BY <2>2, <2>3
<1>12. CASE RootHashMismatch
  <2>1. \A j \in CmdIndex : Settled(Cmd[j])' <=> Settled(Cmd[j])
      BY <1>12, <1>c DEF RootHashMismatch
  <2>2. ControlInv' /\ ExecutedInv' /\ SavedInv' /\ IndexInv' /\ StreamInv' /\ CommandInv'
      BY <1>12 DEF RootHashMismatch, Performing, ControlInv, ExecutedInv, SavedInv, IndexInv,
               StreamInv, CommandInv, Updating
  <2>3. SavedIndexSound' /\ MarkerSound' /\ SuccessMeansTarget'
      BY <1>12, <2>1 DEF RootHashMismatch, SavedIndexSound, MarkerSound, SuccessMeansTarget
  <2> QED
      BY <2>2, <2>3
<1>13. CASE PerformCommandAbort
  <2>1. \A j \in CmdIndex : Settled(Cmd[j])' <=> Settled(Cmd[j])
      BY <1>13, <1>c DEF PerformCommandAbort
  <2>2. ControlInv' /\ ExecutedInv' /\ SavedInv' /\ IndexInv' /\ StreamInv' /\ CommandInv'
      BY <1>13 DEF PerformCommandAbort, Performing, ControlInv, ExecutedInv, SavedInv, IndexInv,
               StreamInv, CommandInv, Updating
  <2>3. SavedIndexSound' /\ MarkerSound' /\ SuccessMeansTarget'
      BY <1>13, <2>1 DEF PerformCommandAbort, SavedIndexSound, MarkerSound, SuccessMeansTarget
  <2> QED
      BY <2>2, <2>3
<1>14. CASE FinishWrite
  <2>1. /\ \A j \in CmdIndex : Settled(Cmd[j])' <=> Settled(Cmd[j])
        /\ \A j \in CmdIndex : VerifyBlocks(Cmd[j].tgt)' <=> VerifyBlocks(Cmd[j].tgt)
      BY <1>14, <1>c DEF FinishWrite
  <2>2. ControlInv' /\ IndexInv'
      BY <1>14 DEF FinishWrite, ControlInv, IndexInv, Updating
  <2>3. CommandInv'
      BY <1>14, <2>1 DEF FinishWrite, CommandInv, AlreadyExecuted, VerifyBlocks, Writes, CmdIndex
  <2>4. ExecutedInv' /\ SavedInv'
      BY <1>14, <2>1 DEF FinishWrite, ExecutedInv, SavedInv, Updating, ControlInv
  <2>5. StreamInv'
      BY <1>14, <1>n DEF FinishWrite, StreamInv, Updating, ControlInv
  <2>6. SavedIndexSound' /\ MarkerSound' /\ SuccessMeansTarget'
      BY <1>14, <2>1 DEF FinishWrite, SavedIndexSound, MarkerSound, SuccessMeansTarget
  <2> QED
      BY <2>2, <2>3, <2>4, <2>5, <2>6
<1>15. CASE UpdateLastCommandIndex
  <2>1. \A j \in CmdIndex : Settled(Cmd[j])' <=> Settled(Cmd[j])
      BY <1>15, <1>c DEF UpdateLastCommandIndex
  <2>2. ControlInv' /\ IndexInv' /\ StreamInv' /\ CommandInv'
      BY <1>15 DEF UpdateLastCommandIndex, ControlInv, IndexInv, StreamInv, CommandInv, Updating
  <2>3. \A j \in CmdIndex : j <= i /\ Writes(j) => Settled(Cmd[j])
      BY <1>15 DEF UpdateLastCommandIndex, ControlInv, ExecutedInv, CommandInv, Updating, CmdIndex
  <2>4. ExecutedInv' /\ SavedIndexSound'
      BY <1>15, <2>1, <2>3 DEF UpdateLastCommandIndex, ExecutedInv, SavedIndexSound, Writes, CmdIndex
  <2>5. SavedInv' /\ MarkerSound' /\ SuccessMeansTarget'
      BY <1>15, <2>1 DEF UpdateLastCommandIndex, SavedInv, MarkerSound, SuccessMeansTarget, Updating
  <2> QED
      BY <2>2, <2>4, <2>5
<1>16. CASE UpdateLastCommandIndexFails
  <2>1. \A j \in CmdIndex : Settled(Cmd[j])' <=> Settled(Cmd[j])
      BY <1>16, <1>c DEF UpdateLastCommandIndexFails
  <2>2. ControlInv' /\ IndexInv' /\ StreamInv' /\ CommandInv'
      BY <1>16 DEF UpdateLastCommandIndexFails, ControlInv, IndexInv, StreamInv, CommandInv, Updating
  <2>3. \A j \in CmdIndex : j <= i /\ Writes(j) => Settled(Cmd[j])
      BY <1>16 DEF UpdateLastCommandIndexFails, ControlInv, ExecutedInv, CommandInv, Updating, CmdIndex
  <2>4. ExecutedInv'
      BY <1>16, <2>1, <2>3 DEF UpdateLastCommandIndexFails, ExecutedInv, CmdIndex
  <2>5. SavedInv' /\ SavedIndexSound' /\ MarkerSound' /\ SuccessMeansTarget'
      BY <1>16, <2>1 DEF UpdateLastCommandIndexFails, SavedInv, SavedIndexSound, MarkerSound,
                     SuccessMeansTarget, Updating
  <2> QED
      BY <2>2, <2>4, <2>5
<1>17. CASE AllCommandsDone
  <2>1. \A j \in CmdIndex : Settled(Cmd[j])' <=> Settled(Cmd[j])
      BY <1>17, <1>c DEF AllCommandsDone
  <2>2. ControlInv' /\ IndexInv' /\ StreamInv' /\ CommandInv'
      BY <1>17 DEF AllCommandsDone, ControlInv, IndexInv, StreamInv, CommandInv, Updating
  <2>3. ExecutedInv' /\ SavedInv'
      BY <1>17, <2>1 DEF AllCommandsDone, ExecutedInv, SavedInv, Updating
  <2>4. SavedIndexSound' /\ MarkerSound' /\ SuccessMeansTarget'
      BY <1>17, <2>1 DEF AllCommandsDone, SavedIndexSound, MarkerSound, SuccessMeansTarget
  <2> QED
      BY <2>2, <2>3, <2>4
<1>18. ASSUME NEW id \in StashId, DeleteStashFile(id) PROVE Inv'
  <2>1. \A j \in CmdIndex : Settled(Cmd[j])' <=> Settled(Cmd[j])
      BY <1>18, <1>c DEF DeleteStashFile
  <2>2. ControlInv' /\ IndexInv' /\ StreamInv' /\ CommandInv'
      BY <1>18 DEF DeleteStashFile, ControlInv, IndexInv, StreamInv, CommandInv, Updating
  <2>3. ExecutedInv' /\ SavedInv'
      BY <1>18, <2>1 DEF DeleteStashFile, ExecutedInv, SavedInv, Updating
  <2>4. SavedIndexSound' /\ MarkerSound' /\ SuccessMeansTarget'
      BY <1>18, <2>1 DEF DeleteStashFile, SavedIndexSound, MarkerSound, SuccessMeansTarget
  <2> QED
      BY <2>2, <2>3, <2>4
<1>19. CASE DeleteStashDir
  <2>1. \A j \in CmdIndex : Settled(Cmd[j])' <=> Settled(Cmd[j])
      BY <1>19, <1>c DEF DeleteStashDir
  <2>2. ControlInv' /\ IndexInv' /\ StreamInv' /\ CommandInv'
      BY <1>19 DEF DeleteStashDir, ControlInv, IndexInv, StreamInv, CommandInv, Updating
  <2>3. ExecutedInv' /\ SavedInv'
      BY <1>19, <2>1 DEF DeleteStashDir, ExecutedInv, SavedInv, Updating
  <2>4. SavedIndexSound' /\ MarkerSound' /\ SuccessMeansTarget'
      BY <1>19, <2>1 DEF DeleteStashDir, SavedIndexSound, MarkerSound, SuccessMeansTarget
  <2> QED
      BY <2>2, <2>3, <2>4
<1>20. CASE DeleteLastCommandFile
  <2>1. \A j \in CmdIndex : Settled(Cmd[j])' <=> Settled(Cmd[j])
      BY <1>20, <1>c DEF DeleteLastCommandFile
  <2>2. ControlInv' /\ IndexInv' /\ StreamInv' /\ CommandInv'
      BY <1>20 DEF DeleteLastCommandFile, ControlInv, IndexInv, StreamInv, CommandInv, Updating
  <2>3. ExecutedInv' /\ SavedInv'
      BY <1>20, <2>1 DEF DeleteLastCommandFile, ExecutedInv, SavedInv, Updating
  <2>4. SavedIndexSound' /\ MarkerSound' /\ SuccessMeansTarget'
      BY <1>20, <2>1 DEF DeleteLastCommandFile, SavedIndexSound, MarkerSound, SuccessMeansTarget
  <2> QED
      BY <2>2, <2>3, <2>4
<1>21. CASE SetUpdatedMarkerFails
  <2>1. \A j \in CmdIndex : Settled(Cmd[j])' <=> Settled(Cmd[j])
      BY <1>21, <1>c DEF SetUpdatedMarkerFails
  <2>2. ControlInv' /\ IndexInv' /\ StreamInv' /\ CommandInv'
      BY <1>21 DEF SetUpdatedMarkerFails, ControlInv, IndexInv, StreamInv, CommandInv, Updating
  <2>3. ExecutedInv' /\ SavedInv'
      BY <1>21, <2>1 DEF SetUpdatedMarkerFails, ExecutedInv, SavedInv, Updating
  <2>4. SavedIndexSound' /\ MarkerSound' /\ SuccessMeansTarget'
      BY <1>21, <2>1 DEF SetUpdatedMarkerFails, SavedIndexSound, MarkerSound, SuccessMeansTarget
  <2> QED
      BY <2>2, <2>3, <2>4
<1>22. CASE SetUpdatedMarker
  <2>1. \A j \in CmdIndex : Settled(Cmd[j])' <=> Settled(Cmd[j])
      BY <1>22, <1>c DEF SetUpdatedMarker
  <2>2. ControlInv' /\ IndexInv' /\ StreamInv' /\ CommandInv'
      BY <1>22 DEF SetUpdatedMarker, ControlInv, IndexInv, StreamInv, CommandInv, Updating
  <2>3. ExecutedInv' /\ SavedInv'
      BY <1>22, <2>1 DEF SetUpdatedMarker, ExecutedInv, SavedInv, Updating
  <2>4. SavedIndexSound' /\ MarkerSound' /\ SuccessMeansTarget'
      BY <1>22, <2>1 DEF SetUpdatedMarker, SavedIndexSound, MarkerSound, SuccessMeansTarget, ExecutedInv, ControlInv, Updating, Writes, CmdIndex
  <2> QED
      BY <2>2, <2>3, <2>4
<1>23. CASE Fsync
  <2>1. \A j \in CmdIndex : Settled(Cmd[j]) => Settled(Cmd[j])'
      BY <1>23, SettledStable DEF Fsync
  <2>2. ControlInv' /\ IndexInv' /\ StreamInv'
      BY <1>23 DEF Fsync, ControlInv, IndexInv, StreamInv, Updating
  <2>3. CommandInv'
      BY <1>23 DEF Fsync, CommandInv, AlreadyExecuted, VerifyBlocks, Settled, Writes
  <2>4. ExecutedInv' /\ SavedInv'
      BY <1>23, <2>1 DEF Fsync, ExecutedInv, SavedInv, Updating
  <2>5. SavedIndexSound' /\ MarkerSound' /\ SuccessMeansTarget'
      BY <1>23, <2>1 DEF Fsync, SavedIndexSound, MarkerSound, SuccessMeansTarget
  <2> QED
      BY <2>2, <2>3, <2>4, <2>5
<1>24. CASE Return
  <2>1. \A j \in CmdIndex : Settled(Cmd[j]) => Settled(Cmd[j])'
      BY <1>24, SettledStable DEF Return, FinalFsync
  <2>2. pc' = "idle"
      BY <1>24 DEF Return
  <2>3. ControlInv' /\ ExecutedInv' /\ SavedInv' /\ IndexInv' /\ StreamInv' /\ CommandInv'
      BY <2>2 DEF ControlInv, ExecutedInv, SavedInv, IndexInv, StreamInv,
                  CommandInv, Updating
  <2>4. SavedIndexSound' /\ MarkerSound'
      BY <1>24, <2>1 DEF Return, SavedIndexSound, MarkerSound
  <2>5. SuccessMeansTarget'
      BY <1>24, <2>1 DEF Return, SuccessMeansTarget, ExecutedInv, ControlInv, Updating,
                     Writes, CmdIndex
  <2> QED
      BY <2>3, <2>4, <2>5
<1>25. ASSUME NEW b \in Block, WriteRange(b) PROVE Inv'
  <2>1. \A j \in CmdIndex : j # i /\ Writes(j) /\ Settled(Cmd[j]) => Settled(Cmd[j])'
      BY <1>25, <1>k DEF WriteRange, Settled
  <2>2. ControlInv' /\ IndexInv' /\ StreamInv'
      BY <1>25 DEF WriteRange, ControlInv, IndexInv, StreamInv, Updating
  <2>3. Writes(i) => Written(b) = Cmd[i].tgt[b]
      BY <1>25 DEF WriteRange, Written, Writes, StreamInv, Updating, ControlInv
  <2>4. CommandInv'
      BY <1>25, <2>3 DEF WriteRange, CommandInv, AlreadyExecuted, TypeOK, DiskTypeOK
  <2>5. ExecutedInv'
      BY <1>25, <2>1 DEF WriteRange, ExecutedInv, Updating
  <2>6. SavedInv' /\ SavedIndexSound'
      BY <1>25, <2>1, <1>p DEF WriteRange, SavedInv, SavedIndexSound, Updating, Writes
  <2>7. MarkerSound' /\ SuccessMeansTarget'
      BY <1>25 DEF WriteRange, MarkerSound, SuccessMeansTarget, ControlInv
  <2> QED
      BY <2>2, <2>4, <2>5, <2>6, <2>7
<1>26. CASE CommandFails
  <2> PICK lost \in InFlight : Torn(lost)
      BY <1>26 DEF CommandFails
  <2>1. \A j \in CmdIndex : Writes(j) /\ Settled(Cmd[j]) /\ (pc = "write" => j # i)
            => Settled(Cmd[j])'
    <3> SUFFICES ASSUME NEW j \in CmdIndex, Writes(j), Settled(Cmd[j]),
                        pc = "write" => j # i
                 PROVE  Settled(Cmd[j])'
        OBVIOUS
    <3>1. \A b \in DOMAIN Cmd[j].tgt : b \notin lost
        BY <1>k DEF InFlight
    <3> QED
        BY <1>26, <1>k, <3>1 DEF CommandFails, Torn, Settled
  <2>2. ControlInv' /\ ExecutedInv' /\ SavedInv' /\ IndexInv' /\ StreamInv' /\ CommandInv'
      BY <1>26 DEF CommandFails, ControlInv, ExecutedInv, SavedInv, IndexInv, StreamInv,
               CommandInv, Updating
  <2>3. SavedIndexSound'
      BY <1>26, <2>1, <1>p DEF CommandFails, SavedIndexSound, Writes
  <2>4. MarkerSound' /\ SuccessMeansTarget'
      BY <1>26 DEF CommandFails, MarkerSound, SuccessMeansTarget, ControlInv
  <2> QED
      BY <2>2, <2>3, <2>4
<1>27. CASE Kill
  <2> PICK lost \in InFlight : Torn(lost)
      BY <1>27 DEF Kill
  <2>1. \A j \in CmdIndex : Writes(j) /\ Settled(Cmd[j]) /\ (pc = "write" => j # i)
            => Settled(Cmd[j])'
    <3> SUFFICES ASSUME NEW j \in CmdIndex, Writes(j), Settled(Cmd[j]),
                        pc = "write" => j # i
                 PROVE  Settled(Cmd[j])'
        OBVIOUS
    <3>1. \A b \in DOMAIN Cmd[j].tgt : b \notin lost
        BY <1>k DEF InFlight
    <3> QED
        BY <1>27, <1>k, <3>1 DEF Kill, Torn, Settled
  <2>2. ControlInv' /\ ExecutedInv' /\ SavedInv' /\ IndexInv' /\ StreamInv' /\ CommandInv'
      BY <1>27 DEF Kill, ControlInv, ExecutedInv, SavedInv, IndexInv, StreamInv,
               CommandInv, Updating
  <2>3. SavedIndexSound'
      BY <1>27, <2>1, <1>p DEF Kill, SavedIndexSound, Writes
  <2>4. MarkerSound' /\ SuccessMeansTarget'
      BY <1>27, <2>1 DEF Kill, MarkerSound, SuccessMeansTarget, ControlInv, Writes
  <2> QED
      BY <2>2, <2>3, <2>4
<1>28. CASE PowerLoss
  <2> PICK lost \in InFlight, f \in [dirty -> {"old", "new", "torn"}] :
          disk' = [b \in Block |->
                     IF b \in lost THEN Garbage
                     ELSE IF b \notin dirty \/ f[b] = "new" THEN disk[b]
                     ELSE IF f[b] = "old" THEN durable[b] ELSE Garbage]
      BY <1>28 DEF PowerLoss
  <2>1. \A j \in CmdIndex : Writes(j) /\ Settled(Cmd[j]) /\ (pc = "write" => j # i)
            => Settled(Cmd[j])'
    <3> SUFFICES ASSUME NEW j \in CmdIndex, Writes(j), Settled(Cmd[j]),
                        pc = "write" => j # i
                 PROVE  Settled(Cmd[j])'
        OBVIOUS
    <3>1. \A b \in DOMAIN Cmd[j].tgt : b \notin lost
        BY <1>k DEF InFlight
    <3> QED
        BY <1>28, <1>k, <3>1 DEF PowerLoss, Settled
  <2>2. ControlInv' /\ ExecutedInv' /\ SavedInv' /\ IndexInv' /\ StreamInv' /\ CommandInv'
      BY <1>28 DEF PowerLoss, ControlInv, ExecutedInv, SavedInv, IndexInv, StreamInv,
               CommandInv, Updating
  <2>3. SavedIndexSound'
      BY <1>28, <2>1, <1>p DEF PowerLoss, SavedIndexSound, Writes
  <2>4. MarkerSound' /\ SuccessMeansTarget'
      BY <1>28, <2>1 DEF PowerLoss, MarkerSound, SuccessMeansTarget, ControlInv, Writes
  <2> QED
      BY <2>2, <2>3, <2>4
<1>29. CASE UNCHANGED vars
  <2>1. \A j \in CmdIndex : Settled(Cmd[j])' <=> Settled(Cmd[j])
      BY <1>29, <1>c DEF vars
  <2>2. \A j \in CmdIndex : VerifyBlocks(Cmd[j].tgt)' <=> VerifyBlocks(Cmd[j].tgt)
      BY <1>29, <1>c DEF vars
  <2>3. ControlInv' /\ ExecutedInv' /\ SavedInv' /\ IndexInv' /\ StreamInv'
      BY <1>29, <2>1 DEF vars, ControlInv, ExecutedInv, SavedInv, IndexInv, StreamInv,
               Updating
  <2>4. CommandInv'
      BY <1>29, <2>1, <2>2 DEF vars, disks, CommandInv, AlreadyExecuted, CmdIndex
  <2>5. SavedIndexSound' /\ MarkerSound' /\ SuccessMeansTarget'
      BY <1>29, <2>1 DEF vars, SavedIndexSound, MarkerSound, SuccessMeansTarget
  <2> QED
      BY <2>3, <2>4, <2>5
<1> QED
    BY <1>1, <1>2, <1>3, <1>4, <1>5, <1>6, <1>7, <1>8, <1>9, <1>10, <1>11,
       <1>12, <1>13, <1>14, <1>15, <1>16, <1>17, <1>18, <1>19, <1>20, <1>21,
       <1>22, <1>23, <1>24, <1>25, <1>26, <1>27, <1>28, <1>29 
       DEF Next, Step

-----------------------------------------------------------------------------
\* The invariant holds of every behaviour, provided that no other package left
\* its last_command file behind.
LEMMA InvHolds ==
    ASSUME StaleLastCmd = {}
    PROVE  Spec => []Inv
<1>1. Init => Inv
  <2> SUFFICES ASSUME Init PROVE Inv
      OBVIOUS
  <2>1. TypeOK
      BY TypeInit
  <2>2. ControlInv /\ ExecutedInv /\ SavedInv /\ IndexInv /\ StreamInv /\ CommandInv
      BY DEF Init, ControlInv, ExecutedInv, SavedInv, IndexInv, StreamInv,
             CommandInv, Updating
  <2>3. SavedIndexSound /\ MarkerSound /\ SuccessMeansTarget
      BY DEF Init, SavedIndexSound, MarkerSound, SuccessMeansTarget
  <2> QED
      BY <2>1, <2>2, <2>3 DEF Inv
<1> QED
    BY <1>1, InvInductive, PTL DEF Spec

(***************************************************************************)
(* An update that reports success has put the whole target on the flash,   *)
(* and the marker never promises work that was not done.  This holds       *)
(* however often the update is interrupted, by whatever fault, and on      *)
(* whatever image it starts.                                               *)
(***************************************************************************)
THEOREM UpdateSound ==
    ASSUME StaleLastCmd = {}
    PROVE  Spec => [](MarkerSound /\ SuccessMeansTarget)
<1>1. Inv => MarkerSound /\ SuccessMeansTarget
    BY DEF Inv
<1> QED
    BY <1>1, InvHolds, PTL

(***************************************************************************)
(* What the index in last_command lets a later update skip has reached the *)
(* flash, whatever interrupts this one, also while it executes new         *)
(* commands again.                                                         *)
(***************************************************************************)
THEOREM SavedIndexIsSound ==
    ASSUME StaleLastCmd = {}
    PROVE  Spec => []SavedIndexSound
<1>1. Inv => SavedIndexSound
    BY DEF Inv
<1> QED
    BY <1>1, InvHolds, PTL

-----------------------------------------------------------------------------
(***************************************************************************)
(* Why a verification may free stashes and delete the stash directory: it  *)
(* does so only if it created the directory itself, and then it is empty.  *)
(***************************************************************************)
ReadOnlyInv ==
    /\ faults \in Nat
    /\ pc \in {"write", "sync", "index", "delstash", "dellast", "setmarker"} => canwrite
    /\ pc \in {"cmd", "write", "sync", "index"} => stashdir
    /\ ~stashdir => stash = {}
    /\ pc # "idle" /\ ~canwrite /\ createdstash => stash = {}

\* Every step preserves it.
LEMMA ReadOnlyInductive == ReadOnlyInv /\ [Next]_vars => ReadOnlyInv'
<1> SUFFICES ASSUME ReadOnlyInv, [Next]_vars PROVE ReadOnlyInv'
    OBVIOUS
<1> USE ListAssumption
<1> USE DEF ReadOnlyInv, disks, cache, params, locals, outcome
<1>1. CASE \E write \in BOOLEAN : SkipUpdatedPartition(write)
    BY <1>1 DEF SkipUpdatedPartition
<1>2. CASE \E write, retry \in BOOLEAN : Start(write, retry)
    BY <1>2 DEF Start, Begin, InitParameters
<1>3. CASE \E write, retry \in BOOLEAN : CreateStashFails(write, retry)
    BY <1>3 DEF CreateStashFails, Begin, Fault
<1>4. CASE SkipCommand
    BY <1>4 DEF SkipCommand
<1>5. CASE PerformCommandStash
    BY <1>5 DEF PerformCommandStash, Performing, NextCommand
<1>6. CASE PerformCommandFree
    BY <1>6 DEF PerformCommandFree, Performing, NextCommand, FreeStash
<1>7. CASE TargetVerified
    BY <1>7 DEF TargetVerified, Performing, NextCommand
<1>8. CASE CopySource
    BY <1>8 DEF CopySource, Performing
<1>9. CASE VerifyCopy
    BY <1>9 DEF VerifyCopy, Performing
<1>10. CASE Unresumable \/ RootHashMismatch \/ PerformCommandAbort
    BY <1>10 DEF Unresumable, RootHashMismatch, PerformCommandAbort, Performing, Fault
<1>11. CASE StartWrite
    BY <1>11 DEF StartWrite, Performing, NotVerified
<1>12. CASE \E b \in Block : WriteRange(b)
    BY <1>12 DEF WriteRange
<1>13. CASE FinishWrite \/ Fsync
    BY <1>13 DEF FinishWrite, Fsync, FreeStash
<1>14. CASE UpdateLastCommandIndex \/ UpdateLastCommandIndexFails
    BY <1>14 DEF UpdateLastCommandIndex, UpdateLastCommandIndexFails, Fault
<1>15. CASE AllCommandsDone
    BY <1>15 DEF AllCommandsDone
<1>16. CASE \E id \in StashId : DeleteStashFile(id)
    BY <1>16 DEF DeleteStashFile
<1>17. CASE DeleteStashDir \/ DeleteLastCommandFile
    BY <1>17 DEF DeleteStashDir, DeleteLastCommandFile
<1>18. CASE SetUpdatedMarker \/ SetUpdatedMarkerFails
    BY <1>18 DEF SetUpdatedMarker, SetUpdatedMarkerFails, Fault
<1>19. CASE Return
    BY <1>19 DEF Return
<1>20. CASE CommandFails
    BY <1>20 DEF CommandFails, Fault
<1>21. CASE Kill \/ PowerLoss
    BY <1>21 DEF Kill, PowerLoss, Fault
<1>22. CASE UNCHANGED vars
    BY <1>22 DEF vars
<1> QED
    BY <1>1, <1>2, <1>3, <1>4, <1>5, <1>6, <1>7, <1>8, <1>9, <1>10, <1>11, <1>12, <1>13,
       <1>14, <1>15, <1>16, <1>17, <1>18, <1>19, <1>20, <1>21, <1>22 DEF Next, Step

(***************************************************************************)
(* A verification changes no block of the partition, and no stash that an  *)
(* interrupted update will need, unless it has found that the update       *)
(* cannot be resumed: for every list, image, number and kind of faults.    *)
(***************************************************************************)
THEOREM VerificationReadOnly == Spec => VerifyReadOnly
<1> DEFINE Step0 == ~canwrite /\ pc # "idle" /\ faults' = faults =>
                       disk' = disk /\ (stash' # stash => isunresumable)
<1>1. ASSUME ReadOnlyInv, Next, ~canwrite, pc # "idle", faults' = faults
      PROVE  disk' = disk /\ (stash' # stash => isunresumable)
  <2>1. \A kind : ~Fault(kind)
      BY <1>1 DEF Fault, ReadOnlyInv
  <2>2. ASSUME NEW write \in BOOLEAN, NEW retry \in BOOLEAN
        PROVE  /\ ~SkipUpdatedPartition(write) /\ ~Start(write, retry)
               /\ ~CreateStashFails(write, retry)
      BY <1>1 DEF SkipUpdatedPartition, Start, CreateStashFails, Begin
  <2>3. /\ ~UpdateLastCommandIndexFails /\ ~SetUpdatedMarkerFails /\ ~CommandFails
        /\ ~PerformCommandAbort /\ ~Kill /\ ~PowerLoss
      BY <2>1 DEF UpdateLastCommandIndexFails, SetUpdatedMarkerFails, CommandFails,
                  PerformCommandAbort, Kill, PowerLoss
  <2>4. Step
      BY <1>1, <2>2, <2>3 DEF Next
  <2>5. ~FinishWrite /\ \A b \in Block : ~WriteRange(b)
      BY <1>1 DEF ReadOnlyInv, FinishWrite, WriteRange
  <2>6. ~CopySource /\ \A id \in StashId : ~DeleteStashFile(id)
      BY <1>1 DEF ReadOnlyInv, CopySource, DeleteStashFile
  <2>7. CASE PerformCommandStash \/ PerformCommandFree
      BY <1>1, <2>7 DEF PerformCommandStash, PerformCommandFree, FreeStash, ReadOnlyInv, disks
  <2>8. CASE Return
      BY <1>1, <2>8 DEF Return, ReadOnlyInv
  <2>9. CASE SkipCommand \/ TargetVerified \/ VerifyCopy \/ Unresumable \/ StartWrite
              \/ RootHashMismatch \/ Fsync
      BY <2>9 DEF SkipCommand, TargetVerified, VerifyCopy, Unresumable, StartWrite,
                   RootHashMismatch, Fsync, disks, cache
  <2>10. CASE UpdateLastCommandIndex \/ AllCommandsDone \/ DeleteStashDir
              \/ DeleteLastCommandFile \/ SetUpdatedMarker
      BY <2>10 DEF UpdateLastCommandIndex, AllCommandsDone, DeleteStashDir,
                   DeleteLastCommandFile, SetUpdatedMarker, disks, cache
  <2> QED
      BY <2>4, <2>5, <2>6, <2>7, <2>8, <2>9, <2>10 DEF Step
<1>2. ReadOnlyInv /\ [Next]_vars => [Step0]_vars
    BY <1>1
<1>3. Init => ReadOnlyInv
    BY ListAssumption DEF Init, ReadOnlyInv
<1> QED
    BY <1>2, <1>3, ReadOnlyInductive, PTL DEF Spec, VerifyReadOnly
-----------------------------------------------------------------------------
(***************************************************************************)
(* Resumability.  It takes a list whose stashes are made before they are   *)
(* used, and in which no stash is used after it has been freed: neither by *)
(* a command that names it nor as the name of an overlapping source.  The  *)
(* partition starts out as the source image.  Under power loss, which can  *)
(* undo an overlapping copy after its stash has been deleted, no command   *)
(* may overwrite its own source.                                           *)
(***************************************************************************)
Copies(k) == Cmd[k].type \in Copying
Stashes(j, id) == Cmd[j].type = "stash" /\ Cmd[j].id = id

StashesInOrder ==
    \A k \in CmdIndex : Copies(k) =>
        /\ \A id \in Cmd[k].uses : \E j \in CmdIndex : j < k /\ Stashes(j, id)
        /\ \A f \in CmdIndex : f < k /\ Cmd[f].type = "free" =>
             /\ Cmd[f].id \notin Cmd[k].uses
             /\ Overlap(Cmd[k]) => Cmd[k].id # Cmd[f].id

Power == "power" \in Faults
PowerSafe == Power => \A k \in CmdIndex : Copies(k) => ~Overlap(Cmd[k])

SourceImages ==
    \A image \in InitialImages, k \in CmdIndex : Copies(k) \/ Cmd[k].type = "stash" =>
        \A b \in DOMAIN Cmd[k].src : image[b] = Cmd[k].src[b]

\* The blocks hold what they should, and will after the faults that can happen.
Safe(image) ==
    \A b \in DOMAIN image :
        disk[b] = image[b] /\ (Power => durable[b] = image[b] /\ b \notin dirty)

\* Stash command j will be executed, by this attempt and by those after it.
Pending(j) ==
    /\ lastCmd # None => j > lastCmd
    /\ Updating => /\ j >= i /\ (pc \in {"sync", "index"} => j > i)
                   /\ skip => j > saved

\* The stashes the current command will not delete when it ends.
Kept == IF pc = "write" THEN stash \ {freestash} ELSE stash

Available(id, k) ==
    \/ id \in Kept
    \/ \E j \in CmdIndex : j < k /\ Stashes(j, id) /\ Pending(j) /\ Safe(Cmd[j].src)

Source(k) ==
    \/ Safe(Cmd[k].src) /\ \A id \in Cmd[k].uses : Available(id, k)
    \/ Overlap(Cmd[k]) /\ Cmd[k].id \in Kept

\* Every copying command is done, or what it copies from is there.
Recoverable ==
    \A k \in CmdIndex : Copies(k) => Safe(Cmd[k].tgt) \/ Source(k) \/ (pc = "write" /\ k = i)

\* The one that is being executed has its source in the stash or elsewhere.
CopyInv ==
    /\ pc = "write" /\ Copies(i) =>
         IF Overlap(Cmd[i]) THEN Cmd[i].id \in stash ELSE Source(i)
    /\ pc = "write" /\ freestash # None =>
         Copies(i) /\ Overlap(Cmd[i]) /\ freestash = Cmd[i].id
    /\ pc \in {"cmd", "sync", "index"} => freestash = None

\* A verification finds in the map of stashes the blocks that stand in for one.
MapInv ==
    ~canwrite /\ pc = "cmd" => \A id \in StashId :
        /\ stashMap[id] # None => id \notin stash
        /\ \A j, k \in CmdIndex :
             /\ j < i /\ i <= k /\ Stashes(j, id) /\ VerifyBlocks(Cmd[j].src)
             /\ Copies(k) /\ id \in Cmd[k].uses /\ id \notin stash
             => stashMap[id] # None /\ VerifyBlocks(Cmd[stashMap[id]].src)

\* Blocks that no step touches, but perhaps syncs, stay safe.
LEMMA SafeStable ==
    ASSUME NEW image, Safe(image),
           \A b \in DOMAIN image :
               /\ disk'[b] = disk[b]
               /\ durable'[b] = durable[b] \/ durable'[b] = disk[b]
               /\ b \in dirty' => b \in dirty
    PROVE  Safe(image)'
    BY DEF Safe, Power

\* What keeps the source of a command.
LEMMA SourceKept ==
    ASSUME NEW k \in CmdIndex, Source(k),
           Safe(Cmd[k].src) => Safe(Cmd[k].src)', Kept \subseteq Kept',
           \A j \in CmdIndex : j < k /\ Cmd[j].type = "stash" /\ Pending(j) /\ Safe(Cmd[j].src)
               => Pending(j)' /\ Safe(Cmd[j].src)'
    PROVE  Source(k)'
<1>1. ASSUME NEW id, Available(id, k) PROVE Available(id, k)'
    BY <1>1 DEF Available, Stashes
<1> QED
    BY <1>1 DEF Source

\* A step that leaves the partition alone, except for a sync, ...
LEMMA QuietStep ==
    ASSUME NEW k \in CmdIndex, Safe(Cmd[k].tgt) \/ Source(k),
           disk' = disk, durable' = durable \/ durable' = disk, dirty' \subseteq dirty,
           Kept \subseteq Kept',
           \A j \in CmdIndex : Cmd[j].type = "stash" /\ Pending(j) => Pending(j)'
    PROVE  Safe(Cmd[k].tgt)' \/ Source(k)'
<1>1. ASSUME NEW image, Safe(image) PROVE Safe(image)'
    BY <1>1, SafeStable
<1>2. CASE Safe(Cmd[k].tgt)
    BY <1>1, <1>2
<1>3. CASE Source(k)
    BY <1>1, <1>3, SourceKept
<1> QED
    BY <1>2, <1>3

\* ... and one in which the current command writes some of its target blocks,
\* or loses them.
TargetChanges ==
    \A b \in Block \ DOMAIN Cmd[i].tgt : (Power => b \notin dirty) =>
        /\ disk'[b] = disk[b]
        /\ durable'[b] = durable[b] \/ durable'[b] = disk[b]
        /\ b \in dirty' => b \in dirty

\* A command reads blocks of the partition and stashes.
LEMMA SourceType ==
    \A j \in CmdIndex : DOMAIN Cmd[j].src \subseteq Block /\ Cmd[j].uses \subseteq StashId
<1> SUFFICES ASSUME NEW j \in CmdIndex
             PROVE  DOMAIN Cmd[j].src \subseteq Block /\ Cmd[j].uses \subseteq StashId
    OBVIOUS
<1>1. Cmd[j] \in Command
    BY ListAssumption
<1>2. Cmd[j].src \in Image /\ Cmd[j].uses \subseteq StashId
    BY <1>1 DEF Command
<1> QED
    BY <1>2 DEF Image

\* Blocks outside of the target stay safe.
LEMMA OutsideSafe ==
    ASSUME NEW image, Safe(image), TargetChanges, DOMAIN image \subseteq Block,
           DOMAIN image \cap DOMAIN Cmd[i].tgt = {}
    PROVE  Safe(image)'
<1> SUFFICES ASSUME NEW b \in DOMAIN image
             PROVE  /\ disk'[b] = disk[b]
                    /\ durable'[b] = durable[b] \/ durable'[b] = disk[b]
                    /\ b \in dirty' => b \in dirty
    BY SafeStable
<1>1. b \in Block \ DOMAIN Cmd[i].tgt /\ (Power => b \notin dirty)
    BY DEF Safe
<1> QED
    BY <1>1 DEF TargetChanges

\* Writing the target of a command leaves the commands before it done and the
\* sources of those after it alone.
LEMMA WriteKeepsOthers ==
    ASSUME Inv, pc = "write", TargetChanges, NEW k \in CmdIndex, k # i, Copies(k),
           Safe(Cmd[k].tgt) \/ Source(k), Kept \subseteq Kept',
           \A j \in CmdIndex : Cmd[j].type = "stash" /\ Pending(j) => Pending(j)'
    PROVE  Safe(Cmd[k].tgt)' \/ Source(k)'
<1> USE ListAssumption
<1>1. /\ i \in CmdIndex /\ Cmd[i].type \in Writing /\ Cmd[k].type \in Writing
      /\ Cmd[k].type # "compute_hash_tree" /\ Writes(k)
    BY DEF Inv, TypeOK, LocalsTypeOK, CmdIndex, CommandInv, Copies, Copying, Writing, Blind, Writes
<1>2. /\ DOMAIN Cmd[k].tgt \cap DOMAIN Cmd[i].tgt = {}
      /\ DOMAIN Cmd[k].tgt \subseteq Block
    BY <1>1, TargetsDisjoint, CommandType
<1>3. Safe(Cmd[k].tgt) => Safe(Cmd[k].tgt)'
    BY <1>2, OutsideSafe
<1>4. CASE k < i
  <2>1. Settled(Cmd[k])
      BY <1>1, <1>4 DEF Inv, ControlInv, ExecutedInv, Updating
  <2>2. Safe(Cmd[k].tgt)
      BY <2>1 DEF Settled, Safe
  <2> QED
      BY <1>3, <2>2
<1>5. CASE k > i
  <2>1. Safe(Cmd[k].src) => Safe(Cmd[k].src)'
    <3>1. DOMAIN Cmd[k].src \cap DOMAIN Cmd[i].tgt = {}
        BY <1>1, <1>5, CreatorAssumption
    <3> QED
        BY <3>1, SourceType, OutsideSafe
  <2>2. ASSUME NEW j \in CmdIndex, Cmd[j].type = "stash", Pending(j), Safe(Cmd[j].src)
        PROVE  Safe(Cmd[j].src)'
    <3>1. j > i
      <4>1. j >= i
          BY <2>2 DEF Pending, Updating, Inv, ControlInv
      <4>2. j # i
          BY <1>1, <2>2 DEF Writing, Copying, Blind
      <4> QED
          BY <1>1, <4>1, <4>2 DEF CmdIndex
    <3>2. DOMAIN Cmd[j].src \cap DOMAIN Cmd[i].tgt = {}
        BY <1>1, <2>2, <3>1, CreatorAssumption
    <3> QED
        BY <2>2, <3>2, SourceType, OutsideSafe
  <2>3. Source(k) => Source(k)'
      BY <2>1, <2>2, SourceKept
  <2> QED
      BY <1>3, <2>3
<1> QED
    BY <1>1, <1>4, <1>5 DEF CmdIndex

\* When the current command is cut short its source is there.
LEMMA WriteKeepsSource ==
    ASSUME Inv, CopyInv, PowerSafe, pc = "write", TargetChanges,
           NEW k \in CmdIndex, k = i, Copies(k),
           Kept \subseteq Kept', Overlap(Cmd[k]) => Kept' = stash
    PROVE  Source(k)'
<1> USE ListAssumption
<1>1. CASE Overlap(Cmd[k])
  <2>1. Cmd[k].id \in Kept'
      BY <1>1 DEF CopyInv
  <2> QED
      BY <1>1, <2>1 DEF Source
<1>2. CASE ~Overlap(Cmd[k])
  <2>1. Source(k) /\ DOMAIN Cmd[k].src \cap DOMAIN Cmd[k].tgt = {}
      BY <1>2 DEF CopyInv, Overlap
  <2>2. Safe(Cmd[k].src) => Safe(Cmd[k].src)'
      BY <2>1, SourceType, OutsideSafe
  <2>3. \A j \in CmdIndex : j < k => ~Pending(j)
      BY DEF Pending, Updating, Inv, ControlInv, CmdIndex
  <2> QED
      BY <2>1, <2>2, <2>3, SourceKept
<1> QED
    BY <1>1, <1>2

\* Pending stash commands stay pending when the attempt goes on to the next
\* command or step; the current one is none of them.
LEMMA RecoverableStep ==
    ASSUME Inv, ReadOnlyInv, CopyInv, Recoverable, ~isunresumable, StashesInOrder, PowerSafe, Next
    PROVE  Recoverable'
<1> SUFFICES ASSUME NEW k \in CmdIndex, Copies(k)
             PROVE  Safe(Cmd[k].tgt)' \/ Source(k)' \/ (pc' = "write" /\ k = i')
    BY DEF Recoverable, Copies
<1> USE ListAssumption
<1> DEFINE Good == Safe(Cmd[k].tgt) \/ Source(k)
           PendingStays == \A j \in CmdIndex : Cmd[j].type = "stash" /\ Pending(j) => Pending(j)'
<1>t. /\ i \in 0 .. N /\ (pc \in {"write", "sync", "index"} => i \in CmdIndex)
      /\ lastCmd \in Nat \cup {None} /\ saved \in Nat \cup {None}
      /\ canwrite \in BOOLEAN /\ skip \in BOOLEAN /\ stash \subseteq StashId
    BY DEF Inv, TypeOK, LocalsTypeOK, CacheTypeOK, ParamsTypeOK, CmdIndex
<1>g. pc # "write" \/ k # i => Good
    BY DEF Recoverable
<1>q. ASSUME pc # "write", disk' = disk, durable' = durable \/ durable' = disk, dirty' \subseteq dirty,
             Kept \subseteq Kept', PendingStays
      PROVE  Good'
    BY <1>g, <1>q, QuietStep
<1>1. CASE \E write \in BOOLEAN : SkipUpdatedPartition(write)
  <2>1. pc = "idle" /\ pc' = "idle" /\ UNCHANGED <<disks, stash, lastCmd>>
      BY <1>1 DEF SkipUpdatedPartition, cache
  <2> QED
      BY <1>q, <2>1 DEF disks, Kept, Pending, Updating
<1>2. CASE \E write, retry \in BOOLEAN : Start(write, retry)
  <2>1. /\ pc = "idle" /\ pc' = "cmd" /\ UNCHANGED <<disks, stash, lastCmd>>
        /\ i' = 0 /\ saved' = lastCmd /\ (skip' => lastCmd # None)
      BY <1>2 DEF Start, Begin, InitParameters, ParseLastCommandFile
  <2>2. PendingStays
      BY <2>1 DEF Pending, Updating, CmdIndex
  <2> QED
      BY <1>q, <2>1, <2>2 DEF disks, Kept
<1>3. CASE \E write, retry \in BOOLEAN : CreateStashFails(write, retry)
  <2>1. pc = "idle" /\ pc' = "idle" /\ UNCHANGED <<disks, stash, lastCmd>>
      BY <1>3 DEF CreateStashFails, Begin
  <2> QED
      BY <1>q, <2>1 DEF disks, Kept, Pending, Updating
<1>4. CASE SkipCommand
  <2>1. /\ pc = "cmd" /\ pc' = "cmd" /\ i' = i + 1
        /\ UNCHANGED <<disks, stash, lastCmd, canwrite, skip, saved>>
        /\ canwrite => skip /\ i <= saved
      BY <1>4, <1>t DEF SkipCommand, NotVerified, AlreadyExecuted, cache, params
  <2>2. PendingStays
      BY <1>t, <2>1 DEF Pending, Updating, CmdIndex
  <2> QED
      BY <1>q, <2>1, <2>2 DEF disks, Kept
<1>5. CASE PerformCommandStash
  <2>1. CASE canwrite
    <3>1. /\ pc = "cmd" /\ pc' = "sync" /\ i \in CmdIndex /\ stash \subseteq stash'
          /\ UNCHANGED <<disks, lastCmd, canwrite, skip, saved, i>>
          /\ Cmd[i].id \in stash' \/ ~VerifyBlocks(Cmd[i].src)
        BY <1>5, <2>1, <1>t DEF PerformCommandStash, Performing, NextCommand, params, WriteStash,
           LoadStash, CmdIndex
    <3>2. ASSUME NEW j \in CmdIndex, j # i, Pending(j) PROVE Pending(j)'
        BY <1>t, <3>1, <3>2 DEF Pending, Updating, CmdIndex
    <3>3. \A image : Safe(image) => Safe(image)'
        BY <3>1 DEF Safe, disks
    <3>4. ASSUME NEW id, Available(id, k) PROVE Available(id, k)'
      <4>1. CASE id \in Kept
          BY <3>1, <4>1 DEF Available, Kept
      <4>2. CASE \E j \in CmdIndex : j < k /\ Stashes(j, id) /\ Pending(j) /\ Safe(Cmd[j].src)
        <5>1. PICK j \in CmdIndex : j < k /\ Stashes(j, id) /\ Pending(j) /\ Safe(Cmd[j].src)
            BY <4>2
        <5>2. CASE j = i
          <6>1. VerifyBlocks(Cmd[i].src)
              BY <5>1, <5>2 DEF Safe, VerifyBlocks
          <6> QED
              BY <3>1, <5>1, <5>2, <6>1 DEF Available, Kept, Stashes
        <5>3. CASE j # i
            BY <3>2, <3>3, <5>1, <5>3 DEF Available, Stashes
        <5> QED
            BY <5>2, <5>3
      <4> QED
          BY <3>4, <4>1, <4>2 DEF Available
    <3>5. Source(k) => Source(k)'
        BY <3>1, <3>3, <3>4 DEF Source, Kept
    <3> QED
        BY <1>g, <3>1, <3>3, <3>5
  <2>2. CASE ~canwrite
    <3>1. /\ pc = "cmd" /\ pc' = "cmd" /\ UNCHANGED <<disks, lastCmd, canwrite, stash>>
        BY <1>5, <2>2 DEF PerformCommandStash, Performing, NextCommand, params
    <3> QED
        BY <1>q, <2>2, <3>1 DEF disks, Kept, Pending, Updating
  <2> QED
      BY <2>1, <2>2
<1>6. CASE PerformCommandFree
  <2>1. CASE canwrite
    <3>1. /\ pc = "cmd" /\ pc' = "sync" /\ i \in CmdIndex /\ Cmd[i].type = "free"
          /\ stash' = stash \ {Cmd[i].id}
          /\ UNCHANGED <<disks, lastCmd, canwrite, skip, saved, i>>
        BY <1>6, <2>1, <1>t DEF PerformCommandFree, Performing, NextCommand, params, FreeStash, CmdIndex
    <3>2. ASSUME NEW j \in CmdIndex, Cmd[j].type = "stash", Pending(j) PROVE Pending(j)'
        BY <1>t, <3>1, <3>2 DEF Pending, Updating, CmdIndex
    <3>3. \A image : Safe(image) => Safe(image)'
        BY <3>1 DEF Safe, disks
    <3>4. CASE k < i
      <4>1. Settled(Cmd[k])
          BY <2>1, <3>1, <3>4 DEF Inv, ExecutedInv, Updating, Writes, Copies, Copying, Writing
      <4> QED
          BY <3>3, <4>1 DEF Settled, Safe
    <3>5. CASE k > i
      <4>1. Cmd[i].id \notin Cmd[k].uses /\ (Overlap(Cmd[k]) => Cmd[k].id # Cmd[i].id)
          BY <3>1, <3>5 DEF StashesInOrder
      <4>2. ASSUME NEW id \in Cmd[k].uses, Available(id, k) PROVE Available(id, k)'
          BY <3>1, <3>2, <3>3, <4>1, <4>2 DEF Available, Kept, Stashes
      <4>3. Source(k) => Source(k)'
          BY <3>1, <3>3, <4>1, <4>2 DEF Source, Kept
      <4> QED
          BY <1>g, <3>1, <3>3, <4>3
    <3>6. k # i
        BY <3>1 DEF Copies, Copying
    <3> QED
        BY <3>1, <3>4, <3>5, <3>6 DEF CmdIndex
  <2>2. CASE ~canwrite
    <3>1. /\ pc = "cmd" /\ pc' = "cmd" /\ UNCHANGED <<disks, lastCmd, canwrite, stash>>
        BY <1>6, <2>2 DEF PerformCommandFree, Performing, NextCommand, params, FreeStash, ReadOnlyInv
    <3> QED
        BY <1>q, <2>2, <3>1 DEF disks, Kept, Pending, Updating
  <2> QED
      BY <2>1, <2>2
<1>7. CASE TargetVerified
  <2>1. /\ pc = "cmd" /\ i \in CmdIndex /\ Cmd[i].type \in Copying
        /\ UNCHANGED <<disks, stash, lastCmd, canwrite, skip, saved>>
        /\ canwrite => pc' = "sync" /\ i' = i
        /\ pc' # "write"
      BY <1>7, <1>t DEF TargetVerified, Performing, NextCommand, params, cache, CmdIndex
  <2>2. PendingStays
    <3>1. Cmd[i].type # "stash"
        BY <2>1 DEF Copying
    <3> QED
        BY <1>t, <2>1, <3>1 DEF Pending, Updating, CmdIndex
  <2> QED
      BY <1>q, <2>1, <2>2 DEF disks, Kept
<1>8. CASE CopySource
  <2>1. /\ pc = "cmd" /\ pc' = "write" /\ UNCHANGED <<disks, lastCmd, canwrite, skip, saved, i>>
      BY <1>8 DEF CopySource, Performing, params
  <2>2. Kept \subseteq Kept'
    <3>1. freestash = None
        BY <2>1 DEF CopyInv
    <3>2. CASE SourceVerified(Cmd[i]) /\ Overlap(Cmd[i])
        BY <1>8, <1>t, <2>1, <3>2 DEF CopySource, Kept, WriteStash
    <3>3. CASE ~(SourceVerified(Cmd[i]) /\ Overlap(Cmd[i]))
        BY <1>8, <1>t, <2>1, <3>1, <3>3 DEF CopySource, Kept
    <3> QED
        BY <3>2, <3>3
  <2>3. PendingStays
      BY <2>1 DEF Pending, Updating
  <2> QED
      BY <1>q, <2>1, <2>2, <2>3 DEF disks
<1>9. CASE VerifyCopy \/ Unresumable \/ RootHashMismatch \/ PerformCommandAbort
  <2>1. /\ pc = "cmd" /\ pc' \in {"cmd", "failed"} /\ UNCHANGED <<disks, stash, canwrite>>
        /\ pc' = "cmd" => ~canwrite
        /\ lastCmd' \in {lastCmd, None}
      BY <1>9 DEF VerifyCopy, Unresumable, RootHashMismatch, PerformCommandAbort, Performing, params,
         cache
  <2> QED
      BY <1>q, <2>1 DEF disks, Kept, Pending, Updating
<1>10. CASE StartWrite
  <2>1. /\ pc = "cmd" /\ pc' = "write"
        /\ UNCHANGED <<disks, stash, lastCmd, canwrite, skip, saved, i, freestash>>
      BY <1>10 DEF StartWrite, Performing, params, cache
  <2>2. Kept \subseteq Kept'
      BY <1>t, <2>1 DEF CopyInv, Kept
  <2> QED
      BY <1>q, <2>1, <2>2 DEF disks, Pending, Updating
<1>11. ASSUME pc = "write", TargetChanges, Kept \subseteq Kept', PendingStays,
              Overlap(Cmd[k]) => Kept' = stash
       PROVE  Good'
  <2>1. CASE k = i
      BY <1>11, <2>1, WriteKeepsSource
  <2>2. CASE k # i
      BY <1>11, <1>g, <2>2, WriteKeepsOthers
  <2> QED
      BY <2>1, <2>2
<1>12. ASSUME NEW b \in Block, WriteRange(b)
       PROVE  Safe(Cmd[k].tgt)' \/ Source(k)' \/ (pc' = "write" /\ k = i')
  <2>1. /\ pc = "write" /\ pc' = "write" /\ b \in DOMAIN Cmd[i].tgt
        /\ UNCHANGED <<durable, stash, lastCmd, canwrite, skip, saved, i, freestash>>
        /\ disk' = [disk EXCEPT ![b] = Written(b)] /\ dirty' = dirty \cup {b}
      BY <1>12 DEF WriteRange, params, cache, Inv, TypeOK, LocalsTypeOK
  <2>2. TargetChanges
      BY <2>1 DEF TargetChanges, Inv, TypeOK, DiskTypeOK
  <2>3. Kept \subseteq Kept' /\ PendingStays
      BY <2>1 DEF Kept, Pending, Updating
  <2>4. CASE k # i
      BY <1>g, <2>1, <2>2, <2>3, <2>4, WriteKeepsOthers
  <2> QED
      BY <2>1, <2>4
<1>13. CASE FinishWrite
  <2>1. /\ pc = "write" /\ todo = {} /\ pc' = "sync" /\ stash' = stash \ {freestash}
        /\ UNCHANGED <<disks, lastCmd, canwrite, skip, saved, i>>
      BY <1>13 DEF FinishWrite, FreeStash, params
  <2>2. Kept' = Kept
      BY <2>1 DEF Kept
  <2>3. PendingStays
    <3>1. Cmd[i].type # "stash"
        BY <2>1 DEF Inv, CommandInv, Writing, Copying, Blind
    <3> QED
        BY <1>t, <2>1, <3>1 DEF Pending, Updating, CmdIndex
  <2>4. CASE k # i
      BY <1>g, <2>1, <2>2, <2>3, <2>4, QuietStep DEF disks
  <2>5. CASE k = i /\ Power
    <3>1. Source(k)
        BY <2>1, <2>5 DEF CopyInv, PowerSafe
    <3> QED
        BY <2>1, <2>2, <2>3, <3>1, QuietStep DEF disks
  <2>6. CASE k = i /\ ~Power
    <3>1. VerifyBlocks(Cmd[k].tgt)
        BY <2>1, <2>6 DEF Inv, CommandInv, Writes, Copies, Copying, Writing, VerifyBlocks
    <3> QED
        BY <2>1, <2>6, <3>1 DEF Safe, VerifyBlocks, disks, Power
  <2> QED
      BY <2>4, <2>5, <2>6
<1>14. CASE Fsync
  <2>1. /\ pc = "sync" /\ pc' = "index" /\ disk' = disk /\ durable' = disk /\ dirty' = {}
        /\ UNCHANGED <<stash, lastCmd, canwrite, skip, saved, i>>
      BY <1>14 DEF Fsync, params, cache, locals
  <2> QED
      BY <1>q, <2>1 DEF Kept, Pending, Updating
<1>15. CASE UpdateLastCommandIndex \/ UpdateLastCommandIndexFails
  <2>1. /\ pc = "index" /\ pc' = "cmd" /\ i' = i + 1 /\ lastCmd' \in {i, lastCmd}
        /\ UNCHANGED <<disks, stash, canwrite, skip, saved>>
        /\ canwrite
      BY <1>15 DEF UpdateLastCommandIndex, UpdateLastCommandIndexFails, params, cache, Inv, ControlInv
  <2>2. PendingStays
      BY <1>t, <2>1 DEF Pending, Updating, CmdIndex
  <2> QED
      BY <1>q, <2>1, <2>2 DEF Kept, disks
<1>16. CASE \E id \in StashId : DeleteStashFile(id)
  <2>1. pc = "delstash" /\ UNCHANGED disks
      BY <1>16 DEF DeleteStashFile
  <2>2. Settled(Cmd[k])
      BY <2>1 DEF Inv, ControlInv, ExecutedInv, Updating, Writes, Copies, Copying, Writing, CmdIndex
  <2> QED
      BY <2>1, <2>2 DEF Settled, Safe, disks
<1>17. CASE AllCommandsDone \/ DeleteStashDir \/ DeleteLastCommandFile \/ SetUpdatedMarker
              \/ SetUpdatedMarkerFails
  <2>1. /\ pc \in {"cmd", "delstash", "dellast", "setmarker"}
        /\ pc' \in {"delstash", "dellast", "setmarker", "done"}
        /\ UNCHANGED <<disks, stash, canwrite, skip, saved, i>> /\ lastCmd' \in {lastCmd, None}
      BY <1>17 DEF AllCommandsDone, DeleteStashDir, DeleteLastCommandFile, SetUpdatedMarker,
         SetUpdatedMarkerFails, params, cache, locals
  <2> QED
      BY <1>q, <2>1 DEF Kept, Pending, Updating, disks
<1>18. CASE Return
  <2>1. /\ pc \in {"done", "failed"} /\ pc' = "idle" /\ UNCHANGED <<disk, lastCmd, stash>>
        /\ durable' = durable \/ durable' = disk
        /\ dirty' \subseteq dirty
      BY <1>18 DEF Return, FinalFsync, ReadOnlyInv
  <2> QED
      BY <1>q, <2>1 DEF Kept, Pending, Updating
<1>19. ASSUME CommandFails \/ Kill
       PROVE  Good'
  <2>1. /\ \E lost \in InFlight : Torn(lost)
        /\ pc' \in {"idle", "failed"} /\ UNCHANGED <<durable, stash, lastCmd>>
      BY <1>19 DEF CommandFails, Kill, cache
  <2>2. Kept \subseteq Kept' /\ Kept' = stash /\ PendingStays
      BY <2>1 DEF Kept, Pending, Updating
  <2>3. PICK lost \in InFlight : Torn(lost)
      BY <2>1
  <2>4. CASE pc = "write"
    <3>1. lost \subseteq DOMAIN Cmd[i].tgt
        BY <2>3, <2>4 DEF InFlight, Inv, TypeOK, LocalsTypeOK
    <3>2. TargetChanges
        BY <2>1, <2>3, <3>1 DEF Torn, TargetChanges
    <3> QED
        BY <1>11, <2>2, <2>4, <3>2
  <2>5. CASE pc # "write"
    <3>1. lost = {}
        BY <2>3, <2>5 DEF InFlight
    <3>2. disk' = disk /\ dirty' = dirty
        BY <2>3, <3>1 DEF Torn, Inv, TypeOK, DiskTypeOK
    <3> QED
        BY <1>q, <2>1, <2>2, <2>5, <3>2
  <2> QED
      BY <2>4, <2>5
<1>20. ASSUME PowerLoss
       PROVE  Good'
  <2>1. /\ Power /\ durable' = disk' /\ dirty' = {}
        /\ pc' = "idle" /\ UNCHANGED <<stash, lastCmd>>
      BY <1>20 DEF PowerLoss, Power, Fault, cache
  <2>2. Kept \subseteq Kept' /\ Kept' = stash /\ PendingStays
      BY <2>1 DEF Kept, Pending, Updating
  <2>3. PICK lost \in InFlight, f \in [dirty -> {"old", "new", "torn"}] :
           disk' = [b \in Block |->
                       IF b \in lost THEN Garbage
                       ELSE IF b \notin dirty \/ f[b] = "new" THEN disk[b]
                       ELSE IF f[b] = "old" THEN durable[b] ELSE Garbage]
      BY <1>20 DEF PowerLoss
  <2>4. \A b \in Block \ lost : b \notin dirty => disk'[b] = disk[b] /\ durable'[b] = disk[b]
      BY <2>1, <2>3
  <2>5. CASE pc = "write"
    <3>1. lost \subseteq DOMAIN Cmd[i].tgt
        BY <2>3, <2>5 DEF InFlight, Inv, TypeOK, LocalsTypeOK
    <3>2. TargetChanges
        BY <2>1, <2>4, <3>1 DEF TargetChanges
    <3> QED
        BY <1>11, <2>2, <2>5, <3>2
  <2>6. CASE pc # "write"
    <3>1. lost = {}
        BY <2>3, <2>6 DEF InFlight
    <3>2. ASSUME NEW image, Safe(image), DOMAIN image \subseteq Block PROVE Safe(image)'
        BY <2>1, <2>4, <3>1, <3>2 DEF Safe, Power
    <3>3. \A j \in CmdIndex : DOMAIN Cmd[j].src \subseteq Block /\ DOMAIN Cmd[j].tgt \subseteq Block
        BY SourceType, CommandType
    <3>4. Source(k) => Source(k)'
        BY <2>2, <3>2, <3>3, SourceKept
    <3> QED
        BY <1>g, <2>6, <3>2, <3>3, <3>4
  <2> QED
      BY <2>5, <2>6
<1> QED
    BY <1>1, <1>2, <1>3, <1>4, <1>5, <1>6, <1>7, <1>8, <1>9, <1>10, <1>12, <1>13, <1>14, <1>15, <1>16,
       <1>17, <1>18, <1>19, <1>20 DEF Next, Step

\* A copy starts with its source safe, and no write of it touches that.
LEMMA CopyStep ==
    ASSUME Inv, CopyInv, Recoverable, PowerSafe, Next
    PROVE  CopyInv'
<1> USE ListAssumption
<1>t. stash \subseteq StashId /\ None \notin StashId
    BY DEF Inv, TypeOK, CacheTypeOK
<1>1. CASE CopySource
  <2>1. /\ pc = "cmd" /\ pc' = "write" /\ i \in CmdIndex /\ Copies(i) /\ canwrite
        /\ UNCHANGED <<disks, lastCmd, canwrite, skip, saved, i>>
        /\ ~VerifyBlocks(Cmd[i].tgt) /\ CanExecute(Cmd[i])
      BY <1>1 DEF CopySource, Performing, params, Copies, Inv, TypeOK, LocalsTypeOK, CmdIndex
  <2>2. freestash = None
      BY <2>1 DEF CopyInv
  <2>3. CASE Overlap(Cmd[i]) /\ SourceVerified(Cmd[i])
      BY <1>1, <2>1, <2>3 DEF CopySource, CopyInv, WriteStash, Copies
  <2>4. CASE Overlap(Cmd[i]) /\ ~SourceVerified(Cmd[i])
      BY <1>1, <2>1, <2>2, <2>4 DEF CopySource, CopyInv, CanExecute, LoadStash, Copies
  <2>5. CASE ~Overlap(Cmd[i])
    <3>1. stash' = stash /\ freestash' = None
        BY <1>1, <2>2, <2>5 DEF CopySource
    <3>2. ~Safe(Cmd[i].tgt)
        BY <2>1 DEF Safe, VerifyBlocks
    <3>3. ASSUME NEW k, k = i PROVE Source(k)'
      <4>1. Source(k)
          BY <2>1, <3>2, <3>3 DEF Recoverable
      <4>2. Kept \subseteq Kept' /\ \A image : Safe(image) => Safe(image)'
          BY <1>t, <2>1, <3>1 DEF Kept, Safe, disks
      <4>3. \A j \in CmdIndex : Pending(j) => Pending(j)'
          BY <2>1 DEF Pending, Updating
      <4> QED
          BY <2>1, <3>3, <4>1, <4>2, <4>3, SourceKept
    <3>4. Source(i)'
        BY <2>1, <3>3
    <3> QED
        BY <2>1, <2>5, <3>1, <3>4 DEF CopyInv
  <2> QED
      BY <2>3, <2>4, <2>5
<1>2. ASSUME NEW b \in Block, WriteRange(b)
      PROVE  CopyInv'
  <2>1. /\ pc = "write" /\ pc' = "write" /\ b \in DOMAIN Cmd[i].tgt /\ i \in CmdIndex
        /\ UNCHANGED <<durable, stash, lastCmd, canwrite, skip, saved, i, freestash>>
        /\ disk' = [disk EXCEPT ![b] = Written(b)] /\ dirty' = dirty \cup {b}
      BY <1>2 DEF WriteRange, params, cache, Inv, TypeOK, LocalsTypeOK, CmdIndex
  <2>2. TargetChanges
      BY <2>1 DEF TargetChanges, Inv, TypeOK, DiskTypeOK
  <2>3. ASSUME NEW k, k = i, Copies(i), ~Overlap(Cmd[i]) PROVE Source(k)'
      BY <2>1, <2>2, <2>3, WriteKeepsSource DEF Kept
  <2>4. Copies(i) /\ ~Overlap(Cmd[i]) => Source(i)'
      BY <2>1, <2>3
  <2> QED
      BY <2>1, <2>4 DEF CopyInv, Copies
<1>3. CASE StartWrite
  <2>1. /\ pc = "cmd" /\ pc' = "write" /\ Cmd[i].type \in Blind /\ UNCHANGED <<i, freestash>>
      BY <1>3 DEF StartWrite, Performing
  <2> QED
      BY <2>1 DEF CopyInv, Copies, Copying, Blind
<1>4. ASSUME pc' # "write", pc' \in {"cmd", "sync", "index"} => freestash' = None
      PROVE  CopyInv'
    BY <1>4 DEF CopyInv
<1>5. CASE \E write \in BOOLEAN : SkipUpdatedPartition(write)
    BY <1>4, <1>5 DEF SkipUpdatedPartition
<1>6. CASE \E write, retry \in BOOLEAN : Start(write, retry) \/ CreateStashFails(write, retry)
    BY <1>4, <1>6 DEF Start, CreateStashFails, Begin, InitParameters
<1>7. CASE SkipCommand \/ PerformCommandStash \/ PerformCommandFree \/ TargetVerified \/ VerifyCopy
  <2>1. pc = "cmd" /\ pc' \in {"cmd", "sync"} /\ freestash' = freestash
      BY <1>7 DEF SkipCommand, PerformCommandStash, PerformCommandFree, TargetVerified, VerifyCopy,
         Performing, NextCommand
  <2> QED
      BY <1>4, <2>1 DEF CopyInv
<1>8. CASE Fsync \/ UpdateLastCommandIndex \/ UpdateLastCommandIndexFails
  <2>1. pc \in {"sync", "index"} /\ pc' \in {"cmd", "index"} /\ freestash' = freestash
      BY <1>8 DEF Fsync, UpdateLastCommandIndex, UpdateLastCommandIndexFails, locals
  <2> QED
      BY <1>4, <2>1 DEF CopyInv
<1>9. CASE FinishWrite
    BY <1>4, <1>9 DEF FinishWrite
<1>10. CASE \/ Unresumable \/ RootHashMismatch \/ AllCommandsDone \/ DeleteStashDir
            \/ DeleteLastCommandFile \/ SetUpdatedMarker \/ SetUpdatedMarkerFails \/ Return
            \/ CommandFails \/ PerformCommandAbort \/ Kill \/ PowerLoss
            \/ \E id \in StashId : DeleteStashFile(id)
  <2>1. pc' \notin {"write", "cmd", "sync", "index"}
      BY <1>10 DEF Unresumable, RootHashMismatch, AllCommandsDone, DeleteStashDir,
         DeleteLastCommandFile, SetUpdatedMarker, SetUpdatedMarkerFails, Return, CommandFails,
         PerformCommandAbort, Kill, PowerLoss, DeleteStashFile
  <2> QED
      BY <1>4, <2>1
<1> QED
    BY <1>1, <1>2, <1>3, <1>5, <1>6, <1>7, <1>8, <1>9, <1>10 DEF Next, Step

\* A verification leaves disk and stash alone, and remembers for each missing
\* stash blocks that hold what it would.
LEMMA MapStep ==
    ASSUME Inv, ReadOnlyInv, MapInv, StashesInOrder, Next
    PROVE  MapInv'
<1> USE ListAssumption
<1>t. /\ i \in 0 .. N /\ canwrite \in BOOLEAN /\ stashMap \in [StashId -> CmdIndex \cup {None}]
      /\ None \notin CmdIndex
    BY DEF Inv, TypeOK, LocalsTypeOK, ParamsTypeOK, CmdIndex
<1>1. CASE \E write, retry \in BOOLEAN : Start(write, retry)
  <2>1. i' = 0 /\ stashMap' = [id \in StashId |-> None]
      BY <1>1 DEF Start, InitParameters
  <2> QED
      BY <2>1 DEF MapInv, CmdIndex
<1>2. ASSUME pc = "cmd", ~canwrite, ~canwrite', i' = i + 1, i \in CmdIndex, UNCHANGED <<disk, stash, stashMap>>,
             Cmd[i].type # "stash"
      PROVE  MapInv'
  <2> SUFFICES ASSUME NEW id \in StashId
      PROVE  /\ stashMap'[id] # None => id \notin stash'
             /\ \A j, k \in CmdIndex :
                  /\ j < i' /\ i' <= k /\ Stashes(j, id) /\ VerifyBlocks(Cmd[j].src)'
                  /\ Copies(k) /\ id \in Cmd[k].uses /\ id \notin stash'
                  => stashMap'[id] # None /\ VerifyBlocks(Cmd[stashMap[id]].src)'
      BY DEF MapInv, Stashes, Copies
  <2>1. \A image : VerifyBlocks(image)' <=> VerifyBlocks(image)
      BY <1>2 DEF VerifyBlocks
  <2>2. stashMap[id] # None => id \notin stash
      BY <1>2 DEF MapInv
  <2>3. ASSUME NEW j \in CmdIndex, NEW k \in CmdIndex,
               j < i', i' <= k, Stashes(j, id), VerifyBlocks(Cmd[j].src)',
               Copies(k), id \in Cmd[k].uses, id \notin stash'
        PROVE  stashMap[id] # None /\ VerifyBlocks(Cmd[stashMap[id]].src)
    <3>1. j < i /\ i <= k
        BY <1>2, <2>3 DEF Stashes, CmdIndex
    <3> QED
        BY <1>2, <2>1, <2>3, <3>1 DEF MapInv
  <2> QED
      BY <1>2, <2>1, <2>2, <2>3
<1>3. CASE ~canwrite /\ (SkipCommand \/ TargetVerified \/ VerifyCopy)
    BY <1>2, <1>3, <1>t DEF SkipCommand, TargetVerified, VerifyCopy, Performing, NextCommand,
       NotVerified, AlreadyExecuted, Blind, Copying, params, cache, disks, CmdIndex
<1>4. CASE ~canwrite /\ PerformCommandFree
  <2> DEFINE free == Cmd[i].id
  <2>1. /\ i \in CmdIndex /\ pc = "cmd" /\ i' = i + 1 /\ UNCHANGED <<disk, stash>> /\ Cmd[i].type = "free"
        /\ stashMap' = [stashMap EXCEPT ![free] = None] /\ free \in StashId
      BY <1>4, <1>t, CommandType DEF PerformCommandFree, Performing, NextCommand, FreeStash, ReadOnlyInv,
         disks, CmdIndex
  <2>2. \A image : VerifyBlocks(image)' <=> VerifyBlocks(image)
      BY <2>1 DEF VerifyBlocks
  <2>3. ASSUME NEW id \in StashId, stashMap'[id] # None PROVE id \notin stash'
    <3>1. stashMap[id] # None
        BY <1>t, <2>1, <2>3
    <3> QED
        BY <1>4, <2>1, <3>1 DEF MapInv
  <2>4. ASSUME NEW id \in StashId, NEW j \in CmdIndex, NEW k \in CmdIndex,
               j < i', i' <= k, Stashes(j, id), VerifyBlocks(Cmd[j].src)',
               Copies(k), id \in Cmd[k].uses, id \notin stash'
        PROVE  stashMap'[id] # None /\ VerifyBlocks(Cmd[stashMap[id]].src)'
    <3>1. j < i /\ i <= k /\ i < k
        BY <1>t, <2>1, <2>4 DEF Stashes, CmdIndex
    <3>2. id # free
        BY <2>1, <2>4, <3>1 DEF StashesInOrder
    <3>3. stashMap'[id] = stashMap[id]
        BY <1>t, <2>1, <3>2
    <3>4. stashMap[id] # None /\ VerifyBlocks(Cmd[stashMap[id]].src)
        BY <1>4, <2>1, <2>2, <2>4, <3>1 DEF MapInv
    <3> QED
        BY <2>1, <3>3, <3>4 DEF VerifyBlocks
  <2> QED
      BY <2>3, <2>4 DEF MapInv, Stashes, Copies
<1>5. CASE ~canwrite /\ PerformCommandStash
  <2> DEFINE new == Cmd[i].id
  <2>1. /\ i \in CmdIndex /\ pc = "cmd" /\ i' = i + 1 /\ UNCHANGED <<disk, stash>> /\ new \in StashId
        /\ LoadStash(new) => stashMap' = stashMap
        /\ ~LoadStash(new) => stashMap' = [stashMap EXCEPT ![new] = i]
      BY <1>5, <1>t, CommandType DEF PerformCommandStash, Performing, NextCommand, disks, CmdIndex
  <2>2. \A image : VerifyBlocks(image)' <=> VerifyBlocks(image)
      BY <2>1 DEF VerifyBlocks
  <2>3. LoadStash(new) <=> IF stashMap[new] # None THEN VerifyBlocks(Cmd[stashMap[new]].src)
                           ELSE new \in stash
      BY <1>5 DEF LoadStash
  <2>4. /\ \A id \in StashId : id # new => stashMap'[id] = stashMap[id]
        /\ stashMap'[new] = IF LoadStash(new) THEN stashMap[new] ELSE i
      BY <1>t, <2>1
  <2>5. \A id \in StashId : stashMap[id] # None => id \notin stash
      BY <1>5, <2>1 DEF MapInv
  <2>6. ASSUME NEW id \in StashId, stashMap'[id] # None PROVE id \notin stash'
      BY <2>1, <2>3, <2>4, <2>5, <2>6
  <2>7. ASSUME NEW id \in StashId, NEW j \in CmdIndex, NEW k \in CmdIndex,
               j < i', i' <= k, Stashes(j, id), VerifyBlocks(Cmd[j].src)',
               Copies(k), id \in Cmd[k].uses, id \notin stash'
        PROVE  stashMap'[id] # None /\ VerifyBlocks(Cmd[stashMap[id]].src)'
    <3>1. i <= k /\ (j < i \/ j = i)
        BY <1>t, <2>1, <2>7 DEF CmdIndex
    <3>2. VerifyBlocks(Cmd[j].src)
        BY <2>2, <2>7
    <3>3. j < i => stashMap[id] # None /\ VerifyBlocks(Cmd[stashMap[id]].src)
        BY <1>5, <2>1, <2>7, <3>1, <3>2 DEF MapInv
    <3>4. CASE id # new
      <4>1. j # i
          BY <2>7, <3>4 DEF Stashes
      <4> QED
          BY <2>1, <2>4, <3>1, <3>3, <3>4, <4>1 DEF VerifyBlocks
    <3>5. CASE id = new /\ LoadStash(new)
      <4>1. stashMap[new] # None /\ VerifyBlocks(Cmd[stashMap[new]].src)
          BY <2>1, <2>3, <2>7, <3>5
      <4> QED
          BY <2>1, <2>4, <3>5, <4>1 DEF VerifyBlocks
    <3>6. CASE id = new /\ ~LoadStash(new)
      <4>1. j = i
          BY <2>3, <3>1, <3>3, <3>6
      <4> QED
          BY <1>t, <2>1, <2>4, <3>2, <3>6, <4>1 DEF VerifyBlocks, CmdIndex
    <3> QED
        BY <3>4, <3>5, <3>6
  <2> QED
      BY <2>6, <2>7 DEF MapInv, Stashes, Copies
<1>6. CASE canwrite' \/ pc' # "cmd"
    BY <1>6 DEF MapInv
<1>7. CASE canwrite /\ Step
  <2>1. UNCHANGED canwrite
      BY <1>7 DEF Step, SkipCommand, PerformCommandStash, PerformCommandFree, TargetVerified, CopySource,
         VerifyCopy, Unresumable, StartWrite, RootHashMismatch, WriteRange, FinishWrite, Fsync,
         UpdateLastCommandIndex, AllCommandsDone, DeleteStashFile, DeleteStashDir,
         DeleteLastCommandFile, SetUpdatedMarker, Return, params
  <2> QED
      BY <1>6, <1>7, <2>1
<1>8. CASE ~canwrite /\ Step
  <2>1. CASE SkipCommand \/ TargetVerified \/ VerifyCopy \/ PerformCommandStash \/ PerformCommandFree
      BY <1>3, <1>4, <1>5, <1>8, <2>1
  <2>2. CASE UpdateLastCommandIndex
      BY <1>8, <2>2 DEF UpdateLastCommandIndex, Inv, ControlInv
  <2>3. CASE \/ CopySource \/ Unresumable \/ StartWrite \/ RootHashMismatch \/ FinishWrite \/ Fsync
             \/ AllCommandsDone \/ DeleteStashDir \/ DeleteLastCommandFile \/ SetUpdatedMarker
             \/ Return \/ (\E b \in Block : WriteRange(b)) \/ \E id \in StashId : DeleteStashFile(id)
    <3>1. pc' # "cmd"
        BY <2>3 DEF CopySource, Unresumable, StartWrite, RootHashMismatch, FinishWrite, Fsync,
           AllCommandsDone, DeleteStashDir, DeleteLastCommandFile, SetUpdatedMarker, Return, WriteRange,
           DeleteStashFile
    <3> QED
        BY <1>6, <3>1
  <2> QED
      BY <1>8, <2>1, <2>2, <2>3 DEF Step
<1>9. CASE UpdateLastCommandIndexFails
    BY <1>6, <1>9 DEF UpdateLastCommandIndexFails, Inv, ControlInv, params
<1>10. CASE \/ (\E write \in BOOLEAN : SkipUpdatedPartition(write))
            \/ (\E write, retry \in BOOLEAN : CreateStashFails(write, retry))
            \/ SetUpdatedMarkerFails \/ CommandFails \/ PerformCommandAbort \/ Kill \/ PowerLoss
  <2>1. pc' # "cmd"
      BY <1>10 DEF SkipUpdatedPartition, CreateStashFails, Begin, SetUpdatedMarkerFails, CommandFails,
         PerformCommandAbort, Kill, PowerLoss
  <2> QED
      BY <1>6, <2>1
<1> QED
    BY <1>1, <1>7, <1>8, <1>9, <1>10, <1>t DEF Next

\* With the invariant no attempt finds a command unresumable.
LEMMA NeverUnresumable ==
    ASSUME Inv, MapInv, Recoverable, ~isunresumable, Next
    PROVE  ~isunresumable'
<1> USE ListAssumption
<1>1. ASSUME Unresumable PROVE FALSE
  <2>1. /\ pc = "cmd" /\ i \in CmdIndex /\ Copies(i)
        /\ ~VerifyBlocks(Cmd[i].tgt) /\ ~CanExecute(Cmd[i])
      BY <1>1 DEF Unresumable, Performing, Copies, Inv, TypeOK, LocalsTypeOK, CmdIndex
  <2>2. Source(i)
      BY <2>1 DEF Recoverable, Safe, VerifyBlocks
  <2>3. canwrite \in BOOLEAN /\ Cmd[i].id \in StashId
      BY <2>1, CommandType DEF Inv, TypeOK, ParamsTypeOK
  <2>4. ASSUME NEW id \in StashId, id \in stash PROVE LoadStash(id)
      BY <2>1, <2>4 DEF LoadStash, MapInv
  <2>5. CASE Overlap(Cmd[i]) /\ Cmd[i].id \in Kept
      BY <2>1, <2>3, <2>4, <2>5 DEF Kept, CanExecute
  <2>6. CASE Safe(Cmd[i].src) /\ \A id \in Cmd[i].uses : Available(id, i)
    <3>1. ASSUME NEW id \in Cmd[i].uses PROVE LoadStash(id)
      <4>1. id \in StashId
          BY <2>1, SourceType
      <4>2. CASE id \in Kept
          BY <2>1, <2>4, <4>1, <4>2 DEF Kept
      <4>3. CASE id \notin stash /\ \E j \in CmdIndex : j < i /\ Stashes(j, id) /\ Pending(j) /\ Safe(Cmd[j].src)
        <5>1. PICK j \in CmdIndex : j < i /\ Stashes(j, id) /\ Pending(j) /\ Safe(Cmd[j].src)
            BY <4>3
        <5>2. ~canwrite
            BY <2>1, <5>1 DEF Pending, Updating, CmdIndex
        <5>3. VerifyBlocks(Cmd[j].src)
            BY <5>1 DEF Safe, VerifyBlocks
        <5>4. stashMap[id] # None /\ VerifyBlocks(Cmd[stashMap[id]].src)
            BY <2>1, <3>1, <4>1, <4>3, <5>1, <5>2, <5>3 DEF MapInv, CmdIndex
        <5> QED
            BY <5>2, <5>4 DEF LoadStash
      <4> QED
          BY <2>1, <2>6, <3>1, <4>2, <4>3 DEF Available, Kept
    <3>2. VerifyBlocks(Cmd[i].src)
        BY <2>6 DEF Safe, VerifyBlocks
    <3> QED
        BY <2>1, <3>1, <3>2 DEF CanExecute, SourceVerified
  <2> QED
      BY <2>2, <2>5, <2>6 DEF Source
<1>2. CASE ~Unresumable
    BY <1>2 DEF Next, Step, SkipUpdatedPartition, Start, CreateStashFails, InitParameters, SkipCommand,
       PerformCommandStash, PerformCommandFree, TargetVerified, CopySource, VerifyCopy, StartWrite,
       RootHashMismatch, WriteRange, FinishWrite, Fsync, UpdateLastCommandIndex,
       UpdateLastCommandIndexFails, AllCommandsDone, DeleteStashFile, DeleteStashDir,
       DeleteLastCommandFile, SetUpdatedMarker, SetUpdatedMarkerFails, Return, CommandFails,
       PerformCommandAbort, Kill, PowerLoss, locals
<1> QED
    BY <1>1, <1>2

ResumeInv == Inv /\ ReadOnlyInv /\ CopyInv /\ MapInv /\ Recoverable /\ ~isunresumable

\* Together they are inductive.
LEMMA ResumeInductive ==
    ASSUME StashesInOrder, PowerSafe
    PROVE  ResumeInv /\ [Next]_vars => ResumeInv'
<1> SUFFICES ASSUME ResumeInv, [Next]_vars PROVE ResumeInv'
    OBVIOUS
<1>1. Inv' /\ ReadOnlyInv'
    BY InvInductive, ReadOnlyInductive DEF ResumeInv
<1>2. CASE Next
    BY <1>1, <1>2, RecoverableStep, CopyStep, MapStep, NeverUnresumable DEF ResumeInv
<1>3. CASE UNCHANGED vars
  <2>1. UNCHANGED <<disks, cache, pc, canwrite, skip, saved, i, freestash, stashMap, isunresumable>>
      BY <1>3 DEF vars, params, locals
  <2>2. \A image : (Safe(image)' <=> Safe(image)) /\ (VerifyBlocks(image)' <=> VerifyBlocks(image))
      BY <2>1 DEF Safe, VerifyBlocks, disks
  <2>3. Kept' = Kept /\ \A j \in CmdIndex : Pending(j)' <=> Pending(j)
      BY <2>1 DEF Kept, Pending, Updating, cache
  <2>4. \A k \in CmdIndex : Source(k)' <=> Source(k)
      BY <2>2, <2>3 DEF Source, Available
  <2>5. Recoverable'
      BY <2>1, <2>2, <2>4 DEF Recoverable, ResumeInv
  <2>6. CopyInv'
    <3>1. pc = "write" => i \in CmdIndex
        BY ListAssumption DEF ResumeInv, Inv, TypeOK, LocalsTypeOK, ControlInv, CmdIndex
    <3>2. ASSUME NEW k, k = i, pc = "write", Source(i) PROVE Source(k)'
        BY <2>4, <3>1, <3>2
    <3>3. pc = "write" /\ Source(i) => Source(i)'
        BY <2>1, <3>2
    <3> QED
        BY <2>1, <3>3 DEF CopyInv, ResumeInv, cache, Copies
  <2>7. MapInv'
      BY <2>1, <2>2 DEF MapInv, ResumeInv, cache
  <2> QED
      BY <1>1, <2>1, <2>5, <2>6, <2>7 DEF ResumeInv
<1> QED
    BY <1>2, <1>3

\* A partition that starts out as the source image is resumable after every
\* sequence of interruptions: no attempt ever says "partition has unexpected
\* contents", and none deletes what a later one needs.
THEOREM UpdateResumable ==
    ASSUME StaleLastCmd = {}, StashesInOrder, PowerSafe, SourceImages
    PROVE  Spec => []Resumable
<1>1. Init => CopyInv /\ MapInv /\ Recoverable /\ ~isunresumable /\ ReadOnlyInv
  <2> SUFFICES ASSUME Init PROVE CopyInv /\ MapInv /\ Recoverable /\ ~isunresumable /\ ReadOnlyInv
      OBVIOUS
  <2>1. CopyInv /\ MapInv /\ ~isunresumable /\ ReadOnlyInv
      BY DEF Init, CopyInv, MapInv, ReadOnlyInv
  <2>2. ASSUME NEW k \in CmdIndex, Copies(k) \/ Cmd[k].type = "stash" PROVE Safe(Cmd[k].src)
      BY <2>2 DEF Init, SourceImages, Safe
  <2>3. \A j \in CmdIndex : Pending(j)
      BY DEF Init, Pending, Updating
  <2>4. Recoverable
      BY <2>2, <2>3 DEF Recoverable, Source, Available, StashesInOrder, Stashes
  <2> QED
      BY <2>1, <2>4
<1>2. Spec => []Inv
    BY InvHolds
<1>3. ResumeInv /\ [Next]_vars => ResumeInv'
    BY ResumeInductive
<1>4. ResumeInv => Resumable
    BY DEF ResumeInv, Resumable
<1>5. Inv /\ CopyInv /\ MapInv /\ Recoverable /\ ~isunresumable /\ ReadOnlyInv => ResumeInv
    BY DEF ResumeInv
<1> QED
    BY <1>1, <1>2, <1>3, <1>4, <1>5, PTL DEF Spec

-----------------------------------------------------------------------------
(***************************************************************************)
(* A partition with any contents.  It is recoverable from the first, or    *)
(* doomed: some command lacks both its target and its source, in the page  *)
(* cache and on the flash, and no execution of the list ever gets past it. *)
(* The hypotheses say that names and contents are no coincidence: the      *)
(* source that an overlapping command stashes has a name of its own, and a *)
(* block which is stashed is overwritten with something else, so that what *)
(* an earlier attempt wrote does not pass for what it should have stashed. *)
(***************************************************************************)
OwnIds ==
    \A k, m \in CmdIndex :
        Copies(k) /\ Overlap(Cmd[k]) /\ m # k /\ Cmd[m].id = Cmd[k].id =>
            Cmd[m].type # "stash" /\ ~(Copies(m) /\ Overlap(Cmd[m]))

StashedBlocksChange ==
    \A j, m \in CmdIndex : j < m /\ Cmd[j].type = "stash" /\ Cmd[m].type \in Writing =>
        \A b \in DOMAIN Cmd[j].src \cap DOMAIN Cmd[m].tgt : Cmd[m].tgt[b] # Cmd[j].src[b]

\* Some block has other contents, whatever a power loss brings back.
Wrong(image) == \E b \in DOMAIN image : disk[b] # image[b] /\ durable[b] # image[b]

\* No stash file, and no blocks to make it from.
Lost(id, k) == id \notin stash /\ \A j \in CmdIndex : j < k /\ Stashes(j, id) => Wrong(Cmd[j].src)

Doomed(k) ==
    /\ Copies(k) /\ Wrong(Cmd[k].tgt)
    /\ Wrong(Cmd[k].src) \/ \E id \in Cmd[k].uses : Lost(id, k)
    /\ Overlap(Cmd[k]) => Cmd[k].id \notin stash
    /\ pc # "idle" => i <= k /\ ~(pc \in {"write", "sync", "index"} /\ i = k)

\* The map of stashes names stash commands that have been passed.
StashMapInv ==
    \A id \in StashId : stashMap[id] # None =>
        /\ Stashes(stashMap[id], id)
        /\ ~canwrite /\ pc # "idle" => stashMap[id] < i

VerifiedInv ==
    StashMapInv /\ (ResumeInv \/ (~verified /\ \E k \in CmdIndex : Doomed(k)))

\* The source of a command has contents of its own, none of them torn.
LEMMA SourceContents ==
    \A j \in CmdIndex : \A b \in DOMAIN Cmd[j].src : Cmd[j].src[b] \in Content
<1> SUFFICES ASSUME NEW j \in CmdIndex
             PROVE  \A b \in DOMAIN Cmd[j].src : Cmd[j].src[b] \in Content
    OBVIOUS
<1>1. Cmd[j] \in Command
    BY ListAssumption
<1>2. Cmd[j].src \in Image
    BY <1>1 DEF Command
<1>3. PICK S \in SUBSET Block : Cmd[j].src \in [S -> Content]
    BY <1>2 DEF Image
<1> QED
    BY <1>3

\* A block is as wrong after a step that moves its contents between cache and
\* flash, or overwrites it with something else.
LEMMA WrongStable ==
    ASSUME NEW image, Wrong(image),
           \A b \in DOMAIN image :
               /\ disk'[b] = disk[b] \/ disk'[b] = durable[b] \/ disk'[b] # image[b]
               /\ durable'[b] = durable[b] \/ durable'[b] = disk[b] \/ durable'[b] = disk'[b]
    PROVE  Wrong(image)'
<1>1. PICK b \in DOMAIN image : disk[b] # image[b] /\ durable[b] # image[b]
    BY DEF Wrong
<1>2. disk'[b] # image[b] /\ durable'[b] # image[b]
    BY <1>1
<1> QED
    BY <1>2 DEF Wrong

\* No step repairs it but a write of what is missing.
LEMMA WrongStep ==
    ASSUME Inv, Next, NEW image, Wrong(image), DOMAIN image \subseteq Block,
           \A b \in DOMAIN image : image[b] \in Content,
           pc = "write" => \A b \in DOMAIN image \cap DOMAIN Cmd[i].tgt : Cmd[i].tgt[b] # image[b]
    PROVE  Wrong(image)'
<1> USE ListAssumption
<1>t. /\ disk \in [Block -> Stored] /\ durable \in [Block -> Stored]
      /\ pc = "write" => todo \subseteq DOMAIN Cmd[i].tgt
    BY DEF Inv, TypeOK, DiskTypeOK, LocalsTypeOK
<1>1. ASSUME disk' = disk, durable' = durable \/ durable' = disk PROVE Wrong(image)'
    BY <1>1, WrongStable
<1>2. CASE UNCHANGED disks
    BY <1>1, <1>2 DEF disks
<1>3. CASE Fsync \/ Return
    BY <1>1, <1>3 DEF Fsync, Return, FinalFsync
<1>4. ASSUME NEW b \in Block, WriteRange(b) PROVE Wrong(image)'
  <2>1. /\ pc = "write" /\ b \in DOMAIN Cmd[i].tgt /\ durable' = durable
        /\ disk' = [disk EXCEPT ![b] = Written(b)]
      BY <1>4, <1>t DEF WriteRange
  <2>2. b \in DOMAIN image => Written(b) # image[b]
      BY <2>1 DEF Written
  <2>3. \A a \in DOMAIN image : disk'[a] = disk[a] \/ disk'[a] # image[a]
      BY <1>t, <2>1, <2>2
  <2> QED
      BY <2>1, <2>3, WrongStable
<1>5. ASSUME CommandFails \/ Kill PROVE Wrong(image)'
  <2>1. durable' = durable /\ \E lost \in InFlight : Torn(lost)
      BY <1>5 DEF CommandFails, Kill
  <2>2. \A b \in Block : disk'[b] = disk[b] \/ disk'[b] = Garbage
      BY <2>1 DEF Torn
  <2> QED
      BY <2>1, <2>2, WrongStable
<1>6. CASE PowerLoss
  <2>1. durable' = disk'
      BY <1>6 DEF PowerLoss
  <2>2. \A b \in Block : disk'[b] = disk[b] \/ disk'[b] = durable[b] \/ disk'[b] = Garbage
      BY <1>6 DEF PowerLoss
  <2> QED
      BY <2>1, <2>2, WrongStable
<1>7. CASE \/ \E write \in BOOLEAN : SkipUpdatedPartition(write)
           \/ \E write, retry \in BOOLEAN : Start(write, retry) \/ CreateStashFails(write, retry)
           \/ UpdateLastCommandIndexFails \/ SetUpdatedMarkerFails \/ PerformCommandAbort
    BY <1>2, <1>7 DEF SkipUpdatedPartition, Start, CreateStashFails, UpdateLastCommandIndexFails,
       SetUpdatedMarkerFails, PerformCommandAbort
<1>8. CASE \/ SkipCommand \/ PerformCommandStash \/ PerformCommandFree \/ TargetVerified \/ CopySource
           \/ VerifyCopy \/ Unresumable \/ StartWrite \/ RootHashMismatch \/ FinishWrite
           \/ UpdateLastCommandIndex \/ AllCommandsDone \/ (\E id \in StashId : DeleteStashFile(id))
           \/ DeleteStashDir \/ DeleteLastCommandFile \/ SetUpdatedMarker
    BY <1>2, <1>8 DEF SkipCommand, PerformCommandStash, PerformCommandFree, TargetVerified, CopySource,
       VerifyCopy, Unresumable, StartWrite, RootHashMismatch, FinishWrite, UpdateLastCommandIndex,
       AllCommandsDone, DeleteStashFile, DeleteStashDir, DeleteLastCommandFile, SetUpdatedMarker
<1> QED
    BY <1>3, <1>4, <1>5, <1>6, <1>7, <1>8 DEF Next, Step

\* What a doomed command lacks stays lost: only commands before it write, and
\* none writes what it or one of the stash commands before it should read.
LEMMA LossStep ==
    ASSUME Inv, Next, StashedBlocksChange, NEW k \in CmdIndex, Doomed(k)
    PROVE  /\ Wrong(Cmd[k].tgt)'
           /\ Wrong(Cmd[k].src) => Wrong(Cmd[k].src)'
           /\ \A j \in CmdIndex : j < k /\ Cmd[j].type = "stash" /\ Wrong(Cmd[j].src) => Wrong(Cmd[j].src)'
<1> USE ListAssumption
<1>1. ASSUME pc = "write"
      PROVE  i \in CmdIndex /\ i < k /\ Cmd[i].type \in Writing
  <2>1. i \in CmdIndex /\ Cmd[i].type \in Writing
      BY <1>1 DEF Inv, TypeOK, LocalsTypeOK, CommandInv, CmdIndex
  <2>2. i <= k /\ i # k
      BY <1>1 DEF Doomed
  <2> QED
      BY <2>1, <2>2 DEF CmdIndex
<1>2. Cmd[k].type \in Writing /\ Cmd[k].type # "compute_hash_tree"
    BY DEF Doomed, Copies, Copying, Writing
<1>3. Wrong(Cmd[k].tgt)'
  <2>1. pc = "write" => DOMAIN Cmd[k].tgt \cap DOMAIN Cmd[i].tgt = {}
      BY <1>1, <1>2, CreatorAssumption
  <2>2. Wrong(Cmd[k].tgt)
      BY DEF Doomed
  <2> QED
      BY <2>1, <2>2, CommandType, WrongStep
<1>4. ASSUME Wrong(Cmd[k].src) PROVE Wrong(Cmd[k].src)'
  <2>1. pc = "write" => DOMAIN Cmd[k].src \cap DOMAIN Cmd[i].tgt = {}
      BY <1>1, <1>2, CreatorAssumption
  <2> QED
      BY <1>4, <2>1, SourceType, SourceContents, WrongStep
<1>5. ASSUME NEW j \in CmdIndex, j < k, Cmd[j].type = "stash", Wrong(Cmd[j].src)
      PROVE  Wrong(Cmd[j].src)'
  <2>1. ASSUME pc = "write"
        PROVE  \A b \in DOMAIN Cmd[j].src \cap DOMAIN Cmd[i].tgt : Cmd[i].tgt[b] # Cmd[j].src[b]
    <3>1. j # i
        BY <1>1, <1>5, <2>1 DEF Writing, Copying, Blind
    <3>2. CASE j < i
        BY <1>1, <1>5, <2>1, <3>2 DEF StashedBlocksChange
    <3>3. CASE i < j
        BY <1>1, <1>5, <2>1, <3>3, CreatorAssumption
    <3> QED
        BY <1>1, <2>1, <3>1, <3>2, <3>3 DEF CmdIndex
  <2> QED
      BY <1>5, <2>1, SourceType, SourceContents, WrongStep
<1> QED
    BY <1>3, <1>4, <1>5

\* An attempt makes a stash file from blocks that it has verified.
LEMMA StashGrows ==
    ASSUME Inv, Next, NEW id \in stash', id \notin stash
    PROVE  /\ pc = "cmd" /\ canwrite /\ i \in CmdIndex /\ Cmd[i].id = id
           /\ \/ Cmd[i].type = "stash" /\ VerifyBlocks(Cmd[i].src)
              \/ Copies(i) /\ Overlap(Cmd[i]) /\ SourceVerified(Cmd[i])
<1> USE ListAssumption
<1>t. i \in 0 .. N
    BY DEF Inv, TypeOK, LocalsTypeOK
<1>1. CASE PerformCommandStash
    BY <1>1, <1>t DEF PerformCommandStash, Performing, WriteStash, CmdIndex
<1>2. CASE CopySource
    BY <1>2, <1>t DEF CopySource, Performing, WriteStash, Copies, CmdIndex
<1>3. ASSUME stash' \subseteq stash PROVE FALSE
    BY <1>3
<1>4. CASE \/ \E write \in BOOLEAN : SkipUpdatedPartition(write)
           \/ \E write, retry \in BOOLEAN : Start(write, retry) \/ CreateStashFails(write, retry)
           \/ UpdateLastCommandIndexFails \/ SetUpdatedMarkerFails
           \/ CommandFails \/ PerformCommandAbort \/ Kill \/ PowerLoss
    BY <1>3, <1>4 DEF SkipUpdatedPartition, Start, CreateStashFails, UpdateLastCommandIndexFails,
       SetUpdatedMarkerFails, CommandFails, PerformCommandAbort, Kill, PowerLoss, cache
<1>5. CASE \/ SkipCommand \/ PerformCommandFree \/ TargetVerified \/ VerifyCopy \/ Unresumable
           \/ StartWrite \/ RootHashMismatch \/ (\E b \in Block : WriteRange(b)) \/ FinishWrite \/ Fsync
           \/ UpdateLastCommandIndex \/ AllCommandsDone \/ (\E f \in StashId : DeleteStashFile(f))
           \/ DeleteStashDir \/ DeleteLastCommandFile \/ SetUpdatedMarker \/ Return
    BY <1>3, <1>5 DEF SkipCommand, PerformCommandFree, TargetVerified, VerifyCopy, Unresumable,
       StartWrite, RootHashMismatch, WriteRange, FinishWrite, Fsync, UpdateLastCommandIndex,
       AllCommandsDone, DeleteStashFile, DeleteStashDir, DeleteLastCommandFile, SetUpdatedMarker,
       Return, FreeStash, cache
<1> QED
    BY <1>1, <1>2, <1>4, <1>5 DEF Next, Step

\* Wrong blocks do not pass for the right ones.
LEMMA WrongIsSeen ==
    ASSUME NEW image, Wrong(image)
    PROVE  ~VerifyBlocks(image)
    BY DEF Wrong, VerifyBlocks

\* An execution of the list that reaches a doomed command stops there.
LEMMA DoomedBlocks ==
    ASSUME Inv, StashMapInv, OwnIds, NEW k \in CmdIndex, Doomed(k), pc = "cmd", k = i
    PROVE  /\ ~VerifyBlocks(Cmd[k].tgt) /\ ~CanExecute(Cmd[k])
           /\ ~NotVerified /\ ~AlreadyExecuted
<1> USE ListAssumption
<1>t. /\ canwrite \in BOOLEAN /\ stashMap \in [StashId -> CmdIndex \cup {None}]
      /\ Copies(k) /\ Cmd[k].id \in StashId /\ Cmd[k].uses \subseteq StashId
    BY SourceType, CommandType DEF Inv, TypeOK, ParamsTypeOK, LocalsTypeOK, Doomed
<1>1. ~VerifyBlocks(Cmd[k].tgt)
    BY WrongIsSeen DEF Doomed
<1>2. ~SourceVerified(Cmd[k])
  <2>1. CASE Wrong(Cmd[k].src)
      BY <2>1, WrongIsSeen DEF SourceVerified
  <2>2. ASSUME NEW id \in Cmd[k].uses, Lost(id, k) PROVE ~LoadStash(id)
    <3>1. id \notin stash
        BY <2>2 DEF Lost
    <3>2. ASSUME ~canwrite, stashMap[id] # None
          PROVE  ~VerifyBlocks(Cmd[stashMap[id]].src)
      <4>1. PICK j \in CmdIndex : j = stashMap[id]
          BY <1>t, <3>2
      <4>2. Stashes(j, id) /\ j < k
          BY <1>t, <3>2, <4>1 DEF StashMapInv
      <4>3. Wrong(Cmd[j].src)
          BY <2>2, <4>2 DEF Lost
      <4> QED
          BY <4>1, <4>3, WrongIsSeen
    <3> QED
        BY <3>1, <3>2 DEF LoadStash
  <2> QED
      BY <2>1, <2>2 DEF Doomed, SourceVerified
<1>3. ASSUME Overlap(Cmd[k]) PROVE ~LoadStash(Cmd[k].id)
  <2>1. Cmd[k].id \notin stash
      BY <1>3 DEF Doomed
  <2>2. stashMap[Cmd[k].id] = None
    <3>1. ASSUME NEW j \in CmdIndex, Stashes(j, Cmd[k].id) PROVE FALSE
        BY <1>t, <1>3, <3>1 DEF OwnIds, Stashes, Copies, Copying
    <3> QED
        BY <1>t, <3>1 DEF StashMapInv
  <2> QED
      BY <2>1, <2>2 DEF LoadStash
<1>4. ~AlreadyExecuted
  <2>1. ASSUME AlreadyExecuted PROVE Settled(Cmd[k])
    <3>1. Updating /\ skip /\ k <= saved /\ Writes(k) /\ Cmd[k].type # "new"
        BY <1>t, <2>1 DEF AlreadyExecuted, Updating, Writes, Copies, Copying, Writing
    <3> QED
        BY <3>1 DEF Inv, SavedInv
  <2> QED
      BY <2>1 DEF Settled, Doomed, Wrong
<1>5. ~NotVerified
    BY <1>t DEF NotVerified, Copies, Copying, Blind
<1> QED
    BY <1>1, <1>2, <1>3, <1>4, <1>5 DEF CanExecute

\* The stashes it lacks are never made: their blocks are wrong, and the
\* sources that overlapping commands stash go by other names.
LEMMA DoomedStash ==
    ASSUME Inv, Next, StashesInOrder, OwnIds, NEW k \in CmdIndex, Doomed(k)
    PROVE  /\ \A id \in Cmd[k].uses : Lost(id, k) => id \notin stash'
           /\ Overlap(Cmd[k]) => Cmd[k].id \notin stash'
<1> USE ListAssumption
<1>t. Copies(k)
    BY DEF Doomed
<1>i. pc = "cmd" => i <= k
    BY DEF Doomed
<1>1. ASSUME NEW id \in Cmd[k].uses, Lost(id, k), id \in stash' PROVE FALSE
  <2>1. id \notin stash
      BY <1>1 DEF Lost
  <2>2. PICK m \in CmdIndex : m = i /\ m <= k /\ Cmd[m].id = id
      BY <1>1, <1>i, <2>1, StashGrows
  <2>3. CASE Cmd[i].type = "stash" /\ VerifyBlocks(Cmd[i].src)
    <3>1. m < k
        BY <1>t, <2>2, <2>3 DEF Copies, Copying, CmdIndex
    <3>2. Wrong(Cmd[m].src)
        BY <1>1, <2>2, <2>3, <3>1 DEF Lost, Stashes
    <3> QED
        BY <2>2, <2>3, <3>2, WrongIsSeen
  <2>4. CASE Copies(i) /\ Overlap(Cmd[i])
    <3>1. PICK j \in CmdIndex : Stashes(j, id)
        BY <1>t, <1>1 DEF StashesInOrder
    <3>2. j # m
        BY <2>2, <2>4, <3>1 DEF Stashes, Copies, Copying
    <3> QED
        BY <2>2, <2>4, <3>1, <3>2 DEF OwnIds, Stashes, Copies
  <2> QED
      BY <1>1, <2>1, <2>3, <2>4, StashGrows
<1>2. ASSUME Overlap(Cmd[k]), Cmd[k].id \in stash' PROVE FALSE
  <2>1. Cmd[k].id \notin stash
      BY <1>2 DEF Doomed
  <2>2. PICK m \in CmdIndex : m = i /\ Cmd[m].id = Cmd[k].id /\ canwrite
      BY <1>2, <2>1, StashGrows
  <2>3. CASE Cmd[i].type = "stash"
      BY <1>t, <1>2, <2>2, <2>3 DEF OwnIds, Copies, Copying
  <2>4. CASE Copies(i) /\ Overlap(Cmd[i]) /\ SourceVerified(Cmd[i])
    <3>1. m = k
        BY <1>t, <1>2, <2>2, <2>4 DEF OwnIds, Copies
    <3>2. CASE Wrong(Cmd[k].src)
        BY <2>2, <2>4, <3>1, <3>2, WrongIsSeen DEF SourceVerified
    <3>3. CASE \E id \in Cmd[k].uses : Lost(id, k)
        BY <2>2, <2>4, <3>1, <3>3 DEF SourceVerified, LoadStash, Lost
    <3> QED
        BY <3>2, <3>3 DEF Doomed
  <2> QED
      BY <1>2, <2>1, <2>3, <2>4, StashGrows
<1> QED
    BY <1>1, <1>2

\* No execution gets past it.
LEMMA DoomedControl ==
    ASSUME Inv, StashMapInv, OwnIds, Next, NEW k \in CmdIndex, Doomed(k)
    PROVE  /\ pc' # "idle" => i' <= k /\ ~(pc' \in {"write", "sync", "index"} /\ i' = k)
           /\ pc # "done"
<1> USE ListAssumption
<1>t. i \in 0 .. N /\ k < N /\ k \in Nat /\ canwrite \in BOOLEAN
    BY DEF Inv, TypeOK, LocalsTypeOK, ParamsTypeOK, CmdIndex
<1>k. /\ Copies(k)
      /\ pc # "idle" => i <= k /\ ~(pc \in {"write", "sync", "index"} /\ i = k)
    BY DEF Doomed
<1>d. pc \notin {"done", "delstash", "dellast", "setmarker"}
    BY <1>t, <1>k DEF Inv, ControlInv
<1> SUFFICES pc' # "idle" => i' <= k /\ ~(pc' \in {"write", "sync", "index"} /\ i' = k)
    BY <1>d
<1>b. ASSUME pc = "cmd", i = k
      PROVE  /\ ~VerifyBlocks(Cmd[i].tgt) /\ ~CanExecute(Cmd[i]) /\ Cmd[i].type \in Copying
             /\ ~NotVerified /\ ~AlreadyExecuted
    BY <1>b, <1>k, DoomedBlocks DEF Copies
<1>1. CASE pc' = "idle"
    BY <1>1
<1>2. CASE \E write, retry \in BOOLEAN : Start(write, retry)
    BY <1>2, <1>t DEF Start, InitParameters
<1>3. CASE pc' = "failed" /\ i' = i /\ pc # "idle"
    BY <1>3, <1>k
<1>4. ASSUME pc = "cmd", i # k, i' = i \/ (i' = i + 1 /\ pc' = "cmd")
      PROVE  i' <= k /\ ~(pc' \in {"write", "sync", "index"} /\ i' = k)
    BY <1>4, <1>t, <1>k
<1>5. CASE SkipCommand
    BY <1>4, <1>5, <1>b DEF SkipCommand
<1>6. CASE \/ PerformCommandStash \/ PerformCommandFree \/ TargetVerified \/ CopySource \/ VerifyCopy
           \/ StartWrite
  <2>1. pc = "cmd" /\ (i' = i \/ (i' = i + 1 /\ pc' = "cmd"))
      BY <1>6 DEF PerformCommandStash, PerformCommandFree, TargetVerified, CopySource, VerifyCopy,
         StartWrite, Performing, NextCommand
  <2>2. i # k
    <3>1. CASE PerformCommandStash \/ PerformCommandFree \/ StartWrite
        BY <1>b, <3>1 DEF PerformCommandStash, PerformCommandFree, StartWrite, Performing, Copying, Blind
    <3>2. CASE TargetVerified \/ CopySource \/ VerifyCopy
        BY <1>b, <3>2 DEF TargetVerified, CopySource, VerifyCopy, Performing
    <3> QED
        BY <1>6, <3>1, <3>2
  <2> QED
      BY <1>4, <2>1, <2>2
<1>7. CASE Unresumable \/ RootHashMismatch \/ CommandFails \/ PerformCommandAbort
    BY <1>3, <1>7 DEF Unresumable, RootHashMismatch, CommandFails, PerformCommandAbort, Performing, locals
<1>8. ASSUME pc \in {"write", "sync", "index"}, i' = i \/ (i' = i + 1 /\ pc' = "cmd")
      PROVE  i' <= k /\ ~(pc' \in {"write", "sync", "index"} /\ i' = k)
    BY <1>8, <1>t, <1>k
<1>9. CASE \/ (\E b \in Block : WriteRange(b)) \/ FinishWrite \/ Fsync \/ UpdateLastCommandIndex
           \/ UpdateLastCommandIndexFails
    BY <1>8, <1>9 DEF WriteRange, FinishWrite, Fsync, UpdateLastCommandIndex,
       UpdateLastCommandIndexFails, locals
<1>10. CASE AllCommandsDone
    BY <1>10, <1>t, <1>k DEF AllCommandsDone
<1>11. CASE \/ (\E id \in StashId : DeleteStashFile(id)) \/ DeleteStashDir \/ DeleteLastCommandFile
            \/ SetUpdatedMarker \/ SetUpdatedMarkerFails
    BY <1>11, <1>d DEF DeleteStashFile, DeleteStashDir, DeleteLastCommandFile, SetUpdatedMarker,
       SetUpdatedMarkerFails
<1>12. CASE \/ (\E write \in BOOLEAN : SkipUpdatedPartition(write))
            \/ (\E write, retry \in BOOLEAN : CreateStashFails(write, retry))
            \/ Return \/ Kill \/ PowerLoss
    BY <1>1, <1>12 DEF SkipUpdatedPartition, CreateStashFails, Begin, Return, Kill, PowerLoss
<1> QED
    BY <1>2, <1>5, <1>6, <1>7, <1>9, <1>10, <1>11, <1>12 DEF Next, Step

\* A doomed partition stays doomed.
LEMMA DoomedStep ==
    ASSUME Inv, StashMapInv, StashesInOrder, OwnIds, StashedBlocksChange, Next,
           NEW k \in CmdIndex, Doomed(k)
    PROVE  Doomed(k)'
<1>1. /\ Wrong(Cmd[k].tgt)'
      /\ Wrong(Cmd[k].src) => Wrong(Cmd[k].src)'
      /\ \A j \in CmdIndex : j < k /\ Cmd[j].type = "stash" /\ Wrong(Cmd[j].src) => Wrong(Cmd[j].src)'
    BY LossStep
<1>2. /\ \A id \in Cmd[k].uses : Lost(id, k) => id \notin stash'
      /\ Overlap(Cmd[k]) => Cmd[k].id \notin stash'
    BY DoomedStash
<1>3. pc' # "idle" => i' <= k /\ ~(pc' \in {"write", "sync", "index"} /\ i' = k)
    BY DoomedControl
<1>4. ASSUME NEW id \in Cmd[k].uses, Lost(id, k) PROVE Lost(id, k)'
    BY <1>1, <1>2, <1>4 DEF Lost, Stashes
<1>5. Wrong(Cmd[k].src)' \/ \E id \in Cmd[k].uses : Lost(id, k)'
    BY <1>1, <1>4 DEF Doomed
<1>6. Copies(k)
    BY DEF Doomed
<1> QED
    BY <1>1, <1>2, <1>3, <1>5, <1>6 DEF Doomed, Copies

\* The map of stashes is filled in the order of the list.
LEMMA StashMapStep ==
    ASSUME Inv, StashMapInv, Next
    PROVE  StashMapInv'
<1> USE ListAssumption
<1>t. /\ i \in 0 .. N /\ canwrite \in BOOLEAN /\ stashMap \in [StashId -> CmdIndex \cup {None}]
      /\ None \notin CmdIndex
    BY DEF Inv, TypeOK, LocalsTypeOK, ParamsTypeOK, CmdIndex
<1>1. ASSUME stashMap' = stashMap,
             pc' = "idle" \/ (pc # "idle" /\ canwrite' = canwrite /\ (i' = i \/ i' = i + 1))
      PROVE  StashMapInv'
  <2> SUFFICES ASSUME NEW id \in StashId, stashMap[id] # None
               PROVE  Stashes(stashMap[id], id) /\ (~canwrite' /\ pc' # "idle" => stashMap[id] < i')
      BY <1>1 DEF StashMapInv, Stashes
  <2>1. PICK j \in CmdIndex : j = stashMap[id]
      BY <1>t
  <2>2. Stashes(j, id) /\ (~canwrite /\ pc # "idle" => j < i)
      BY <2>1 DEF StashMapInv
  <2> QED
      BY <1>1, <1>t, <2>1, <2>2 DEF CmdIndex
<1>2. CASE \E write, retry \in BOOLEAN : Start(write, retry)
    BY <1>2 DEF Start, InitParameters, StashMapInv
<1>3. CASE PerformCommandStash
  <2> DEFINE new == Cmd[i].id
  <2>1. /\ pc = "cmd" /\ i \in CmdIndex /\ new \in StashId /\ Cmd[i].type = "stash" /\ canwrite' = canwrite
        /\ i' = i \/ i' = i + 1
        /\ ~canwrite => i' = i + 1
        /\ stashMap' = stashMap \/ stashMap' = [stashMap EXCEPT ![new] = i]
      BY <1>3, <1>t, CommandType DEF PerformCommandStash, Performing, NextCommand, params, CmdIndex
  <2>2. CASE stashMap' = stashMap
      BY <1>1, <2>1, <2>2
  <2>3. CASE stashMap' = [stashMap EXCEPT ![new] = i]
    <3> SUFFICES ASSUME NEW id \in StashId, stashMap'[id] # None
                 PROVE  Stashes(stashMap'[id], id) /\ (~canwrite' => stashMap'[id] < i')
        BY DEF StashMapInv, Stashes
    <3>1. CASE id = new
        BY <1>t, <2>1, <2>3, <3>1 DEF Stashes, CmdIndex
    <3>2. CASE id # new
      <4>1. stashMap'[id] = stashMap[id]
          BY <1>t, <2>3, <3>2
      <4>2. PICK j \in CmdIndex : j = stashMap[id]
          BY <1>t, <4>1
      <4>3. Stashes(j, id) /\ (~canwrite => j < i)
          BY <2>1, <4>1, <4>2 DEF StashMapInv
      <4> QED
          BY <1>t, <2>1, <4>1, <4>2, <4>3 DEF CmdIndex
    <3> QED
        BY <3>1, <3>2
  <2> QED
      BY <2>1, <2>2, <2>3
<1>4. CASE PerformCommandFree
  <2>1. /\ pc = "cmd" /\ i \in CmdIndex /\ Cmd[i].id \in StashId /\ canwrite' = canwrite
        /\ i' = i \/ i' = i + 1
        /\ stashMap' = [stashMap EXCEPT ![Cmd[i].id] = None]
      BY <1>4, <1>t, CommandType DEF PerformCommandFree, Performing, NextCommand, params, CmdIndex
  <2> SUFFICES ASSUME NEW id \in StashId, stashMap'[id] # None
               PROVE  Stashes(stashMap'[id], id) /\ (~canwrite' => stashMap'[id] < i')
      BY DEF StashMapInv, Stashes
  <2>2. stashMap'[id] = stashMap[id]
      BY <1>t, <2>1
  <2>3. PICK j \in CmdIndex : j = stashMap[id]
      BY <1>t, <2>2
  <2>4. Stashes(j, id) /\ (~canwrite => j < i)
      BY <2>1, <2>2, <2>3 DEF StashMapInv
  <2> QED
      BY <1>t, <2>1, <2>2, <2>3, <2>4 DEF CmdIndex
<1>5. CASE \/ (\E write \in BOOLEAN : SkipUpdatedPartition(write))
           \/ (\E write, retry \in BOOLEAN : CreateStashFails(write, retry))
           \/ Return \/ Kill \/ PowerLoss
    BY <1>1, <1>5 DEF SkipUpdatedPartition, CreateStashFails, Begin, Return, Kill, PowerLoss, locals
<1>6. CASE \/ SkipCommand \/ TargetVerified \/ CopySource \/ VerifyCopy \/ Unresumable \/ StartWrite
           \/ RootHashMismatch \/ (\E b \in Block : WriteRange(b)) \/ FinishWrite \/ Fsync
    BY <1>1, <1>6 DEF SkipCommand, TargetVerified, CopySource, VerifyCopy, Unresumable, StartWrite,
       RootHashMismatch, WriteRange, FinishWrite, Fsync, Performing, NextCommand, params, locals
<1>7. CASE \/ UpdateLastCommandIndex \/ UpdateLastCommandIndexFails \/ AllCommandsDone
           \/ (\E id \in StashId : DeleteStashFile(id)) \/ DeleteStashDir \/ DeleteLastCommandFile
           \/ SetUpdatedMarker \/ SetUpdatedMarkerFails \/ CommandFails \/ PerformCommandAbort
    BY <1>1, <1>7 DEF UpdateLastCommandIndex, UpdateLastCommandIndexFails, AllCommandsDone,
       DeleteStashFile, DeleteStashDir, DeleteLastCommandFile, SetUpdatedMarker, SetUpdatedMarkerFails,
       CommandFails, PerformCommandAbort, params, locals
<1> QED
    BY <1>2, <1>3, <1>4, <1>5, <1>6, <1>7 DEF Next, Step

\* No verification of a doomed partition succeeds.
LEMMA DoomedUnverified ==
    ASSUME Inv, StashMapInv, OwnIds, ~verified, Next, NEW k \in CmdIndex, Doomed(k)
    PROVE  ~verified'
<1>1. pc # "done"
    BY DoomedControl
<1>2. CASE Return
    BY <1>1, <1>2 DEF Return
<1>3. CASE ~Return
    BY <1>3 DEF Next, Step, SkipUpdatedPartition, Start, CreateStashFails, SkipCommand,
       PerformCommandStash, PerformCommandFree, TargetVerified, CopySource, VerifyCopy, Unresumable,
       StartWrite, RootHashMismatch, WriteRange, FinishWrite, Fsync, UpdateLastCommandIndex,
       UpdateLastCommandIndexFails, AllCommandsDone, DeleteStashFile, DeleteStashDir,
       DeleteLastCommandFile, SetUpdatedMarker, SetUpdatedMarkerFails, CommandFails,
       PerformCommandAbort, Kill, PowerLoss, outcome
<1> QED
    BY <1>2, <1>3

\* A partition that is recoverable stays so, and one that is doomed too.
LEMMA VerifiedInductive ==
    ASSUME StashesInOrder, PowerSafe, OwnIds, StashedBlocksChange
    PROVE  Inv /\ VerifiedInv /\ [Next]_vars => VerifiedInv'
<1> SUFFICES ASSUME Inv, VerifiedInv, [Next]_vars PROVE VerifiedInv'
    OBVIOUS
<1>1. CASE Next
  <2>1. StashMapInv'
      BY <1>1, StashMapStep DEF VerifiedInv
  <2>2. CASE ResumeInv
      BY <2>1, <2>2, ResumeInductive DEF VerifiedInv
  <2>3. ASSUME ~verified, NEW k \in CmdIndex, Doomed(k) PROVE VerifiedInv'
    <3>1. Doomed(k)' /\ ~verified'
        BY <1>1, <2>3, DoomedStep, DoomedUnverified DEF VerifiedInv
    <3> QED
        BY <2>1, <3>1 DEF VerifiedInv
  <2> QED
      BY <2>2, <2>3 DEF VerifiedInv
<1>2. CASE UNCHANGED vars
  <2>1. UNCHANGED <<disks, stash, pc, canwrite, i, stashMap, verified>>
      BY <1>2 DEF vars, cache, params, locals, outcome
  <2>2. StashMapInv'
      BY <2>1 DEF VerifiedInv, StashMapInv, Stashes
  <2>3. CASE ResumeInv
      BY <2>2, <2>3, ResumeInductive DEF VerifiedInv
  <2>4. ASSUME ~verified, NEW k \in CmdIndex, Doomed(k) PROVE VerifiedInv'
    <3>1. \A image : Wrong(image) => Wrong(image)'
        BY <2>1 DEF Wrong, disks
    <3>2. \A id : Lost(id, k) => Lost(id, k)'
        BY <2>1, <3>1 DEF Lost, Stashes
    <3>3. Doomed(k)'
        BY <2>1, <2>4, <3>1, <3>2 DEF Doomed, Copies
    <3> QED
        BY <2>1, <2>2, <2>4, <3>3 DEF VerifiedInv
  <2> QED
      BY <2>3, <2>4 DEF VerifiedInv
<1> QED
    BY <1>1, <1>2

\* Before the first attempt there is nothing in between.
LEMMA VerifiedInit ==
    ASSUME StaleLastCmd = {}
    PROVE  Inv /\ Init => VerifiedInv
<1> SUFFICES ASSUME Inv, Init PROVE VerifiedInv
    OBVIOUS
<1> USE ListAssumption
<1>1. CopyInv /\ MapInv /\ ~isunresumable /\ ReadOnlyInv /\ StashMapInv
    BY DEF Init, CopyInv, MapInv, ReadOnlyInv, StashMapInv
<1>2. \A j \in CmdIndex : Pending(j)
    BY DEF Init, Pending, Updating
<1>3. \A image : Wrong(image) <=> ~Safe(image)
    BY DEF Init, Wrong, Safe
<1>4. ASSUME NEW k \in CmdIndex, Copies(k), ~Safe(Cmd[k].tgt), ~Source(k) PROVE Doomed(k)
  <2>1. stash = {} /\ pc = "idle"
      BY DEF Init
  <2>2. ASSUME NEW id, ~Available(id, k) PROVE Lost(id, k)
      BY <1>2, <1>3, <2>1, <2>2 DEF Available, Lost
  <2>3. Wrong(Cmd[k].src) \/ \E id \in Cmd[k].uses : Lost(id, k)
      BY <1>3, <1>4, <2>2 DEF Source
  <2> QED
      BY <1>3, <1>4, <2>1, <2>3 DEF Doomed
<1>5. Recoverable \/ \E k \in CmdIndex : Doomed(k)
    BY <1>4 DEF Recoverable
<1>6. ~verified
    BY DEF Init
<1> QED
    BY <1>1, <1>5, <1>6 DEF VerifiedInv, ResumeInv

\* Once a verification has said "update may be resumed", of a partition with
\* any contents and after any interrupted attempts, no attempt that follows
\* finds a command with neither its source nor its target.
THEOREM VerifiedIsResumable ==
    ASSUME StaleLastCmd = {}, StashesInOrder, PowerSafe, OwnIds, StashedBlocksChange
    PROVE  Spec => []VerifiedMeansResumable
<1>1. Spec => []Inv
    BY InvHolds
<1>2. Inv /\ Init => VerifiedInv
    BY VerifiedInit
<1>3. Inv /\ VerifiedInv /\ [Next]_vars => VerifiedInv'
    BY VerifiedInductive
<1>4. VerifiedInv => VerifiedMeansResumable
    BY DEF VerifiedInv, ResumeInv, VerifiedMeansResumable
<1> QED
    BY <1>1, <1>2, <1>3, <1>4, PTL DEF Spec

=============================================================================
