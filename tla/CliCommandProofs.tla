-------------------------- MODULE CliCommandProofs --------------------------
(***************************************************************************)
(* What CliCommand guarantees for any number of runs of the twrp tool,     *)
(* user actions, pages and failures: one action at a time, the answer that *)
(* is open belongs to the command that runs, the listener of a recovery at *)
(* rest is the one the names denote unless two set-ups met, and a tool     *)
(* that ran alone and ended has had its command run once or has been told  *)
(* that it was not, unless it found a regular file for the answer.         *)
(***************************************************************************)
EXTENDS CliCommand, FiniteSetTheorems, TLAPS

All == Works \cup {gui}

\* The GUI thread holds a command from reading it to starting it.
CmdInv == IF pc[gui] \in {"fopen", "opening"} THEN cmd \in Clients ELSE cmd = NoCmd

Active(w) == pc[w] \notin {"none", "refused", "gone"}
Started(c) == pc[c] \in {"created", "busy", "ran"}

\* m_thread_running is set as long as an action is active, and there is one.
OneInv ==
    /\ \A v, w \in Works : Active(v) /\ Active(w) => v = w
    /\ \A w \in Works : Active(w) => m_thread_running

\* orsout belongs to the command that is run; the GUI thread touches it only
\* when no command is.
AnswerInv ==
    /\ AnswerOfRunningCommand
    /\ pc[gui] \in {"fopen", "opening", "ran"} => \A c \in Clients : ~Started(c)
    /\ pc[gui] = "fopen" => orsout.ptr = "null"
    /\ pc[gui] = "opening" => orsout.ptr = "opening" /\ orsout.of = cmd
    /\ pc[gui] = "ran" => orsout.ptr = "open" /\ orsout.of \in Clients
    /\ \A u \in UserActions : pc[u] # "ran"

\* Which thread is at which of the calls, and on which page.
SetUp == {"close", "reset", "unlinkIn", "mkfifoIn", "unlinkOut", "mkfifoOut", "openIn"}
Undo == {"failClose", "failReset", "undoIn", "undoOut", "undoFirst"}
Ahead == \E p \in All : at[p] \in SetUp
AtInv ==
    /\ \A w \in Works : at[w] # "none" => pc[w] = "back" /\ at[w] \in {"restart"} \cup SetUp \cup Undo
    /\ at[gui] # "none" => pc[gui] \in {"back", "runPages", "startPage", "loop"}
    /\ at[gui] \in {"endClose", "endReset"} => pc[gui] = "startPage" \/ ~Pages[page]
    /\ stale => \E p \in All : at[p] \in {"reset", "endReset", "failReset"}

\* Unless two set-ups met: where the listener does not read what the name
\* denotes, on a page that allows commands, somebody is about to set it up.
ListenInv ==
    /\ AtInv
    /\ failures = 0 /\ ~collided =>
         /\ \A p \in All : at[p] \notin Undo
         /\ Ahead \/ ors_read_fd = 0 \/ ors_read_fd = inName
         /\ Ahead \/ (inName # 0 /\ ors_read_fd = inName) \/ ~Pages[page] \/ pc[gui] = "startPage"

\* The command of a client is in one place: not yet sent, once in one queue,
\* held by the GUI thread, started, or over.
In(q, c) == \E g \in DOMAIN q : \E i \in DOMAIN q[g] : q[g][i] = c
OnceIn(q) == \A g, h \in DOMAIN q : \A i \in DOMAIN q[g], j \in DOMAIN q[h] :
               q[g][i] = q[h][j] => g = h /\ i = j
Queued(c) == In(queue, c)
Unsent(c) == client[c].pc \in {"new", "blocked", "opened"}
Place(c) ==
    /\ Unsent(c) => ~Queued(c)
    /\ Queued(c) \/ Unsent(c) => cmd # c
    /\ Queued(c) \/ Unsent(c) \/ cmd = c => pc[c] = "none" /\ executed[c] = 0 /\ c \notin rejected
    /\ pc[c] \in {"created", "busy"} => executed[c] = 0
    /\ pc[c] = "ran" => executed[c] = 1
    /\ c \in rejected => executed[c] = 0 /\ pc[c] = "none"
    /\ executed[c] <= 1
OnceInv ==
    /\ OnceIn(queue)
    /\ \A c \in Clients : Place(c)
    /\ pc[gui] = "ran" => executed[orsout.of] = 1

\* A tool that runs alone, in a FIFO, reads the answer to its own command.
Handled(c) == (executed[c] = 1) # (c \in rejected)
Underway(c) == Queued(c) \/ cmd = c
PlainInv == \A c \in Clients : client[c].pc = "outwait" => client[c].out \notin plain
AloneInv ==
    /\ PlainInv
    /\ alone =>
         /\ \A c, d \in Clients : (Running(c) \/ Underway(c)) /\ (Running(d) \/ Underway(d)) => c = d
         /\ \A c \in Clients : Underway(c) =>
              client[c].pc \in {"written", "outwait", "failed"} \/ client[c].out \in plain
         /\ orsout.ptr = "open" /\ orsout.gen \notin plain =>
              /\ orsout.of \in Clients
              /\ client[orsout.of].pc = "reading"
              /\ client[orsout.of].out = orsout.gen
         /\ \A c \in Clients : client[c].pc = "reading" /\ client[c].out \notin plain =>
              \/ orsout.ptr = "open" /\ orsout.of = c /\ orsout.gen = client[c].out
              \/ Handled(c)
         /\ \A c \in Clients : client[c].pc = "done" /\ client[c].out \notin plain => Handled(c)

-----------------------------------------------------------------------------
(* Types *)

\* The GUI thread is none of the actions, and no command is no client.
LEMMA Names ==
    /\ gui \notin Works /\ NoCmd \notin Clients
    /\ Clients \subseteq Works /\ UserActions \subseteq Works
    /\ Clients \cap UserActions = {}
    /\ Pages \in Seq(BOOLEAN) /\ Len(Pages) \in Nat \ {0} /\ MaxFailures \in Nat
  BY CliAssumption DEF Works

\* The calls, and the one that follows each of them.
Calls == {"close", "reset", "unlinkIn", "mkfifoIn", "unlinkOut", "mkfifoOut", "openIn",
          "endClose", "endReset", "failClose", "failReset", "undoIn", "undoOut", "undoFirst"}
LEMMA CallsFollow ==
    /\ DOMAIN Following = Calls
    /\ \A l \in Calls : Following[l] \in Calls \cup {"none"}
    /\ Following["close"] = "reset" /\ Following["reset"] = "unlinkIn"
    /\ Following["unlinkIn"] = "mkfifoIn" /\ Following["mkfifoIn"] = "unlinkOut"
    /\ Following["unlinkOut"] = "mkfifoOut" /\ Following["mkfifoOut"] = "openIn"
    /\ Following["openIn"] = "none"
    /\ Following["endClose"] = "endReset" /\ Following["endReset"] = "none"
    /\ Following["failClose"] = "failReset" /\ Following["failReset"] = "undoIn"
    /\ Following["undoIn"] = "undoOut" /\ Following["undoOut"] = "none"
    /\ Following["undoFirst"] = "none"
  BY DEF Following, Calls

\* Putting another sequence into one place of a queue.
LEMMA QueueType ==
    ASSUME NEW S, NEW q \in Seq(Seq(S)), NEW g \in 1 .. Len(q), NEW s \in Seq(S)
    PROVE  [q EXCEPT ![g] = s] \in Seq(Seq(S)) /\ Len([q EXCEPT ![g] = s]) = Len(q)
<1>1. q \in [1 .. Len(q) -> Seq(S)]
  OBVIOUS
<1>2. [q EXCEPT ![g] = s] \in [1 .. Len(q) -> Seq(S)]
  BY <1>1
<1> QED
  BY <1>2

\* A new generation.
LEMMA NewType ==
    ASSUME NEW S, NEW q \in Seq(Seq(S))
    PROVE  /\ Append(q, <<>>) \in Seq(Seq(S)) /\ Len(Append(q, <<>>)) = Len(q) + 1
           /\ Len(q) \in Nat
<1>1. <<>> \in Seq(S)
  OBVIOUS
<1> QED
  BY <1>1

\* The parts of the type invariant.
PcType ==
    /\ pc \in [All -> Pcs]
    /\ at \in [All -> Calls \cup {"none", "restart"}]
    /\ CmdInv
FlagType ==
    /\ stale \in BOOLEAN /\ tw_busy \in BOOLEAN /\ m_thread_running \in BOOLEAN
    /\ tw_page_done \in BOOLEAN /\ alone \in BOOLEAN /\ collided \in BOOLEAN
    /\ page \in 1 .. Len(Pages)
FifoType ==
    /\ queue \in Seq(Seq(Clients))
    /\ inName \in 0 .. Len(queue) /\ outName \in 0 .. Len(queue) /\ ors_read_fd \in 0 .. Len(queue)
    /\ leaked \subseteq 1 .. Len(queue) /\ plain \subseteq 1 .. Len(queue)
OutType ==
    orsout \in [ptr : {"null", "opening", "open", "closed"}, gen : 0 .. Len(queue), of : Clients \cup {NoCmd}]
ClientPcs == {"new", "blocked", "opened", "written", "outwait", "reading", "done", "failed"}
ClientStates == [pc : ClientPcs, in : 0 .. Len(queue), out : 0 .. Len(queue)]
ClientType == client \in [Clients -> ClientStates]
CountType ==
    /\ executed \in [Clients -> Nat] /\ rejected \subseteq Clients
    /\ failures \in 0 .. MaxFailures

CliType == PcType /\ FlagType /\ FifoType /\ OutType /\ ClientType /\ CountType

\* The parts of the type invariant are TypeOK and what the GUI thread holds.
LEMMA CliTypeIsTypeOK == CliType <=> TypeOK /\ CmdInv
<1>3. CmdInv => cmd \in Clients \cup {NoCmd}
  BY DEF CmdInv
<1>4. DOMAIN Following \cup {"none", "restart"} = Calls \cup {"none", "restart"}
  BY CallsFollow
<1>5. {inName, outName, ors_read_fd} \subseteq 0 .. Len(queue)
        <=> inName \in 0 .. Len(queue) /\ outName \in 0 .. Len(queue) /\ ors_read_fd \in 0 .. Len(queue)
  BY Zenon
<1>1. CliType => TypeOK /\ CmdInv
  BY <1>3, <1>4, <1>5, Zenon DEF CliType, PcType, FlagType, FifoType, OutType, ClientType, ClientStates,
     ClientPcs, CountType, TypeOK, All
<1>2. TypeOK /\ CmdInv => CliType
  BY <1>4, <1>5, Zenon DEF CliType, PcType, FlagType, FifoType, OutType, ClientType, ClientStates,
     ClientPcs, CountType, TypeOK, All
<1> QED
  BY <1>1, <1>2

\* It holds when the recovery starts.
LEMMA CliTypeInit == Init => CliType
<1> SUFFICES ASSUME Init PROVE CliType
  OBVIOUS
<1> USE Names DEF Init
<1>1. PcType
  <2>1. pc \in [All -> Pcs] /\ pc[gui] = "startPage"
    BY DEF Pcs, All
  <2>2. at \in [All -> Calls \cup {"none", "restart"}]
    BY DEF All
  <2> QED
    BY <2>1, <2>2 DEF PcType, CmdInv
<1>2. FlagType
  <2>1. page \in 1 .. Len(Pages)
    OBVIOUS
  <2> QED
    BY <2>1, Zenon DEF FlagType
<1>3. FifoType
  BY DEF FifoType
<1>4. OutType
  BY DEF OutType, Null
<1>5. ClientType
  BY DEF ClientType, ClientStates, ClientPcs
<1>6. CountType
  BY DEF CountType
<1> QED
  BY <1>1, <1>2, <1>3, <1>4, <1>5, <1>6 DEF CliType

\* The actions, by what they can change.
FifoCalls == \E p \in All : RestartListener(p) \/ FifoCall(p)
Threads == \/ \E p \in All : CommandDone(p)
           \/ \E u \in UserActions : StartAction(u)
           \/ \E w \in Works : operation_start(w) \/ operation_end(w) \/ ThreadExit(w) \/ Run_CLI_Command(w)
Gui == \/ gui_startPage \/ RunPages \/ PageDone \/ EndPage \/ GuiBack
       \/ ReadCommand \/ Fopen \/ FopenFails \/ RejectBusy \/ RunBuiltin \/ StartCommand
Tools == \E c \in Clients : OpenIn(c) \/ Write(c) \/ OpenOut(c) \/ ReadAll(c)

\* A step is a call that concerns the FIFOs, or one of an action thread, of
\* the GUI thread or of a tool.
LEMMA Steps == Next => FifoCalls \/ Threads \/ Gui \/ Tools
  BY Zenon DEF Next, GuiStep, ThreadStep, ClientStep, Done, FifoCalls, Threads, Gui, Tools, All

\* The calls leave the threads, the flags, orsout and the commands alone, and
\* one is followed by the next one or by what undoes it.
LEMMA CallKeeps ==
    ASSUME PcType, NEW p \in All, RestartListener(p) \/ FifoCall(p)
    PROVE  /\ UNCHANGED <<orsout, flags, pc, cmd, executed, rejected, alone>>
           /\ at[p] \in Calls \cup {"restart"}
           /\ at'[p] \in Calls \cup {"none"}
           /\ \A q \in All : q # p => at'[q] = at[q]
           /\ at' \in [All -> Calls \cup {"none", "restart"}]
<1> USE CallsFollow DEF PcType, Call, history
<1>1. UNCHANGED <<orsout, flags, pc, cmd, executed, rejected, alone>>
  BY DEF RestartListener, FifoCall, CloseListener, ResetListener, UnlinkIn, UnlinkOut, MkfifoIn,
     MkfifoOut, OpenListener
<1>2. at[p] \in Calls \cup {"restart"}
  BY DEF RestartListener, FifoCall, CloseListener, ResetListener, UnlinkIn, UnlinkOut, MkfifoIn,
     MkfifoOut, OpenListener, Calls
<1>3. \E l \in Calls \cup {"none"} : Call(p, l)
  <2>1. CASE RestartListener(p)
    BY <2>1 DEF RestartListener, Calls
  <2>2. CASE CloseListener(p) \/ ResetListener(p) \/ UnlinkIn(p) \/ UnlinkOut(p)
    BY <2>2 DEF CloseListener, ResetListener, UnlinkIn, UnlinkOut, Calls
  <2>3. CASE MkfifoIn(p)
    BY <2>3 DEF MkfifoIn, Calls
  <2>4. CASE MkfifoOut(p)
    BY <2>4 DEF MkfifoOut, Calls
  <2>5. CASE OpenListener(p)
    BY <2>5 DEF OpenListener, Calls
  <2> QED
    BY <2>1, <2>2, <2>3, <2>4, <2>5 DEF FifoCall
<1> QED
  BY <1>1, <1>2, <1>3

\* Every step keeps the threads well formed, ...
LEMMA PcStep ==
    ASSUME CliType, Next
    PROVE  PcType'
<1> USE Names DEF PcType, CmdInv, Goto, Pcs, Running, All
<1> USE DEF CliType
<1>1. ASSUME NEW p \in All, CommandDone(p) PROVE PcType'
  BY <1>1 DEF CommandDone, Call
<1>2. CASE FifoCalls
  BY <1>2, CallKeeps DEF FifoCalls
<1>4. ASSUME NEW u \in UserActions, StartAction(u) PROVE PcType'
  BY <1>4 DEF StartAction, threadActions
<1>5. ASSUME NEW w \in Works, operation_start(w) \/ ThreadExit(w) PROVE PcType'
  BY <1>5 DEF operation_start, ThreadExit
<1>6. ASSUME NEW w \in Works, operation_end(w) PROVE PcType'
  BY <1>6 DEF operation_end
<1>7. ASSUME NEW w \in Works, Run_CLI_Command(w) PROVE PcType'
  BY <1>7 DEF Run_CLI_Command
<1>8. CASE RunPages \/ PageDone \/ EndPage \/ GuiBack
  BY <1>8 DEF RunPages, PageDone, EndPage, GuiBack, Call, Ready, Calls
<1>14. CASE gui_startPage
  BY <1>14 DEF gui_startPage, Call, Ready, Calls
<1>9. CASE ReadCommand
  <2>1. ors_read_fd \in 1 .. Len(queue) /\ queue[ors_read_fd] \in Seq(Clients) /\ queue[ors_read_fd] # <<>>
    BY <1>9 DEF ReadCommand, ListenerReady, FifoType
  <2>2. cmd' \in Clients
    BY <1>9, <2>1 DEF ReadCommand
  <2> QED
    BY <1>9, <2>2 DEF ReadCommand
<1>10. CASE Fopen \/ FopenFails
  BY <1>10 DEF Fopen, FopenFails, Call, Calls
<1>11. CASE RejectBusy \/ RunBuiltin
  BY <1>11 DEF RejectBusy, RunBuiltin
<1>12. CASE StartCommand
  BY <1>12 DEF StartCommand, threadActions
<1>13. ASSUME NEW c \in Clients, OpenIn(c) \/ Write(c) \/ OpenOut(c) \/ ReadAll(c) PROVE PcType'
  BY <1>13 DEF OpenIn, Write, OpenOut, ReadAll, history
<1> QED
  BY <1>1, <1>2, <1>4, <1>5, <1>6, <1>7, <1>8, <1>9, <1>10, <1>11, <1>12, <1>13, <1>14, Steps
     DEF Threads, Gui, Tools

\* ... the flags, ...
LEMMA FlagStep ==
    ASSUME CliType, Next
    PROVE  FlagType'
<1> USE Names DEF FlagType, flags, history, listener
<1> USE DEF CliType
<1>1. CASE Threads
  BY <1>1 DEF Threads, CommandDone, StartAction, threadActions,
     operation_start, operation_end, ThreadExit, Run_CLI_Command
<1>5. ASSUME NEW p \in All, RestartListener(p) \/ FifoCall(p) PROVE FlagType'
  <2>1. UNCHANGED <<flags, alone>>
    BY <1>5, CallKeeps
  <2>2. stale' \in BOOLEAN
    BY <1>5 DEF RestartListener, FifoCall, CloseListener, ResetListener, UnlinkIn, UnlinkOut, MkfifoIn,
       MkfifoOut, OpenListener
  <2>3. collided' \in BOOLEAN
    BY <1>5 DEF RestartListener, FifoCall, CloseListener, ResetListener, UnlinkIn, UnlinkOut, MkfifoIn,
       MkfifoOut, OpenListener, SetUpBegins
  <2> QED
    BY <2>1, <2>2, <2>3
<1>2. CASE Gui /\ ~EndPage /\ ~gui_startPage
  BY <1>2 DEF Gui, RunPages, PageDone, GuiBack, ReadCommand, Fopen, FopenFails,
     RejectBusy, RunBuiltin, StartCommand, threadActions
<1>6. CASE gui_startPage
  BY <1>6 DEF gui_startPage, SetUpBegins
<1>4. CASE EndPage
  BY <1>4 DEF EndPage
<1>3. CASE Tools
  BY <1>3 DEF Tools, OpenIn, Write, OpenOut, ReadAll
<1> QED
  BY <1>1, <1>2, <1>3, <1>4, <1>5, <1>6, Steps DEF FifoCalls

\* ... the FIFOs with their queues, ...
LEMMA FifoStep ==
    ASSUME CliType, Next
    PROVE  FifoType' /\ Len(queue') >= Len(queue) /\ Len(queue) \in Nat /\ Len(queue') \in Nat
<1> DEFINE P == FifoType' /\ Len(queue') >= Len(queue) /\ Len(queue) \in Nat /\ Len(queue') \in Nat
<1> USE DEF FifoType, listener, names
<1> USE DEF CliType
<1>0. Len(queue) \in Nat
  BY NewType
<1>8. ASSUME UNCHANGED queue, inName' \in 0 .. Len(queue), outName' \in 0 .. Len(queue), UNCHANGED plain,
             ors_read_fd' \in 0 .. Len(queue), leaked' \subseteq 1 .. Len(queue)
      PROVE  P
  BY <1>0, <1>8
<1>9. ASSUME queue' = Append(queue, <<>>), inName' \in {inName, Len(queue) + 1}, outName' \in {outName, Len(queue) + 1},
             plain' \subseteq plain \cup {Len(queue) + 1}, UNCHANGED <<ors_read_fd, leaked>>
      PROVE  P
  <2>1. queue' \in Seq(Seq(Clients)) /\ Len(queue') = Len(queue) + 1
    BY <1>9, NewType
  <2>2. inName' \in 0 .. Len(queue') /\ outName' \in 0 .. Len(queue') /\ ors_read_fd' \in 0 .. Len(queue')
    BY <1>0, <1>9, <2>1
  <2>3. 1 .. Len(queue') = (1 .. Len(queue)) \cup {Len(queue) + 1}
    BY <1>0, <2>1
  <2>4. leaked' \subseteq 1 .. Len(queue') /\ plain' \subseteq 1 .. Len(queue')
    BY <1>9, <2>3
  <2> QED
    BY <1>0, <2>1, <2>2, <2>4
<1>6. ASSUME NEW p \in All, RestartListener(p) \/ FifoCall(p) PROVE P
  <2>1. CASE RestartListener(p) \/ CloseListener(p) \/ ResetListener(p) \/ UnlinkIn(p) \/ UnlinkOut(p)
    <3>1. UNCHANGED <<queue, plain>>
      BY <2>1 DEF RestartListener, CloseListener, ResetListener, UnlinkIn, UnlinkOut
    <3>2. inName' \in {0, inName} /\ outName' \in {0, outName} /\ ors_read_fd' \in {0, ors_read_fd}
          /\ leaked' \subseteq leaked \cup ({ors_read_fd} \ {0})
      BY <2>1 DEF RestartListener, CloseListener, ResetListener, UnlinkIn, UnlinkOut
    <3> QED
      BY <1>0, <1>8, <3>1, <3>2
  <2>2. CASE MkfifoIn(p)
    BY <1>8, <1>9, <2>2 DEF MkfifoIn
  <2>3. CASE MkfifoOut(p)
    BY <1>8, <1>9, <2>3 DEF MkfifoOut
  <2>4. CASE OpenListener(p)
    <3>1. inName # 0 => /\ [queue EXCEPT ![inName] = <<>>] \in Seq(Seq(Clients))
                        /\ Len([queue EXCEPT ![inName] = <<>>]) = Len(queue)
      <4>1. <<>> \in Seq(Clients)
        OBVIOUS
      <4> QED
        BY <4>1, QueueType
    <3>2. queue' \in Seq(Seq(Clients)) /\ Len(queue') = Len(queue)
      BY <2>4, <3>1 DEF OpenListener
    <3>3. UNCHANGED <<inName, outName, plain>> /\ ors_read_fd' \in {0, inName}
          /\ leaked' = leaked \cup ({ors_read_fd} \ {0})
      BY <2>4 DEF OpenListener
    <3> QED
      BY <1>0, <3>2, <3>3
  <2> QED
    BY <1>6, <2>1, <2>2, <2>3, <2>4 DEF FifoCall
<1>1. CASE Threads
  <2>1. UNCHANGED listener
    BY <1>1 DEF Threads, CommandDone, StartAction, operation_start, operation_end, ThreadExit, Run_CLI_Command
  <2> QED
    BY <1>8, <2>1
<1>2. CASE ReadCommand
  <2>1. ors_read_fd \in 1 .. Len(queue) /\ queue[ors_read_fd] \in Seq(Clients) /\ queue[ors_read_fd] # <<>>
    BY <1>2 DEF ReadCommand, ListenerReady
  <2>2. queue' \in Seq(Seq(Clients)) /\ Len(queue') = Len(queue)
    BY <1>2, <2>1, QueueType DEF ReadCommand
  <2> QED
    BY <1>2, <2>2 DEF ReadCommand
<1>7. CASE Fopen
  <2>1. outName = 0 => P
    BY <1>7, <1>9 DEF Fopen
  <2>2. outName # 0 => P
    BY <1>7, <1>8 DEF Fopen
  <2> QED
    BY <2>1, <2>2
<1>3. CASE Gui /\ ~ReadCommand /\ ~Fopen
  BY <1>3 DEF Gui, gui_startPage, RunPages, PageDone, EndPage, GuiBack, FopenFails,
     RejectBusy, RunBuiltin, StartCommand
<1>4. ASSUME NEW c \in Clients, Write(c) PROVE P
  <2>1. CASE HasReader(client[c].in)
    <3>1. client[c].in \in 1 .. Len(queue) /\ Append(queue[client[c].in], c) \in Seq(Clients)
      <4>1. client[c].in \in 1 .. Len(queue)
        <5>1. (client[c].in = ors_read_fd /\ ors_read_fd # 0) \/ client[c].in \in leaked
          BY <2>1 DEF HasReader
        <5>2. ors_read_fd # 0 => ors_read_fd \in 1 .. Len(queue)
          BY <1>0
        <5> QED
          BY <5>1, <5>2
      <4> QED
        BY <4>1
    <3>2. queue' = [queue EXCEPT ![client[c].in] = Append(queue[client[c].in], c)]
      BY <1>4, <2>1 DEF Write
    <3>3. queue' \in Seq(Seq(Clients)) /\ Len(queue') = Len(queue)
      BY <3>1, <3>2, QueueType
    <3> QED
      BY <1>4, <3>3 DEF Write
  <2>2. CASE ~HasReader(client[c].in)
    BY <1>4, <2>2 DEF Write
  <2> QED
    BY <2>1, <2>2
<1>5. ASSUME NEW c \in Clients, OpenIn(c) \/ OpenOut(c) \/ ReadAll(c) PROVE P
  BY <1>5 DEF OpenIn, OpenOut, ReadAll
<1> QED
  BY <1>1, <1>2, <1>3, <1>4, <1>5, <1>6, <1>7, Steps DEF Tools, FifoCalls

\* ... orsout, ...
LEMMA OutStep ==
    ASSUME CliType, Next
    PROVE  OutType'
<1> USE FifoStep DEF OutType
<1> USE DEF CliType
<1>1. CASE Threads
  BY <1>1 DEF Threads, CommandDone, StartAction, Null,
     operation_start, operation_end, ThreadExit, Run_CLI_Command
<1>6. CASE FifoCalls
  BY <1>6, CallKeeps DEF FifoCalls
<1>2. CASE Fopen
  <2>1. outName' \in 0 .. Len(queue') /\ cmd \in Clients
    BY <1>2 DEF Fopen, FifoType, PcType, CmdInv
  <2> QED
    BY <1>2, <2>1 DEF Fopen
<1>3. CASE RejectBusy \/ RunBuiltin \/ StartCommand
  BY <1>3 DEF RejectBusy, RunBuiltin, StartCommand, listener
<1>4. CASE Gui /\ ~Fopen /\ ~RejectBusy /\ ~RunBuiltin /\ ~StartCommand
  BY <1>4 DEF Gui, gui_startPage, RunPages, PageDone, EndPage, GuiBack, ReadCommand, FopenFails, Null
<1>5. CASE Tools
  BY <1>5 DEF Tools, OpenIn, Write, OpenOut, ReadAll
<1> QED
  BY <1>1, <1>2, <1>3, <1>4, <1>5, <1>6, Steps

\* A tool that goes on and opens orsout.
LEMMA ClientUpdate ==
    ASSUME Len(queue) \in Nat, Len(queue') \in Nat, Len(queue') >= Len(queue),
           NEW s \in ClientStates, NEW p \in ClientPcs, NEW g \in 0 .. Len(queue)
    PROVE  [s EXCEPT !.pc = p, !.out = g] \in ClientStates'
<1> DEFINE r == [s EXCEPT !.pc = p]
<1>2. r \in ClientStates
  BY DEF ClientStates
<1>3. ASSUME NEW q \in ClientStates PROVE [q EXCEPT !.out = g] \in ClientStates'
  BY DEF ClientStates
<1>4. [r EXCEPT !.out = g] \in ClientStates'
  <2> HIDE DEF r
  <2> QED
    BY <1>2, <1>3
<1> QED
  BY <1>4

\* What a tool that opens orsout finds.
Found == CASE outName = 0 -> "failed"
           [] outName \in plain -> "reading"
           [] orsout.ptr = "open" /\ orsout.gen = outName -> "reading"
           [] OTHER -> "outwait"

\* ... the tools, ...
LEMMA ClientStepType ==
    ASSUME CliType, Next
    PROVE  ClientType'
<1> USE FifoStep DEF ClientType
<1> USE DEF CliType
<1>10. ASSUME NEW s \in ClientStates
       PROVE  /\ s.pc \in ClientPcs /\ s.in \in 0 .. Len(queue') /\ s.out \in 0 .. Len(queue')
              /\ s = [pc |-> s.pc, in |-> s.in, out |-> s.out]
  BY DEF ClientStates
<1>11. ASSUME NEW s \in ClientStates, NEW p \in ClientPcs PROVE [s EXCEPT !.pc = p] \in ClientStates'
  <2>1. [s EXCEPT !.pc = p] = [pc |-> p, in |-> s.in, out |-> s.out]
    BY <1>10
  <2> QED
    BY <1>10, <2>1 DEF ClientStates
<1>12. ClientStates \subseteq ClientStates'
  BY <1>10 DEF ClientStates
<1>13. \A c \in Clients : client[c] \in ClientStates
  OBVIOUS
<1>14. ASSUME NEW c \in Clients, NEW r \in ClientStates', SetClient(c, r) PROVE ClientType'
  BY <1>12, <1>14 DEF SetClient
<1>15. UNCHANGED client => ClientType'
  BY <1>12
<1>1. ASSUME NEW p \in All, RestartListener(p) \/ FifoCall(p) PROVE ClientType'
  <2>1. CASE OpenListener(p) /\ inName # 0
    <3>1. \A c \in Clients : [client[c] EXCEPT !.pc = "opened"] \in ClientStates'
      BY <1>11, <1>13 DEF ClientPcs
    <3>2. CASE UNCHANGED client
      BY <1>15, <3>2
    <3>3. CASE client' = [c \in Clients |->
                          IF client[c].pc = "blocked" /\ client[c].in = inName
                          THEN [client[c] EXCEPT !.pc = "opened"] ELSE client[c]]
      BY <1>12, <1>13, <3>1, <3>3
    <3> QED
      BY <2>1, <3>2, <3>3 DEF OpenListener
  <2>2. CASE ~(OpenListener(p) /\ inName # 0)
    <3>1. UNCHANGED client
      BY <1>1, <2>2 DEF RestartListener, FifoCall, CloseListener, ResetListener, UnlinkIn, UnlinkOut,
         MkfifoIn, MkfifoOut, OpenListener
    <3> QED
      BY <1>15, <3>1
  <2> QED
    BY <2>1, <2>2
<1>3. CASE RejectBusy \/ RunBuiltin \/ StartCommand
  <2>1. \A c \in Clients : [client[c] EXCEPT !.pc = "reading"] \in ClientStates'
    BY <1>11, <1>13 DEF ClientPcs
  <2> QED
    BY <1>3, <1>12, <2>1 DEF RejectBusy, RunBuiltin, StartCommand, Connect
<1>4. CASE Gui /\ ~RejectBusy /\ ~RunBuiltin /\ ~StartCommand
  BY <1>4, <1>15 DEF Gui, gui_startPage, RunPages, PageDone, EndPage, GuiBack, ReadCommand, Fopen, FopenFails
<1>5. ASSUME NEW c \in Clients, OpenIn(c) PROVE ClientType'
  <2>1. [pc |-> IF HasReader(inName) THEN "opened" ELSE "blocked", in |-> inName, out |-> 0] \in ClientStates'
    BY DEF ClientStates, ClientPcs, FifoType
  <2> QED
    BY <1>5, <1>14, <2>1 DEF OpenIn
<1>6. ASSUME NEW c \in Clients, Write(c) PROVE ClientType'
  <2>1. [client[c] EXCEPT !.pc = "written"] \in ClientStates' /\ [client[c] EXCEPT !.pc = "failed"] \in ClientStates'
    BY <1>11, <1>13 DEF ClientPcs
  <2> QED
    BY <1>6, <1>14, <2>1 DEF Write
<1>7. ASSUME NEW c \in Clients, OpenOut(c) PROVE ClientType'
  <2>1. \A p \in ClientPcs : [client[c] EXCEPT !.pc = p, !.out = outName] \in ClientStates'
    <3> SUFFICES ASSUME NEW s \in ClientStates, NEW p \in ClientPcs
                 PROVE  [s EXCEPT !.pc = p, !.out = outName] \in ClientStates'
      BY <1>13
    <3> QED
      BY FifoStep, ClientUpdate DEF FifoType
  <2>2. Found \in ClientPcs
    BY DEF Found, ClientPcs
  <2>3. SetClient(c, [client[c] EXCEPT !.pc = Found, !.out = outName])
    BY <1>7 DEF OpenOut, Found
  <2> QED
    BY <1>14, <2>1, <2>2, <2>3
<1>8. ASSUME NEW c \in Clients, ReadAll(c) PROVE ClientType'
  <2>1. [client[c] EXCEPT !.pc = "done"] \in ClientStates'
    BY <1>11, <1>13 DEF ClientPcs
  <2> QED
    BY <1>8, <1>14, <2>1 DEF ReadAll
<1>9. CASE Threads
  BY <1>15, <1>9 DEF Threads, CommandDone, StartAction,
     operation_start, operation_end, ThreadExit, Run_CLI_Command
<1> QED
  BY <1>1, <1>3, <1>4, <1>5, <1>6, <1>7, <1>8, <1>9, Steps DEF Tools, FifoCalls

\* ... and what is counted.
LEMMA CountStep ==
    ASSUME CliType, Next
    PROVE  CountType'
<1> USE Names DEF CountType, history
<1> USE DEF CliType
<1>1. CASE Threads
  BY <1>1 DEF Threads, CommandDone, StartAction,
     operation_start, operation_end, ThreadExit, Run_CLI_Command
<1>5. ASSUME NEW p \in All, RestartListener(p) \/ FifoCall(p) PROVE CountType'
  <2>1. failures' \in 0 .. MaxFailures
    BY <1>5 DEF RestartListener, FifoCall, CloseListener, ResetListener, UnlinkIn, UnlinkOut, MkfifoIn,
       MkfifoOut, OpenListener, Fails
  <2> QED
    BY <1>5, <2>1, CallKeeps
<1>2. CASE RejectBusy \/ RunBuiltin
  BY <1>2 DEF RejectBusy, RunBuiltin, Opened, PcType, CmdInv
<1>3. CASE Gui /\ ~RejectBusy /\ ~RunBuiltin
  BY <1>3 DEF Gui, gui_startPage, RunPages, PageDone, EndPage, GuiBack, ReadCommand, Fopen, FopenFails,
     Fails, StartCommand
<1>4. CASE Tools
  BY <1>4 DEF Tools, OpenIn, Write, OpenOut, ReadAll
<1> QED
  BY <1>1, <1>2, <1>3, <1>4, <1>5, Steps DEF FifoCalls

-----------------------------------------------------------------------------
(* One action at a time *)

\* What a step does to the program counter of an action: it goes on, it is
\* started when none runs, dropped, or it ends.
LEMMA OneStep ==
    ASSUME CliType, OneInv, Next
    PROVE  OneInv'
<1> USE Names DEF CliType, PcType, OneInv, Active, Goto, All
<1>1. ASSUME NEW p \in All, CommandDone(p) PROVE OneInv'
  BY <1>1 DEF CommandDone, flags
<1>10. ASSUME NEW p \in All, RestartListener(p) \/ FifoCall(p) PROVE OneInv'
  BY <1>10, CallKeeps DEF flags
<1>2. ASSUME NEW u \in UserActions, StartAction(u) PROVE OneInv'
  BY <1>2 DEF StartAction, threadActions
<1>3. ASSUME NEW w \in Works, operation_start(w) PROVE OneInv'
  BY <1>3 DEF operation_start
<1>4. ASSUME NEW w \in Works, operation_end(w) PROVE OneInv'
  <2>1. PICK next \in {"between", "ended"} : Goto(w, next)
    BY <1>4 DEF operation_end
  <2>2. Active(w) /\ UNCHANGED m_thread_running
    BY <1>4 DEF operation_end, Ready
  <2> QED
    BY <2>1, <2>2
<1>5. ASSUME NEW w \in Works, ThreadExit(w) PROVE OneInv'
  BY <1>5 DEF ThreadExit
<1>6. ASSUME NEW w \in Works, Run_CLI_Command(w) PROVE OneInv'
  BY <1>6 DEF Run_CLI_Command, flags
<1>7. CASE Gui /\ ~StartCommand
  <2>1. UNCHANGED m_thread_running /\ \A w \in Works : pc'[w] = pc[w]
    BY <1>7 DEF Gui, gui_startPage, RunPages, PageDone, EndPage, GuiBack, ReadCommand, Fopen, FopenFails,
       RejectBusy, RunBuiltin, flags
  <2> QED
    BY <2>1
<1>8. CASE StartCommand
  BY <1>8 DEF StartCommand, Opened, threadActions, CmdInv
<1>9. CASE Tools
  BY <1>9 DEF Tools, OpenIn, Write, OpenOut, ReadAll, flags
<1> QED
  BY <1>1, <1>2, <1>3, <1>4, <1>5, <1>6, <1>7, <1>8, <1>9, <1>10, Steps DEF Threads, FifoCalls

OneAction == TypeOK /\ CmdInv /\ OneInv

\* m_thread_running lets one action in at a time.
LEMMA OneActionHolds == Spec => []OneAction
<1>1. Init => OneAction
  <2> SUFFICES ASSUME Init PROVE OneAction
    OBVIOUS
  <2>1. OneInv
    BY Names DEF Init, OneInv, Active
  <2> QED
    BY <2>1, CliTypeInit, CliTypeIsTypeOK DEF OneAction
<1>2. OneAction /\ [Next]_vars => OneAction'
  <2> SUFFICES ASSUME OneAction, [Next]_vars PROVE OneAction'
    OBVIOUS
  <2>1. CliType
    BY CliTypeIsTypeOK DEF OneAction
  <2>2. CASE Next
    <3>1. CliType' /\ OneInv'
      BY <2>1, <2>2, PcStep, FlagStep, FifoStep, OutStep, ClientStepType, CountStep, OneStep
         DEF CliType, OneAction
    <3>2. TypeOK' /\ CmdInv'
      BY <3>1, CliTypeIsTypeOK, PTL
    <3> QED
      BY <3>1, <3>2 DEF OneAction
  <2>3. CASE UNCHANGED vars
    BY <2>3, Zenon DEF OneAction, TypeOK, CmdInv, OneInv, Active, vars, listener, names, flags, history, Works
  <2> QED
    BY <2>2, <2>3
<1> QED
  BY <1>1, <1>2, PTL DEF Spec

\* The FIFOs, the threads and the tools stay well formed, for any number of
\* tools, actions, pages and failures.
THEOREM CliTypeCorrect == Spec => []TypeOK
<1>1. OneAction => TypeOK
  BY DEF OneAction
<1> QED
  BY <1>1, OneActionHolds, PTL

\* ActionThread::threadActions: whatever starts actions, the GUI thread, a
\* command or a variable an action sets, at most one of them runs.
THEOREM OneActionHasTheThread == Spec => []OneActionAtATime
<1>1. OneAction => OneActionAtATime
  <2> SUFFICES ASSUME OneAction PROVE OneActionAtATime
    OBVIOUS
  <2> DEFINE A == {w \in Works : pc[w] \notin {"none", "refused", "gone"}}
  <2>1. \A v, w \in A : v = w
    BY DEF OneAction, OneInv, Active
  <2>2. CASE A = {}
    BY <2>2, FS_EmptySet DEF OneActionAtATime
  <2>3. CASE A # {}
    <3>1. PICK w \in A : A = {w}
      BY <2>1, <2>3
    <3>2. Cardinality({w}) = 1
      BY FS_Singleton
    <3> QED
      BY <3>1, <3>2 DEF OneActionAtATime
  <2> QED
    BY <2>2, <2>3
<1> QED
  BY <1>1, OneActionHolds, PTL

-----------------------------------------------------------------------------
(* Whose answer is open *)

\* Every step keeps orsout with the command that is run.
LEMMA AnswerStep ==
    ASSUME CliType, OneInv, AnswerInv, Next
    PROVE  AnswerInv'
<1> USE Names DEF CliType, PcType, AnswerInv, AnswerOfRunningCommand, Started, Goto, All
<1>1. ASSUME NEW p \in All, CommandDone(p) PROVE AnswerInv'
  <2>1. \A c \in Clients : c # p => ~Started(c)
    BY <1>1 DEF CommandDone, OneInv, Active
  <2>2. \A c \in Clients : ~Started(c)'
    BY <1>1, <2>1 DEF CommandDone
  <2>3. p # gui => pc[gui] \notin {"fopen", "opening", "ran"}
    <3>1. p # gui => p \in Clients /\ Started(p)
      BY <1>1 DEF CommandDone, Works
    <3> QED
      BY <3>1
  <2> QED
    BY <1>1, <2>2, <2>3 DEF CommandDone
<1>2. CASE FifoCalls
  BY <1>2, CallKeeps DEF FifoCalls
<1>3. ASSUME NEW u \in UserActions, StartAction(u) PROVE AnswerInv'
  BY <1>3 DEF StartAction, threadActions
<1>4. ASSUME NEW w \in Works, operation_start(w) PROVE AnswerInv'
  <2>1. UNCHANGED <<orsout, cmd>> /\ pc[w] \in {"created", "between"}
    BY <1>4 DEF operation_start
  <2>2. PICK label \in {"busy", "busyAgain"} : Goto(w, label) /\ (label = "busy" => pc[w] = "created")
    BY <1>4 DEF operation_start
  <2> QED
    BY <2>1, <2>2
<1>5. ASSUME NEW w \in Works, operation_end(w) PROVE AnswerInv'
  <2>1. PICK label \in {"between", "ended"} : Goto(w, label)
    BY <1>5 DEF operation_end
  <2> QED
    BY <1>5, <2>1 DEF operation_end
<1>6. ASSUME NEW w \in Works, ThreadExit(w) PROVE AnswerInv'
  BY <1>6 DEF ThreadExit
<1>7. ASSUME NEW w \in Works, Run_CLI_Command(w) PROVE AnswerInv'
  BY <1>7 DEF Run_CLI_Command
<1>8. CASE gui_startPage \/ RunPages \/ PageDone \/ EndPage \/ GuiBack
  <2>1. UNCHANGED <<orsout, cmd>> /\ \A w \in Works : pc'[w] = pc[w]
    BY <1>8 DEF gui_startPage, RunPages, PageDone, EndPage, GuiBack
  <2>2. pc'[gui] \in {"fopen", "opening", "ran"} => pc'[gui] = pc[gui]
    BY <1>8 DEF gui_startPage, RunPages, PageDone, EndPage, GuiBack
  <2> QED
    BY <2>1, <2>2
<1>9. CASE ReadCommand
  <2>1. orsout.ptr = "null" /\ UNCHANGED orsout
    BY <1>9 DEF ReadCommand, ListenerReady
  <2>2. \A c \in Clients : ~Started(c)
    BY <2>1
  <2> QED
    BY <1>9, <2>1, <2>2 DEF ReadCommand
<1>10. CASE Fopen
  BY <1>10 DEF Fopen
<1>11. CASE FopenFails
  BY <1>11 DEF FopenFails
<1>12. CASE RejectBusy
  BY <1>12 DEF RejectBusy, Opened
<1>13. CASE RunBuiltin
  BY <1>13 DEF RunBuiltin, Opened, CmdInv, OutType
<1>14. CASE StartCommand
  <2>1. cmd \in Clients /\ cmd # gui /\ \A c \in Clients : ~Started(c)
    BY <1>14 DEF StartCommand, Opened, CmdInv
  <2>2. orsout'.ptr = "open" /\ orsout'.of = cmd
    BY <1>14 DEF StartCommand, Opened, OutType
  <2>3. pc'[gui] = "loop" /\ pc'[cmd] \in {"refused", "created"}
        /\ \A w \in Works : w # cmd => pc'[w] = pc[w]
    BY <1>14, <2>1 DEF StartCommand, threadActions
  <2> QED
    BY <2>1, <2>2, <2>3
<1>15. CASE Tools
  BY <1>15 DEF Tools, OpenIn, Write, OpenOut, ReadAll
<1> QED
  BY <1>1, <1>2, <1>3, <1>4, <1>5, <1>6, <1>7, <1>8, <1>9, <1>10, <1>11, <1>12, <1>13, <1>14, <1>15,
     Steps DEF Threads, Gui

-----------------------------------------------------------------------------
(* Where the listener listens *)

\* The call a thread makes next, when one has returned or failed.
LEMMA CallNext ==
    ASSUME PcType, NEW p \in All, FifoCall(p)
    PROVE  \/ at[p] \in Calls /\ at'[p] = Following[at[p]]
           \/ at[p] = "mkfifoIn" /\ at'[p] = "none"
           \/ at[p] = "mkfifoOut" /\ at'[p] = "undoFirst"
           \/ at[p] = "openIn" /\ at'[p] = "undoIn"
<1> USE CallsFollow DEF PcType, Call
<1>1. CASE CloseListener(p) \/ ResetListener(p) \/ UnlinkIn(p) \/ UnlinkOut(p)
  BY <1>1 DEF CloseListener, ResetListener, UnlinkIn, UnlinkOut, Calls
<1>2. CASE MkfifoIn(p)
  BY <1>2 DEF MkfifoIn, Calls
<1>3. CASE MkfifoOut(p)
  BY <1>3 DEF MkfifoOut, Calls
<1>4. CASE OpenListener(p)
  BY <1>4 DEF OpenListener, Calls
<1> QED
  BY <1>1, <1>2, <1>3, <1>4 DEF FifoCall

\* A thread that is at a call makes it before it does anything else.
LEMMA AtCall ==
    ASSUME CliType, AtInv, NEW p \in All, RestartListener(p) \/ FifoCall(p)
    PROVE  AtInv'
<1> USE Names, CallsFollow DEF All, CliType, PcType
<1>1. UNCHANGED <<pc, page>> /\ at[p] # "none" /\ \A q \in All : q # p => at'[q] = at[q]
  BY CallKeeps DEF flags, Calls
<1>2. at'[p] \in {"endClose", "endReset"} => at[p] \in {"endClose", "endReset"}
  <2>1. CASE RestartListener(p)
    BY <2>1 DEF RestartListener, Call
  <2>2. CASE FifoCall(p)
    BY <2>2, CallNext DEF Calls
  <2> QED
    BY <2>1, <2>2
<1>3. at[p] \in {"restart"} \cup SetUp \cup Undo /\ at'[p] # "none" => at'[p] \in {"restart"} \cup SetUp \cup Undo
  <2>1. CASE RestartListener(p)
    BY <2>1 DEF RestartListener, Call, SetUp
  <2>2. CASE FifoCall(p)
    BY <2>2, CallNext DEF SetUp, Undo, Calls
  <2> QED
    BY <2>1, <2>2
<1>4. stale' => \E q \in All : at'[q] \in {"reset", "endReset", "failReset"}
  <2>1. CASE CloseListener(p)
    BY <2>1 DEF CloseListener, Call
  <2>2. CASE ResetListener(p) \/ OpenListener(p)
    BY <2>2 DEF ResetListener, OpenListener
  <2>3. CASE RestartListener(p) \/ UnlinkIn(p) \/ UnlinkOut(p) \/ MkfifoIn(p) \/ MkfifoOut(p)
    <3>1. UNCHANGED stale /\ at[p] \notin {"reset", "endReset", "failReset"}
      BY <2>3 DEF RestartListener, UnlinkIn, UnlinkOut, MkfifoIn, MkfifoOut, listener
    <3> QED
      BY <1>1, <3>1 DEF AtInv
  <2> QED
    BY <2>1, <2>2, <2>3 DEF FifoCall
<1> QED
  BY <1>1, <1>2, <1>3, <1>4 DEF AtInv

\* Every call of a set-up is followed by the next one, unless it failed.
LEMMA ListenCall ==
    ASSUME CliType, ListenInv, NEW p \in All, RestartListener(p) \/ FifoCall(p)
    PROVE  ListenInv'
<1> USE Names, CallsFollow DEF All, CliType, PcType
<1>1. UNCHANGED <<pc, page>> /\ \A q \in All : q # p => at'[q] = at[q]
  BY CallKeeps DEF flags
<1> SUFFICES ASSUME failures' = 0, ~collided'
             PROVE  /\ \A q \in All : at'[q] \notin Undo
                    /\ Ahead' \/ ors_read_fd' = 0 \/ ors_read_fd' = inName'
                    /\ Ahead' \/ (inName' # 0 /\ ors_read_fd' = inName') \/ ~Pages[page] \/ pc[gui] = "startPage"
  BY <1>1, AtCall DEF ListenInv
<1>2. failures = 0
  BY DEF RestartListener, FifoCall, CloseListener, ResetListener, UnlinkIn, UnlinkOut, MkfifoIn, MkfifoOut,
     OpenListener, history, Fails, CountType
<1>3. CASE RestartListener(p)
  <2>1. CASE tw_page_done
    <3>1. UNCHANGED <<inName, ors_read_fd, collided, failures>> /\ at[p] = "restart" /\ at'[p] = "none"
      BY <1>3, <2>1 DEF RestartListener, Call, listener, names
    <3>2. Ahead => Ahead'
      BY <1>1, <3>1 DEF Ahead, SetUp
    <3> QED
      BY <1>1, <1>2, <3>1, <3>2 DEF ListenInv, Undo
  <2>2. CASE ~tw_page_done
    <3>1. at'[p] = "close" /\ (collided => \A q \in All : q # p => at[q] = "none")
      BY <1>3, <2>2 DEF RestartListener, Call, SetUpBegins
    <3>2. Ahead'
      BY <3>1 DEF Ahead, SetUp
    <3> QED
      BY <1>1, <1>2, <3>1, <3>2 DEF ListenInv, Undo
  <2> QED
    BY <2>1, <2>2
<1>4. CASE FifoCall(p)
  <2>1. ~collided
    BY <1>4 DEF FifoCall, CloseListener, ResetListener, UnlinkIn, UnlinkOut, MkfifoIn, MkfifoOut,
       OpenListener, history
  <2>2. /\ \A q \in All : at[q] \notin Undo
        /\ Ahead \/ ors_read_fd = 0 \/ ors_read_fd = inName
        /\ Ahead \/ (inName # 0 /\ ors_read_fd = inName) \/ ~Pages[page] \/ pc[gui] = "startPage"
    BY <1>2, <2>1 DEF ListenInv
  <2>3. at[p] \in SetUp /\ at'[p] \in SetUp => Ahead'
    BY DEF Ahead
  <2>4. at'[p] \in SetUp => at'[p] \notin Undo
    BY DEF SetUp, Undo
  <2>5. CASE CloseListener(p) \/ ResetListener(p)
    <3>1. ors_read_fd' = 0 /\ at'[p] = Following[at[p]]
          /\ at[p] \in {"close", "endClose", "failClose", "reset", "endReset", "failReset"}
      BY <2>5 DEF CloseListener, ResetListener, Call
    <3>2. at[p] \notin {"failClose", "failReset"}
      BY <2>2 DEF Undo
    <3>3. CASE at[p] \in {"close", "reset"}
      BY <1>1, <2>2, <2>3, <2>4, <3>1, <3>3 DEF SetUp
    <3>4. CASE at[p] \in {"endClose", "endReset"}
      <4>1. p = gui /\ (pc[gui] = "startPage" \/ ~Pages[page])
        BY <3>4 DEF ListenInv, AtInv, SetUp, Undo
      <4> QED
        BY <1>1, <2>2, <3>1, <3>4, <4>1 DEF Undo
    <3> QED
      BY <3>1, <3>2, <3>3, <3>4
  <2>6. CASE UnlinkIn(p) \/ UnlinkOut(p) \/ MkfifoIn(p) \/ MkfifoOut(p)
    <3>1. at'[p] = Following[at[p]] /\ at[p] \in {"unlinkIn", "unlinkOut", "mkfifoIn", "mkfifoOut", "undoIn", "undoOut", "undoFirst"}
      <4>1. CASE UnlinkIn(p) \/ UnlinkOut(p)
        BY <4>1 DEF UnlinkIn, UnlinkOut, Call
      <4>2. CASE MkfifoIn(p)
        BY <1>2, <4>2 DEF MkfifoIn, Call, Fails
      <4>3. CASE MkfifoOut(p)
        BY <1>2, <4>3 DEF MkfifoOut, Call, Fails
      <4> QED
        BY <2>6, <4>1, <4>2, <4>3
    <3>2. at[p] \notin {"undoIn", "undoOut", "undoFirst"}
      BY <2>2 DEF Undo
    <3> QED
      BY <1>1, <2>2, <2>3, <2>4, <3>1, <3>2 DEF SetUp
  <2>7. CASE OpenListener(p)
    <3>1. inName # 0 /\ ors_read_fd' = inName /\ inName' = inName /\ at'[p] = "none"
      BY <1>2, <2>7 DEF OpenListener, Call, Fails
    <3> QED
      BY <1>1, <2>2, <3>1 DEF Undo
  <2> QED
    BY <1>4, <2>5, <2>6, <2>7 DEF FifoCall
<1> QED
  BY <1>3, <1>4

\* A step that makes no call, and of a thread that is at none.
LEMMA ListenKept ==
    ASSUME ListenInv, UNCHANGED <<at, inName, ors_read_fd, stale, page, failures, collided>>,
           \A p \in All : at[p] # "none" => pc'[p] = pc[p],
           pc[gui] = "startPage" => pc'[gui] = pc[gui]
    PROVE  ListenInv'
<1> USE Names DEF All
<1>1. AtInv'
  BY DEF ListenInv, AtInv
<1>2. Ahead' = Ahead
  BY DEF Ahead
<1> QED
  BY <1>1, <1>2 DEF ListenInv

\* Every step keeps the listener on the name, or somebody on the way to it.
LEMMA ListenStep ==
    ASSUME CliType, ListenInv, OnceInv, Next
    PROVE  ListenInv'
<1> USE Names DEF CliType, PcType, Goto, listener, names, flags, history, All
<1>1. ASSUME NEW p \in All, CommandDone(p) PROVE ListenInv'
  <2>1. at[p] = "none" /\ pc'[p] = "back" /\ at'[p] = "restart"
        /\ \A q \in All : q # p => pc'[q] = pc[q] /\ at'[q] = at[q]
    BY <1>1 DEF CommandDone, Call, ListenInv, AtInv
  <2>2. UNCHANGED <<inName, ors_read_fd, stale, page, failures, collided>> /\ pc[p] # "startPage"
    BY <1>1 DEF CommandDone
  <2>3. Ahead <=> Ahead'
    BY <2>1 DEF Ahead, SetUp
  <2>4. AtInv'
    BY <2>1, <2>2 DEF ListenInv, AtInv
  <2> QED
    BY <2>1, <2>2, <2>3, <2>4 DEF ListenInv, Undo
<1>2. CASE FifoCalls
  BY <1>2, ListenCall DEF FifoCalls
<1>3. ASSUME NEW u \in UserActions, StartAction(u) PROVE ListenInv'
  <2>1. at[u] = "none" /\ \A q \in All : q # u => pc'[q] = pc[q]
    BY <1>3 DEF StartAction, threadActions, ListenInv, AtInv
  <2> QED
    BY <1>3, <2>1, ListenKept DEF StartAction
<1>4. ASSUME NEW w \in Works, operation_start(w) \/ operation_end(w) \/ ThreadExit(w) \/ Run_CLI_Command(w)
      PROVE  ListenInv'
  <2>1. at[w] = "none" /\ \A q \in All : q # w => pc'[q] = pc[q]
    BY <1>4 DEF operation_start, operation_end, ThreadExit, Run_CLI_Command, Ready, ListenInv, AtInv
  <2> QED
    BY <1>4, <2>1, ListenKept DEF operation_start, operation_end, ThreadExit, Run_CLI_Command
<1>5. CASE gui_startPage
  <2>1. /\ at[gui] = "none" /\ pc'[gui] = "runPages" /\ \A w \in Works : pc'[w] = pc[w] /\ at'[w] = at[w]
        /\ UNCHANGED <<inName, ors_read_fd, stale, page, failures>>
    BY <1>5 DEF gui_startPage, Ready, Call
  <2>2. CASE at'[gui] = "reset" /\ (collided' \/ ~collided \/ \A w \in Works : at[w] = "none")
    <3>1. Ahead'
      BY <2>2 DEF Ahead, SetUp
    <3>2. AtInv'
      BY <2>1, <2>2 DEF ListenInv, AtInv
    <3> QED
      BY <2>1, <2>2, <3>1, <3>2 DEF ListenInv, Undo
  <2>3. CASE ~Pages[page] /\ at'[gui] = "endClose" /\ UNCHANGED collided
    <3>1. Ahead <=> Ahead'
      BY <2>1, <2>3 DEF Ahead, SetUp
    <3>2. AtInv'
      BY <2>1, <2>3 DEF ListenInv, AtInv
    <3> QED
      BY <2>1, <2>3, <3>1, <3>2 DEF ListenInv, Undo
  <2>4. CASE (Pages[page] => ors_read_fd # 0 \/ stale) /\ UNCHANGED <<at, collided>>
    <3>1. Ahead <=> Ahead'
      BY <2>4 DEF Ahead
    <3>2. AtInv'
      BY <2>1, <2>4 DEF ListenInv, AtInv
    <3>3. stale /\ failures = 0 /\ ~collided => Ahead
      <4>1. stale => \E p \in All : at[p] \in {"reset", "endReset", "failReset"}
        BY DEF ListenInv, AtInv
      <4>2. stale => \E w \in Works : at[w] \in {"reset", "failReset"}
        BY <2>1, <4>1 DEF ListenInv, AtInv, SetUp, Undo
      <4> QED
        BY <4>2 DEF ListenInv, Ahead, SetUp, Undo
    <3> QED
      BY <2>1, <2>4, <3>1, <3>2, <3>3 DEF ListenInv
  <2>5. \/ at'[gui] = "reset" /\ (collided' \/ ~collided \/ \A w \in Works : at[w] = "none")
        \/ ~Pages[page] /\ at'[gui] = "endClose" /\ UNCHANGED collided
        \/ (Pages[page] => ors_read_fd # 0 \/ stale) /\ UNCHANGED <<at, collided>>
    <3>1. CASE Call(gui, "reset") /\ SetUpBegins(gui)
      BY <3>1 DEF Call, SetUpBegins
    <3>2. CASE ~Pages[page] /\ Call(gui, "endClose") /\ UNCHANGED collided
      BY <3>2 DEF Call
    <3>3. CASE Pages[page] # (ors_read_fd = 0 /\ ~stale) /\ UNCHANGED <<at, collided>>
      BY <3>3
    <3> QED
      BY <1>5, <3>1, <3>2, <3>3 DEF gui_startPage
  <2> QED
    BY <2>2, <2>3, <2>4, <2>5
<1>6. CASE RunPages \/ PageDone \/ GuiBack \/ ReadCommand
  <2>1. UNCHANGED <<at, inName, ors_read_fd, stale, page, failures, collided>>
    BY <1>6 DEF RunPages, PageDone, GuiBack, ReadCommand
  <2>2. \A w \in Works : pc'[w] = pc[w]
    BY <1>6 DEF RunPages, PageDone, GuiBack, ReadCommand
  <2>3. pc'[gui] = pc[gui] \/ (at[gui] = "none" /\ pc[gui] # "startPage")
    <3>1. CASE PageDone
      BY <3>1 DEF PageDone
    <3>2. CASE RunPages \/ GuiBack \/ ReadCommand
      BY <3>2 DEF RunPages, GuiBack, ReadCommand, Ready
    <3> QED
      BY <1>6, <3>1, <3>2
  <2> QED
    BY <2>1, <2>2, <2>3, ListenKept
<1>7. CASE EndPage
  <2>1. /\ at[gui] = "none" /\ at'[gui] = "endClose" /\ pc'[gui] = "startPage"
        /\ \A w \in Works : pc'[w] = pc[w] /\ at'[w] = at[w]
        /\ UNCHANGED <<inName, ors_read_fd, stale, failures, collided>>
    BY <1>7 DEF EndPage, Ready, Call
  <2>2. Ahead <=> Ahead'
    BY <2>1 DEF Ahead, SetUp
  <2>3. AtInv'
    BY <2>1 DEF ListenInv, AtInv
  <2> QED
    BY <2>1, <2>2, <2>3 DEF ListenInv, Undo
<1>8. CASE Fopen \/ RejectBusy \/ RunBuiltin
  <2>1. UNCHANGED <<at, inName, ors_read_fd, stale, page, failures, collided>>
        /\ pc[gui] \in {"fopen", "opening"} /\ \A w \in Works : pc'[w] = pc[w]
    BY <1>8 DEF Fopen, RejectBusy, RunBuiltin, Opened
  <2>2. at[gui] = "none"
    BY <2>1 DEF ListenInv, AtInv
  <2> QED
    BY <2>1, <2>2, ListenKept
<1>9. CASE FopenFails
  <2>1. /\ pc[gui] = "fopen" /\ pc'[gui] = "loop" /\ at'[gui] = "failClose" /\ failures' > 0
        /\ \A w \in Works : pc'[w] = pc[w] /\ at'[w] = at[w]
        /\ UNCHANGED <<stale, page>>
    BY <1>9 DEF FopenFails, Call, Fails, CountType
  <2>2. at[gui] = "none"
    BY <2>1 DEF ListenInv, AtInv
  <2>3. AtInv'
    BY <2>1, <2>2 DEF ListenInv, AtInv
  <2> QED
    BY <2>1, <2>3 DEF ListenInv
<1>10. CASE StartCommand
  <2>1. cmd \in Clients /\ pc[cmd] = "none" /\ cmd # gui /\ pc[gui] = "opening"
    BY <1>10 DEF StartCommand, Opened, CmdInv, OnceInv, Place
  <2>2. pc'[gui] = "loop" /\ pc'[cmd] \in {"refused", "created"}
        /\ \A w \in Works : w # cmd => pc'[w] = pc[w]
    BY <1>10, <2>1 DEF StartCommand, threadActions
  <2>3. UNCHANGED <<at, inName, ors_read_fd, stale, page, failures, collided>>
    BY <1>10 DEF StartCommand
  <2>4. at[gui] = "none" /\ at[cmd] = "none"
    BY <2>1 DEF ListenInv, AtInv
  <2> QED
    BY <2>1, <2>2, <2>3, <2>4, ListenKept
<1>11. CASE Tools
  <2>1. UNCHANGED <<pc, at, inName, ors_read_fd, stale, page, failures, collided>>
    BY <1>11 DEF Tools, OpenIn, Write, OpenOut, ReadAll
  <2> QED
    BY <2>1, ListenKept
<1> QED
  BY <1>1, <1>2, <1>3, <1>4, <1>5, <1>6, <1>7, <1>8, <1>9, <1>10, <1>11, Steps DEF Threads, Gui

-----------------------------------------------------------------------------
(* A command is in one place *)

\* A new FIFO is empty.
LEMMA NewFifo ==
    ASSUME NEW q \in Seq(Seq(Clients)), OnceIn(q)
    PROVE  OnceIn(Append(q, <<>>)) /\ \A c \in Clients : In(Append(q, <<>>), c) <=> In(q, c)
<1> DEFINE r == Append(q, <<>>)
<1>1. /\ DOMAIN r = 1 .. Len(q) + 1 /\ DOMAIN q = 1 .. Len(q) /\ Len(q) \in Nat
      /\ \A g \in 1 .. Len(q) : r[g] = q[g]
      /\ r[Len(q) + 1] = <<>>
  OBVIOUS
<1>2. \A g \in DOMAIN r : DOMAIN r[g] # {} => g \in DOMAIN q /\ r[g] = q[g]
  BY <1>1
<1>3. DOMAIN q \subseteq DOMAIN r
  BY <1>1
<1> HIDE DEF r
<1>4. OnceIn(r)
  BY <1>2 DEF OnceIn
<1>5. \A c \in Clients : In(r, c) <=> In(q, c)
  BY <1>1, <1>2, <1>3 DEF In
<1> QED
  BY <1>4, <1>5 DEF r

Sent(q, g, c) == [q EXCEPT ![g] = Append(q[g], c)]
Taken(q, g) == [q EXCEPT ![g] = Tail(q[g])]

\* A command that is sent is the last of one FIFO.
LEMMA SendCommand ==
    ASSUME NEW q \in Seq(Seq(Clients)), OnceIn(q), NEW c \in Clients, ~In(q, c), NEW g \in 1 .. Len(q)
    PROVE  OnceIn(Sent(q, g, c)) /\ \A d \in Clients : In(Sent(q, g, c), d) <=> In(q, d) \/ d = c
<1> SUFFICES ASSUME NEW r, r = [q EXCEPT ![g] = Append(q[g], c)]
             PROVE  OnceIn(r) /\ \A d \in Clients : In(r, d) <=> In(q, d) \/ d = c
  BY DEF Sent
<1>1. q[g] \in Seq(Clients) /\ DOMAIN r = DOMAIN q /\ g \in DOMAIN q
  OBVIOUS
<1>2. \A h \in DOMAIN q : h # g => r[h] = q[h]
  OBVIOUS
<1>3. /\ r[g] = Append(q[g], c) /\ Len(q[g]) \in Nat
      /\ DOMAIN r[g] = 1 .. Len(q[g]) + 1 /\ DOMAIN q[g] = 1 .. Len(q[g])
      /\ \A i \in DOMAIN q[g] : r[g][i] = q[g][i]
      /\ r[g][Len(q[g]) + 1] = c
  BY <1>1
<1>4. \A h \in DOMAIN q : \A i \in DOMAIN r[h] :
        \/ i \in DOMAIN q[h] /\ r[h][i] = q[h][i]
        \/ h = g /\ i = Len(q[g]) + 1 /\ r[h][i] = c
  BY <1>2, <1>3
<1>5. \A h \in DOMAIN q : \A i \in DOMAIN q[h] : i \in DOMAIN r[h] /\ r[h][i] = q[h][i] /\ q[h][i] # c
  BY <1>2, <1>3 DEF In
<1>6. OnceIn(r)
  BY <1>1, <1>4, <1>5 DEF OnceIn
<1>7. ASSUME NEW d \in Clients PROVE In(r, d) <=> In(q, d) \/ d = c
  BY <1>1, <1>3, <1>4, <1>5 DEF In
<1> QED
  BY <1>6, <1>7

\* The command that is read was the first of its FIFO, and is in none then.
LEMMA TakeCommand ==
    ASSUME NEW q \in Seq(Seq(Clients)), OnceIn(q), NEW g \in 1 .. Len(q), q[g] # <<>>
    PROVE  /\ In(q, Head(q[g])) /\ OnceIn(Taken(q, g))
           /\ \A d \in Clients : In(Taken(q, g), d) <=> In(q, d) /\ d # Head(q[g])
<1> SUFFICES ASSUME NEW r, r = [q EXCEPT ![g] = Tail(q[g])]
             PROVE  /\ In(q, Head(q[g]))
                    /\ OnceIn(r) /\ \A d \in Clients : In(r, d) <=> In(q, d) /\ d # Head(q[g])
  BY DEF Taken
<1>1. q[g] \in Seq(Clients) /\ DOMAIN r = DOMAIN q /\ g \in DOMAIN q
  OBVIOUS
<1>2. \A h \in DOMAIN q : h # g => r[h] = q[h]
  OBVIOUS
<1>3. /\ r[g] = Tail(q[g]) /\ Len(q[g]) \in Nat \ {0}
      /\ DOMAIN q[g] = 1 .. Len(q[g]) /\ Head(q[g]) = q[g][1]
      /\ DOMAIN r[g] = 1 .. Len(q[g]) - 1
      /\ \A i \in DOMAIN r[g] : r[g][i] = q[g][i + 1]
  BY <1>1
<1>4. \A h \in DOMAIN q : \A i \in DOMAIN r[h] :
        \/ h # g /\ i \in DOMAIN q[h] /\ r[h][i] = q[h][i]
        \/ h = g /\ i + 1 \in DOMAIN q[h] /\ i \in Nat \ {0} /\ r[h][i] = q[h][i + 1]
  BY <1>2, <1>3
<1>5. OnceIn(r)
  <2> SUFFICES ASSUME NEW h \in DOMAIN r, NEW k \in DOMAIN r, NEW i \in DOMAIN r[h], NEW j \in DOMAIN r[k],
                      r[h][i] = r[k][j]
               PROVE  h = k /\ i = j
    BY DEF OnceIn
  <2>1. PICK a \in DOMAIN q[h] : q[h][a] = r[h][i] /\ a = (IF h = g THEN i + 1 ELSE i)
    BY <1>1, <1>4
  <2>2. PICK b \in DOMAIN q[k] : q[k][b] = r[k][j] /\ b = (IF k = g THEN j + 1 ELSE j)
    BY <1>1, <1>4
  <2>3. h = k /\ a = b
    BY <1>1, <2>1, <2>2 DEF OnceIn
  <2>4. h = g => i \in Nat /\ j \in Nat
    BY <1>1, <1>4, <2>3
  <2> QED
    BY <2>1, <2>2, <2>3, <2>4
<1>8. 1 \in DOMAIN q[g]
  BY <1>3
<1>6. ASSUME NEW d \in Clients, In(r, d) PROVE In(q, d) /\ d # Head(q[g])
  <2>1. PICK h \in DOMAIN q : \E i \in DOMAIN r[h] : r[h][i] = d
    BY <1>1, <1>6 DEF In
  <2>2. PICK i \in DOMAIN r[h] : r[h][i] = d
    BY <2>1
  <2>3. CASE h # g
    <3>1. i \in DOMAIN q[h] /\ q[h][i] = d
      BY <1>4, <2>2, <2>3
    <3>2. d # q[g][1]
      BY <1>1, <1>3, <2>3, <3>1 DEF OnceIn
    <3> QED
      BY <1>3, <3>1, <3>2 DEF In
  <2>4. CASE h = g
    <3>1. i + 1 \in DOMAIN q[g] /\ i \in Nat \ {0} /\ q[g][i + 1] = d
      BY <1>4, <2>2, <2>4
    <3>2. d # q[g][1]
      <4>1. i + 1 # 1
        BY <3>1
      <4> QED
        BY <1>1, <1>8, <3>1, <4>1 DEF OnceIn
    <3> QED
      BY <1>1, <1>3, <3>1, <3>2 DEF In
  <2> QED
    BY <2>3, <2>4
<1>7. ASSUME NEW d \in Clients, In(q, d), d # Head(q[g]) PROVE In(r, d)
  <2>1. PICK h \in DOMAIN q : \E i \in DOMAIN q[h] : q[h][i] = d
    BY <1>7 DEF In
  <2>2. PICK i \in DOMAIN q[h] : q[h][i] = d
    BY <2>1
  <2>3. CASE h # g
    BY <1>1, <1>2, <2>2, <2>3 DEF In
  <2>4. CASE h = g
    <3>1. i \in 1 .. Len(q[g]) /\ i # 1
      BY <1>3, <1>7, <2>2, <2>4
    <3>2. i - 1 \in DOMAIN r[g] /\ r[g][i - 1] = d
      <4>1. i - 1 \in DOMAIN r[g] /\ (i - 1) + 1 = i
        BY <1>3, <3>1
      <4> QED
        BY <1>3, <2>2, <2>4, <4>1
    <3> QED
      BY <1>1, <3>2 DEF In
  <2> QED
    BY <2>3, <2>4
<1>9. In(q, Head(q[g]))
  BY <1>1, <1>3, <1>8 DEF In
<1> QED
  BY <1>5, <1>6, <1>7, <1>9

\* A FIFO that nobody has open loses what it held.
LEMMA EmptyFifo ==
    ASSUME NEW q \in Seq(Seq(Clients)), OnceIn(q), NEW g \in 1 .. Len(q)
    PROVE  OnceIn([q EXCEPT ![g] = <<>>])
           /\ \A c \in Clients : In([q EXCEPT ![g] = <<>>], c) => In(q, c)
<1> DEFINE r == [q EXCEPT ![g] = <<>>]
<1>1. DOMAIN r = DOMAIN q /\ \A h \in DOMAIN q : DOMAIN r[h] # {} => r[h] = q[h]
  OBVIOUS
<1> HIDE DEF r
<1>2. OnceIn(r)
  BY <1>1 DEF OnceIn
<1>3. \A c \in Clients : In(r, c) => In(q, c)
  BY <1>1 DEF In
<1> QED
  BY <1>2, <1>3 DEF r

\* A tool that opens orsout waits for a writer, has one, finds a regular file,
\* or finds no name.
LEMMA ToolOpens ==
    ASSUME ClientType, NEW c \in Clients, OpenOut(c)
    PROVE  /\ client[c].pc = "written" /\ client'[c].out = outName
           /\ client'[c].pc = Found
           /\ client'[c].pc \in {"failed", "reading", "outwait"}
           /\ \A d \in Clients : d # c => client'[d] = client[d]
<1>1. ASSUME NEW s \in ClientStates, NEW p, NEW g
      PROVE  [s EXCEPT !.pc = p, !.out = g].pc = p /\ [s EXCEPT !.pc = p, !.out = g].out = g
  BY <1>1 DEF ClientStates
<1>2. Found \in {"failed", "reading", "outwait"}
  BY DEF Found
<1>3. client' = [client EXCEPT ![c] = [client[c] EXCEPT !.pc = Found, !.out = outName]]
  BY DEF OpenOut, SetClient, Found
<1>4. client'[c] = [client[c] EXCEPT !.pc = Found, !.out = outName]
  BY <1>3 DEF ClientType
<1>5. client'[c].pc = Found /\ client'[c].out = outName
  BY <1>1, <1>4 DEF ClientType
<1>6. \A d \in Clients : d # c => client'[d] = client[d]
  BY <1>3 DEF ClientType
<1>7. client[c].pc = "written"
  BY DEF OpenOut
<1> QED
  BY <1>2, <1>5, <1>6, <1>7

\* What the calls do to the queues and the tools.
LEMMA CallQueue ==
    ASSUME CliType, OnceIn(queue), NEW p \in All, RestartListener(p) \/ FifoCall(p)
    PROVE  /\ OnceIn(queue') /\ \A c \in Clients : Queued(c)' => Queued(c)
           /\ \A c \in Clients : client'[c] = client[c]
                \/ (client[c].pc = "blocked" /\ client'[c].pc = "opened" /\ client'[c].out = client[c].out)
<1> USE DEF CliType, FifoType, listener, names
<1>1. CASE RestartListener(p) \/ CloseListener(p) \/ ResetListener(p) \/ UnlinkIn(p) \/ UnlinkOut(p)
  BY <1>1 DEF RestartListener, CloseListener, ResetListener, UnlinkIn, UnlinkOut, Queued
<1>2. CASE MkfifoIn(p) \/ MkfifoOut(p)
  <2>1. UNCHANGED client /\ queue' \in {queue, Append(queue, <<>>)}
    BY <1>2 DEF MkfifoIn, MkfifoOut
  <2> QED
    BY <2>1, NewFifo DEF Queued
<1>3. CASE OpenListener(p)
  <2>1. queue' = queue \/ (inName \in 1 .. Len(queue) /\ queue' = [queue EXCEPT ![inName] = <<>>])
    BY <1>3, NewType DEF OpenListener
  <2>2. OnceIn(queue') /\ \A c \in Clients : Queued(c)' => Queued(c)
    BY <2>1, EmptyFifo DEF Queued
  <2>3. \A c \in Clients : [client[c] EXCEPT !.pc = "opened"].pc = "opened"
                           /\ [client[c] EXCEPT !.pc = "opened"].out = client[c].out
    BY DEF ClientType, ClientStates, ClientPcs
  <2>4. \/ UNCHANGED client
        \/ client' = [c \in Clients |-> IF client[c].pc = "blocked" /\ client[c].in = inName
                                        THEN [client[c] EXCEPT !.pc = "opened"] ELSE client[c]]
    BY <1>3 DEF OpenListener
  <2> QED
    BY <2>2, <2>3, <2>4
<1> QED
  BY <1>1, <1>2, <1>3 DEF FifoCall

\* A FIFO that has a reader exists.
LEMMA ReaderIn ==
    ASSUME FifoType, NEW g, HasReader(g)
    PROVE  g \in 1 .. Len(queue)
<1>1. (g = ors_read_fd /\ ors_read_fd # 0) \/ g \in leaked
  BY DEF HasReader
<1>2. ors_read_fd # 0 => ors_read_fd \in 1 .. Len(queue)
  BY NewType DEF FifoType
<1> QED
  BY <1>1, <1>2 DEF FifoType

\* A step that sends nothing, reads nothing and counts nothing.
LEMMA PlaceKept ==
    ASSUME NEW c \in Clients, Place(c), UNCHANGED <<queue, cmd, executed, rejected>>,
           Unsent(c)' => Unsent(c),
           pc'[c] # pc[c] => pc[c] # "none" /\ (pc'[c] \in {"created", "busy"} => pc[c] \in {"created", "busy"})
                                          /\ pc'[c] # "ran"
    PROVE  Place(c)'
  BY DEF Place, Queued

\* Every step moves a command from one place to the next, and never back.
LEMMA OnceStep ==
    ASSUME CliType, OneInv, AnswerInv, OnceInv, Next
    PROVE  OnceInv'
<1> USE Names DEF CliType, PcType, Goto, listener, names, history, All
<1>1. ASSUME NEW p \in All,
             CommandDone(p) \/ (p \in Works /\ operation_start(p))
             \/ (p \in Works /\ operation_end(p)) \/ (p \in Works /\ ThreadExit(p))
      PROVE  OnceInv'
  <2>1. UNCHANGED <<queue, cmd, executed, rejected>>
    BY <1>1 DEF CommandDone, operation_start, operation_end, ThreadExit
  <2>2. \A c \in Clients : Unsent(c)' => Unsent(c)
    BY <1>1 DEF CommandDone, operation_start, operation_end, ThreadExit, Unsent, ClientType
  <2>3. PICK label \in {"back", "busy", "busyAgain", "between", "ended", "gone"} : Goto(p, label)
    BY <1>1 DEF CommandDone, operation_start, operation_end, ThreadExit
  <2>4. pc[p] # "none" /\ (label = "busy" => pc[p] = "created")
    BY <1>1, <2>3 DEF CommandDone, operation_start, operation_end, ThreadExit, Ready
  <2>5. pc'[gui] = "ran" => pc[gui] = "ran" /\ p # gui
    BY <2>3
  <2>6. p # gui /\ CommandDone(p) => pc[gui] # "ran"
    <3>1. p # gui /\ CommandDone(p) => p \in Clients /\ Started(p)
      BY DEF CommandDone, Works, Started, AnswerInv
    <3> QED
      BY <3>1 DEF AnswerInv
  <2>7. pc'[gui] = "ran" => UNCHANGED orsout
    BY <1>1, <2>5, <2>6 DEF operation_start, operation_end, ThreadExit
  <2>8. \A c \in Clients : Place(c)'
    BY <2>1, <2>2, <2>3, <2>4, PlaceKept DEF OnceInv
  <2> QED
    BY <2>1, <2>5, <2>7, <2>8 DEF OnceInv
<1>2. ASSUME NEW p \in All, RestartListener(p) \/ FifoCall(p) PROVE OnceInv'
  <2>1. UNCHANGED <<pc, cmd, executed, rejected, orsout>>
    BY <1>2, CallKeeps
  <2>2. OnceIn(queue') /\ (\A c \in Clients : Queued(c)' => Queued(c)) /\ \A c \in Clients : Unsent(c)' => Unsent(c)
    BY <1>2, CallQueue DEF OnceInv, Unsent
  <2>3. \A c \in Clients : Place(c)'
    BY <2>1, <2>2 DEF OnceInv, Place
  <2> QED
    BY <2>1, <2>2, <2>3 DEF OnceInv
<1>3. ASSUME NEW u \in UserActions, StartAction(u) PROVE OnceInv'
  <2>1. UNCHANGED <<queue, cmd, executed, rejected, client, orsout>>
    BY <1>3 DEF StartAction
  <2>2. pc'[gui] = pc[gui] /\ \A c \in Clients : pc'[c] = pc[c]
    BY <1>3 DEF StartAction, threadActions
  <2>3. \A c \in Clients : Place(c)'
    BY <2>1, <2>2, PlaceKept DEF OnceInv, Unsent
  <2> QED
    BY <2>1, <2>2, <2>3 DEF OnceInv
<1>4. ASSUME NEW w \in Works, Run_CLI_Command(w) PROVE OnceInv'
  <2>1. w \in Clients /\ pc[w] = "busy" /\ UNCHANGED <<queue, cmd, rejected, client, orsout>>
    BY <1>4 DEF Run_CLI_Command
  <2>2. pc'[w] = "ran" /\ executed'[w] = 1 /\ pc'[gui] = pc[gui]
        /\ \A c \in Clients : c # w => pc'[c] = pc[c] /\ executed'[c] = executed[c]
    BY <1>4, <2>1 DEF Run_CLI_Command, CountType, OnceInv, Place
  <2>3. pc[gui] # "ran"
    BY <2>1 DEF AnswerInv, Started
  <2>4. \A c \in Clients : Place(c)'
    BY <2>1, <2>2 DEF OnceInv, Place, Unsent, Queued
  <2> QED
    BY <2>1, <2>2, <2>3, <2>4 DEF OnceInv
<1>5. CASE gui_startPage \/ RunPages \/ PageDone \/ EndPage \/ GuiBack
  <2>1. UNCHANGED <<queue, cmd, executed, rejected, client>> /\ \A c \in Clients : pc'[c] = pc[c]
    BY <1>5 DEF gui_startPage, RunPages, PageDone, EndPage, GuiBack
  <2>2. pc'[gui] = "ran" => pc[gui] = "ran" /\ UNCHANGED orsout
    BY <1>5 DEF gui_startPage, RunPages, PageDone, EndPage, GuiBack
  <2>3. \A c \in Clients : Place(c)'
    BY <2>1, PlaceKept DEF OnceInv, Unsent
  <2> QED
    BY <2>1, <2>2, <2>3 DEF OnceInv
<1>14. CASE Fopen
  <2>1. UNCHANGED <<cmd, executed, rejected, client>> /\ pc'[gui] # "ran" /\ \A c \in Clients : pc'[c] = pc[c]
    BY <1>14 DEF Fopen
  <2>2. queue' \in {queue, Append(queue, <<>>)}
    BY <1>14 DEF Fopen
  <2>3. OnceIn(queue') /\ \A c \in Clients : Queued(c)' => Queued(c)
    BY <2>2, NewFifo DEF FifoType, OnceInv, Queued
  <2>4. \A c \in Clients : Place(c)'
    BY <2>1, <2>3 DEF OnceInv, Place, Unsent
  <2> QED
    BY <2>1, <2>3, <2>4 DEF OnceInv
<1>6. CASE ReadCommand
  <2>1. ors_read_fd \in 1 .. Len(queue) /\ queue[ors_read_fd] # <<>>
    BY <1>6 DEF ReadCommand, ListenerReady, FifoType
  <2>2. cmd' = Head(queue[ors_read_fd]) /\ queue' = Taken(queue, ors_read_fd)
        /\ UNCHANGED <<client, executed, rejected, orsout>>
    BY <1>6 DEF ReadCommand, Taken
  <2>3. OnceIn(queue') /\ Queued(cmd') /\ \A c \in Clients : Queued(c)' <=> Queued(c) /\ c # cmd'
    <3>1. queue \in Seq(Seq(Clients)) /\ OnceIn(queue)
      BY DEF FifoType, OnceInv
    <3>2. /\ OnceIn(queue') /\ In(queue, cmd')
          /\ \A c \in Clients : In(queue', c) <=> In(queue, c) /\ c # cmd'
      BY <2>1, <2>2, <3>1, TakeCommand
    <3>3. cmd' \in Clients
      BY <2>1, <2>2, <3>1
    <3> QED
      BY <3>2 DEF Queued
  <2>4. pc'[gui] # "ran" /\ \A c \in Clients : pc'[c] = pc[c]
    BY <1>6 DEF ReadCommand
  <2>5. \A c \in Clients : Place(c)'
    BY <2>2, <2>3, <2>4 DEF OnceInv, Place, Unsent
  <2> QED
    BY <2>3, <2>4, <2>5 DEF OnceInv
<1>7. CASE FopenFails
  <2>1. UNCHANGED <<queue, executed, rejected, client>> /\ cmd' = NoCmd /\ pc'[gui] # "ran"
        /\ \A c \in Clients : pc'[c] = pc[c]
    BY <1>7 DEF FopenFails
  <2>2. \A c \in Clients : Place(c)'
    BY <2>1 DEF OnceInv, Place, Unsent, Queued
  <2> QED
    BY <2>1, <2>2 DEF OnceInv
<1>8. ASSUME RejectBusy \/ RunBuiltin \/ StartCommand
      PROVE  cmd \in Clients /\ UNCHANGED queue /\ cmd' = NoCmd
             /\ \A c \in Clients : Unsent(c)' => Unsent(c)
  <2>1. cmd \in Clients /\ UNCHANGED queue /\ cmd' = NoCmd /\ Connect(orsout.gen)
    BY <1>8 DEF RejectBusy, RunBuiltin, StartCommand, Opened, CmdInv
  <2>2. \A c \in Clients : client'[c] = IF c \in Readers(orsout.gen) THEN [client[c] EXCEPT !.pc = "reading"] ELSE client[c]
    BY <2>1 DEF Connect
  <2>3. \A c \in Clients : [client[c] EXCEPT !.pc = "reading"].pc = "reading"
    BY DEF ClientType, ClientStates
  <2> QED
    BY <2>1, <2>2, <2>3 DEF Unsent
<1>9. CASE RejectBusy
  <2>1. rejected' = rejected \cup {cmd} /\ UNCHANGED executed /\ pc'[gui] # "ran"
        /\ \A c \in Clients : pc'[c] = pc[c]
    BY <1>9 DEF RejectBusy
  <2>2. \A c \in Clients : Place(c)'
    BY <1>8, <1>9, <2>1 DEF OnceInv, Place, Queued
  <2> QED
    BY <1>8, <1>9, <2>1, <2>2 DEF OnceInv
<1>10. CASE RunBuiltin
  <2>1. /\ UNCHANGED rejected /\ executed'[cmd] = 1
        /\ \A c \in Clients : pc'[c] = pc[c]
        /\ \A c \in Clients : c # cmd => executed'[c] = executed[c]
    BY <1>8, <1>10 DEF RunBuiltin, CountType, OnceInv, Place
  <2>2. orsout'.of = cmd
    BY <1>10 DEF RunBuiltin, Opened, AnswerInv, OutType
  <2>3. \A c \in Clients : Place(c)'
    BY <1>8, <1>10, <2>1 DEF OnceInv, Place, Queued
  <2> QED
    BY <1>8, <1>10, <2>1, <2>2, <2>3 DEF OnceInv
<1>11. CASE StartCommand
  <2>1. UNCHANGED <<rejected, executed>>
    BY <1>11 DEF StartCommand
  <2>2. pc'[gui] = "loop" /\ pc'[cmd] \in {"refused", "created"} /\ \A c \in Clients : c # cmd => pc'[c] = pc[c]
    BY <1>8, <1>11 DEF StartCommand, threadActions
  <2>3. \A c \in Clients : Place(c)'
    BY <1>8, <1>11, <2>1, <2>2 DEF OnceInv, Place, Queued
  <2> QED
    BY <1>8, <1>11, <2>1, <2>2, <2>3 DEF OnceInv
<1>12. ASSUME NEW c \in Clients, Write(c), HasReader(client[c].in) PROVE OnceInv'
  <2>1. client[c].in \in 1 .. Len(queue)
    BY <1>12, ReaderIn
  <2>2. queue' = Sent(queue, client[c].in, c)
        /\ UNCHANGED <<cmd, pc, executed, rejected, orsout>>
    BY <1>12 DEF Write, Sent
  <2>3. Unsent(c) /\ ~Unsent(c)' /\ \A d \in Clients : d # c => client'[d] = client[d]
    BY <1>12 DEF Write, SetClient, Unsent, ClientType, ClientStates
  <2>4. OnceIn(queue') /\ \A d \in Clients : Queued(d)' <=> Queued(d) \/ d = c
    <3>1. queue \in Seq(Seq(Clients)) /\ OnceIn(queue) /\ ~In(queue, c)
      BY <2>3 DEF FifoType, OnceInv, Place, Queued
    <3>2. OnceIn(queue') /\ \A d \in Clients : In(queue', d) <=> In(queue, d) \/ d = c
      BY <2>1, <2>2, <3>1, SendCommand
    <3> QED
      BY <3>2 DEF Queued
  <2>5. \A d \in Clients : Place(d)'
    BY <2>2, <2>3, <2>4 DEF OnceInv, Place, Unsent
  <2> QED
    BY <2>2, <2>4, <2>5 DEF OnceInv
<1>13. ASSUME NEW c \in Clients,
              OpenIn(c) \/ OpenOut(c) \/ ReadAll(c) \/ (Write(c) /\ ~HasReader(client[c].in))
       PROVE  OnceInv'
  <2>1. UNCHANGED <<cmd, pc, executed, rejected, orsout>>
    BY <1>13 DEF OpenIn, OpenOut, ReadAll, Write
  <2>2. queue' = queue
    BY <1>13 DEF OpenIn, OpenOut, ReadAll, Write
  <2>3. \A d \in Clients : Unsent(d)' => Unsent(d)
    <3>1. \A d \in Clients : d # c => client'[d] = client[d]
      BY <1>13 DEF OpenIn, OpenOut, ReadAll, Write, SetClient, ClientType
    <3>2. CASE OpenOut(c)
      BY <3>2, ToolOpens DEF Unsent, CliType
    <3>4. CASE ~OpenOut(c)
      BY <1>13, <3>1, <3>4 DEF OpenIn, ReadAll, Write, SetClient, Unsent, ClientType, ClientStates
    <3> QED
      BY <3>1, <3>2, <3>4 DEF Unsent
  <2>4. \A d \in Clients : Place(d)'
    BY <2>1, <2>2, <2>3, PlaceKept DEF OnceInv
  <2> QED
    BY <2>1, <2>2, <2>4 DEF OnceInv
<1> QED
  BY <1>1, <1>2, <1>3, <1>4, <1>5, <1>6, <1>7, <1>9, <1>10, <1>11, <1>12, <1>13, <1>14,
     Steps DEF FifoCalls, Threads, Gui, Tools

-----------------------------------------------------------------------------
(* A tool that runs alone *)

\* A tool that only moves on keeps its FIFOs.
LEMMA ClientPc ==
    ASSUME ClientType, NEW c \in Clients, NEW p \in ClientPcs
    PROVE  /\ [client[c] EXCEPT !.pc = p].pc = p
           /\ [client[c] EXCEPT !.pc = p].in = client[c].in
           /\ [client[c] EXCEPT !.pc = p].out = client[c].out
           /\ client[c].pc = p => [client[c] EXCEPT !.pc = p] = client[c]
  BY DEF ClientType, ClientStates

\* A regular file is none that a tool has opened before.
LEMMA PlainStep ==
    ASSUME CliType, PlainInv, Next
    PROVE  PlainInv' /\ \A c \in Clients : client[c].out \in plain' <=> client[c].out \in plain
<1> USE DEF CliType, listener, names
<1>1. \A c \in Clients : client[c].out \in plain' <=> client[c].out \in plain
  <2>1. CASE UNCHANGED plain
    BY <2>1
  <2>2. CASE Fopen
    <3>1. plain' \subseteq plain \cup {Len(queue) + 1} /\ plain \subseteq plain'
      BY <2>2 DEF Fopen
    <3>2. \A c \in Clients : client[c].out \in 0 .. Len(queue)
      BY DEF ClientType, ClientStates
    <3> QED
      BY <3>1, <3>2, FifoStep
  <2>3. UNCHANGED plain \/ Fopen
    BY Steps DEF FifoCalls, Threads, Gui, Tools, RestartListener, FifoCall, CloseListener, ResetListener, UnlinkIn,
       UnlinkOut, MkfifoIn, MkfifoOut, OpenListener, CommandDone, StartAction, operation_start,
       operation_end, ThreadExit, Run_CLI_Command, gui_startPage, RunPages, PageDone, EndPage, GuiBack, ReadCommand,
       FopenFails, RejectBusy, RunBuiltin, StartCommand, OpenIn, Write, OpenOut, ReadAll
  <2> QED
    BY <2>1, <2>2, <2>3
<1>2. ASSUME NEW c \in Clients, client'[c].pc = "outwait"
      PROVE  client'[c] = client[c] \/ client'[c].out \notin plain'
  <2>1. CASE UNCHANGED client
    BY <2>1
  <2>2. ASSUME NEW p \in All, RestartListener(p) \/ FifoCall(p) PROVE client'[c] = client[c]
    <3>1. \/ UNCHANGED client
          \/ client' = [d \in Clients |-> IF client[d].pc = "blocked" /\ client[d].in = inName
                                          THEN [client[d] EXCEPT !.pc = "opened"] ELSE client[d]]
      BY <2>2 DEF RestartListener, FifoCall, CloseListener, ResetListener, UnlinkIn, UnlinkOut, MkfifoIn, MkfifoOut,
         OpenListener
    <3> QED
      BY <1>2, <3>1, ClientPc DEF ClientPcs
  <2>3. CASE RejectBusy \/ RunBuiltin \/ StartCommand
    <3>1. Connect(orsout.gen)
      BY <2>3 DEF RejectBusy, RunBuiltin, StartCommand
    <3> QED
      BY <1>2, <3>1, ClientPc DEF Connect, ClientPcs
  <2>4. ASSUME NEW d \in Clients, OpenIn(d) \/ Write(d) \/ ReadAll(d) PROVE client'[c] = client[c]
    <3>1. PICK r : SetClient(d, r) /\ r.pc # "outwait"
      <4>1. CASE OpenIn(d)
        BY <4>1 DEF OpenIn
      <4>2. CASE Write(d) \/ ReadAll(d)
        BY <4>2, ClientPc DEF Write, ReadAll, ClientPcs
      <4> QED
        BY <2>4, <4>1, <4>2
    <3> QED
      BY <1>2, <3>1 DEF SetClient, ClientType
  <2>5. ASSUME NEW d \in Clients, OpenOut(d) PROVE client'[c] = client[c] \/ client'[c].out \notin plain'
    <3>1. UNCHANGED plain /\ client'[d].out = outName /\ client'[d].pc = Found
          /\ \A e \in Clients : e # d => client'[e] = client[e]
      BY <2>5, ToolOpens DEF OpenOut
    <3>2. Found = "outwait" => outName \notin plain
      BY DEF Found
    <3> QED
      BY <1>2, <3>1, <3>2
  <2> QED
    BY <2>1, <2>2, <2>3, <2>4, <2>5, Steps DEF FifoCalls, Threads, Gui, Tools, CommandDone, StartAction, operation_start,
       operation_end, ThreadExit, Run_CLI_Command, gui_startPage, RunPages, PageDone, EndPage, GuiBack, ReadCommand,
       Fopen, FopenFails
<1> QED
  BY <1>1, <1>2 DEF PlainInv

\* The reader that lets the GUI thread go on is the one that sent the command,
\* unless orsout is a regular file.
LEMMA ReaderIsSender ==
    ASSUME CliType, AnswerInv, OnceInv, AloneInv, alone, RejectBusy \/ RunBuiltin \/ StartCommand
    PROVE  /\ cmd \in Clients /\ \A d \in Clients : d # cmd => client'[d] = client[d] /\ ~Running(d)
           /\ client'[cmd].out = client[cmd].out
           /\ orsout.gen \notin plain =>
                /\ client[cmd].pc = "outwait" /\ client[cmd].out = orsout.gen
                /\ client'[cmd].pc = "reading"
           /\ orsout.gen \in plain => client'[cmd] = client[cmd]
           /\ \A d \in Clients : ~Queued(d)
<1>1. cmd \in Clients /\ Opened /\ Connect(orsout.gen)
  BY DEF CliType, PcType, CmdInv, RejectBusy, RunBuiltin, StartCommand, Opened
<1>2. Underway(cmd)
  BY DEF Underway
<1>3. \A d \in Clients : Running(d) \/ Underway(d) => d = cmd
  BY <1>1, <1>2 DEF AloneInv
<1>4. \A d \in Clients : d \in Readers(orsout.gen) => d = cmd
  BY <1>3 DEF Readers, Running
<1>5. \A d \in Clients : d # cmd => client'[d] = client[d]
  BY <1>1, <1>4 DEF Connect
<1>6. client'[cmd] = IF cmd \in Readers(orsout.gen) THEN [client[cmd] EXCEPT !.pc = "reading"] ELSE client[cmd]
  BY <1>1 DEF Connect
<1>7. client'[cmd].out = client[cmd].out
  BY <1>1, <1>6, ClientPc DEF CliType, ClientPcs
<1>8. ASSUME orsout.gen \notin plain
      PROVE  client[cmd].pc = "outwait" /\ client[cmd].out = orsout.gen /\ client'[cmd].pc = "reading"
  <2>1. cmd \in Readers(orsout.gen)
    BY <1>1, <1>4, <1>8 DEF Opened, Readers
  <2>2. client[cmd].pc = "outwait" /\ client[cmd].out = orsout.gen
    BY <1>1, <1>2, <1>8, <2>1 DEF Readers, AloneInv
  <2>3. client'[cmd].pc = "reading"
    BY <1>1, <1>6, <2>1, ClientPc DEF CliType, ClientPcs
  <2> QED
    BY <1>8, <2>2, <2>3
<1>9. ASSUME orsout.gen \in plain PROVE client'[cmd] = client[cmd]
  <2>1. cmd \in Readers(orsout.gen) => client[cmd].pc = "reading"
    BY <1>1, <1>9 DEF Readers, AloneInv, PlainInv
  <2>2. client[cmd].pc = "reading" => [client[cmd] EXCEPT !.pc = "reading"] = client[cmd]
    BY <1>1, ClientPc DEF CliType, ClientPcs
  <2> QED
    BY <1>6, <2>1, <2>2
<1>10. \A d \in Clients : ~Queued(d)
  BY <1>1, <1>3 DEF Underway, OnceInv, Place
<1> QED
  BY <1>1, <1>3, <1>5, <1>7, <1>8, <1>9, <1>10

seen == <<queue, plain, orsout, cmd, client, executed, rejected, alone>>

\* Every step keeps the answer with the tool that runs alone.
LEMMA AloneStep ==
    ASSUME CliType, OneInv, AnswerInv, OnceInv, AloneInv, Next
    PROVE  AloneInv'
<1> USE Names DEF Running, Handled, Underway
<1>17. PlainInv' /\ \A c \in Clients : client[c].out \in plain' <=> client[c].out \in plain
  BY PlainStep DEF AloneInv
<1>0. alone' => alone
  <2>1. FifoCalls => UNCHANGED alone
    BY CallKeeps DEF FifoCalls, CliType
  <2> QED
    BY <2>1, Steps DEF Threads, Gui, Tools, CommandDone, StartAction, operation_start,
       operation_end, ThreadExit, Run_CLI_Command, gui_startPage, RunPages, PageDone, EndPage, GuiBack, ReadCommand,
       Fopen, FopenFails, RejectBusy, RunBuiltin, StartCommand, OpenIn, Write, OpenOut, ReadAll, history
<1> SUFFICES ASSUME alone', alone PROVE AloneInv'
  BY <1>0, <1>17 DEF AloneInv
<1>1. CASE UNCHANGED seen
  BY <1>1, <1>17 DEF seen, AloneInv, Queued
<1>2. ASSUME NEW p \in All, CommandDone(p) PROVE AloneInv'
  <2>1. orsout' = Null /\ UNCHANGED <<plain, queue, cmd, client, executed, rejected>>
    BY <1>2 DEF CommandDone, listener, names, history
  <2>2. orsout.of \in Clients /\ executed[orsout.of] = 1
    <3>1. CASE p = gui
      BY <1>2, <3>1 DEF CommandDone, AnswerInv, OnceInv
    <3>2. CASE p # gui
      <4>1. p \in Clients /\ pc[p] = "ran"
        BY <1>2, <3>2 DEF CommandDone, Works, AnswerInv, All
      <4> QED
        BY <4>1 DEF AnswerInv, AnswerOfRunningCommand, OnceInv, Place
    <3> QED
      BY <3>1, <3>2
  <2>3. Handled(orsout.of)
    BY <2>2 DEF OnceInv, Place
  <2> QED
    BY <1>17, <2>1, <2>3 DEF AloneInv, Queued, Null
<1>3. ASSUME NEW p \in All, RestartListener(p) \/ FifoCall(p) PROVE AloneInv'
  <2>1. UNCHANGED <<orsout, cmd, executed, rejected>>
    BY <1>3, CallKeeps DEF CliType
  <2>2. /\ \A c \in Clients : Queued(c)' => Queued(c)
        /\ \A c \in Clients : client'[c] = client[c]
             \/ (client[c].pc = "blocked" /\ client'[c].pc = "opened" /\ client'[c].out = client[c].out)
    BY <1>3, CallQueue DEF OnceInv
  <2>3. \A c \in Clients : Underway(c) => client'[c] = client[c]
    BY <2>2 DEF OnceInv, Place, Unsent
  <2>4. \A c \in Clients : (client'[c].pc = client[c].pc \/ (client'[c].pc = "opened" /\ client[c].pc = "blocked"))
                           /\ client'[c].out = client[c].out
    BY <2>2
  <2>5. UNCHANGED plain
    BY <1>3 DEF RestartListener, FifoCall, CloseListener, ResetListener, UnlinkIn, UnlinkOut, MkfifoIn, MkfifoOut,
       OpenListener, listener, names
  <2>6. \A c \in Clients : Underway(c)' => Underway(c)
    BY <2>1, <2>2
  <2>7. \A c \in Clients : Running(c)' <=> Running(c)
    BY <2>4
  <2>8. \A c, d \in Clients : (Running(c)' \/ Underway(c)') /\ (Running(d)' \/ Underway(d)') => c = d
    BY <2>6, <2>7 DEF AloneInv
  <2>9. \A c \in Clients : Underway(c)' =>
           client'[c].pc \in {"written", "outwait", "failed"} \/ client'[c].out \in plain'
    BY <2>3, <2>5, <2>6 DEF AloneInv
  <2>10. \A c \in Clients : client'[c].pc \in {"reading", "done"} \/ client[c].pc \in {"reading", "done"} => client'[c] = client[c]
    BY <2>2
  <2> QED
    BY <1>17, <2>1, <2>5, <2>8, <2>9, <2>10 DEF AloneInv
<1>5. ASSUME NEW w \in Works, Run_CLI_Command(w) PROVE AloneInv'
  <2>1. w \in Clients /\ pc[w] = "busy" /\ UNCHANGED <<plain, queue, orsout, cmd, client, rejected>>
    BY <1>5 DEF Run_CLI_Command, listener, names
  <2>2. executed'[w] = executed[w] + 1 /\ \A c \in Clients : c # w => executed'[c] = executed[c]
    BY <1>5, <2>1 DEF Run_CLI_Command, CliType, CountType
  <2>3. orsout.ptr = "open" /\ orsout.of = w /\ executed[w] = 0 /\ w \notin rejected
    BY <2>1 DEF AnswerInv, AnswerOfRunningCommand, OnceInv, Place
  <2>4. \A c \in Clients : Handled(c) => Handled(c)'
    BY <2>1, <2>2, <2>3
  <2> QED
    BY <1>17, <2>1, <2>4 DEF AloneInv, Queued
<1>6. CASE ReadCommand
  <2>1. ors_read_fd \in 1 .. Len(queue) /\ queue[ors_read_fd] # <<>> /\ cmd = NoCmd
    BY <1>6 DEF ReadCommand, ListenerReady, CliType, FifoType, PcType, CmdInv, Ready
  <2>2. cmd' = Head(queue[ors_read_fd]) /\ queue' = Taken(queue, ors_read_fd)
        /\ UNCHANGED <<plain, client, executed, rejected, orsout>>
    BY <1>6 DEF ReadCommand, Taken, history
  <2>3. Queued(cmd') /\ \A c \in Clients : Queued(c)' <=> Queued(c) /\ c # cmd'
    <3>1. queue \in Seq(Seq(Clients)) /\ OnceIn(queue)
      BY DEF CliType, FifoType, OnceInv
    <3>2. In(queue, cmd') /\ \A c \in Clients : In(queue', c) <=> In(queue, c) /\ c # cmd'
      BY <2>1, <2>2, <3>1, TakeCommand
    <3> QED
      BY <3>2 DEF Queued
  <2>4. \A c \in Clients : Underway(c)' <=> Underway(c)
    BY <2>1, <2>3
  <2> QED
    BY <1>17, <2>2, <2>4 DEF AloneInv
<1>7. CASE Fopen
  <2>1. orsout.ptr = "null" /\ orsout'.ptr = "opening" /\ UNCHANGED <<cmd, client, executed, rejected>>
        /\ queue' \in {queue, Append(queue, <<>>)}
    BY <1>7 DEF Fopen, AnswerInv, listener, history
  <2>2. \A c \in Clients : Queued(c)' => Queued(c)
    <3>1. queue \in Seq(Seq(Clients)) /\ OnceIn(queue)
      BY DEF CliType, FifoType, OnceInv
    <3>2. \A c \in Clients : In(queue', c) => In(queue, c)
      BY <2>1, <3>1, NewFifo
    <3> QED
      BY <3>2 DEF Queued
  <2> QED
    BY <1>17, <2>1, <2>2 DEF AloneInv
<1>8. CASE FopenFails
  <2>1. orsout.ptr = "null" /\ orsout' = Null /\ cmd' = NoCmd
        /\ UNCHANGED <<plain, queue, client, executed, rejected>>
    BY <1>8 DEF FopenFails, AnswerInv, listener, names
  <2> QED
    BY <1>17, <2>1 DEF AloneInv, Queued, Null
<1>9. CASE RejectBusy
  <2>1. orsout'.ptr = "closed" /\ cmd' = NoCmd /\ rejected' = rejected \cup {cmd} /\ UNCHANGED <<plain, queue, executed>>
    BY <1>9 DEF RejectBusy, listener, names, CliType, OutType
  <2>2. orsout.ptr = "opening" /\ executed[cmd] = 0
    BY <1>9, ReaderIsSender DEF RejectBusy, Opened, AnswerInv, OnceInv, Place
  <2>3. /\ cmd \in Clients /\ client'[cmd].out = client[cmd].out
        /\ \A d \in Clients : d # cmd => client'[d] = client[d] /\ client[d].pc \in {"new", "done", "failed"}
        /\ \A d \in Clients : ~Queued(d)
    BY <1>9, ReaderIsSender DEF Running
  <2>4. \A d \in Clients : ~Underway(d)'
    BY <2>1, <2>3 DEF Queued
  <2>5. \A d \in Clients : d = cmd => Handled(d)'
    BY <2>1, <2>2, <2>3
  <2>6. \A d \in Clients : d # cmd => (Handled(d)' <=> Handled(d))
    BY <2>1, <2>3
  <2> HIDE DEF Handled
  <2>7. \A d \in Clients : client'[d].pc = "done" /\ client'[d].out \notin plain' => Handled(d)'
    BY <2>1, <2>3, <2>5, <2>6 DEF AloneInv
  <2>8. \A d \in Clients : client'[d].pc = "reading" => d = cmd
    BY <2>3
  <2>9. \A c, d \in Clients : Running(c)' /\ Running(d)' => c = d
    BY <2>3
  <2> QED
    BY <1>17, <2>1, <2>4, <2>5, <2>7, <2>8, <2>9 DEF AloneInv
<1>10. CASE RunBuiltin \/ StartCommand
  <2>1. orsout'.ptr = "open" /\ orsout'.of = cmd /\ orsout'.gen = orsout.gen /\ cmd' = NoCmd
        /\ UNCHANGED <<plain, queue, rejected>>
    BY <1>10 DEF RunBuiltin, StartCommand, Opened, listener, names, history, CliType, OutType, AnswerInv
  <2>2. orsout.ptr = "opening" /\ \A c \in Clients : c # cmd => executed'[c] = executed[c]
    BY <1>10 DEF RunBuiltin, StartCommand, Opened, AnswerInv, history, CliType, CountType
  <2>3. /\ cmd \in Clients /\ client'[cmd].out = client[cmd].out
        /\ \A d \in Clients : d # cmd => client'[d] = client[d] /\ client[d].pc \in {"new", "done", "failed"}
        /\ \A d \in Clients : ~Queued(d)
        /\ orsout.gen \notin plain => client[cmd].out = orsout.gen /\ client'[cmd].pc = "reading"
        /\ orsout.gen \in plain => client'[cmd] = client[cmd]
    BY <1>10, ReaderIsSender DEF Running
  <2>4. \A d \in Clients : ~Underway(d)'
    BY <2>1, <2>3 DEF Queued
  <2>5. client[cmd].pc \in {"written", "outwait", "failed"} \/ client[cmd].out \in plain
    BY <2>3 DEF AloneInv
  <2>6. \A d \in Clients : d # cmd => (Handled(d)' <=> Handled(d))
    BY <2>1, <2>2
  <2>7. \A c, d \in Clients : Running(c)' /\ Running(d)' => c = d
    BY <2>3
  <2>8. orsout'.gen \notin plain' => client'[cmd].pc = "reading" /\ client'[cmd].out = orsout'.gen
    BY <2>1, <2>3
  <2>9. \A c \in Clients : client'[c].pc = "reading" /\ client'[c].out \notin plain' =>
           c = cmd /\ orsout'.gen = client'[c].out
    BY <2>1, <2>3, <2>5
  <2>10. \A c \in Clients : client'[c].pc = "done" /\ client'[c].out \notin plain' => c # cmd /\ Handled(c)'
    BY <2>1, <2>3, <2>5, <2>6 DEF AloneInv
  <2> QED
    BY <1>17, <2>1, <2>3, <2>4, <2>7, <2>8, <2>9, <2>10 DEF AloneInv
<1>11. ASSUME NEW c \in Clients, OpenIn(c) PROVE AloneInv'
  <2>1. UNCHANGED <<plain, queue, orsout, cmd, executed, rejected>>
        /\ \A d \in Clients : ~Running(d) /\ ~Queued(d) /\ cmd # d
    BY <1>11 DEF OpenIn, listener, names, InQueue, Queued, In
  <2>2. client'[c].pc \in {"opened", "blocked"} /\ \A d \in Clients : d # c => client'[d] = client[d]
    BY <1>11 DEF OpenIn, SetClient, CliType, ClientType
  <2>3. ~(orsout.ptr = "open" /\ orsout.gen \notin plain)
    BY <2>1 DEF AloneInv
  <2>4. \A d \in Clients : ~Underway(d)'
    BY <2>1 DEF Queued
  <2>5. \A d \in Clients : client[d].pc \in {"new", "done", "failed"}
    BY <2>1
  <2> QED
    BY <1>17, <2>1, <2>2, <2>3, <2>4, <2>5 DEF AloneInv
<1>12. ASSUME NEW c \in Clients, Write(c) PROVE AloneInv'
  <2>1. client[c].pc = "opened" /\ client'[c].out = client[c].out
        /\ client'[c].pc = (IF HasReader(client[c].in) THEN "written" ELSE "failed")
        /\ \A d \in Clients : d # c => client'[d] = client[d]
    <3>1. PICK p \in {"written", "failed"} :
            p = (IF HasReader(client[c].in) THEN "written" ELSE "failed") /\ SetClient(c, [client[c] EXCEPT !.pc = p])
      BY <1>12 DEF Write
    <3>2. client'[c] = [client[c] EXCEPT !.pc = p] /\ \A d \in Clients : d # c => client'[d] = client[d]
      BY <3>1 DEF SetClient, CliType, ClientType
    <3>3. client[c].pc = "opened"
      BY <1>12 DEF Write
    <3> QED
      BY <3>1, <3>2, <3>3, ClientPc DEF CliType, ClientPcs
  <2>2. UNCHANGED <<plain, orsout, cmd, executed, rejected>>
    BY <1>12 DEF Write, history
  <2>3. cmd # c /\ ~Queued(c)
    BY <2>1 DEF OnceInv, Place, Unsent
  <2>4. CASE HasReader(client[c].in)
    <3>1. client[c].in \in 1 .. Len(queue)
      BY <2>4, ReaderIn DEF CliType
    <3>2. queue' = Sent(queue, client[c].in, c)
      BY <1>12, <2>4 DEF Write, Sent
    <3>3. queue \in Seq(Seq(Clients)) /\ OnceIn(queue) /\ ~In(queue, c)
      BY <2>3 DEF CliType, FifoType, OnceInv, Queued
    <3>4. \A d \in Clients : Queued(d)' <=> Queued(d) \/ d = c
      BY <3>1, <3>2, <3>3, SendCommand DEF Queued
    <3>5. \A d \in Clients : Running(d)' \/ Underway(d)' => Running(d) \/ Underway(d)
      BY <2>1, <2>2, <2>4, <3>4
    <3>6. \A d \in Clients : Underway(d)' => client'[d].pc \in {"written", "outwait", "failed"} \/ client'[d].out \in plain'
      BY <2>1, <2>2, <2>4, <3>4 DEF AloneInv
    <3> QED
      BY <1>17, <2>1, <2>2, <2>4, <3>5, <3>6 DEF AloneInv
  <2>5. CASE ~HasReader(client[c].in)
    <3>1. queue' = queue /\ client'[c].pc = "failed"
      BY <1>12, <2>1, <2>5 DEF Write
    <3>2. \A d \in Clients : Underway(d)' <=> Underway(d)
      BY <2>2, <3>1 DEF Queued
    <3> QED
      BY <1>17, <2>1, <2>2, <3>1, <3>2 DEF AloneInv
  <2> QED
    BY <2>4, <2>5
<1>13. ASSUME NEW c \in Clients, OpenOut(c) PROVE AloneInv'
  <2>1. UNCHANGED <<plain, queue, orsout, cmd, executed, rejected>>
    BY <1>13 DEF OpenOut, listener, names, history
  <2>2. Running(c) /\ client[c].pc = "written" /\ \A d \in Clients : Running(d) => d = c
    BY <1>13, ToolOpens DEF AloneInv, CliType
  <2>3. ~(orsout.ptr = "open" /\ orsout.gen \notin plain)
    BY <2>2 DEF AloneInv
  <2>4. client'[c].pc = Found /\ client'[c].out = outName /\ \A d \in Clients : d # c => client'[d] = client[d]
    BY <1>13, ToolOpens DEF CliType
  <2>5. Found \in {"failed", "outwait"} \/ (Found = "reading" /\ outName \in plain)
    BY <2>3 DEF Found
  <2>6. \A d \in Clients : Underway(d)' <=> Underway(d)
    BY <2>1 DEF Queued
  <2> QED
    BY <1>17, <2>1, <2>2, <2>3, <2>4, <2>5, <2>6 DEF AloneInv
<1>14. ASSUME NEW c \in Clients, ReadAll(c) PROVE AloneInv'
  <2>1. UNCHANGED <<plain, queue, orsout, cmd, executed, rejected>>
    BY <1>14 DEF ReadAll, listener, names, history
  <2>2. client[c].pc = "reading" /\ client'[c].pc = "done" /\ client'[c].out = client[c].out
        /\ \A d \in Clients : d # c => client'[d] = client[d]
    BY <1>14, ClientPc DEF ReadAll, SetClient, CliType, ClientType, ClientPcs
  <2>3. client[c].out \notin plain => ~(orsout.ptr = "open" /\ orsout.gen = client[c].out) /\ Handled(c)
    BY <1>14, <2>2 DEF ReadAll, AloneInv
  <2>4. orsout.ptr = "open" /\ orsout.gen \notin plain => orsout.of # c
    BY <2>3 DEF AloneInv
  <2>5. \A d \in Clients : Underway(d)' <=> Underway(d)
    BY <2>1 DEF Queued
  <2> QED
    BY <1>17, <2>1, <2>2, <2>3, <2>4, <2>5 DEF AloneInv
<1>15. ASSUME Threads, ~UNCHANGED seen PROVE AloneInv'
  BY <1>15, <1>2, <1>5 DEF Threads, seen, StartAction, operation_start, operation_end,
     ThreadExit, listener, names, history
<1>16. ASSUME Gui, ~UNCHANGED seen PROVE AloneInv'
  BY <1>16, <1>6, <1>7, <1>8, <1>9, <1>10 DEF Gui, seen, gui_startPage, RunPages, PageDone, EndPage, GuiBack,
     listener, names, history
<1> QED
  BY <1>1, <1>3, <1>11, <1>12, <1>13, <1>14, <1>15, <1>16, Steps DEF FifoCalls, Tools

-----------------------------------------------------------------------------
(* The invariant, and what follows from it *)

CliInv == CliType /\ OneInv /\ AnswerInv /\ ListenInv /\ OnceInv /\ AloneInv

\* The invariant holds at the beginning, ...
LEMMA CliInvInit == Init => CliInv
<1> SUFFICES ASSUME Init PROVE CliInv
  OBVIOUS
<1> USE Names
<1>1. CliType
  BY CliTypeInit
<1>2. /\ \A w \in Works : pc[w] = "none"
      /\ pc[gui] = "startPage" /\ orsout = Null /\ cmd = NoCmd /\ queue = <<>> /\ ors_read_fd = 0
      /\ \A c \in Clients : client[c].pc = "new" /\ executed[c] = 0
      /\ rejected = {} /\ stale = FALSE
  BY DEF Init
<1>3. \A c \in Clients : ~Queued(c) /\ c # NoCmd /\ pc[c] = "none"
  BY <1>2 DEF Queued, In
<1>7. \A p \in All : at[p] = "none"
  BY DEF Init, All
<1>4. OneInv /\ AnswerInv /\ ListenInv
  BY <1>2, <1>7 DEF OneInv, Active, AnswerInv, AnswerOfRunningCommand, Started, ListenInv, AtInv, Undo, All
<1>5. OnceInv
  BY <1>2, <1>3 DEF OnceInv, OnceIn, Place
<1>6. AloneInv
  BY <1>2, <1>3 DEF AloneInv, PlainInv, Underway, Running, Null
<1> QED
  BY <1>1, <1>4, <1>5, <1>6 DEF CliInv

\* ... every step keeps it, ...
LEMMA CliInvInductive == CliInv /\ [Next]_vars => CliInv'
<1> SUFFICES ASSUME CliInv, [Next]_vars PROVE CliInv'
  OBVIOUS
<1>1. CASE Next
  <2>1. CliType'
    BY <1>1, PcStep, FlagStep, FifoStep, OutStep, ClientStepType, CountStep DEF CliType, CliInv
  <2>2. OneInv' /\ AnswerInv' /\ ListenInv' /\ OnceInv' /\ AloneInv'
    BY <1>1, OneStep, AnswerStep, ListenStep, OnceStep, AloneStep DEF CliInv
  <2> QED
    BY <2>1, <2>2 DEF CliInv
<1>2. CASE UNCHANGED vars
  <2>1. CliType'
    BY <1>2 DEF CliInv, CliType, PcType, CmdInv, FlagType, FifoType, OutType, ClientType, ClientStates, CountType,
       vars, listener, names, flags, history
  <2>2. OneInv' /\ AnswerInv' /\ ListenInv'
    BY <1>2 DEF CliInv, OneInv, Active, AnswerInv, AnswerOfRunningCommand, Started, ListenInv, AtInv, Ahead,
       vars, listener, names, flags, history
  <2>3. OnceInv' /\ AloneInv'
    BY <1>2 DEF CliInv, OnceInv, Place, Unsent, Queued, AloneInv, PlainInv, Underway, Running,
       Handled, vars, listener, names, history
  <2> QED
    BY <2>1, <2>2, <2>3 DEF CliInv
<1> QED
  BY <1>1, <1>2

\* ... and thus it always holds.
LEMMA CliInvHolds == Spec => []CliInv
  BY CliInvInit, CliInvInductive, PTL DEF Spec

\* ors_command_read: whatever other tools write meanwhile, the answer that is
\* open is the one of the command that was started and is not yet done.
THEOREM AnswerIsOfItsCommand == Spec => []AnswerOfRunningCommand
<1>1. CliInv => AnswerOfRunningCommand
  BY DEF CliInv, AnswerInv
<1> QED
  BY <1>1, CliInvHolds, PTL

\* ors_command_done and gui_startPage: the two threads may set the listener up
\* in any order and any number of times, their calls interleaved.  At rest the
\* listener reads what the name denotes, unless a set-up found the work of
\* another one and none has begun by itself since, or a call failed.
THEOREM ListenerHasTheNames == Spec => []ListensToTheName
<1>1. CliInv => ListensToTheName
  <2> SUFFICES ASSUME CliInv, Quiet, Pages[page], failures = 0, ~collided
               PROVE  inName # 0 /\ ors_read_fd = inName
    BY DEF ListensToTheName
  <2>1. \A p \in All : at[p] = "none"
    BY Names DEF CliInv, ListenInv, AtInv, Quiet, Ready, All
  <2>2. ~Ahead
    BY <2>1 DEF Ahead, SetUp
  <2> QED
    BY <2>2, Names DEF CliInv, ListenInv, Quiet, Ready
<1> QED
  BY <1>1, CliInvHolds, PTL

\* The tool's exit code 0, for any number of tools, user actions and failures:
\* every command is executed at most once, and a tool that ran alone, and for
\* which orsout was no regular file, has had its command executed or has been
\* told that it was not.
THEOREM ExitCodeIsTrue == Spec => []ExitMeansHandled
<1>1. CliInv => ExitMeansHandled
  BY DEF CliInv, OnceInv, Place, AloneInv, Handled, ExitMeansHandled
<1> QED
  BY <1>1, CliInvHolds, PTL

=============================================================================
