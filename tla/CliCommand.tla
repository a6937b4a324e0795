----------------------------- MODULE CliCommand -----------------------------
(***************************************************************************)
(* The command line of the recovery: the `twrp` tool (orscmd) writes a     *)
(* command to the FIFO orsin and reads the answer from the FIFO orsout;    *)
(* the GUI thread polls orsin in its main loop (gui/gui.cpp), and hands    *)
(* the command to the one action thread (gui/action.cpp), which runs it,   *)
(* closes the answer and creates both FIFOs anew.  The GUI thread does     *)
(* that too when a page starts, and there is no lock: the two threads are  *)
(* interleaved call by call.                                               *)
(*                                                                         *)
(* Every file that is created under one of the two names is a generation,  *)
(* a number: a process that opened or waits on an earlier generation is    *)
(* not reached by the later ones.  Every client sends one command.  The    *)
(* text of commands and answers is left out.                               *)
(***************************************************************************)
EXTENDS Naturals, Sequences, FiniteSets

CONSTANTS Clients,        \* runs of the twrp tool, one command each
          UserActions,    \* threaded actions the user or a variable starts
          Pages,          \* allow_commands of each gui_startPage, in order
          MaxFailures     \* failures of mkfifo, open and fopen

gui == "gui"
NoCmd == "none"

ASSUME CliAssumption ==
    /\ Clients \cap UserActions = {}
    /\ gui \notin Clients \cup UserActions /\ NoCmd \notin Clients
    /\ Pages \in Seq(BOOLEAN) /\ Len(Pages) > 0
    /\ MaxFailures \in Nat

VARIABLES
    inName, outName,    \* generations the two names denote, 0 when unlinked
    queue,              \* queue[g]: commands in generation g, for all that were created
    plain,              \* generations that are regular files
    ors_read_fd,        \* generation the listener reads, 0 for -1 and when closed
    stale,              \* ors_read_fd is the number of a descriptor that was closed
    leaked,             \* generations of descriptors no variable holds any more
    orsout,             \* the FILE*: NULL, or a pointer that is open or not
    tw_busy,
    m_thread_running,
    tw_page_done,
    page,               \* position in Pages
    pc,                 \* of the GUI thread and of each action's thread
    at,                 \* the next of their calls that concern the FIFOs
    cmd,                \* the command the GUI thread holds
    client,             \* [Clients -> pc and the generations opened]
    executed,           \* [Clients -> number of times the command was run]
    rejected,           \* commands rejected with "operation in progress"
    alone,              \* no client was started while another one ran
    collided,           \* since a set-up began alone, a call found a name taken, or gone
    failures

names == <<inName, outName, queue, plain>>
listener == <<names, ors_read_fd, stale, leaked>>
flags == <<tw_busy, m_thread_running, tw_page_done, page>>
history == <<executed, rejected, alone, collided, failures>>
vars == <<listener, orsout, flags, pc, at, cmd, client, history>>

Works == Clients \cup UserActions
Null == [ptr |-> "null", gen |-> 0, of |-> NoCmd]
Running(c) == client[c].pc \notin {"new", "done", "failed"}

Init ==
    /\ inName = 0 /\ outName = 0 /\ queue = <<>> /\ plain = {}
    /\ ors_read_fd = 0 /\ stale = FALSE /\ leaked = {} /\ orsout = Null
    /\ tw_busy = FALSE /\ m_thread_running = FALSE
    /\ tw_page_done = FALSE /\ page = 1
    /\ pc = [p \in Works \cup {gui} |-> IF p = gui THEN "startPage" ELSE "none"]
    /\ at = [p \in Works \cup {gui} |-> "none"]
    /\ cmd = NoCmd
    /\ client = [c \in Clients |-> [pc |-> "new", in |-> 0, out |-> 0]]
    /\ executed = [c \in Clients |-> 0]
    /\ rejected = {} /\ alone = TRUE /\ collided = FALSE /\ failures = 0

Goto(p, label) == pc' = [pc EXCEPT ![p] = label]

(* No call of setup_ors_command or ors_command_done is left to make.        *)
Ready(p, label) == pc[p] = label /\ at[p] = "none"
Call(p, label) == at' = [at EXCEPT ![p] = label]

Fails == failures < MaxFailures /\ failures' = failures + 1

(***************************************************************************)
(* The calls, by the GUI thread or by the one that ran a command, in the   *)
(* order in which they are made: setup_ors_command with what it undoes,    *)
(* the end of a page, and what follows a failing fopen.                    *)
(***************************************************************************)
Following == [close     |-> "reset",     reset     |-> "unlinkIn",
              unlinkIn  |-> "mkfifoIn",  mkfifoIn  |-> "unlinkOut",
              unlinkOut |-> "mkfifoOut", mkfifoOut |-> "openIn", openIn |-> "none",
              endClose  |-> "endReset",  endReset  |-> "none",
              failClose |-> "failReset", failReset |-> "undoIn",
              undoIn    |-> "undoOut",   undoOut   |-> "none", undoFirst |-> "none"]

(* A set-up of the listener begins; no other thread is at work on it.      *)
SetUpBegins(p) ==
    collided' = (collided /\ \E q \in Works \cup {gui} : q # p /\ at[q] # "none")

HasReader(g) == g # 0 /\ (ors_read_fd = g \/ g \in leaked)

CloseListener(p) ==
    /\ at[p] \in {"close", "endClose", "failClose"}
    /\ ors_read_fd' = 0
    /\ stale' = (stale \/ ors_read_fd # 0)
    /\ Call(p, Following[at[p]])
    /\ UNCHANGED <<names, leaked, orsout, flags, pc, cmd, client, history>>

(* What ors_read_fd held is not closed: the other thread may have opened it *)
(* since.                                                                  *)
ResetListener(p) ==
    /\ at[p] \in {"reset", "endReset", "failReset"}
    /\ ors_read_fd' = 0 /\ stale' = FALSE
    /\ leaked' = leaked \cup ({ors_read_fd} \ {0})
    /\ Call(p, Following[at[p]])
    /\ UNCHANGED <<names, orsout, flags, pc, cmd, client, history>>

UnlinkIn(p) ==
    /\ at[p] \in {"unlinkIn", "undoIn", "undoFirst"}
    /\ inName' = 0
    /\ Call(p, Following[at[p]])
    /\ UNCHANGED <<outName, queue, plain, ors_read_fd, stale, leaked, orsout, flags, pc, cmd,
                   client, history>>

UnlinkOut(p) ==
    /\ at[p] \in {"unlinkOut", "undoOut"}
    /\ outName' = 0
    /\ Call(p, Following[at[p]])
    /\ UNCHANGED <<inName, queue, plain, ors_read_fd, stale, leaked, orsout, flags, pc, cmd,
                   client, history>>

MkfifoIn(p) ==
    /\ at[p] = "mkfifoIn"
    /\ \/ /\ inName = 0
          /\ queue' = Append(queue, <<>>) /\ inName' = Len(queue) + 1
          /\ Call(p, Following[at[p]])
          /\ UNCHANGED <<collided, failures>>
       \/ /\ IF inName # 0 THEN collided' = TRUE /\ UNCHANGED failures
                            ELSE Fails /\ UNCHANGED collided
          /\ Call(p, "none")
          /\ UNCHANGED <<inName, queue>>
    /\ UNCHANGED <<outName, plain, ors_read_fd, stale, leaked, orsout, flags, pc, cmd, client,
                   executed, rejected, alone>>

MkfifoOut(p) ==
    /\ at[p] = "mkfifoOut"
    /\ \/ /\ outName = 0
          /\ queue' = Append(queue, <<>>) /\ outName' = Len(queue) + 1
          /\ Call(p, Following[at[p]])
          /\ UNCHANGED <<collided, failures>>
       \/ /\ IF outName # 0 THEN collided' = TRUE /\ UNCHANGED failures
                             ELSE Fails /\ UNCHANGED collided
          /\ Call(p, "undoFirst")
          /\ UNCHANGED <<outName, queue>>
    /\ UNCHANGED <<inName, plain, ors_read_fd, stale, leaked, orsout, flags, pc, cmd, client,
                   executed, rejected, alone>>

(* The clients waiting for a reader go on.  What a FIFO held is gone when   *)
(* nobody has had it open.                                                 *)
OpenListener(p) ==
    /\ at[p] = "openIn"
    /\ leaked' = leaked \cup ({ors_read_fd} \ {0})
    /\ stale' = FALSE
    /\ \/ /\ inName # 0
          /\ ors_read_fd' = inName
          /\ queue' = IF HasReader(inName) \/ \E c \in Clients : Running(c) /\ client[c].in = inName
                      THEN queue ELSE [queue EXCEPT ![inName] = <<>>]
          /\ client' = [c \in Clients |->
                          IF client[c].pc = "blocked" /\ client[c].in = inName
                          THEN [client[c] EXCEPT !.pc = "opened"] ELSE client[c]]
          /\ Call(p, Following[at[p]])
          /\ UNCHANGED <<collided, failures>>
       \/ /\ IF inName = 0 THEN collided' = TRUE /\ UNCHANGED failures
                            ELSE Fails /\ UNCHANGED collided
          /\ ors_read_fd' = 0
          /\ Call(p, "undoIn")
          /\ UNCHANGED <<queue, client>>
    /\ UNCHANGED <<inName, outName, plain, orsout, flags, pc, cmd, executed, rejected, alone>>

FifoCall(p) == \/ CloseListener(p) \/ ResetListener(p) \/ UnlinkIn(p) \/ UnlinkOut(p)
               \/ MkfifoIn(p) \/ MkfifoOut(p) \/ OpenListener(p)

(***************************************************************************)
(* ors_command_done: close the answer, and restart the listener unless the *)
(* page is over.  The GUI thread may read orsin as soon as orsout is NULL. *)
(***************************************************************************)
(* Mutant: the listener is closed and not restarted.                       *)
RestartListenerNot(p) ==
    /\ at[p] = "restart"
    /\ Call(p, IF tw_page_done THEN "none" ELSE "endClose")
    /\ UNCHANGED <<listener, orsout, flags, pc, cmd, client, history>>

RestartListener(p) ==
    /\ at[p] = "restart"
    /\ IF tw_page_done THEN Call(p, "none") /\ UNCHANGED collided
                       ELSE Call(p, "close") /\ SetUpBegins(p)
    /\ UNCHANGED <<listener, orsout, flags, pc, cmd, client, executed, rejected, alone, failures>>

(* Mutant: the answer is not closed.                                       *)
CommandDoneUnclosed(p) ==
    /\ pc[p] = "ran"
    /\ Goto(p, "back") /\ Call(p, "restart")
    /\ UNCHANGED <<listener, orsout, flags, cmd, client, history>>

CommandDone(p) ==
    /\ pc[p] = "ran"
    /\ orsout' = Null
    /\ Goto(p, "back") /\ Call(p, "restart")
    /\ UNCHANGED <<listener, flags, cmd, client, history>>

Done(p) == CommandDone(p) \/ RestartListener(p) \/ FifoCall(p)

-----------------------------------------------------------------------------
(***************************************************************************)
(* ActionThread::threadActions: one action at a time, tested and set under *)
(* m_act_lock; an action that comes while one runs is dropped.             *)
(***************************************************************************)
(* Mutant: m_thread_running is not tested.                                 *)
threadActionsUnchecked(w, label) ==
    /\ pc' = [label EXCEPT ![w] = "created"]
    /\ m_thread_running' = TRUE

threadActions(w, label) ==
    /\ pc' = [label EXCEPT ![w] = IF m_thread_running THEN "refused" ELSE "created"]
    /\ m_thread_running' = TRUE

(* The user taps a button: the GUI thread starts the action.  Or           *)
(* GUIAction::NotifyVarChange starts it, in the action thread that set the *)
(* variable.                                                               *)
StartAction(u) ==
    /\ Ready(gui, "loop") \/ \E w \in Works : pc[w] \in {"busy", "busyAgain"}
    /\ pc[u] = "none"
    /\ threadActions(u, pc)
    /\ UNCHANGED <<listener, orsout, tw_busy, tw_page_done, page, at, cmd, client, history>>

operation_start(w) ==
    /\ pc[w] \in {"created", "between"}
    /\ tw_busy' = TRUE
    /\ Goto(w, IF pc[w] = "created" THEN "busy" ELSE "busyAgain")
    /\ UNCHANGED <<listener, orsout, m_thread_running, tw_page_done, page, at,
                   cmd, client, history>>

(* An action list may hold several operations, each with its own start and *)
(* end; the operation of a command has run before it ends.                 *)
operation_end(w) ==
    /\ IF w \in Clients THEN Ready(w, "back") ELSE pc[w] \in {"busy", "busyAgain"}
    /\ tw_busy' = FALSE
    /\ \E next \in IF pc[w] = "busy" THEN {"between", "ended"} ELSE {"ended"} :
          Goto(w, next)
    /\ UNCHANGED <<listener, orsout, m_thread_running, tw_page_done, page, at,
                   cmd, client, history>>

(* The end of ActionThread::run.                                           *)
ThreadExit(w) ==
    /\ pc[w] = "ended"
    /\ m_thread_running' = FALSE
    /\ Goto(w, "gone")
    /\ UNCHANGED <<listener, orsout, tw_busy, tw_page_done, page, at, cmd, client, history>>

(* Mutant: the answer is closed before the command has run.                *)
Run_CLI_CommandEarlyDone(c) ==
    /\ pc[c] = "busy" /\ c \in Clients
    /\ Goto(c, "ran")
    /\ UNCHANGED <<listener, orsout, flags, at, cmd, client, history>>

(* twcmd: Run_CLI_Command up to call_after_cli_command.                    *)
Run_CLI_Command(c) ==
    /\ pc[c] = "busy" /\ c \in Clients
    /\ executed' = [executed EXCEPT ![c] = @ + 1]
    /\ Goto(c, "ran")
    /\ UNCHANGED <<listener, orsout, flags, at, cmd, client, rejected, alone,
                   collided, failures>>

-----------------------------------------------------------------------------
(***************************************************************************)
(* The GUI thread: gui_startPage and runPages.                             *)
(***************************************************************************)
gui_startPage ==
    /\ Ready(gui, "startPage")
    /\ Goto(gui, "runPages")
    /\ LET closed == ors_read_fd = 0 /\ ~stale
       IN  \/ Pages[page] /\ closed /\ Call(gui, "reset") /\ SetUpBegins(gui)
           \/ ~Pages[page] /\ ~closed /\ Call(gui, "endClose") /\ UNCHANGED collided
           \/ Pages[page] # closed /\ UNCHANGED <<at, collided>>
    /\ UNCHANGED <<listener, orsout, flags, cmd, client, executed, rejected, alone, failures>>

RunPages ==
    /\ Ready(gui, "runPages")
    /\ tw_page_done' = FALSE
    /\ Goto(gui, "loop")
    /\ UNCHANGED <<listener, orsout, tw_busy, m_thread_running, page, at, cmd, client, history>>

(* The theme or a command sets tw_page_done.                               *)
PageDone ==
    /\ ~tw_page_done
    /\ Ready(gui, "loop") \/ \E w \in Works : pc[w] \in {"busy", "busyAgain"}
    /\ tw_page_done' = TRUE
    /\ UNCHANGED <<listener, orsout, tw_busy, m_thread_running, page, pc, at,
                   cmd, client, history>>

(* Mutant: the last page ends as well.                                     *)
EndPageAlways ==
    /\ Ready(gui, "loop") /\ tw_page_done
    /\ page' = page + 1
    /\ Goto(gui, "startPage") /\ Call(gui, "endClose")
    /\ UNCHANGED <<listener, orsout, tw_busy, m_thread_running, tw_page_done, cmd,
                   client, history>>

(* Only the last page does not stop on tw_page_done.                       *)
EndPage ==
    /\ Ready(gui, "loop") /\ page < Len(Pages) /\ tw_page_done
    /\ page' = page + 1
    /\ Goto(gui, "startPage") /\ Call(gui, "endClose")
    /\ UNCHANGED <<listener, orsout, tw_busy, m_thread_running, tw_page_done, cmd,
                   client, history>>

(***************************************************************************)
(* The poll of the main loop and ors_command_read.  fopen(orsout) waits    *)
(* for a reader of the FIFO the name denotes; where there is none, it      *)
(* creates a regular file.                                                 *)
(***************************************************************************)
(* Mutant: orsout is not looked at.                                        *)
ListenerReadyAnyway == ors_read_fd # 0

ListenerReady == ors_read_fd # 0 /\ orsout.ptr = "null"

ReadCommand ==
    /\ Ready(gui, "loop") /\ ListenerReady
    /\ queue[ors_read_fd] # <<>>
    /\ cmd' = Head(queue[ors_read_fd])
    /\ queue' = [queue EXCEPT ![ors_read_fd] = Tail(@)]
    /\ Goto(gui, "fopen")
    /\ UNCHANGED <<inName, outName, plain, ors_read_fd, stale, leaked, orsout, flags, at, client,
                   history>>

Fopen ==
    /\ pc[gui] = "fopen"
    /\ IF outName = 0
       THEN /\ queue' = Append(queue, <<>>) /\ outName' = Len(queue) + 1
            /\ plain' = plain \cup {outName'}
       ELSE UNCHANGED <<queue, outName, plain>>
    /\ orsout' = [ptr |-> "opening", gen |-> outName', of |-> cmd]
    /\ Goto(gui, "opening")
    /\ UNCHANGED <<inName, ors_read_fd, stale, leaked, flags, at, cmd, client, history>>

(* fopen fails: no listener until the next page sets one up.               *)
FopenFails ==
    /\ pc[gui] = "fopen"
    /\ Fails
    /\ orsout' = Null
    /\ cmd' = NoCmd
    /\ Goto(gui, "loop") /\ Call(gui, "failClose")
    /\ UNCHANGED <<listener, flags, client, executed, rejected, alone, collided>>

Readers(g) == {c \in Clients : client[c].pc \in {"outwait", "reading"} /\ client[c].out = g}

Opened == pc[gui] = "opening" /\ (orsout.gen \in plain \/ Readers(orsout.gen) # {})

(* Both ends are open: the readers waiting for the writer go on.           *)
Connect(g) ==
    client' = [c \in Clients |->
                 IF c \in Readers(g) THEN [client[c] EXCEPT !.pc = "reading"] ELSE client[c]]

(* An operation is in progress: the answer says so and is closed.          *)
RejectBusy ==
    /\ Opened
    /\ tw_busy
    /\ Connect(orsout.gen)
    /\ orsout' = [orsout EXCEPT !.ptr = "closed"]
    /\ rejected' = rejected \cup {cmd}
    /\ cmd' = NoCmd
    /\ Goto(gui, "loop")
    /\ UNCHANGED <<listener, flags, at, executed, alone, collided, failures>>

(* dumpstrings, reloadtheme, changepage and xset are run by the GUI thread *)
(* itself; which command it is, is left open.                              *)
RunBuiltin ==
    /\ Opened
    /\ ~tw_busy
    /\ Connect(orsout.gen)
    /\ orsout' = [orsout EXCEPT !.ptr = "open"]
    /\ executed' = [executed EXCEPT ![cmd] = @ + 1]
    /\ cmd' = NoCmd
    /\ Goto(gui, "ran")
    /\ UNCHANGED <<listener, flags, at, rejected, alone, collided, failures>>

(* The page singleaction_page starts the action twcmd.                     *)
StartCommand ==
    /\ Opened
    /\ ~tw_busy
    /\ Connect(orsout.gen)
    /\ orsout' = [orsout EXCEPT !.ptr = "open"]
    /\ threadActions(cmd, [pc EXCEPT ![gui] = "loop"])
    /\ cmd' = NoCmd
    /\ UNCHANGED <<listener, tw_busy, tw_page_done, page, at, history>>

GuiBack ==
    /\ Ready(gui, "back")
    /\ Goto(gui, "loop")
    /\ UNCHANGED <<listener, orsout, flags, at, cmd, client, history>>

-----------------------------------------------------------------------------
(***************************************************************************)
(* The twrp tool.                                                          *)
(***************************************************************************)
SetClient(c, r) == client' = [client EXCEPT ![c] = r]

InQueue(c) == \E g \in DOMAIN queue : \E i \in DOMAIN queue[g] : queue[g][i] = c

(* open(orsin, O_WRONLY) is tried until the name exists, and then waits    *)
(* for a reader of the FIFO it found.                                      *)
OpenIn(c) ==
    /\ client[c].pc = "new" /\ inName # 0
    /\ SetClient(c, [pc |-> IF HasReader(inName) THEN "opened" ELSE "blocked",
                     in |-> inName, out |-> 0])
    /\ alone' = (alone /\ \A d \in Clients : ~Running(d) /\ ~InQueue(d) /\ cmd # d)
    /\ UNCHANGED <<listener, orsout, flags, pc, at, cmd, executed, rejected, collided, failures>>

(* A write to a FIFO nobody reads kills the tool (SIGPIPE).                *)
Write(c) ==
    /\ client[c].pc = "opened"
    /\ IF HasReader(client[c].in)
       THEN /\ SetClient(c, [client[c] EXCEPT !.pc = "written"])
            /\ queue' = [queue EXCEPT ![client[c].in] = Append(@, c)]
       ELSE /\ SetClient(c, [client[c] EXCEPT !.pc = "failed"])
            /\ UNCHANGED queue
    /\ UNCHANGED <<inName, outName, plain, ors_read_fd, stale, leaked, orsout, flags, pc, at,
                   cmd, history>>

OpenOut(c) ==
    /\ client[c].pc = "written"
    /\ SetClient(c, [client[c] EXCEPT
                       !.pc = CASE outName = 0 -> "failed"
                                [] outName \in plain -> "reading"
                                [] orsout.ptr = "open" /\ orsout.gen = outName -> "reading"
                                [] OTHER -> "outwait",
                       !.out = outName])
    /\ UNCHANGED <<listener, orsout, flags, pc, at, cmd, history>>

(* read returns 0 once no writer holds the FIFO, and at the end of a file. *)
ReadAll(c) ==
    /\ client[c].pc = "reading"
    /\ ~(orsout.ptr = "open" /\ orsout.gen = client[c].out) \/ client[c].out \in plain
    /\ SetClient(c, [client[c] EXCEPT !.pc = "done"])
    /\ UNCHANGED <<listener, orsout, flags, pc, at, cmd, history>>

-----------------------------------------------------------------------------
GuiStep == \/ gui_startPage \/ RunPages \/ EndPage \/ ReadCommand \/ Fopen
           \/ RejectBusy \/ RunBuiltin \/ StartCommand \/ GuiBack \/ Done(gui)
ThreadStep(w) == operation_start(w) \/ operation_end(w) \/ ThreadExit(w)
                 \/ Run_CLI_Command(w) \/ Done(w)
ClientStep(c) == Write(c) \/ OpenOut(c) \/ ReadAll(c)

Next ==
    \/ GuiStep \/ PageDone \/ FopenFails
    \/ \E w \in Works : ThreadStep(w)
    \/ \E u \in UserActions : StartAction(u)
    \/ \E c \in Clients : OpenIn(c) \/ ClientStep(c)

(* The threads and the tool go on; the user and the failures need not.     *)
Fairness == /\ WF_vars(GuiStep)
            /\ \A w \in Works : WF_vars(ThreadStep(w))
            /\ \A c \in Clients : WF_vars(ClientStep(c))

Spec == Init /\ [][Next]_vars /\ Fairness

-----------------------------------------------------------------------------
Pcs == {"startPage", "runPages", "loop", "fopen", "opening", "ran", "back", "none",
        "refused", "created", "busy", "between", "busyAgain", "ended", "gone"}

TypeOK ==
    /\ {inName, outName, ors_read_fd} \subseteq 0..Len(queue)
    /\ leaked \subseteq 1..Len(queue) /\ plain \subseteq 1..Len(queue)
    /\ queue \in Seq(Seq(Clients))
    /\ orsout \in [ptr : {"null", "opening", "open", "closed"}, gen : 0..Len(queue),
                   of : Clients \cup {NoCmd}]
    /\ stale \in BOOLEAN /\ tw_busy \in BOOLEAN /\ m_thread_running \in BOOLEAN
    /\ tw_page_done \in BOOLEAN /\ alone \in BOOLEAN /\ collided \in BOOLEAN
    /\ page \in 1..Len(Pages)
    /\ pc \in [Works \cup {gui} -> Pcs]
    /\ at \in [Works \cup {gui} -> DOMAIN Following \cup {"none", "restart"}]
    /\ cmd \in Clients \cup {NoCmd}
    /\ client \in [Clients -> [pc : {"new", "blocked", "opened", "written", "outwait",
                                     "reading", "done", "failed"},
                               in : 0..Len(queue), out : 0..Len(queue)]]
    /\ executed \in [Clients -> Nat] /\ rejected \subseteq Clients
    /\ failures \in 0..MaxFailures

(* ActionThread::threadActions: however the GUI thread and the action      *)
(* threads start actions, at most one of them is running.                  *)
OneActionAtATime ==
    Cardinality({w \in Works : pc[w] \notin {"none", "refused", "gone"}}) <= 1

(* ors_command_read: the answer that is open is the one of the command the *)
(* action thread is running, whatever other clients write meanwhile.       *)
AnswerOfRunningCommand ==
    \A c \in Clients : pc[c] \in {"created", "busy", "ran"} =>
        orsout.ptr = "open" /\ orsout.of = c

(* A twrp tool that ran alone, no command of another one being underway,   *)
(* and ended with exit code 0 has had its command executed, once, or has   *)
(* been told that it was not.  Excepted is a tool that found a regular     *)
(* file, which an fopen between unlink and mkfifo creates: it does not     *)
(* wait at the end of a file.                                              *)
ExitMeansHandled ==
    /\ \A c \in Clients : executed[c] <= 1
    /\ alone => \A c \in Clients :
          client[c].pc = "done" /\ client[c].out \notin plain
              => (executed[c] = 1) # (c \in rejected)

(* ors_command_done and gui_startPage: whichever of the two threads has    *)
(* restarted the listener last, and however their calls are interleaved, a *)
(* recovery at rest on a page that allows commands listens to the FIFO     *)
(* that the name denotes.  Excepted is what follows a mkfifo that found    *)
(* the name taken, or an open that found it gone, because the other thread *)
(* was at work between the calls; the next set-up that no other thread is  *)
(* at work on ends the exception.                                          *)
Quiet == Ready(gui, "loop") /\ \A w \in Works : pc[w] \in {"none", "refused", "gone"}
ListensToTheName ==
    Quiet /\ Pages[page] /\ failures = 0 /\ ~collided /\ orsout.ptr = "null"
        => inName # 0 /\ ors_read_fd = inName

(* Run_CLI_Command calls ors_command_done on every path: a tool that runs  *)
(* alone and whose command was started reads the end of its answer, unless *)
(* that was written to a regular file.                                     *)
StartedIsAnswered ==
    \A c \in Clients :
        pc[c] = "created" /\ orsout.gen \notin plain ~> client[c].pc = "done" \/ ~alone

(* "orsout is non-NULL if a command is still running" (gui.cpp:634).       *)
OrsoutMeansRunning ==
    orsout.ptr # "null" =>
        \/ pc[gui] \in {"opening", "ran"}
        \/ \E c \in Clients : pc[c] \in {"created", "busy", "ran"}
=============================================================================
