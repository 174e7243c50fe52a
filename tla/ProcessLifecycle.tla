-------------------------- MODULE ProcessLifecycle --------------------------
(***************************************************************************)
(* How processes are launched, attached to and let go (manageddebugger.cpp *)
(* below Initialize, Launch, Attach, ConfigurationDone and Disconnect, and *)
(* the commands of both protocols that call them).                         *)
(*                                                                         *)
(* The protocol thread executes one command after the other.  dbgshim      *)
(* calls StartupCallback on a thread of its own when the runtime of a      *)
(* launched process is up, and the runtime calls CreateProcess and         *)
(* ExitProcess on another.  They meet in m_pProcess, in the startup flag   *)
(* with its mutex and in m_processAttachedState.                           *)
(***************************************************************************)
EXTENDS Naturals, Sequences

CONSTANTS
  Others,       \* processes that run already and may be attached to
  Children,     \* processes that may be launched, each once
  NoPid,
  Stubborn,     \* those that may resist: not stop, not die, or block a callback
  Interpreters  \* "mi" or "vscode", as the command line says

Pids == Others \cup Children

ASSUME LifecycleAssumption ==
  /\ Others \cap Children = {} /\ NoPid \notin Pids /\ Stubborn \subseteq Pids
  /\ Interpreters \subseteq {"mi", "vscode"}

VARIABLES
  os,          \* pid -> "unborn", "suspended", "running" or "dead"
  chan,        \* pid -> how far the runtime's callbacks about it have come
  interp,      \* the interpreter
  cmd,         \* the command being executed
  calls,       \* the calls of it still to be made
  cpc,         \* the protocol thread
  after,       \* where TerminateProcess returns to
  startMethod, \* m_startMethod: "none", "launch" or "attach"
  configured,  \* m_isConfigurationDone
  process,     \* m_pProcess and m_pDebug
  processId,   \* m_processId
  attached,    \* m_processAttachedState
  ready,       \* m_startupReady
  result,      \* SUCCEEDED(m_startupResult)
  token,       \* m_unregisterToken
  spc,         \* child -> how far its StartupCallback has come
  told,        \* pids whose exited event was sent
  blocked,     \* pids whose callback thread waits for good
  late,        \* history: launches given up after their callback had begun
  left         \* history: pids released neither dead nor detached

extVars == <<os, chan, blocked, left>>
cmdVars == <<interp, cmd, calls, after>>
startVars == <<ready, result, token, spc, late>>
vars == <<extVars, cmdVars, cpc, startMethod, configured, process, processId, attached,
          startVars, told>>

-----------------------------------------------------------------------------
(* The calls each command makes; it stops at one that fails.               *)
MICommands ==
  [exec_run      |-> <<"Initialize", "Launch", "ConfigurationDone">>,
   target_attach |-> <<"Initialize", "Attach", "ConfigurationDone">>,
   exec_abort    |-> <<"DisconnectTerminate">>,
   target_detach |-> <<"DisconnectDetach">>,
   gdb_exit      |-> <<"DisconnectTerminate">>,
   eof           |-> <<"DisconnectTerminate">>]

VSCodeCommands ==
  [initialize           |-> <<"Initialize">>,
   launch               |-> <<"Launch">>,
   attach               |-> <<"Attach">>,
   configurationDone    |-> <<"ConfigurationDone">>,
   disconnect           |-> <<"DisconnectDefault">>,
   disconnect_terminate |-> <<"DisconnectTerminate">>,
   disconnect_detach    |-> <<"DisconnectDetach">>,
   eof                  |-> <<"DisconnectDefault">>]

CommandsOf == [mi |-> MICommands, vscode |-> VSCodeCommands]

(* The option --attach, before the command loop; if it fails, that is it.  *)
AttachOption == <<"Initialize", "Attach", "ConfigurationDone">>

Leaving == {"gdb_exit", "eof", "disconnect", "disconnect_terminate", "disconnect_detach"}

Calls == {"Initialize", "Launch", "Attach", "ConfigurationDone",
          "DisconnectDefault", "DisconnectTerminate", "DisconnectDetach"}

TypeOK ==
  /\ os \in [Pids -> {"unborn", "suspended", "running", "dead"}]
  /\ chan \in [Pids -> {"closed", "create", "open", "exiting", "notified", "exited"}]
  /\ interp \in Interpreters
  /\ cmd \in {"none", "--attach"} \cup DOMAIN MICommands \cup DOMAIN VSCodeCommands
  /\ calls \in Seq(Calls)
  /\ cpc \in {"idle", "call", "check", "kill", "waitexit", "release", "start", "waitstart",
              "joining", "over"}
  /\ cpc \notin {"idle", "over"} => calls # <<>>
  /\ cpc \in {"kill", "waitexit", "release"} => process # NoPid
  /\ after \in {"start", "return"}
  /\ startMethod \in {"none", "launch", "attach"}
  /\ configured \in BOOLEAN
  /\ process \in Pids \cup {NoPid}
  /\ processId \in Pids \cup {NoPid}
  /\ attached \in BOOLEAN
  /\ ready \in BOOLEAN /\ result \in BOOLEAN
  /\ token \in Children \cup {NoPid}
  /\ spc \in [Children -> {"none", "registered", "called", "done"}]
  /\ told \in SUBSET Pids
  /\ blocked \in SUBSET Pids
  /\ late \in SUBSET Children /\ left \in SUBSET Pids

Init ==
  /\ os = [p \in Pids |-> IF p \in Others THEN "running" ELSE "unborn"]
  /\ chan = [p \in Pids |-> "closed"]
  /\ interp \in Interpreters
  /\ \/ cmd = "none" /\ calls = <<>> /\ cpc = "idle"
     \/ cmd = "--attach" /\ calls = AttachOption /\ cpc = "call"
  /\ after = "return"
  /\ startMethod = "none" /\ configured = FALSE
  /\ process = NoPid /\ processId = NoPid
  /\ attached = FALSE
  /\ ready = FALSE /\ result = TRUE /\ token = NoPid
  /\ spc = [p \in Children |-> "none"]
  /\ told = {} /\ blocked = {}
  /\ late = {} /\ left = {}

-----------------------------------------------------------------------------
(* The protocol thread: commands and the calls they are made of.           *)

Command(c) ==
  /\ cpc = "idle" /\ cpc' = "call"
  /\ cmd' = c /\ calls' = CommandsOf[interp][c]
  /\ UNCHANGED <<extVars, interp, after, startMethod, configured, process, processId, attached,
                 startVars, told>>

(* A call returns, and the command goes on to its next call or is answered. *)
Return(ok) ==
  LET last == ~ok \/ Len(calls) = 1
  IN /\ calls' = IF last THEN <<>> ELSE Tail(calls)
     /\ cpc' = IF ~last THEN "call"
               ELSE IF cmd \in Leaving \/ (cmd = "--attach" /\ ~ok) THEN "over" ELSE "idle"
     /\ cmd' = IF last THEN "none" ELSE cmd
     /\ UNCHANGED interp

Calling(c) == cpc = "call" /\ Head(calls) = c

Initialize ==
  /\ Calling("Initialize")
  /\ startMethod' = "none"
  /\ Return(TRUE)
  /\ UNCHANGED <<extVars, after, configured, process, processId, attached, startVars, told>>

(* RunIfReady: nothing is started before both the method is known and the  *)
(* configuration is done.                                                  *)
RunIfReady ==
  IF startMethod' = "none" \/ ~configured' THEN Return(TRUE)
  ELSE cpc' = "check" /\ UNCHANGED <<interp, cmd, calls>>

(* Launch takes m_breakpointsMutex, in SetStopAtEntry.                     *)
Launch ==
  /\ Calling("Launch") /\ blocked = {}
  /\ startMethod' = "launch" /\ UNCHANGED configured
  /\ RunIfReady
  /\ UNCHANGED <<extVars, after, process, processId, attached, startVars, told>>

Attach ==
  /\ Calling("Attach")
  /\ startMethod' = "attach" /\ UNCHANGED configured
  /\ processId' \in Others
  /\ RunIfReady
  /\ UNCHANGED <<extVars, after, process, attached, startVars, told>>

ConfigurationDone ==
  /\ Calling("ConfigurationDone")
  /\ configured' = TRUE /\ UNCHANGED startMethod
  /\ RunIfReady
  /\ UNCHANGED <<extVars, after, process, processId, attached, startVars, told>>

\* Mutation of CheckNoProcess: nobody looks for a process.
CheckNoProcess_Skipped ==
  /\ cpc = "check" /\ cpc' = "start"
  /\ UNCHANGED <<extVars, cmdVars, startMethod, configured, process, processId, attached,
                 startVars, told>>

(* CheckNoProcess: a process that was not reported, or has exited, is      *)
(* ended; one that is attached is refused.                                 *)
CheckNoProcess ==
  /\ cpc = "check"
  /\ \/ process = NoPid /\ cpc' = "start" /\ UNCHANGED <<cmdVars>>
     \/ process # NoPid /\ attached /\ Return(FALSE) /\ UNCHANGED after
     \/ /\ process # NoPid /\ ~attached
        /\ cpc' = "kill" /\ after' = "start" /\ UNCHANGED <<interp, cmd, calls>>
  /\ UNCHANGED <<extVars, startMethod, configured, process, processId, attached, startVars,
                 told>>

-----------------------------------------------------------------------------
(* Letting go.                                                             *)

(* ICorDebug::Terminate lets a callback under way return and closes the    *)
(* channel: what the runtime still had to report is not reported any more. *)
(* It refuses while the process is neither dead nor detached; nobody looks *)
(* at that, and the process stays debugged with nothing that holds it.     *)
Quiet == chan[process] \notin {"exiting", "notified"} /\ process \notin blocked

ReleaseDebug(gone) ==
  /\ process' = NoPid
  /\ \/ gone /\ Quiet /\ chan' = [chan EXCEPT ![process] = "closed"] /\ UNCHANGED left
     \/ ~gone /\ left' = left \cup {process} /\ UNCHANGED chan

(* Disconnect answers E_FAIL without a process, and by default without a   *)
(* start method; both protocols answer the client S_OK.                    *)
TerminateCalled ==
  \/ Calling("DisconnectTerminate")
  \/ Calling("DisconnectDefault") /\ startMethod = "launch"
DetachCalled ==
  \/ Calling("DisconnectDetach")
  \/ Calling("DisconnectDefault") /\ startMethod = "attach"

DisconnectFails ==
  /\ \/ (TerminateCalled \/ DetachCalled) /\ process = NoPid
     \/ Calling("DisconnectDefault") /\ startMethod = "none"
  /\ Return(TRUE)
  /\ UNCHANGED <<extVars, after, startMethod, configured, process, processId, attached,
                 startVars, told>>

Disconnect ==
  /\ TerminateCalled /\ process # NoPid
  /\ cpc' = "kill" /\ after' = "return"
  /\ UNCHANGED <<extVars, interp, cmd, calls, startMethod, configured, process, processId,
                 attached, startVars, told>>

\* Mutation of DetachFromProcess: the process is stopped and never detached.
DetachFromProcess_StopsOnly ==
  /\ DetachCalled /\ process # NoPid /\ process' = NoPid
  /\ Return(TRUE)
  /\ UNCHANGED <<extVars, after, startMethod, configured, processId, attached, startVars, told>>

(* DetachFromProcess deletes the breakpoints, under m_breakpointsMutex, and *)
(* detaches only if the process could be stopped; it releases it in any    *)
(* case and leaves m_processAttachedState as it is.                        *)
DetachFromProcess ==
  /\ DetachCalled /\ process # NoPid
  /\ \/ blocked = {} /\ ReleaseDebug(TRUE)
     \/ process \in Stubborn /\ ReleaseDebug(os[process] = "dead")
  /\ Return(TRUE)
  /\ UNCHANGED <<os, blocked, after, startMethod, configured, processId, attached, startVars,
                 told>>

(* TerminateProcess kills the process, waits for its ExitProcess if it was *)
(* reported, and releases it; whether ICorDebugProcess::Terminate fails is *)
(* not looked at.                                                          *)
KillProcess ==
  /\ cpc = "kill" /\ cpc' = "waitexit"
  /\ \/ os' = [os EXCEPT ![process] = "dead"]
     \/ process \in Stubborn /\ os' = os
  /\ UNCHANGED <<chan, blocked, left, cmdVars, startMethod, configured, process, processId,
                 attached, startVars, told>>

WaitProcessExited ==
  /\ cpc = "waitexit" /\ cpc' = "release"
  /\ ~attached
  /\ UNCHANGED <<extVars, cmdVars, startMethod, configured, process, processId, attached,
                 startVars, told>>

ReleaseProcess ==
  /\ cpc = "release"
  /\ ReleaseDebug(os[process] = "dead")
  /\ after' = "return"
  /\ IF after = "start" THEN cpc' = "start" /\ UNCHANGED <<interp, cmd, calls>> ELSE Return(TRUE)
  /\ UNCHANGED <<os, blocked, startMethod, configured, processId, attached, startVars, told>>

-----------------------------------------------------------------------------
(* Starting.                                                               *)

(* AttachToProcess: no runtime in it or no interface for it, or Startup    *)
(* fails.                                                                  *)
AttachToProcess ==
  /\ cpc = "start" /\ startMethod = "attach"
  /\ \/ Return(FALSE) /\ UNCHANGED <<chan, process, token>>
     \/ UNCHANGED <<chan, process>> /\ token' = NoPid /\ Return(FALSE)
     \/ /\ os[processId] = "running" /\ chan[processId] = "closed"
        /\ chan' = [chan EXCEPT ![processId] = "create"] /\ process' = processId
        /\ token' = NoPid
        /\ Return(TRUE)
  /\ UNCHANGED <<os, blocked, left, after, startMethod, configured, processId, attached, ready,
                 result, spc, late, told>>

(* The system gives a new process a number of its own: any, so one of them. *)
NewPid == CHOOSE p \in Children : os[p] = "unborn"

(* RunProcess up to its wait: the process is created suspended, the        *)
(* callback registered, the process resumed; each of them may fail and     *)
(* leaves what was done before.                                            *)
RunProcess ==
  /\ cpc = "start" /\ startMethod = "launch"
  /\ ready' = FALSE
  /\ \/ Return(FALSE) /\ UNCHANGED <<os, processId, token, spc>>
     \/ \E p \in Children :
          /\ os[p] = "unborn" /\ p = NewPid /\ processId' = p
          /\ \/ os' = [os EXCEPT ![p] = "suspended"] /\ Return(FALSE) /\ UNCHANGED <<token, spc>>
             \/ /\ spc' = [spc EXCEPT ![p] = "registered"] /\ token' = p
                /\ \/ os' = [os EXCEPT ![p] = "suspended"] /\ Return(FALSE)
                   \/ /\ os' = [os EXCEPT ![p] = "running"]
                      /\ cpc' = "waitstart" /\ UNCHANGED <<interp, cmd, calls>>
  /\ UNCHANGED <<chan, blocked, left, after, startMethod, configured, process, attached, result,
                 late, told>>

StartupReturns ==
  /\ cpc = "waitstart" /\ ready
  /\ Return(result)
  /\ UNCHANGED <<extVars, after, startMethod, configured, process, processId, attached,
                 startVars, told>>

\* Mutation of StartupTimeout: the wait has no timeout.
StartupTimeout_Never == FALSE /\ UNCHANGED vars

\* Mutation of StartupTimeout: the callback stays registered.
StartupTimeout_StaysRegistered ==
  /\ cpc = "waitstart" /\ ~ready /\ token # NoPid
  /\ token' = NoPid
  /\ Return(FALSE)
  /\ UNCHANGED <<extVars, after, startMethod, configured, process, processId, attached, ready,
                 result, spc, late, told>>

(* The timeout, taken under m_startupMutex.  A callback that has not begun *)
(* is unregistered.  One that waits for the mutex is either waited for, by *)
(* the thread that holds it, or comes late: dbgshim decides.               *)
StartupTimeout ==
  /\ cpc = "waitstart" /\ ~ready
  /\ token' = NoPid
  /\ IF token # NoPid /\ spc[token] = "called"
     THEN /\ late' = late \cup {token} /\ UNCHANGED spc
          /\ \/ Return(FALSE)
             \/ cpc' = "joining" /\ UNCHANGED <<interp, cmd, calls>>
     ELSE /\ spc' = [p \in Children |-> IF p = token THEN "done" ELSE spc[p]]
          /\ Return(FALSE) /\ UNCHANGED late
  /\ UNCHANGED <<extVars, after, startMethod, configured, process, processId, attached, ready,
                 result, told>>

(* dbgshim notices that the runtime of a resumed process is up.            *)
RuntimeStartup(p) ==
  /\ spc[p] = "registered" /\ os[p] = "running"
  /\ spc' = [spc EXCEPT ![p] = "called"]
  /\ UNCHANGED <<extVars, cmdVars, cpc, startMethod, configured, process, processId, attached,
                 ready, result, token, late, told>>

(* StartupCallback takes the mutex and attaches to whatever m_processId is *)
(* by then.                                                                *)
StartupCallback(p) ==
  /\ spc[p] = "called" /\ cpc # "joining"
  /\ spc' = [q \in Children |-> IF q = p \/ (q = token /\ spc[q] = "registered") THEN "done"
                                ELSE spc[q]]
  /\ ready' = TRUE /\ token' = NoPid
  /\ \/ result' = FALSE /\ UNCHANGED <<chan, process>>
     \/ /\ processId # NoPid /\ os[processId] = "running"
        /\ chan[processId] = "closed"
        /\ result' = TRUE
        /\ chan' = [chan EXCEPT ![processId] = "create"] /\ process' = processId
  /\ UNCHANGED <<os, blocked, left, cmdVars, cpc, startMethod, configured, processId, attached,
                 late, told>>

-----------------------------------------------------------------------------
(* The runtime's callbacks.                                                *)

(* A callback waits for good: a condition is being evaluated under         *)
(* m_breakpointsMutex, which Exception waits for, and the thread that      *)
(* waits is the one that would report the end of the evaluation.           *)
CallbackBlocks(p) ==
  /\ chan[p] = "open" /\ p \in Stubborn \ blocked /\ blocked' = blocked \cup {p}
  /\ UNCHANGED <<os, chan, left, cmdVars, cpc, startMethod, configured, process, processId,
                 attached, startVars, told>>

CreateProcess(p) ==
  /\ chan[p] = "create" /\ chan' = [chan EXCEPT ![p] = "open"]
  /\ attached' = TRUE
  /\ UNCHANGED <<os, blocked, left, cmdVars, cpc, startMethod, configured, process, processId,
                 startVars, told>>

ProcessExits(p) ==
  /\ os[p] = "running" /\ os' = [os EXCEPT ![p] = "dead"]
  /\ UNCHANGED <<chan, blocked, left, cmdVars, cpc, startMethod, configured, process, processId,
                 attached, startVars, told>>

\* Mutation of ExitProcess: the waiting thread is woken before the client is told.
ExitProcess_NotifyFirst(p) ==
  /\ chan[p] = "open" /\ os[p] = "dead" /\ p \notin blocked
  /\ chan' = [chan EXCEPT ![p] = "exiting"]
  /\ attached' = FALSE
  /\ UNCHANGED <<os, blocked, left, cmdVars, cpc, startMethod, configured, process, processId,
                 startVars, told>>

(* ExitProcess tells the client, wakes the thread that waits for it and    *)
(* only then sends the terminated event.                                   *)
ExitProcess(p) ==
  /\ chan[p] = "open" /\ os[p] = "dead" /\ p \notin blocked
  /\ chan' = [chan EXCEPT ![p] = "exiting"]
  /\ told' = told \cup {p}
  /\ UNCHANGED <<os, blocked, left, cmdVars, cpc, startMethod, configured, process, processId,
                 attached, startVars>>

NotifyProcessExited(p) ==
  /\ chan[p] = "exiting" /\ chan' = [chan EXCEPT ![p] = "notified"]
  /\ attached' = FALSE
  /\ UNCHANGED <<os, blocked, left, cmdVars, cpc, startMethod, configured, process, processId,
                 startVars, told>>

EmitTerminatedEvent(p) ==
  /\ chan[p] = "notified" /\ chan' = [chan EXCEPT ![p] = "exited"]
  /\ UNCHANGED <<os, blocked, left, cmdVars, cpc, startMethod, configured, process, processId,
                 attached, startVars, told>>

-----------------------------------------------------------------------------
Client == \E c \in DOMAIN CommandsOf[interp] : Command(c)

Protocol ==
  \/ Initialize \/ Launch \/ Attach \/ ConfigurationDone \/ CheckNoProcess
  \/ DisconnectFails \/ Disconnect \/ DetachFromProcess
  \/ KillProcess \/ WaitProcessExited \/ ReleaseProcess
  \/ AttachToProcess \/ RunProcess \/ StartupReturns \/ StartupTimeout

Callbacks(p) == CreateProcess(p) \/ ExitProcess(p) \/ NotifyProcessExited(p)
                \/ EmitTerminatedEvent(p)

Startups(p) == RuntimeStartup(p) \/ StartupCallback(p)

Next ==
  \/ Client \/ Protocol
  \/ \E p \in Pids : Callbacks(p) \/ CallbackBlocks(p) \/ ProcessExits(p)
  \/ \E p \in Children : Startups(p)

(* Threads that can run do run, and the timeout passes; whether a runtime  *)
(* comes up, a process exits by itself, a callback comes to wait for good  *)
(* or a client says anything is open.                                      *)
Fairness ==
  /\ WF_vars(Protocol)
  /\ \A p \in Pids : WF_vars(Callbacks(p))
  /\ \A p \in Children : WF_vars(StartupCallback(p))

Spec == Init /\ [][Next]_vars /\ Fairness

-----------------------------------------------------------------------------
(* OneDebuggee: unless a launch was given up while its callback was on its *)
(* way, every process the runtime reports to is the one the debugger       *)
(* holds, whatever failed in starting and ending earlier ones: no process  *)
(* stays attached that no command can reach any more, but one that could   *)
(* be neither killed nor stopped when it was let go.                       *)
OneDebuggee ==
  late = {} => \A p \in Pids : chan[p] \in {"create", "open"} => process = p \/ p \in left

Free == process = NoPid

(* NothingLeftDebugged: when the command loop is over, no process is left  *)
(* attached, however it ended, but one that could be neither killed nor    *)
(* stopped; unless the client of the VSCode protocol initialized again and *)
(* let the debugger decide.                                                *)
NothingLeftDebugged ==
  cpc = "over" /\ late = {} =>
    \/ interp = "vscode" /\ startMethod = "none"
    \/ \A p \in Pids : chan[p] \in {"create", "open"} => p \in left

(* LifecycleInv: the inductive invariant behind the properties.  Unless a  *)
(* launch was given up too late, the callback can only come while          *)
(* RunProcess waits for it, and then nothing is attached (StartInv); the   *)
(* flag and the client know of the process whatever ended before           *)
(* (ProcessInv); and a command that leaves ends in a disconnect, after     *)
(* which no process is held (CommandInv).                                  *)
Waiting(p) == cpc = "waitstart" /\ ~ready /\ processId = p

StartInv ==
  /\ cpc = "start" => Free
  /\ cpc = "waitstart" /\ ~ready => Free /\ processId = token /\ token # NoPid
  /\ cpc # "joining"
  /\ \A p \in Children :
       /\ spc[p] = "registered" => os[p] \in {"suspended", "dead"} \/ Waiting(p)
       /\ spc[p] = "called" => Waiting(p)

ProcessInv ==
  /\ \A p \in Pids : chan[p] # "closed" => process = p \/ p \in left
  /\ left = {} => \A p \in Pids : chan[p] = "open" => attached
  /\ \A p \in Pids : chan[p] \in {"exiting", "notified", "exited"} => p \in told
  /\ process # NoPid => chan[process] # "closed"

CommandInv ==
  /\ (cmd = "none") = (cpc \in {"idle", "over"})
  /\ cmd = "--attach" =>
       /\ Free /\ startMethod # "launch"
       /\ \/ cpc = "call" /\ ~configured
             /\ calls \in {AttachOption, <<"Attach", "ConfigurationDone">>,
                           <<"ConfigurationDone">>}
          \/ cpc \in {"check", "start"} /\ calls = <<"ConfigurationDone">>
  /\ cmd \in Leaving =>
       /\ cpc \in {"call", "kill", "waitexit", "release"} /\ after = "return"
       /\ \/ calls \in {<<"DisconnectTerminate">>, <<"DisconnectDetach">>}
          \/ calls = <<"DisconnectDefault">> /\ interp = "vscode"
  /\ after = "start" => cpc \in {"kill", "waitexit", "release"}
  /\ cpc = "over" => Free \/ (interp = "vscode" /\ startMethod = "none")

LifecycleInv ==
  /\ TypeOK
  /\ late = {} => StartInv /\ ProcessInv /\ CommandInv

(* ToldBeforeReleased: TerminateProcess goes on only when the client has   *)
(* been told of the exit of this very process, although it waits for a     *)
(* flag that all processes share and that a detach leaves standing; unless *)
(* the runtime had not reported the process yet, or one was released that  *)
(* goes on reporting.                                                      *)
ToldBeforeReleased ==
  [][cpc = "waitexit" /\ cpc' = "release" /\ late = {} /\ left = {} =>
       process \in told \/ chan[process] = "create"]_vars

(* Stranded: where a command waits for what may never come.  The callback  *)
(* thread waits for good, and with it whoever wants m_breakpointsMutex,    *)
(* the exit of the process or the end of its callbacks; the process did    *)
(* not die of ICorDebugProcess::Terminate; or one that was released while  *)
(* it was debugged holds up the flag.                                      *)
Stranded ==
  \/ blocked # {} /\ (Calling("Launch") \/ DetachCalled)
  \/ process \in blocked /\ cpc \in {"waitexit", "release"}
  \/ cpc = "waitexit" /\ os[process] # "dead"
  \/ cpc = "waitexit" /\ \E p \in left : chan[p] = "open"

(* CommandAnswered: every command is answered, whatever processes do at    *)
(* the same time, but one that is stranded, or comes after a launch that   *)
(* was given up while its callback was on its way.                         *)
CommandAnswered == (cpc = "call") ~> (cpc \in {"idle", "over"} \/ late # {} \/ Stranded)

(* DefaultDetaches: "Attach -> Detach", debugger.h says of the default     *)
(* disconnect.                                                             *)
DefaultDetaches ==
  [][Calling("DisconnectDefault") /\ process \in Others /\ os[process] = "running"
       /\ chan[process] = "open" =>
       (cpc' # "kill" /\ (cpc' = "over" => process' = NoPid))]_vars
=============================================================================
