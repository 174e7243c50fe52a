------------------------ MODULE ProcessLifecycle_proof ------------------------
(***************************************************************************)
(* The proofs about ProcessLifecycle: the debugger holds the one process   *)
(* it debugs, leaves none behind, and tells the client of every exit.      *)
(***************************************************************************)
EXTENDS ProcessLifecycle, SequenceTheorems, TLAPS

USE LifecycleAssumption

(* What the commands are made of.                                          *)
LEMMA CallsAreSequences == \A x \in Calls : <<x>> \in Seq(Calls) /\ <<x>> # <<>>
  OBVIOUS

LEMMA CommandsTyped ==
  ASSUME NEW i \in Interpreters, NEW c \in DOMAIN CommandsOf[i]
  PROVE  /\ CommandsOf[i][c] \in Seq(Calls) /\ CommandsOf[i][c] # <<>>
         /\ c \in DOMAIN MICommands \cup DOMAIN VSCodeCommands
         /\ c \notin {"none", "--attach"}
         /\ c \in Leaving =>
              \/ CommandsOf[i][c] \in {<<"DisconnectTerminate">>, <<"DisconnectDetach">>}
              \/ CommandsOf[i][c] = <<"DisconnectDefault">> /\ i = "vscode"
<1>1. {"Initialize", "Launch", "Attach", "ConfigurationDone", "DisconnectDefault",
       "DisconnectTerminate", "DisconnectDetach"} \subseteq Calls
  BY DEF Calls
<1>2. CommandsOf["mi"] = MICommands /\ CommandsOf["vscode"] = VSCodeCommands
  BY DEF CommandsOf
<1>3. CASE i = "mi"
  <2>1. c \in DOMAIN MICommands
    BY <1>2, <1>3
  <2>2. c \in {"exec_run", "target_attach", "exec_abort", "target_detach", "gdb_exit", "eof"}
    BY <2>1 DEF MICommands
  <2>3. /\ MICommands["exec_run"] = <<"Initialize", "Launch", "ConfigurationDone">>
        /\ MICommands["target_attach"] = <<"Initialize", "Attach", "ConfigurationDone">>
        /\ MICommands["exec_abort"] = <<"DisconnectTerminate">>
        /\ MICommands["target_detach"] = <<"DisconnectDetach">>
        /\ MICommands["gdb_exit"] = <<"DisconnectTerminate">>
        /\ MICommands["eof"] = <<"DisconnectTerminate">>
    BY DEF MICommands
  <2>4. MICommands[c] \in Seq(Calls) /\ MICommands[c] # <<>>
    <3>1. CASE c = "exec_run"
      <4>1. <<"Initialize", "Launch", "ConfigurationDone">> \in Seq(Calls)
        BY DEF Calls
      <4>2. <<"Initialize", "Launch", "ConfigurationDone">> # <<>>
        OBVIOUS
      <4> QED BY <2>3, <3>1, <4>1, <4>2, Zenon
    <3>2. CASE c = "target_attach"
      <4>1. <<"Initialize", "Attach", "ConfigurationDone">> \in Seq(Calls)
        BY DEF Calls
      <4>2. <<"Initialize", "Attach", "ConfigurationDone">> # <<>>
        OBVIOUS
      <4> QED BY <2>3, <3>2, <4>1, <4>2, Zenon
    <3>3. CASE c \in {"exec_abort", "target_detach", "gdb_exit", "eof"}
      BY <1>1, <2>3, <3>3, CallsAreSequences
    <3> QED BY <2>2, <3>1, <3>2, <3>3
  <2> QED BY <1>2, <1>3, <2>1, <2>2, <2>3, <2>4 DEF Leaving
<1>4. CASE i = "vscode"
  <2>1. c \in DOMAIN VSCodeCommands
    BY <1>2, <1>4
  <2>2. c \in {"initialize", "launch", "attach", "configurationDone", "disconnect",
               "disconnect_terminate", "disconnect_detach", "eof"}
    BY <2>1 DEF VSCodeCommands
  <2>3. /\ VSCodeCommands["initialize"] = <<"Initialize">>
        /\ VSCodeCommands["launch"] = <<"Launch">>
        /\ VSCodeCommands["attach"] = <<"Attach">>
        /\ VSCodeCommands["configurationDone"] = <<"ConfigurationDone">>
        /\ VSCodeCommands["disconnect"] = <<"DisconnectDefault">>
        /\ VSCodeCommands["disconnect_terminate"] = <<"DisconnectTerminate">>
        /\ VSCodeCommands["disconnect_detach"] = <<"DisconnectDetach">>
        /\ VSCodeCommands["eof"] = <<"DisconnectDefault">>
    BY DEF VSCodeCommands
  <2>4. VSCodeCommands[c] \in Seq(Calls) /\ VSCodeCommands[c] # <<>>
    BY <1>1, <2>2, <2>3, CallsAreSequences
  <2> QED BY <1>2, <1>4, <2>1, <2>2, <2>3, <2>4 DEF Leaving
<1> QED BY <1>3, <1>4

(* What the return of a call does to the command.                          *)
LEMMA Returns ==
  ASSUME calls \in Seq(Calls), calls # <<>>, NEW ok \in BOOLEAN, Return(ok)
  PROVE  /\ calls' \in Seq(Calls) /\ interp' = interp
         /\ \/ /\ cpc' = "call" /\ cmd' = cmd /\ ok
               /\ calls' = Tail(calls) /\ calls' # <<>> /\ Len(calls) > 1
            \/ /\ cpc' = "idle" /\ cmd' = "none" /\ calls' = <<>>
               /\ cmd \notin Leaving /\ (cmd = "--attach" => ok)
            \/ /\ cpc' = "over" /\ cmd' = "none" /\ calls' = <<>>
               /\ cmd \in Leaving \/ (cmd = "--attach" /\ ~ok)
<1>1. calls \in Seq(Calls) /\ Len(calls) \in Nat /\ Len(calls) # 0
  BY EmptySeq, LenProperties
<1>2. Tail(calls) \in Seq(Calls) /\ Len(Tail(calls)) = Len(calls) - 1
  BY <1>1, HeadTailProperties
<1>3. <<>> \in Seq(Calls)
  BY EmptySeq
<1>4. Tail(calls) = <<>> => Len(calls) = 1
  <2>1. Len(<<>>) = 0
    BY EmptySeq
  <2>2. Tail(calls) = <<>> => Len(calls) - 1 = 0
    BY <1>2, <2>1, Zenon
  <2>3. \A n \in Nat : n - 1 = 0 => n = 1
    OBVIOUS
  <2> QED BY <1>1, <2>2, <2>3, Zenon
<1>5. CASE ~ok \/ Len(calls) = 1
  BY <1>3, <1>5 DEF Return
<1>6. CASE ok /\ Len(calls) # 1
  BY <1>1, <1>2, <1>4, <1>6 DEF Return
<1> QED BY <1>5, <1>6

(* What RunIfReady does to the command.                                    *)
LEMMA RunsIfReady ==
  ASSUME calls \in Seq(Calls), calls # <<>>, RunIfReady
  PROVE  /\ calls' \in Seq(Calls) /\ interp' = interp /\ cmd' \in {cmd, "none"}
         /\ cpc' \in {"call", "check", "idle", "over"}
         /\ cpc' \in {"call", "check"} => calls' # <<>>
<1>1. CASE Return(TRUE)
  BY <1>1, Returns
<1>2. CASE cpc' = "check" /\ UNCHANGED <<interp, cmd, calls>>
  BY <1>2
<1> QED BY <1>1, <1>2 DEF RunIfReady

(* Every step keeps the types.                                             *)
LEMMA TypeKept ==
  ASSUME TypeOK, [Next]_vars
  PROVE  TypeOK'
<1> USE DEF extVars, cmdVars, startVars, TypeOK, Pids
<1>1. ASSUME NEW c \in DOMAIN CommandsOf[interp], Command(c) PROVE TypeOK'
  BY <1>1, CommandsTyped DEF Command
<1>2. CASE Initialize
  BY <1>2, Returns DEF Initialize, Calling
<1>3. CASE Launch
  BY <1>3, RunsIfReady DEF Launch, Calling
<1>4. CASE Attach
  BY <1>4, RunsIfReady DEF Attach, Calling
<1>5. CASE ConfigurationDone
  BY <1>5, RunsIfReady DEF ConfigurationDone, Calling
<1>6. CASE CheckNoProcess
  <2>1. /\ calls # <<>> /\ after' \in {"start", "return"}
        /\ UNCHANGED <<extVars, startMethod, configured, process, processId, attached, startVars,
                       told>>
        /\ \/ Return(FALSE)
           \/ cpc' = "start" /\ UNCHANGED <<interp, cmd, calls>>
           \/ cpc' = "kill" /\ process # NoPid /\ UNCHANGED <<interp, cmd, calls>>
    BY <1>6 DEF CheckNoProcess
  <2>2. CASE Return(FALSE)
    BY <2>1, <2>2, Returns, ZenonT(60)
  <2>3. CASE /\ cpc' = "start" \/ (cpc' = "kill" /\ process # NoPid)
             /\ UNCHANGED <<interp, cmd, calls>>
    BY <2>1, <2>3
  <2> QED BY <2>1, <2>2, <2>3
<1>7. CASE DisconnectFails
  <2>1. /\ calls # <<>> /\ Return(TRUE)
        /\ UNCHANGED <<extVars, after, startMethod, configured, process, processId, attached,
                       startVars, told>>
    BY <1>7, Zenon DEF DisconnectFails, TerminateCalled, DetachCalled, Calling
  <2> QED BY <2>1, Returns, ZenonT(60)
<1>8. CASE Disconnect
  BY <1>8 DEF Disconnect, TerminateCalled, Calling
<1>9. CASE DetachFromProcess
  <2>1. /\ chan' \in [Pids -> {"closed", "create", "open", "exiting", "notified", "exited"}]
        /\ left' \in SUBSET Pids /\ process' = NoPid
    BY <1>9 DEF DetachFromProcess, ReleaseDebug
  <2>2. /\ calls # <<>> /\ Return(TRUE)
        /\ UNCHANGED <<os, blocked, after, startMethod, configured, processId, attached, startVars,
                       told>>
    BY <1>9 DEF DetachFromProcess, DetachCalled, Calling
  <2>3. cpc' \in {"call", "idle", "over"} /\ (cpc' = "call" => calls' # <<>>)
    BY <2>2, Returns
  <2>4. calls' \in Seq(Calls) /\ interp' = interp /\ cmd' \in {cmd, "none"}
    BY <2>2, Returns
  <2> QED BY <2>1, <2>2, <2>3, <2>4
<1>10. CASE KillProcess
  <2>1. /\ os' \in [Pids -> {"unborn", "suspended", "running", "dead"}]
        /\ calls # <<>> /\ process # NoPid
    BY <1>10 DEF KillProcess
  <2>2. /\ cpc' = "waitexit"
        /\ UNCHANGED <<chan, blocked, left, cmdVars, startMethod, configured, process, processId,
                       attached, startVars, told>>
    BY <1>10 DEF KillProcess
  <2> QED BY <2>1, <2>2
<1>11. CASE WaitProcessExited
  BY <1>11 DEF WaitProcessExited
<1>12. CASE ReleaseProcess
  <2>1. \/ calls # <<>> /\ cpc' = "start" /\ UNCHANGED <<interp, cmd, calls>>
        \/ Return(TRUE)
    BY <1>12 DEF ReleaseProcess
  <2>2. CASE calls # <<>> /\ cpc' = "start" /\ UNCHANGED <<interp, cmd, calls>>
    <3>1. /\ chan' \in [Pids -> {"closed", "create", "open", "exiting", "notified", "exited"}]
          /\ left' \in SUBSET Pids /\ process' \in Pids \cup {NoPid}
      BY <1>12 DEF ReleaseProcess, ReleaseDebug, Quiet
    <3> QED BY <1>12, <2>2, <3>1 DEF ReleaseProcess
  <2>3. CASE Return(TRUE)
    BY <1>12, <2>3, Returns DEF ReleaseProcess, ReleaseDebug, Quiet
  <2> QED BY <2>1, <2>2, <2>3
<1>13. CASE AttachToProcess
  BY <1>13, Returns DEF AttachToProcess
<1>14. CASE RunProcess
  <2>1. /\ ready' \in BOOLEAN
        /\ UNCHANGED <<chan, blocked, left, after, startMethod, configured, process, attached,
                       result, late, told>>
    BY <1>14, Zenon DEF RunProcess
  <2>2. /\ os' \in [Pids -> {"unborn", "suspended", "running", "dead"}]
        /\ processId' \in Pids \cup {NoPid} /\ token' \in Children \cup {NoPid}
        /\ spc' \in [Children -> {"none", "registered", "called", "done"}]
    <3>1. CASE UNCHANGED <<os, processId, token, spc>>
      BY <3>1
    <3>2. ASSUME NEW p \in Children, processId' = p,
                 os' = os \/ os' = [os EXCEPT ![p] = "suspended"]
                          \/ os' = [os EXCEPT ![p] = "running"],
                 UNCHANGED <<token, spc>>
                 \/ (spc' = [spc EXCEPT ![p] = "registered"] /\ token' = p)
          PROVE  <2>2!:
      BY <3>2
    <3> QED BY <1>14, <3>1, <3>2 DEF RunProcess
  <2>3. /\ calls # <<>>
        /\ Return(FALSE) \/ (cpc' = "waitstart" /\ UNCHANGED <<interp, cmd, calls>>)
    BY <1>14 DEF RunProcess
  <2>4. CASE Return(FALSE)
    BY <2>1, <2>2, <2>3, <2>4, Returns
  <2>5. CASE cpc' = "waitstart" /\ UNCHANGED <<interp, cmd, calls>>
    BY <2>1, <2>2, <2>3, <2>5
  <2> QED BY <2>3, <2>4, <2>5
<1>15. CASE StartupReturns
  BY <1>15, Returns DEF StartupReturns
<1>16. CASE StartupTimeout
  <2>1. calls # <<>> /\ ready' \in BOOLEAN
    BY <1>16 DEF StartupTimeout
  <2>2. /\ late' \in SUBSET Children
        /\ spc' \in [Children -> {"none", "registered", "called", "done"}]
        /\ Return(FALSE) \/ (cpc' = "joining" /\ UNCHANGED <<interp, cmd, calls>>)
    BY <1>16 DEF StartupTimeout
  <2>3. UNCHANGED <<extVars, after, startMethod, configured, process, processId, attached, ready,
                    result, told>> /\ token' = NoPid
    BY <1>16 DEF StartupTimeout
  <2>4. CASE Return(FALSE)
    BY <2>1, <2>2, <2>3, <2>4, Returns
  <2>5. CASE cpc' = "joining" /\ UNCHANGED <<interp, cmd, calls>>
    BY <2>1, <2>2, <2>3, <2>5
  <2> QED BY <2>2, <2>4, <2>5
<1>17. ASSUME NEW p \in Pids, CreateProcess(p) PROVE TypeOK'
  BY <1>17 DEF CreateProcess
<1>18. ASSUME NEW p \in Pids, ExitProcess(p) PROVE TypeOK'
  BY <1>18 DEF ExitProcess
<1>19. ASSUME NEW p \in Pids, NotifyProcessExited(p) PROVE TypeOK'
  <2>1. attached' \in BOOLEAN /\ chan' = [chan EXCEPT ![p] = "notified"]
        /\ UNCHANGED <<os, blocked, left, cmdVars, cpc, startMethod, configured, process,
                       processId, startVars, told>>
    BY <1>19, Zenon DEF NotifyProcessExited
  <2> QED BY <2>1
<1>20. ASSUME NEW p \in Pids, EmitTerminatedEvent(p) PROVE TypeOK'
  BY <1>20 DEF EmitTerminatedEvent
<1>21. ASSUME NEW p \in Pids, ProcessExits(p) PROVE TypeOK'
  BY <1>21 DEF ProcessExits
<1>22. ASSUME NEW p \in Children, RuntimeStartup(p) PROVE TypeOK'
  BY <1>22 DEF RuntimeStartup
<1>23. ASSUME NEW p \in Children, StartupCallback(p) PROVE TypeOK'
  <2>1. /\ ready' \in BOOLEAN /\ result' \in BOOLEAN
        /\ UNCHANGED <<os, blocked, left, cmdVars, cpc, startMethod, configured, processId,
                       attached, late, told>>
    BY <1>23, Zenon DEF StartupCallback
  <2>2. /\ spc' \in [Children -> {"none", "registered", "called", "done"}]
        /\ token' \in Children \cup {NoPid}
    BY <1>23 DEF StartupCallback
  <2>3. /\ process' \in Pids \cup {NoPid} /\ (process' = process \/ process' # NoPid)
        /\ chan' \in [Pids -> {"closed", "create", "open", "exiting", "notified", "exited"}]
    BY <1>23 DEF StartupCallback
  <2> QED BY <2>1, <2>2, <2>3
<1>24. ASSUME NEW p \in Pids, CallbackBlocks(p) PROVE TypeOK'
  BY <1>24 DEF CallbackBlocks
<1>25. CASE UNCHANGED vars
  BY <1>25 DEF vars
<1> QED
  BY <1>1, <1>2, <1>3, <1>4, <1>5, <1>6, <1>7, <1>8, <1>9, <1>10, <1>11, <1>12, <1>13,
     <1>14, <1>15, <1>16, <1>17, <1>18, <1>19, <1>20, <1>21, <1>22, <1>23, <1>24, <1>25
  DEF Next, Client, Protocol, Callbacks, Startups

(* A late callback is remembered.                                          *)
LEMMA LateKept ==
  ASSUME [Next]_vars
  PROVE  late' = {} => late = {}
  BY DEF Next, Client, Protocol, Callbacks, Startups, vars, extVars, startVars, Command, Initialize, Launch, Attach, ConfigurationDone, CheckNoProcess, DisconnectFails,
     Disconnect, DetachFromProcess, KillProcess, WaitProcessExited, ReleaseProcess, AttachToProcess,
     RunProcess, StartupReturns, StartupTimeout, CreateProcess, ExitProcess, NotifyProcessExited,
     EmitTerminatedEvent, ProcessExits, CallbackBlocks, RuntimeStartup, StartupCallback

(* Every step keeps what is known of a start under way.                    *)
LEMMA StartKept ==
  ASSUME LifecycleInv, [Next]_vars
  PROVE  late' = {} => StartInv'
<1> USE DEF extVars, cmdVars, startVars, LifecycleInv, TypeOK, StartInv, Waiting, Free, Pids
<1>1. ASSUME NEW c \in DOMAIN CommandsOf[interp], Command(c) PROVE late' = {} => StartInv'
  BY <1>1, CommandsTyped DEF Command
<1>2. CASE Initialize
  BY <1>2, Returns DEF Initialize, Calling
<1>3. CASE Launch
  BY <1>3, Returns DEF Launch, Calling, RunIfReady
<1>4. CASE Attach
  BY <1>4, Returns DEF Attach, Calling, RunIfReady
<1>5. CASE ConfigurationDone
  BY <1>5, Returns DEF ConfigurationDone, Calling, RunIfReady
<1>6. CASE CheckNoProcess
  BY <1>6, Returns DEF CheckNoProcess
<1>7. CASE DisconnectFails
  BY <1>7, Returns DEF DisconnectFails, TerminateCalled, DetachCalled, Calling
<1>8. CASE Disconnect
  BY <1>8 DEF Disconnect, TerminateCalled, Calling
<1>9. CASE DetachFromProcess
  BY <1>9, Returns DEF DetachFromProcess, DetachCalled, Calling, ReleaseDebug, Quiet
<1>10. CASE KillProcess
  BY <1>10 DEF KillProcess
<1>11. CASE WaitProcessExited
  BY <1>11 DEF WaitProcessExited
<1>12. CASE ReleaseProcess
  BY <1>12, Returns DEF ReleaseProcess, ReleaseDebug, Quiet
<1>13. CASE AttachToProcess
  BY <1>13, Returns DEF AttachToProcess
<1>14. CASE RunProcess
  <2>1. UNCHANGED <<process, late>> /\ cpc = "start" /\ calls # <<>>
    BY <1>14 DEF RunProcess
  <2>2. CASE Return(FALSE) /\ UNCHANGED <<os, processId, token, spc>>
    BY <2>1, <2>2, Returns
  <2>3. ASSUME NEW p \in Children, Return(FALSE),
               os' = [os EXCEPT ![p] = "suspended"],
               UNCHANGED spc \/ spc' = [spc EXCEPT ![p] = "registered"]
        PROVE  late' = {} => StartInv'
    BY <2>1, <2>3, Returns
  <2>4. ASSUME NEW p \in Children, cpc' = "waitstart", processId' = p, token' = p,
               spc' = [spc EXCEPT ![p] = "registered"], os' = [os EXCEPT ![p] = "running"]
        PROVE  late' = {} => StartInv'
    <3>1. ~ready'
      BY <1>14 DEF RunProcess
    <3> QED BY <2>1, <2>4, <3>1
  <2> QED BY <1>14, <2>2, <2>3, <2>4 DEF RunProcess
<1>15. CASE StartupReturns
  BY <1>15, Returns DEF StartupReturns
<1>16. CASE StartupTimeout
  BY <1>16, Returns DEF StartupTimeout
<1>17. ASSUME NEW p \in Pids, CreateProcess(p) PROVE late' = {} => StartInv'
  BY <1>17 DEF CreateProcess
<1>18. ASSUME NEW p \in Pids, ExitProcess(p) PROVE late' = {} => StartInv'
  BY <1>18 DEF ExitProcess
<1>19. ASSUME NEW p \in Pids, NotifyProcessExited(p) PROVE late' = {} => StartInv'
  BY <1>19 DEF NotifyProcessExited
<1>20. ASSUME NEW p \in Pids, EmitTerminatedEvent(p) PROVE late' = {} => StartInv'
  BY <1>20 DEF EmitTerminatedEvent
<1>21. ASSUME NEW p \in Pids, ProcessExits(p) PROVE late' = {} => StartInv'
  BY <1>21 DEF ProcessExits
<1>22. ASSUME NEW p \in Children, RuntimeStartup(p) PROVE late' = {} => StartInv'
  BY <1>22 DEF RuntimeStartup
<1>23. ASSUME NEW p \in Children, StartupCallback(p) PROVE late' = {} => StartInv'
  BY <1>23 DEF StartupCallback
<1>24. ASSUME NEW p \in Pids, CallbackBlocks(p) PROVE late' = {} => StartInv'
  BY <1>24 DEF CallbackBlocks
<1>25. CASE UNCHANGED vars
  BY <1>25 DEF vars
<1> QED
  BY <1>1, <1>2, <1>3, <1>4, <1>5, <1>6, <1>7, <1>8, <1>9, <1>10, <1>11, <1>12, <1>13,
     <1>14, <1>15, <1>16, <1>17, <1>18, <1>19, <1>20, <1>21, <1>22, <1>23, <1>24, <1>25
  DEF Next, Client, Protocol, Callbacks, Startups

(* Every step keeps the debugger's idea of its process.                    *)
LEMMA ProcessKept ==
  ASSUME LifecycleInv, [Next]_vars
  PROVE  late' = {} => ProcessInv'
<1> USE DEF extVars, cmdVars, startVars, LifecycleInv, TypeOK, StartInv, ProcessInv, Waiting, Free, Pids
<1>1. ASSUME NEW c \in DOMAIN CommandsOf[interp], Command(c) PROVE late' = {} => ProcessInv'
  BY <1>1, CommandsTyped DEF Command
<1>2. CASE Initialize
  BY <1>2, Returns DEF Initialize, Calling
<1>3. CASE Launch
  BY <1>3, Returns DEF Launch, Calling, RunIfReady
<1>4. CASE Attach
  BY <1>4, Returns DEF Attach, Calling, RunIfReady
<1>5. CASE ConfigurationDone
  BY <1>5, Returns DEF ConfigurationDone, Calling, RunIfReady
<1>6. CASE CheckNoProcess
  BY <1>6, Returns DEF CheckNoProcess
<1>7. CASE DisconnectFails
  BY <1>7, Returns DEF DisconnectFails, TerminateCalled, DetachCalled, Calling
<1>8. CASE Disconnect
  BY <1>8 DEF Disconnect, TerminateCalled, Calling
<1>9. CASE DetachFromProcess
  BY <1>9, Returns DEF DetachFromProcess, DetachCalled, Calling, ReleaseDebug, Quiet
<1>10. CASE KillProcess
  BY <1>10 DEF KillProcess
<1>11. CASE WaitProcessExited
  BY <1>11 DEF WaitProcessExited
<1>12. CASE ReleaseProcess
  BY <1>12, Returns DEF ReleaseProcess, ReleaseDebug, Quiet
<1>13. CASE AttachToProcess
  <2>1. /\ calls # <<>> /\ cpc = "start" /\ UNCHANGED <<attached, told, late, left>>
        /\ \E ok \in BOOLEAN : Return(ok)
    BY <1>13 DEF AttachToProcess
  <2>2. cpc' \in {"call", "idle", "over"}
    BY <2>1, Returns
  <2>3. CASE UNCHANGED <<chan, process>>
    BY <2>1, <2>2, <2>3
  <2>4. CASE chan' = [chan EXCEPT ![processId] = "create"] /\ process' = processId
    BY <2>1, <2>2, <2>4
  <2> QED BY <1>13, <2>3, <2>4 DEF AttachToProcess
<1>14. CASE RunProcess
  BY <1>14, Returns DEF RunProcess
<1>15. CASE StartupReturns
  BY <1>15, Returns DEF StartupReturns
<1>16. CASE StartupTimeout
  BY <1>16, Returns DEF StartupTimeout
<1>17. ASSUME NEW p \in Pids, CreateProcess(p) PROVE late' = {} => ProcessInv'
  BY <1>17 DEF CreateProcess
<1>18. ASSUME NEW p \in Pids, ExitProcess(p) PROVE late' = {} => ProcessInv'
  BY <1>18 DEF ExitProcess
<1>19. ASSUME NEW p \in Pids, NotifyProcessExited(p) PROVE late' = {} => ProcessInv'
  BY <1>19 DEF NotifyProcessExited
<1>20. ASSUME NEW p \in Pids, EmitTerminatedEvent(p) PROVE late' = {} => ProcessInv'
  BY <1>20 DEF EmitTerminatedEvent
<1>21. ASSUME NEW p \in Pids, ProcessExits(p) PROVE late' = {} => ProcessInv'
  BY <1>21 DEF ProcessExits
<1>22. ASSUME NEW p \in Children, RuntimeStartup(p) PROVE late' = {} => ProcessInv'
  BY <1>22 DEF RuntimeStartup
<1>23. ASSUME NEW p \in Children, StartupCallback(p) PROVE late' = {} => ProcessInv'
  BY <1>23 DEF StartupCallback
<1>24. ASSUME NEW p \in Pids, CallbackBlocks(p) PROVE late' = {} => ProcessInv'
  BY <1>24 DEF CallbackBlocks
<1>25. CASE UNCHANGED vars
  BY <1>25 DEF vars
<1> QED
  BY <1>1, <1>2, <1>3, <1>4, <1>5, <1>6, <1>7, <1>8, <1>9, <1>10, <1>11, <1>12, <1>13,
     <1>14, <1>15, <1>16, <1>17, <1>18, <1>19, <1>20, <1>21, <1>22, <1>23, <1>24, <1>25
  DEF Next, Client, Protocol, Callbacks, Startups

(* The calls of --attach and of the commands that leave, one by one.       *)
LEMMA Heads ==
  ASSUME TypeOK, CommandInv, cpc = "call"
  PROVE  /\ cmd = "--attach" =>
              \/ Head(calls) = "Initialize" /\ calls = AttachOption
              \/ Head(calls) = "Attach" /\ calls = <<"Attach", "ConfigurationDone">>
              \/ Head(calls) = "ConfigurationDone" /\ calls = <<"ConfigurationDone">>
         /\ cmd \in Leaving =>
              \/ Head(calls) \in {"DisconnectTerminate", "DisconnectDetach"}
              \/ Head(calls) = "DisconnectDefault" /\ interp = "vscode"
  BY DEF CommandInv, AttachOption

LEMMA CommandReturns ==
  ASSUME TypeOK, CommandInv, cpc \notin {"idle", "over"}, NEW ok \in BOOLEAN, Return(ok)
  PROVE  /\ cpc' \in {"call", "idle", "over"} /\ (cmd' = "none") = (cpc' \in {"idle", "over"})
         /\ interp' = interp
         /\ cmd' = "--attach" =>
              /\ cmd = "--attach" /\ ok
              /\ calls' \in {<<"Attach", "ConfigurationDone">>, <<"ConfigurationDone">>}
              /\ calls # <<"ConfigurationDone">>
         /\ cmd' \notin Leaving
         /\ cpc' = "over" => cmd \in Leaving \/ (cmd = "--attach" /\ ~ok)
<1> calls # <<>> /\ calls \in Seq(Calls)
  BY DEF TypeOK
<1>1. /\ Tail(AttachOption) = <<"Attach", "ConfigurationDone">>
      /\ Tail(<<"Attach", "ConfigurationDone">>) = <<"ConfigurationDone">>
      /\ Len(<<"ConfigurationDone">>) = 1
  BY DEF AttachOption
<1>2. \A x : Len(<<x>>) = 1
  OBVIOUS
<1>3. "none" \notin Leaving /\ "--attach" \notin Leaving
  BY DEF Leaving
<1>4. CASE /\ cpc' = "call" /\ cmd' = cmd /\ ok
           /\ calls' = Tail(calls) /\ calls' # <<>> /\ Len(calls) > 1
  <2>1. cmd # "none"
    BY DEF CommandInv
  <2>2. cmd \notin Leaving
    BY <1>2, <1>4 DEF CommandInv
  <2>3. cmd = "--attach" => /\ calls' \in {<<"Attach", "ConfigurationDone">>,
                                         <<"ConfigurationDone">>}
                            /\ calls # <<"ConfigurationDone">>
    <3>1. calls # <<"ConfigurationDone">>
      BY <1>1, <1>4
    <3>2. cmd = "--attach" => calls \in {AttachOption, <<"Attach", "ConfigurationDone">>,
                                        <<"ConfigurationDone">>}
      BY Zenon DEF CommandInv
    <3> QED BY <1>1, <1>4, <3>1, <3>2, Zenon
  <2>4. interp' = interp
    BY Returns
  <2> QED BY <1>4, <2>1, <2>2, <2>3, <2>4
<1>5. CASE cpc' \in {"idle", "over"}
  BY <1>3, <1>5, Returns
<1> QED BY <1>4, <1>5, Returns

(* Every step keeps what is known of the command.                          *)
LEMMA CommandKept ==
  ASSUME LifecycleInv, [Next]_vars
  PROVE  late' = {} => CommandInv'
<1> SUFFICES ASSUME late = {}, late' = {} PROVE CommandInv'
  BY LateKept
<1> TypeOK /\ StartInv /\ ProcessInv /\ CommandInv
  BY DEF LifecycleInv
<1> USE DEF extVars, cmdVars, startVars, Free
<1>1. ASSUME NEW c \in DOMAIN CommandsOf[interp], Command(c) PROVE CommandInv'
  BY <1>1, CommandsTyped DEF Command, CommandInv, TypeOK
<1>2. CASE Initialize
  BY <1>2, Heads, CommandReturns DEF Initialize, Calling, CommandInv
<1>3. CASE Launch
  <2>1. /\ cpc = "call" /\ UNCHANGED <<after, process>>
        /\ cmd # "--attach" /\ cmd \notin Leaving /\ cmd # "none"
    BY <1>3, Heads DEF Launch, Calling, CommandInv
  <2>2. CASE Return(TRUE)
    BY <2>1, <2>2, CommandReturns DEF CommandInv
  <2>3. CASE cpc' = "check" /\ UNCHANGED <<interp, cmd, calls>>
    BY <2>1, <2>3 DEF CommandInv
  <2> QED BY <1>3, <2>2, <2>3 DEF Launch, RunIfReady
<1>4. CASE Attach
  <2>1. /\ cpc = "call" /\ UNCHANGED <<after, process, configured>> /\ startMethod' = "attach"
        /\ cmd \notin Leaving /\ cmd # "none"
        /\ cmd = "--attach" => Free /\ ~configured
    BY <1>4, Heads DEF Attach, Calling, CommandInv
  <2>2. CASE Return(TRUE)
    <3>1. cmd' = "--attach" => cmd = "--attach"
      BY <2>1, <2>2, CommandReturns
    <3>2. cmd' = "--attach" => ~configured'
      BY <2>1, <3>1
    <3> QED BY <2>1, <2>2, <3>1, <3>2, CommandReturns DEF CommandInv
  <2>3. CASE cpc' = "check" /\ UNCHANGED <<interp, cmd, calls>> /\ configured'
    BY <2>1, <2>3 DEF CommandInv
  <2> QED BY <1>4, <2>2, <2>3 DEF Attach, RunIfReady
<1>5. CASE ConfigurationDone
  <2>1. /\ cpc = "call" /\ UNCHANGED <<after, process, startMethod>>
        /\ cmd \notin Leaving /\ cmd # "none"
        /\ cmd = "--attach" =>
             Free /\ calls = <<"ConfigurationDone">> /\ startMethod # "launch"
    BY <1>5, Heads DEF ConfigurationDone, Calling, CommandInv
  <2>2. CASE Return(TRUE)
    BY <2>1, <2>2, CommandReturns DEF CommandInv
  <2>3. CASE cpc' = "check" /\ UNCHANGED <<interp, cmd, calls>>
    BY <2>1, <2>3 DEF CommandInv
  <2> QED BY <1>5, <2>2, <2>3 DEF ConfigurationDone, RunIfReady
<1>6. CASE CheckNoProcess
  <2>1. /\ cpc = "check" /\ UNCHANGED <<process, startMethod, configured>>
        /\ cmd \notin Leaving /\ cmd # "none" /\ (cmd = "--attach" => Free)
    BY <1>6 DEF CheckNoProcess, CommandInv
  <2>2. CASE cpc' = "start" /\ UNCHANGED cmdVars
    BY <2>1, <2>2 DEF CommandInv
  <2>3. CASE ~Free /\ Return(FALSE) /\ UNCHANGED after
    BY <2>1, <2>3, CommandReturns DEF CommandInv
  <2>4. CASE ~Free /\ cpc' = "kill" /\ UNCHANGED <<interp, cmd, calls>>
    BY <2>1, <2>4 DEF CommandInv
  <2> QED BY <1>6, <2>2, <2>3, <2>4 DEF CheckNoProcess
<1>7. CASE DisconnectFails
  BY <1>7, Heads, CommandReturns DEF DisconnectFails, TerminateCalled, DetachCalled, Calling, CommandInv
<1>8. CASE Disconnect
  BY <1>8, Heads DEF Disconnect, TerminateCalled, Calling, CommandInv
<1>9. CASE DetachFromProcess
  BY <1>9, Heads, CommandReturns DEF DetachFromProcess, DetachCalled, Calling, CommandInv,
     ReleaseDebug
<1>10. CASE KillProcess
  BY <1>10 DEF KillProcess, CommandInv
<1>11. CASE WaitProcessExited
  BY <1>11 DEF WaitProcessExited, CommandInv
<1>12. CASE ReleaseProcess
  <2>1. cpc = "release" /\ Free' /\ after' = "return" /\ UNCHANGED startMethod /\ cmd # "none"
        /\ cmd # "--attach"
    BY <1>12 DEF ReleaseProcess, ReleaseDebug, CommandInv
  <2>2. CASE after = "start" /\ cpc' = "start" /\ UNCHANGED <<interp, cmd, calls>>
    BY <2>1, <2>2 DEF CommandInv
  <2>3. CASE Return(TRUE)
    BY <2>1, <2>3, CommandReturns DEF CommandInv
  <2> QED BY <1>12, <2>2, <2>3 DEF ReleaseProcess
<1>13. CASE AttachToProcess
  BY <1>13, CommandReturns DEF AttachToProcess, CommandInv, StartInv
<1>14. CASE RunProcess
  <2>1. /\ cpc = "start" /\ UNCHANGED <<after, process>>
        /\ cmd # "none" /\ cmd # "--attach" /\ cmd \notin Leaving
    BY <1>14 DEF RunProcess, CommandInv
  <2>2. CASE Return(FALSE)
    BY <2>1, <2>2, CommandReturns DEF CommandInv
  <2>3. CASE cpc' = "waitstart" /\ UNCHANGED <<interp, cmd, calls>>
    BY <2>1, <2>3 DEF CommandInv
  <2> QED BY <1>14, <2>2, <2>3 DEF RunProcess
<1>15. CASE StartupReturns
  <2>1. /\ cpc = "waitstart" /\ result \in BOOLEAN /\ Return(result) /\ UNCHANGED after
    BY <1>15 DEF StartupReturns, TypeOK
  <2>2. cmd # "none" /\ cmd # "--attach" /\ cmd \notin Leaving
    BY <2>1 DEF CommandInv
  <2> QED BY <2>1, <2>2, CommandReturns DEF CommandInv
<1>16. CASE StartupTimeout
  BY <1>16, CommandReturns DEF StartupTimeout, CommandInv, StartInv
<1>17. ASSUME NEW p \in Pids, CreateProcess(p) PROVE CommandInv'
  BY <1>17 DEF CreateProcess, CommandInv
<1>18. ASSUME NEW p \in Pids, ExitProcess(p) PROVE CommandInv'
  BY <1>18 DEF ExitProcess, CommandInv
<1>19. ASSUME NEW p \in Pids, NotifyProcessExited(p) PROVE CommandInv'
  BY <1>19 DEF NotifyProcessExited, CommandInv
<1>20. ASSUME NEW p \in Pids, EmitTerminatedEvent(p) PROVE CommandInv'
  BY <1>20 DEF EmitTerminatedEvent, CommandInv
<1>21. ASSUME NEW p \in Pids, ProcessExits(p) PROVE CommandInv'
  BY <1>21 DEF ProcessExits, CommandInv
<1>22. ASSUME NEW p \in Children, RuntimeStartup(p) PROVE CommandInv'
  BY <1>22 DEF RuntimeStartup, CommandInv
<1>23. ASSUME NEW p \in Children, StartupCallback(p) PROVE CommandInv'
  BY <1>23 DEF StartupCallback, CommandInv, StartInv, Waiting
<1>24. ASSUME NEW p \in Pids, CallbackBlocks(p) PROVE CommandInv'
  BY <1>24 DEF CallbackBlocks, CommandInv
<1>25. CASE UNCHANGED vars
  BY <1>25 DEF vars, CommandInv
<1> QED
  BY <1>1, <1>2, <1>3, <1>4, <1>5, <1>6, <1>7, <1>8, <1>9, <1>10, <1>11, <1>12, <1>13,
     <1>14, <1>15, <1>16, <1>17, <1>18, <1>19, <1>20, <1>21, <1>22, <1>23, <1>24, <1>25
  DEF Next, Client, Protocol, Callbacks, Startups

LEMMA LifecycleStart == Init => LifecycleInv
<1> SUFFICES ASSUME Init PROVE LifecycleInv
  OBVIOUS
<1>1. <<"Initialize", "Attach", "ConfigurationDone">> \in Seq(Calls)
  BY DEF Calls
<1>2. AttachOption # <<>> /\ AttachOption \in Seq(Calls) /\ <<>> \in Seq(Calls)
  BY <1>1, EmptySeq DEF AttachOption
<1>3. TypeOK
  <2>1. /\ cmd \in {"none", "--attach"} /\ calls \in Seq(Calls)
        /\ cpc \in {"idle", "call"} /\ (cpc = "call" => calls # <<>>)
    BY <1>2 DEF Init
  <2>2. configured \in BOOLEAN /\ attached \in BOOLEAN /\ ready \in BOOLEAN /\ result \in BOOLEAN
    BY Zenon DEF Init
  <2> QED BY <2>1, <2>2 DEF Init, TypeOK, Pids
<1>4. StartInv /\ ProcessInv
  BY DEF Init, StartInv, ProcessInv, Free, Waiting, Pids
<1>5. CommandInv
  BY DEF Init, CommandInv, Free, Leaving
<1> QED BY <1>3, <1>4, <1>5 DEF LifecycleInv

(* The inductive invariant holds of every run, whatever processes there    *)
(* are and whichever interpreter.                                          *)
THEOREM LifecycleInvariant == Spec => []LifecycleInv
<1>1. LifecycleInv /\ [Next]_vars => LifecycleInv'
  BY TypeKept, StartKept, ProcessKept, CommandKept, LateKept DEF LifecycleInv
<1> QED BY <1>1, LifecycleStart, PTL DEF Spec

(* Unless a launch was given up too late, no process stays attached that   *)
(* the debugger does not hold any more, but one that could be neither      *)
(* killed nor stopped.                                                     *)
THEOREM AlwaysOneDebuggee == Spec => []OneDebuggee
<1>1. LifecycleInv => OneDebuggee
  BY DEF LifecycleInv, ProcessInv, OneDebuggee
<1> QED BY <1>1, LifecycleInvariant, PTL

(* The command loop leaves no process behind that is still debugged, but   *)
(* one that could be neither killed nor stopped.                           *)
THEOREM NeverLeftDebugged == Spec => []NothingLeftDebugged
<1>1. LifecycleInv => NothingLeftDebugged
  <2> SUFFICES ASSUME LifecycleInv, cpc = "over", late = {}, Free,
                      NEW p \in Pids, chan[p] \in {"create", "open"}
               PROVE  p \in left
    BY DEF LifecycleInv, CommandInv, NothingLeftDebugged
  <2> QED BY LifecycleAssumption DEF LifecycleInv, ProcessInv, Free
<1> QED BY <1>1, LifecycleInvariant, PTL

(* Whoever waits for the exit of a process goes on only when the client    *)
(* was told of it.                                                         *)
THEOREM ExitToldBeforeReleased == Spec => ToldBeforeReleased
<1>1. ASSUME LifecycleInv, [Next]_vars, cpc = "waitexit", cpc' = "release",
             late = {}, left = {}
      PROVE  process \in told \/ chan[process] = "create"
  <2>1. ~attached
    BY <1>1 DEF Next, Client, Protocol, Callbacks, Startups, vars, cmdVars, Command, Calling,
         TerminateCalled, DetachCalled, CreateProcess, ExitProcess, NotifyProcessExited,
         EmitTerminatedEvent, ProcessExits, CallbackBlocks, RuntimeStartup, StartupCallback, Initialize, Launch, Attach, ConfigurationDone, CheckNoProcess, DisconnectFails,
         Disconnect, DetachFromProcess, KillProcess, WaitProcessExited, ReleaseProcess, AttachToProcess,
         RunProcess, StartupReturns, StartupTimeout
  <2>2. process \in Pids /\ chan[process] # "open" /\ chan[process] # "closed"
    BY <1>1, <2>1 DEF LifecycleInv, TypeOK, ProcessInv, Free
  <2>3. chan[process] \in {"create", "exiting", "notified", "exited"}
    BY <1>1, <2>2 DEF LifecycleInv, TypeOK
  <2> QED BY <1>1, <2>2, <2>3 DEF LifecycleInv, ProcessInv
<1> QED BY <1>1, LifecycleInvariant, PTL DEF Spec, ToldBeforeReleased
=============================================================================
