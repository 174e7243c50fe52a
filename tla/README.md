# netcoredbg in TLA+

A model of the core of this repository: **netcoredbg**, the managed debugger under
`src/source/own/netcoredbg310/src/debug/netcoredbg/` (all file names below are relative to that
directory). The debugger drives a .NET process through ICorDebug and serves a client over the
VSCode (DAP) or GDB/MI protocol. Its difficulty is concurrency: at least three threads of the
debugger act on one debuggee through an interface that only says "stop" and "continue", and
nothing in the code relates a `Continue` to the stop it answers.

## The system

| part | state it keeps | operations | talks to |
|---|---|---|---|
| commands, `ManagedDebugger` (manageddebugger.cpp) | `m_stopCounter`, last stopped thread, process state, start method | Launch, Attach, ConfigurationDone, Disconnect, Continue, StepCommand, Pause, Evaluate, exceptionInfo, set*Breakpoints | called by the protocol thread; calls Evaluator, Breakpoints, Variables, Modules, ICorDebug |
| callbacks, `ManagedCallback` (manageddebugger.cpp) | none of its own | one handler per ICorDebug event | called by the runtime's callback thread; calls all of the above and the protocol |
| breakpoint worker (manageddebugger.cpp:358-393) | a detached thread per Breakpoint callback | decide about a hit, report or continue | Breakpoints, Evaluator, protocol |
| `Evaluator` (valuewalk.cpp, manageddebugger.h:35-59) | `m_evalResults` (a promise per thread id), `m_evalQueue` | EvalFunction, RunEval, WaitEvalResult, NotifyEvalComplete | requesters wait for a future that a callback fulfils |
| `Breakpoints` (breakpoints.cpp) | source, function and entry breakpoints, `ExceptionBreakpointStorage`, next id, one mutex | SetBreakpoints, SetFunctionBreakpoints, TryResolveBreakpointsForModule, HitBreakpoint, exception breakpoints, DeleteAllBreakpoints | Modules; the debugger's Evaluate with the mutex held |
| `Modules` (modules.cpp) | loaded modules with symbols, one mutex | TryLoadModuleSymbols, lookups of lines and functions | symbol reader |
| `Variables` (variables.cpp) | references handed to the client | GetScopes, GetVariables, Evaluate, SetVariable, Clear | Evaluator |
| `VSCodeProtocol` (vscodeprotocol.cpp) | output sequence number, function and exception breakpoint lists | CommandLoop, HandleCommand, Emit* | stdin/stdout |
| `MIProtocol` (miprotocol.cpp) | own copies of breakpoints, variable objects | CommandLoop, HandleCommand, Emit* | stdin/stdout |
| start-up (manageddebugger.cpp:1222-1531) | `m_startupReady`, `m_processAttachedState` | RunProcess, StartupCallback, Startup, Attach, Detach, Terminate | dbgshim's callback thread |
| expressions, frames, value printing, symbol reader | none that outlives a call | read the stopped process | Evaluator, Roslyn |

What is hard here: a callback that arrives while a command is half done; an evaluation, which
lets the process run in the middle of a request while the callback thread, a worker or the client
counts on a stopped process; a mutex held while waiting for a callback; a promise that only
another thread can keep; the end of a thread or of the process in the middle of it; the order of
the events the client sees.

The repository also holds `own/mindbg` (a small C# ICorDebug wrapper), experiments (`clrmd_testing`,
`pdb_testing`, `native`, `icordebug_cpp`, `lld`, `test_*`), further copies of netcoredbg and, under
`source/cloned`, third-party projects. None of it is modelled; `PROJECT.json` says why part by part.

## Modules

| module | models |
|---|---|
| `CorDebug` | the runtime behind ICorDebug, as the debugger uses it: stop counter, events, evaluations, thread states (external) |
| `ManagedDebugger` | execution control: callbacks, commands, breakpoint workers, `Evaluator` |
| `ManagedDebugger_proof` | theorems about `ManagedDebugger` |
| `Breakpoints` | `Breakpoints` and the part of `Modules` it uses, the session as far as it touches them, the client's view |
| `Breakpoints_proof` | theorems about `Breakpoints` |
| `BreakpointHits_proof` | what the worker decides about a hit |
| `BreakpointTable` | the abstract table of breakpoints that `Breakpoints` implements |
| `BreakpointTable_proof` | the refinement, and what the client knows |
| `MIBreakpoints`, `MIBreakpoints_proof` | the GDB/MI commands on top of `Breakpoints`, instead of its own client |
| `ExceptionBreakpoints`, `ExceptionBreakpoints_proof` | `ExceptionBreakpointStorage`, the commands of both protocols that fill it, the Exception callback that asks it |
| `ProcessLifecycle`, `ProcessLifecycle_proof` | launching, attaching, disconnecting, the start-up callback and its timeout, the exit of a process, the command loops |
| `Variables`, `Variables_proof` | variable references, pages of children, MI variable objects |
| `MCManagedDebugger`, `MCBreakpoints`, `MCMIBreakpoints`, `MCExceptionBreakpoints`, `MCProcessLifecycle`, `MCVariables` | small instances |

### CorDebug and ManagedDebugger

`CorDebug` is not under `src/`: it is read off the way the code uses the interfaces and off the
comment in `Pause` on the stop counter. `stop` is that counter: every dispatched callback and every
`Stop` increments it, every `Continue` decrements it, the process runs at zero. While it runs the
debuggee raises one event or two at once (`Raise`); `DispatchEffects` is the delivery of one.

`ManagedDebugger` has one action per stretch of code between two points where another thread can
act. `pc[Cmd]` is the protocol thread, `pc[w]` a breakpoint worker, `cbpc` the callback thread; the
action names are the functions', a function cut in pieces has one action per piece:

- `BreakpointDuringEval`, `BreakpointCallback`: the two halves of the Breakpoint callback; the
  latter detaches a worker, `HitBreakpoint`, `HitBreakpointReturns`, `WorkerContinue`,
  `WorkerReport`. `lock` is `m_breakpointsMutex`, kept only where it is held over a wait.
- `EvalFunction`, `EvalObjectNoConstructor`, `RunEval`, `RunEvalContinue`, `WaitEvalResult`: an
  evaluation by any requester; `evalResults` is `m_evalResults`, `evalQueue` `m_evalQueue`, `fut` the
  future. `RunEval` enters the promise and sets the thread states, `RunEvalContinue` continues the
  process; `m_evalMutex` is held in between (`EvalMutexFree`). `evals`, of `CorDebug`, remembers for
  each thread who set up the evaluations on it, `cbeval` whose evaluation a callback reports the end of.
- `EvalComplete` / `EvalQueue` / `EvalRunAll`, `EvalPop` / `EvalNext` / `EvalSuspend` / `EvalResume`
  (the requester is released in the first; everything after it runs without `m_evalMutex`, against
  whatever the requester does next), `EvalException`, `Exception` /
  `ExceptionFilter` / `ExceptionDuringEval` / `ExceptionToStop`, `StopCheck` / `StopDec` /
  `StopStore` / `StopEmit` (the function `Stop`), `StepComplete`, `LoadModule`, `CreateThread`,
  `ExitThread`, `ExitProcess` / `ExitDrain`: the callbacks.
- `Continue` or `StepCommand`, then `Resume`, `ResumeEmit`, `ResumeDec`; `Pause`, `PauseStop`,
  `PauseReport`; `Evaluate`; `GetExceptionInfoResponse`, `ReadBreakMode`, `RequestDone`;
  `SetBreakpoints`, `SetBreakpointsLocked`: the commands.

`stops` counts the stopped events since the last continued event: what the client believes. The
client sends requests that need a stopped process only while it shows a stop, and pauses any time.

### Breakpoints and MIBreakpoints

A breakpoint is filed under a key: file and line, or the full function name. It has an id (0 when
the key is not set), a condition, and `at`, the places where it was resolved. A place names the run
of the process it belongs to: `Usable` says that objects of an earlier run are dead, and nothing in
the code asks for it. `SetBreakpoints` and `SetFunctionBreakpoints` erase, then `SetOneLine` /
`SetOneFunction` go through the list under the mutex (`Locked`), then `Reply` sends the answer
without it. `LoadModule`, `TryLoadModuleSymbols`, `TryResolveBreakpointsForModule`,
`EmitBreakpointEvent`, `LoadModuleReturns` are the callback, cut where the list of modules, the
mutex and the client are touched. `ReachBreakpoint` is the debuggee, `HitBreakpoint` the worker.
`shown` is what the client was last told about each key. Hash maps are iterated in any order.

A breakpoint is resolved and hit by different rules. `Matches` is the symbol reader's, which compares
names of files without regard to case (`ByFile`); `HitManagedBreakpoint` looks the name up letter by
letter. The runtime refuses a breakpoint outside `Settable` (a method without code): `Refused` ends the
enumeration of the methods, which leaves a function breakpoint at some of them, or at none
(`PlacesIn`), and keeps the callback from sending an event about it (`Succeeds`). Where the arguments
of a frame cannot be read (`Unreadable`), a function breakpoint with parameters ends the lookup of a hit
with an error (`ArgumentsFail`).

`MIBreakpoints` replaces the client: `copy` is MIProtocol's own list; `Insert`, `Delete`,
`SetBreakpointCondition` turn it into requests to the debugger, `InsertReturns`, `DeleteNext`,
`RequestReturns` take the answers. Here `shown` is the id a `break-insert` was answered, until the
client deletes that id.

### BreakpointTable

What a client may rely on, without modules, the mutex, the callback or processes: `table` maps a key
to an id and a resolved flag, `last` is the last id given out, `known` what the client was told,
`busy` the keys of the request being answered. A request is `Open`, any number of `Set`, and one
`Answer`; `Resolve` and `Verify` may happen at any time; nothing is unresolved again, `Answer` says
only what is so at that moment, and `Verify` concerns no breakpoint but the one meant. The refinement
mapping is `Table` in `Breakpoints`: the table is `bps`, reduced to id and "has a place"; `known` is
`shown`; `busy` is `group`. What this leaves to prove is that an answer built under the mutex is
still true when it is sent without it, and that an event on its way to the client never speaks of
another breakpoint than the one that was resolved.

### ExceptionBreakpoints

`table` is the map of names by id, `filters` the multimap of filters by name (of equal filters one is
kept, since lookups cannot tell), `asterisk` is `current_asterix_id`. Commands take several steps:
`BreakExceptionInsert` or `SetExceptionBreakpoints`, then one `InsertExceptionBreakpoint` per name;
`BreakExceptionDelete`, then `DeleteExceptionBreakpoint` per id in any order, up to the first unknown
one. The callback is `Throw`, `ReadGlobalMode` (the first lock), `MatchExceptionBreakpoint` (the
second); `GetExceptionBreakMode` returns the set of results that the order of a bucket allows.
A throw it decides to stop at is `ReportException`: a stop or, while an
evaluation runs, an interception after which the process runs on. Any call of the runtime may fail on
the way (`ExceptionFails`): the process then stands and nobody is told (`"silent"`).
`asked` remembers the filters that stand for the client; `orphans` the ids whose filter went with
another id of the same name, which the code does and the properties exempt by name.

### ProcessLifecycle

`os` is the operating system's view of a process, `chan` how far the runtime's callbacks about it
have come, `process` stands for `m_pProcess` and `m_pDebug`, `attached` for `m_processAttachedState`,
`spc` for the thread of a `StartupCallback`. A command is a sequence of calls (`MICommands`,
`VSCodeCommands`, the option `--attach`), `Return` goes from one to the next, and `RunIfReady`,
`CheckNoProcess`, `KillProcess`, `WaitProcessExited`, `ReleaseProcess`, `AttachToProcess`,
`RunProcess`, `StartupReturns` / `StartupTimeout` are the pieces between which another thread can
act. A start can fail at each of its calls and leaves what was done before it: a failed launch leaves
its child suspended. A process in `Stubborn` may resist: it does not die of
`ICorDebugProcess::Terminate`, is not stopped by `Stop(0)`, so that `DetachFromProcess` does not detach
it, or its callback thread waits for good (`CallbackBlocks`, the deadlock of the run
`condition_deadlock`), so that nothing more is reported of it and whoever wants `m_breakpointsMutex`
waits too. The debugger looks at neither result and releases the process in any case; `left` records
the processes it released although they were neither dead nor detached. Assumed of what is not under
`src/`:

- `ICorDebug::Terminate` lets a callback under way return and then closes the channel; it refuses
  while the process is neither dead nor detached, and then goes on reporting (`ReleaseDebug`).
- `DebugActiveProcess` and the assignment of `m_pProcess` in `Startup` are one step.
- `UnregisterForRuntimeStartup` either waits for a callback that has begun (`joining`: it hangs,
  because the callback wants the mutex that the caller holds) or leaves it to come late. Both are
  modelled; `late` records it, and the properties speak of executions where it is empty.
- A launched process gets a number of its own (`NewPid`); which one makes no difference.

### Variables

`refs` and `nextRef` are `m_variables` and `m_nextVariableReference`, `objects` and `varCounter`
MIProtocol's `m_vars` and `m_varCounter`. A target is a value, the static members of its type, or the
scope of the frame; a page is the set of positions it shows. `GetScopes`, `GetVariables`, `Evaluate`
(VSCode), `CreateVar`, `ListChildren`, `DeleteVar`, `StackListVariables` (MI) are the requests. One
that adds references reads the counter first (`ReadReference`; `seen` is what it read) and enters them
in a second step, or fails after that when the process ran on meanwhile (`RequestFails`). The worker
that evaluates a condition has three steps (`ReadNext`, `StoreNext`, `PutReference`: the counter is not
atomic), so that it can meet the protocol thread anywhere in between; `raced` records that it did, since
what an `unordered_map` then does is undefined. `StepCommand` clears, also when its `Continue` fails;
`Continue` does not, `Cleanup` forgets the objects only. Assumed: the client resumes a process it was
told has stopped, and a process is not let go in the middle of a callback. A client may call an object
`var0` itself; the generated name then replaces it. The history variables are `given`, what the
references told since the process last moved are for, `forgotten`, those of them told before a step that
failed, `told`, what each object was made for, and `chosen`, the names that the client gave.

## Runs

| run | question | result |
|---|---|---|
| `control` | all callbacks, commands and two worker slots on two threads | the stop counter covers everyone who counts on a stopped process (`IInv`); a shown stop is real; workers do not overlap; promises match waits, and none is left to a thread that has exited |
| `evaluations` | evaluations no stop is reported in, with breakpoints, threads that start and exit, and the end of the process: who stops waiting, and does every wait end | a requester stops waiting exactly when its own evaluation ends, or the process; every wait ends, unless the tail of the `EvalComplete` before it suspends the evaluating thread |
| `exceptions` | "For answer on ExceptionInfo are needed long FuncEval() with asynchronous EvalComplete event": does exceptionInfo get its answer | **violated**: lines 479-480 of the first `EvalComplete` fall around the `Continue` of the second `RunEval`, and the second evaluation never ends |
| `suspended` | "stops all threads while EvalComplete waiting" | **violated**: a step after an evaluation runs one thread only |
| `condition_deadlock` | "all next events one by one will transport each exception" | **violated**: an exception while a condition is evaluated |
| `breakpoints` | requests against module loads and hits, over two processes | nothing falls between setting and loading but what the runtime refuses; the client agrees; stops are where they were asked for; what is left over of the first process does not stop the second; it implements `BreakpointTable` |
| `mi_breakpoints` | the MI copy of the breakpoints | without overloads, what was inserted stays set under its id |
| `mi_deleted` | a deleted breakpoint stays deleted (a test) | **violated**: the next insert in its file brings it back |
| `exception_filters` | filters of both protocols against throws | a listed filter is in force, "*" is replaced without a gap, insertions succeed, the callback decides to stop when and only when a filter asks for it |
| `lifecycle` | commands of both protocols against start-up, timeout and exit of three processes | one debuggee, none left debugged, its end told before it is released, every command answered; excepted is a process that resists being killed or stopped, or whose callback thread waits for good |
| `disconnect_default` | "Attach -> Detach, Launch -> Terminate" | **violated**: `--attach`, then `initialize`, then the default disconnect detaches nothing |
| `variables` | references and variable objects over steps, continues, processes, and conditions evaluated by the worker | they lead to what they were made for until the next step, also one that fails; pages are slices of one list |

### Bounds

`ManagedDebugger`: two threads (one must run while the other is suspended or evaluated on), one or
two worker slots (two are needed to see two at once), at most two events raised together, two
evaluations set up on one thread (`MaxNested`), one or two evaluations per request and one per
condition, a queue of one to three entries, and a stop counter that drifts one below zero
(`MaxDrift`; below that the code treats all values alike). The interesting cases all happen inside
these bounds: an event queued behind the one being handled, an evaluation inside an evaluation, a
stale queue head. `Symmetry` permutes threads and worker slots; it is used for invariants only.

`Breakpoints`: one file, known by its full path, its bare name and one in another case, one line; one
function breakpoint with parameters whose method lies at that line and whose name also matches a
method whose arguments may be unreadable and, in a module without symbols, an overload and a method
without code, so that its activation is refused half way; one condition; two modules, two ids, so that
a key can be deleted and set again; two processes; requests of one breakpoint. Larger ones (lists of
two, a second file of the same name) were too big together with two processes. The MI runs have one
process and no conditions but in `mi_breakpoints`, two lines in one file, four ids (insert two, delete
one, bring it back) and the lists of several breakpoints that MIProtocol itself sends.

`ExceptionBreakpoints`: one exception of the application and one of System, both categories, commands
of up to two names, three ids (a "*" that is replaced, and another filter beside it).

`ProcessLifecycle`: one process to attach to and two that can be launched (a launch that fails or is
given up, and the next one), both protocols. One child may resist (`Stubborn`): what the next launch or
attach meets after it is the other one's business. Nothing else is bounded: each child starts once.

`Variables`: a node with a node, a leaf and a static member (so that pages have a first, a middle and
a last position, and children to descend into), frames with one and two locals, with and without an
exception, three references, one generated name and the client's own object of that name, positions 0
to 2. Three references are enough for a request, the worker and a request after it to number in every
order.

### Fairness

`FairSpec` is weakly fair to the debugger's own threads: the protocol thread inside a command, the
callback thread, each worker, and the delivery of a raised event. They are operating system threads
and the event queue of the runtime. It is strongly fair to `EvalReturns`: a function evaluated on a
thread ends if the thread is let run again and again (strong, because other events stop it in
between). Nothing is assumed of the client or of the rest of the debuggee.

`Fairness` of `ProcessLifecycle` is weak: the protocol thread inside a command goes on, and the
timeout of its wait passes; the runtime delivers the callbacks of a process it reports, as long as its
callback thread does not wait for good; a `StartupCallback` that was called runs. That a runtime ever
comes up (`RuntimeStartup`), that a process exits by itself, that a callback comes to wait for good,
and that a client says anything is not assumed. `CommandAnswered` holds because of the timeout and
because a killed process exits; `Stranded` names the waits without a timeout for what may never come,
and excepts them.

`CHECK_DEADLOCK FALSE` in the execution control runs: after the process has exited and the bounded
client has no request left, nothing happens any more. Likewise in `lifecycle` and
`disconnect_default` (the command loop is over), `exception_filters` (the debuggee dies of an
unhandled exception, no ids are left) and `variables` (no references are left inside a callback).

### Why some instances leave something out

- `evaluations` leaves out everything that reports a stop while an evaluation runs (`Undisturbed`):
  `pause`, where Pause and a callback may both report one; StepComplete, which does not look whether an
  evaluation runs; an Exception queued behind the event the client stopped for; and threads that exit
  while they evaluate. The client or another worker can then set up a second evaluation on the thread.
  `RunEval` refuses it (the promise of that thread is taken) but the runtime has it and runs it first:
  its end is delivered to the requester of the first, or the process stands and the first never ends.
- A thread that exits while it evaluates wakes its requester and continues the process: a worker then
  reports a stop although only some callback still holds the process. When that callback returns, the
  thread of the client's next evaluation may exit between `EvalFunction` and `RunEval`, and if a
  further callback holds the process by then, `RunEval` enters a promise that nobody is left to keep.
  With two threads this takes one that starts anew: one exits in each evaluation, and another raises
  the last callback. `NoPromiseOfDeadThread` is false for this reason, and is checked in `control`,
  where no thread exits while it evaluates.
- `exceptions` has one thread and no conditions, so that neither the deadlock nor a stale queue head
  (EvalException leaves its entry) is what hangs the second evaluation.
- `mi_breakpoints` has no two functions of one name: `SetFunctionBreakpoint` answers with the first id
  of that name, so that the second insert is told the id of the first.
- `control` has no CreateThread, which `evaluations` has.

What is left out is listed under the hazards in `PROJECT.json`, with what the code does.

## Proofs

`ManagedDebugger_proof` proves, for all sets of threads and workers, all choices of callbacks and
commands, and all bounds:

- `TypeCorrect`, `PromisesMatch`: `WaitInv` is inductive. It adds to the two properties where a
  requester is when its future is pending and that it then has a thread. Only `RunEval` enters a
  promise, and only for a thread without one (`RunEvalEnters`), which is why none is overwritten.
- `HoldInvariant`, `ClientStopped`, `OneWorker`, under `"evalThreadExit" \notin Faults`: `HoldInv` is
  inductive together with `WaitInv`. Neither "the client's stop is a stop" nor "one worker" is
  inductive alone: whether a Continue may set the process running depends on who else holds a stop.
  `StopsCovered` counts them: a callback or a worker holds one, the client another. That a callback
  and a worker never hold one together needs the fourth conjunct, and that only the callback that
  ends an evaluation can end its wait needs that what waits has an evaluation set up.
  `CallbackContinues` is the lemma all callbacks that end in Continue share.
- `OwnInvariant`, `OwnWaitsEnd`, under `Undisturbed` (above): promises are found by thread id, so that
  nothing in the Evaluator itself ties the end of an evaluation to who set it up. `OwnInv` says what
  does: while no stop is reported in an evaluation, nobody else gets to set one up, so a thread has at
  most one, exactly while its requester starts it or waits for it, no worker overlaps with a request
  that evaluates, and a thread has one event raised at most. The callback that ends an evaluation hence
  finds its own requester waiting, and no other step changes who waits.
- `NoPromiseLeft`, from `HoldInv`: a thread with an evaluation set up has not exited. Without the
  assumption it is false (see above).

The theorems rest on the named assumptions on constants only; TLC evaluates these in every run.
`IInv` is checked by the run `control` as well.

`Breakpoints_proof` proves, for all files, lines, functions, modules, code and bounds:

- `BreakpointsTypeCorrect`, `ResolvedInLoaded`, from `ResolveInvariant`: `ResolvedWhenLoaded` is not
  inductive, because a module is in the list before its callback has gone through it. `ResolveInv`
  says that an unresolved breakpoint can only be in that one module, that a request under way has
  something left to set, and that modules are of runs that have begun, so that every module left over
  is recognised as dead once a new process is there. A request keeps it because its look at the
  modules comes up empty only if no module has the place (`ResolveBreakpointFinds`,
  `ResolveFunctionBreakpointFinds`, `SetOneKeeps`); the callback keeps it because it resolves all that
  the new module has (`PlacesAreLocations`, `ResolveKeeps`). Excepted is what the runtime refuses
  (`Missed`): a function breakpoint at one of its methods in that module, and a source breakpoint in
  any loaded module, since `GetLocationInAny` tries only the first it finds. `TodoInv` keeps the
  function breakpoints out of a list of source breakpoints, for which the rule is the other one.
  `CodeKept` covers the steps that touch neither modules nor breakpoints, `NoProcess` those after
  which there is no process.

`BreakpointHits_proof` proves `StopsAreAsked` and `UnconditionalAlwaysStop` from `HitsInv`: `ResolveInv`,
only what is set has places, these are places of its key (`PlacesInv`), and the entry breakpoint is at
the entry point. The lookup by document and name compares neither the process nor the key, so both
theorems rest on this and on `Usable`; `OnlyWorkers` says that no other step shows a stop or drops a
hit; `ReportIsAsked` and `MissIsRight` are about the worker's step and do not ask who the client is.
`UnconditionalStops` speaks of breakpoints that the lookup can find: the file spelled as in the symbols
(`Exact`), and no other breakpoint that is found first and misses, or fails (`Hides`).

`BreakpointTable_proof` proves the refinement of `BreakpointTable` by `Breakpoints`, for the same
constants. `TableInv` has three parts: `GroupInv` (a request in progress stays inside its group, and
what it has set is in the answer it prepares), `IdsInv` (ids are below the counter and belong to one
key), `ToldInv` (what was told, what the answer will tell and what the callback's event will tell is
so). One theorem shows that `Init` implies the table's, and one case per action shows that it is a
step of the table or a stutter; `TableImplemented` combines them. `ClientAlwaysAgrees` is `ClientAgrees`
from the same invariant.

`MIBreakpoints_proof` proves the same of a GDB/MI client, for all of the above and any function names,
in two layers:

- `MITypeInvariant`: `MITypeInv` joins `HitsInv` with `MITypeOK` and `RequestInv`. That the copy has one
  entry per id depends on every insertion finding its own answer, hence on what was sent and on how
  far the debugger has come with it, which is what `RequestInv` says. `MIStopsAreAsked`,
  `MIUnconditionalAlwaysStop` and `MIResolvedInLoaded` follow as they do for `Breakpoints`, without
  any hypothesis.
- `MIClientAgrees`, from `AgreeInv`, which adds `TableInv` and `CopyInv`: the copy holds everything the
  client was told, so that no request leaves it out, and an id in the copy belongs to no other key.
  `SendAgrees` is the lemma all commands share. There are two hypotheses, and TLC violates
  `ClientAgrees` without either: `NoOverloads` (functions differ in their names), and `NoRestart` (no
  process is started or attached to while the exited one was not let go: `Cleanup` then forgets the
  source breakpoints that the debugger still has). Any number of processes is allowed otherwise.

`MinIsIn` to `CopiedList` are about what the model takes from the community modules: a set of numbers
has a minimum, so that the first match in a list is one, and a list made of a finite set has its members.

`ExceptionBreakpoints_proof` proves all properties of its run, the types included, for any names,
modes and bounds. `FilterInv` adds to the invariants among them that ids are given out once
(`FreshIds`) and that a VSCode session, once it has a filter, has one for "*" (`InfoInv`), which is
why exceptionInfo always finds a mode. `OnlyAskedStops` and `NoThrowIsMissed` need in addition what a
lookup in the multimap returns for every order of a bucket. They are about what the callback decides:
a decision to stop that an evaluation or a failing call intercepts is no miss of the filters.

`ProcessLifecycle_proof` proves `LifecycleInv` inductive for any processes, and from it `OneDebuggee`,
`NothingLeftDebugged` and `ToldBeforeReleased`. `StartInv`: a callback is only registered, for a
process that can run, while RunProcess waits for it, and nothing is attached then. `ProcessInv`: whatever
the runtime reports on is `m_pProcess`, and the flag that WaitProcessExited waits for was lowered by
the exit of this process and of no other. `CommandInv`: a command that leaves ends in a disconnect.
Nothing is assumed of which processes resist: `ProcessInv` accounts for those that were released while
they were debugged (`left`), and the properties except them by name.

`Variables_proof` proves `VariablesInv` inductive for any values, frames, pages and bounds: the next
number is above all in the table, and between the worker's steps it holds its number alone, until the
two threads meet; a history variable with a number in the table agrees with it. From it follow
`VariablesTypeCorrect`, `OwnTargets`, `ObjectsAlwaysOwn`, and, since a target always has the number of
members it was given, `AlwaysSlices`. After a step whose `Continue` fails the process stands where it
was and the references told before are gone or given anew: `OwnTarget` excepts these (`forgotten`) and
keeps what is told from then on.

Only model-checked: the liveness properties (`EvalsEndOrFreeze`, `CommandAnswered`: fairness
speaks of ENABLED, which TLAPS cannot treat) and the violations. Every invariant and every action
property of a passing run is the statement of a theorem.

## Not modelled

- Callbacks that log and return E_NOTIMPL: what the runtime does with that result is not in the
  repository.
- How frames are walked, arguments collected, values printed, expressions parsed: stateless reads of
  a stopped process. An expression is the evaluations it runs.
- `GetThread(0)` is assumed to fail, which is what makes `EvalNext` return early.
- The set of threads with an unhandled exception in exceptionInfo is a choice.
- Conditions in `Breakpoints` are true, false or fail by choice; that they are evaluated with the
  mutex held is in `ManagedDebugger`.
- Hit counts; the Windows upper-casing of file names.
- SetVariable, SetChild and var-assign: they write memory of the debuggee and add no reference.
  GetExceptionVariable failing after it has added one; the names of inherited fields.
- How a stepper is set up (SetupStep) and SetJustMyCode: their effect is which StepComplete the runtime
  raises, and `Raise` is not restricted.
- The numbering of VSCodeProtocol's output: one counter and one write under one mutex.
- One worker at a time in `Breakpoints` (that there is never a second one is `AtMostOneWorker`).
- mindbg, the experiments, copies and vendored projects (see PROJECT.json).

## Plan

Done so far: execution control, breakpoints and their refinement, the MI copy, exception filters, the
lifecycle, variables, and the theorems above. What is left, the most useful first:

1. Theorems: an invariant of the stop counter that holds although threads exit while they evaluate;
   that function breakpoints of a GDB/MI client agree over restarts too, since their copy is kept; an
   abstract specification of what a client sees of execution control, and its refinement.
2. Hit counts and the conditions of `MIBreakpoints` as the client asked for them.
3. Pure algorithms (the sequence point lookup, the step range, `IsTargetFunction`) against reference
   definitions.
4. The composition of `ProcessLifecycle` with `ManagedDebugger`: the end of a process in the middle of
   an evaluation while a disconnect is under way.
5. The order of answers and events in the output of `VSCodeProtocol`.
