----------------------------- MODULE Breakpoints -----------------------------
(***************************************************************************)
(* Source, function and entry breakpoints (breakpoints.cpp), the modules   *)
(* they are resolved in (modules.cpp), and what the client is told about   *)
(* them.                                                                   *)
(*                                                                         *)
(* The protocol thread sets breakpoints under m_breakpointsMutex and       *)
(* resolves each of them in the modules it finds loaded at that moment;    *)
(* the callback thread first adds a module to the list and only then takes *)
(* the mutex and resolves what is left; a worker looks a hit up under the  *)
(* mutex.  The replies of the one and the events of the other reach the    *)
(* client in the order in which they are sent.                             *)
(***************************************************************************)
EXTENDS Integers, Sequences

CONSTANTS
  Docs,      \* source documents, named by their full path
  Names,     \* other names of files: without a directory, or in another case
  NameOf,    \* document -> its name without a directory, maybe itself
  ByFile,    \* file -> the documents the symbol reader takes it for
  Lines,
  Funcs,     \* function breakpoints by their full name, module!func(params)
  Conds,     \* conditions other than the empty one
  Modules,
  Symbols,   \* the modules with symbols
  Points,    \* places in the code: a method token and an IL offset
  ModuleOf,  \* point -> its module
  PosOf,     \* point -> its document and line, or NoPos without symbols
  ByName,    \* function breakpoint -> the method starts its name matches
  Params,    \* the function breakpoints that give parameters
  ByParams,  \* function breakpoint -> those its parameters match as well
  Settable,  \* the points a breakpoint can be set at: not a method without code
  Unreadable,\* the points where reading the arguments may fail
  EntryOf,   \* module -> its entry point, or NoPoint
  NoPoint, NoModule,
  MaxSources,\* bound: breakpoints in one request
  MaxId,     \* bound: breakpoint ids
  MaxRuns    \* bound: processes launched or attached to

NoCond == ""
NoPos == <<"", 0>>
Files == Docs \cup Names
LineKeys == Files \X Lines
Keys == LineKeys \cup Funcs

ASSUME BreakpointsAssumption ==
  /\ Docs \cap Names = {} /\ NameOf \in [Docs -> Files]
  /\ ByFile \in [Files -> SUBSET Docs] /\ \A d \in Docs : d \in ByFile[d] \cap ByFile[NameOf[d]]
  /\ LineKeys \cap Funcs = {}
  /\ NoCond \notin Conds
  /\ Symbols \subseteq Modules
  /\ ModuleOf \in [Points -> Modules]
  /\ PosOf \in [Points -> (Docs \X Lines) \cup {NoPos}]
  /\ NoPos \notin Docs \X Lines
  /\ \A p \in Points : ModuleOf[p] \notin Symbols => PosOf[p] = NoPos
  /\ ByName \in [Funcs -> SUBSET Points] /\ ByParams \in [Funcs -> SUBSET Points]
  /\ Params \subseteq Funcs /\ \A k \in Funcs \ Params : ByName[k] \subseteq ByParams[k]
  /\ Settable \subseteq Points /\ Unreadable \subseteq Points
  /\ EntryOf \in [Modules -> Points \cup {NoPoint}] /\ NoPoint \notin Points
  /\ NoPoint \notin [run : Nat, point : Points] /\ NoModule \notin [run : Nat, module : Modules]
  /\ MaxSources \in Nat /\ MaxId \in Nat /\ MaxRuns \in Nat

VARIABLES
  proc,        \* m_pProcess: "none", "alive", "exited" or "ending"
  run,         \* how many processes there have been
  modules,     \* m_modulesInfo
  stopped,     \* the client has been shown a stop
  hit,         \* the place a worker decides about, or NoPoint
  bps,         \* m_breakpoints and m_funcBreakpoints
  nextId,      \* m_nextBreakpointId
  stopAtEntry, \* m_stopAtEntry
  entryPoint,  \* m_entryPoint
  entryAt,     \* m_entryBreakpoint
  cpc,         \* the protocol thread: it holds the mutex at "lines" and "funcs"
  todo,        \* the breakpoints of the request still to be set
  reply,       \* the breakpoints of the answer
  group,       \* the keys the request replaces
  cbpc,        \* the callback thread: "idle", "load", "resolve" or "emit"
  cbmod,       \* the module it loads
  events,      \* ids of BreakpointChanged events to be sent
  shown        \* key -> the id and verified flag the client was last told

codeVars == <<proc, run, modules, stopped, hit>>
entryVars == <<stopAtEntry, entryPoint, entryAt>>
cmdVars == <<cpc, todo, reply, group>>
cbVars == <<cbpc, cbmod, events>>
vars == <<codeVars, bps, nextId, entryVars, cmdVars, cbVars, shown>>

-----------------------------------------------------------------------------
(* Modules and breakpoints belong to one run of the process: an object of  *)
(* an earlier run is dead.                                                 *)
Runs == 1..MaxRuns
Loaded == [run : Runs, module : Modules]
Locations == [run : Runs, point : Points]
Breakpoint == [id : 0..MaxId, cond : Conds \cup {NoCond}, at : SUBSET Locations]
Unset == [id |-> 0, cond |-> NoCond, at |-> {}]
Shown == [id : 0..MaxId, verified : BOOLEAN]
Unshown == [id |-> 0, verified |-> FALSE]
Sources == [key : Keys, cond : Conds \cup {NoCond}]

TypeOK ==
  /\ proc \in {"none", "alive", "exited", "ending"}
  /\ run \in 0..MaxRuns /\ (run = 0 => proc = "none")
  /\ modules \in SUBSET Loaded
  /\ stopped \in BOOLEAN
  /\ hit \in Locations \cup {NoPoint}
  /\ bps \in [Keys -> Breakpoint]
  /\ nextId \in 1..MaxId + 1
  /\ stopAtEntry \in BOOLEAN
  /\ entryPoint \in Points \cup {NoPoint}
  /\ entryAt \in SUBSET Locations
  /\ cpc \in {"idle", "lines", "funcs", "reply", "terminating"}
  /\ todo \in Seq(Sources) /\ nextId + Len(todo) <= MaxId + 1
  /\ reply \in [Keys -> Shown]
  /\ group \in SUBSET Keys
  /\ cbpc \in {"idle", "load", "resolve", "emit"}
  /\ cbmod \in Loaded \cup {NoModule}
  /\ events \in SUBSET (1..MaxId)
  /\ shown \in [Keys -> Shown]

Init ==
  /\ proc = "none" /\ run = 0 /\ modules = {} /\ stopped = FALSE /\ hit = NoPoint
  /\ bps = [k \in Keys |-> Unset]
  /\ nextId = 1
  /\ stopAtEntry = FALSE /\ entryPoint = NoPoint /\ entryAt = {}
  /\ cpc = "idle" /\ todo = <<>> /\ reply = [k \in Keys |-> Unshown] /\ group = {}
  /\ cbpc = "idle" /\ cbmod = NoModule /\ events = {}
  /\ shown = [k \in Keys |-> Unshown]

-----------------------------------------------------------------------------
(* Resolution.                                                             *)

IsSet(k) == bps[k].id # 0
IsResolved(k) == bps[k].at # {}
Unconditional(k) == bps[k].cond = NoCond
Locked == cpc \in {"lines", "funcs"}

(* Objects of the debuggee answer only while their process lives.          *)
Usable(x) == proc = "alive" /\ x.run = run
Stale == {m \in modules : ~Usable(m)}

(* ResolveSequencePoint compares names without regard to case: a name      *)
(* without a directory with the names of the documents, a path with their  *)
(* paths.                                                                  *)
Matches(k, p) ==
  IF k \in Funcs THEN p \in ByName[k]
  ELSE PosOf[p] # NoPos /\ k[2] = PosOf[p][2] /\ PosOf[p][1] \in ByFile[k[1]]

PointsIn(k, m) == {p \in Points : ModuleOf[p] = m.module /\ Matches(k, p)}
Here(P) == [run : {run}, point : P]

(* At some place of k in m the runtime refuses to set a breakpoint.        *)
Refused(k, m) == ~(PointsIn(k, m) \subseteq Settable)

(* Where k gets set in module m, if it is found there: a source breakpoint *)
(* at one statement, a function breakpoint at every method.  A refusal     *)
(* ends the enumeration of the methods, and those before it stay set.      *)
PlacesIn(k, m) ==
  IF ~Usable(m) \/ PointsIn(k, m) = {} THEN {}
  ELSE IF k \notin Funcs THEN {Here({p} \cap Settable) : p \in PointsIn(k, m)}
  ELSE IF Refused(k, m) THEN {Here(P) : P \in SUBSET (PointsIn(k, m) \cap Settable)}
  ELSE {Here(PointsIn(k, m))}

\* Mutation of ResolveBreakpoint: IfFailRet instead of continue at a module
\* that does not have the line.
ResolveBreakpoint_FirstModule(k) ==
  (IF modules # {} /\ \A m \in modules : PlacesIn(k, m) # {} THEN {} ELSE {{}})
    \cup UNION {PlacesIn(k, m) : m \in modules}

(* GetLocationInAny goes through the modules in the order of a hash map to *)
(* the first one with the line, and gives up at one that is dead; if the   *)
(* breakpoint is refused there, no other module is tried.                  *)
(* ResolveFunctionInAny goes through all of them, also those without       *)
(* symbols and after a refusal, and passes over a dead one or, if the      *)
(* breakpoint names a module, gives up there.                              *)
ResolveBreakpoint(k) ==
  LET found == UNION {PlacesIn(k, m) : m \in modules}
  IN found \cup (IF Stale # {} \/ found = {} THEN {{}} ELSE {})

ResolveFunctionBreakpoint(k) ==
  LET In(m, at) == {a \in at : ModuleOf[a.point] = m.module}
  IN {at \in SUBSET UNION {UNION PlacesIn(k, m) : m \in modules} :
        \A m \in modules : \/ In(m, at) \in PlacesIn(k, m)
                           \/ In(m, at) = {} /\ (Stale # {} \/ PlacesIn(k, m) = {})}

(* Where the runtime stops.                                                *)
Armed == {a \in entryAt \cup UNION {bps[k].at : k \in Keys} : Usable(a)}

-----------------------------------------------------------------------------
(* Requests of the client.                                                 *)

KeysOf(src) == {src[i].key : i \in 1..Len(src)}

(* The breakpoints of the group that are not asked for again are erased,   *)
(* which deactivates them.                                                 *)
StartRequest(keys, src, loop) ==
  /\ cpc = "idle"
  /\ nextId + Len(src) <= MaxId + 1
  /\ bps' = [k \in Keys |-> IF k \in keys \ KeysOf(src) THEN Unset ELSE bps[k]]
  /\ cpc' = IF src = <<>> THEN "reply" ELSE loop
  /\ todo' = src
  /\ group' = keys
  /\ UNCHANGED <<codeVars, nextId, entryVars, reply, cbVars, shown>>

SetBreakpoints(file, src) == StartRequest({file} \X Lines, src, "lines")
SetFunctionBreakpoints(src) == StartRequest(Funcs, src, "funcs")

\* Mutation of SetOne: the counter is incremented before it is used.
SetOne_PreIncrement(k, cond, places) ==
  /\ IF IsSet(k)
     THEN bps' = [bps EXCEPT ![k].cond = cond] /\ UNCHANGED nextId
     ELSE /\ nextId' = nextId + 1
          /\ \E at \in places : bps' = [bps EXCEPT ![k] = [id |-> nextId', cond |-> cond, at |-> at]]
  /\ reply' = [reply EXCEPT ![k] = [id |-> bps'[k].id, verified |-> bps'[k].at # {}]]
  /\ todo' = Tail(todo)
  /\ cpc' = IF Tail(todo) = <<>> THEN "reply" ELSE cpc
  /\ UNCHANGED <<codeVars, entryVars, group, cbVars, shown>>

(* One breakpoint of the request: a new one is resolved in the modules     *)
(* loaded so far, an existing one only gets its condition.                 *)
SetOne(k, cond, places) ==
  /\ IF IsSet(k)
     THEN bps' = [bps EXCEPT ![k].cond = cond] /\ UNCHANGED nextId
     ELSE /\ \E at \in places : bps' = [bps EXCEPT ![k] = [id |-> nextId, cond |-> cond, at |-> at]]
          /\ nextId' = nextId + 1
  /\ reply' = [reply EXCEPT ![k] = [id |-> bps'[k].id, verified |-> bps'[k].at # {}]]
  /\ todo' = Tail(todo)
  /\ cpc' = IF Tail(todo) = <<>> THEN "reply" ELSE cpc
  /\ UNCHANGED <<codeVars, entryVars, group, cbVars, shown>>

SetOneLine ==
  /\ cpc = "lines"
  /\ SetOne(Head(todo).key, Head(todo).cond, ResolveBreakpoint(Head(todo).key))
SetOneFunction ==
  /\ cpc = "funcs"
  /\ SetOne(Head(todo).key, Head(todo).cond, ResolveFunctionBreakpoint(Head(todo).key))

(* The answer is sent after the mutex was released.                        *)
Reply ==
  /\ cpc = "reply" /\ cpc' = "idle"
  /\ shown' = [k \in Keys |-> IF k \in group THEN reply[k] ELSE shown[k]]
  /\ reply' = [k \in Keys |-> Unshown] /\ group' = {}
  /\ UNCHANGED <<codeVars, bps, nextId, entryVars, todo, cbVars>>

Continue ==
  /\ cpc = "idle" /\ stopped /\ stopped' = FALSE
  /\ UNCHANGED <<proc, run, modules, hit, bps, nextId, entryVars, cmdVars, cbVars, shown>>

-----------------------------------------------------------------------------
(* The life of the process, as far as it touches breakpoints.              *)

(* A process that has exited is cleaned up by CheckNoProcess first.        *)
NewProcess ==
  /\ cpc = "idle"
  /\ proc \in {"none", "exited"} /\ proc' = "alive"
  /\ run < MaxRuns /\ run' = run + 1
  /\ modules' = IF proc = "exited" THEN {} ELSE modules
  /\ UNCHANGED <<stopped, hit, bps, nextId, entryPoint, entryAt, cmdVars, cbVars, shown>>

Launch == NewProcess /\ stopAtEntry' \in BOOLEAN
Attach == NewProcess /\ UNCHANGED stopAtEntry

(* NotifyProcessExited *)
ExitProcess ==
  /\ proc = "alive" /\ proc' = "exited"
  /\ ~stopped /\ hit = NoPoint /\ cbpc = "idle"
  /\ UNCHANGED <<run, modules, stopped, hit, bps, nextId, entryVars, cmdVars, cbVars, shown>>

(* TerminateProcess: no breakpoint is forgotten, none can be hit any more. *)
(* The client takes the end of the session as the end of what it knew.     *)
TerminateProcess ==
  /\ cpc = "idle" /\ proc \in {"alive", "exited"}
  /\ cpc' = "terminating" /\ proc' = "ending"
  /\ modules' = {} /\ stopped' = FALSE
  /\ shown' = [k \in Keys |-> Unshown]
  /\ UNCHANGED <<run, hit, bps, nextId, entryVars, todo, reply, group, cbVars>>

(* WaitProcessExited: the callback in progress returns before ExitProcess  *)
(* is called.                                                              *)
ProcessReleased ==
  /\ cpc = "terminating" /\ cpc' = "idle"
  /\ cbpc = "idle" /\ proc' = "none"
  /\ UNCHANGED <<run, modules, stopped, hit, bps, nextId, entryVars, todo, reply, group,
                 cbVars, shown>>

\* Mutation of DetachFromProcess: the counter of ids starts over.
DetachFromProcess_IdsRestart ==
  /\ cpc = "idle" /\ proc = "alive"
  /\ bps' = [k \in Keys |-> IF k \in Funcs THEN bps[k] ELSE Unset]
  /\ nextId' = 1
  /\ entryPoint' = NoPoint /\ entryAt' = {}
  /\ cpc' = "terminating" /\ proc' = "ending"
  /\ modules' = {} /\ stopped' = FALSE
  /\ shown' = [k \in Keys |-> Unshown]
  /\ UNCHANGED <<run, hit, stopAtEntry, todo, reply, group, cbVars>>

(* DetachFromProcess: DeleteAllBreakpoints forgets the source breakpoints  *)
(* and the entry breakpoint, the others are deactivated.                   *)
DetachFromProcess ==
  /\ cpc = "idle" /\ proc = "alive"
  /\ bps' = [k \in Keys |-> IF k \in Funcs THEN bps[k] ELSE Unset]
  /\ entryPoint' = NoPoint /\ entryAt' = {}
  /\ cpc' = "terminating" /\ proc' = "ending"
  /\ modules' = {} /\ stopped' = FALSE
  /\ shown' = [k \in Keys |-> Unshown]
  /\ UNCHANGED <<run, hit, nextId, stopAtEntry, todo, reply, group, cbVars>>

-----------------------------------------------------------------------------
(* The callback thread.                                                    *)

LoadModule(m) ==
  /\ proc = "alive" /\ ~stopped /\ hit = NoPoint
  /\ cbpc = "idle" /\ cbpc' = "load"
  /\ cbmod' = [run |-> run, module |-> m] /\ cbmod' \notin modules
  /\ UNCHANGED <<codeVars, bps, nextId, entryVars, cmdVars, events, shown>>

(* TryLoadModuleSymbols adds the module without asking whether the process *)
(* is still there; it may fail before or after it knows of the symbols.    *)
TryLoadModuleSymbols ==
  /\ cbpc = "load"
  /\ \/ modules' = modules \cup {cbmod}
        /\ cbpc' = IF cbmod.module \in Symbols THEN "resolve" ELSE "emit"
     \/ UNCHANGED modules
        /\ cbpc' \in {"emit"} \cup (IF cbmod.module \in Symbols THEN {"resolve"} ELSE {})
  /\ UNCHANGED <<proc, run, stopped, hit, bps, nextId, entryVars, cmdVars, cbmod, events, shown>>

TrySetupEntryBreakpoint ==
  IF /\ stopAtEntry /\ entryPoint = NoPoint
     /\ EntryOf[cbmod.module] \in Settable /\ Usable(cbmod)
  THEN /\ entryPoint' = EntryOf[cbmod.module]
       /\ entryAt' = Here({EntryOf[cbmod.module]})
  ELSE UNCHANGED <<entryPoint, entryAt>>

ResolveAll(new) ==
  \E at \in [new -> UNION {PlacesIn(k, cbmod) : k \in new}] :
    /\ \A k \in new : at[k] \in PlacesIn(k, cbmod)
    /\ bps' = [k \in Keys |-> IF k \in new THEN [bps[k] EXCEPT !.at = at[k]] ELSE bps[k]]

\* Mutation of TryResolveBreakpointsForModule: the event is added outside the
\* test of the result.
TryResolveBreakpointsForModule_EventAlways ==
  /\ cbpc = "resolve" /\ cbpc' = "emit"
  /\ ~Locked
  /\ LET tried == {k \in Keys : IsSet(k) /\ ~IsResolved(k)}
     IN /\ ResolveAll({k \in tried : cbmod \in modules /\ PlacesIn(k, cbmod) # {}})
        /\ events' = {bps[k].id : k \in tried}
  /\ TrySetupEntryBreakpoint
  /\ UNCHANGED <<codeVars, nextId, stopAtEntry, cmdVars, cbmod, shown>>

(* The resolution in the new module has succeeded, and set something.      *)
Succeeds(k, at) == at # {} /\ (k \in Funcs => ~Refused(k, cbmod))

(* Everything set and unresolved is tried in the new module.  An event is  *)
(* sent when nothing was refused; one that is sent for a function the      *)
(* module does not have says that it is still unverified.                  *)
TryResolveBreakpointsForModule ==
  /\ cbpc = "resolve" /\ cbpc' = "emit"
  /\ ~Locked
  /\ LET new == {k \in Keys : /\ IsSet(k) /\ ~IsResolved(k)
                              /\ cbmod \in modules /\ PlacesIn(k, cbmod) # {}}
     IN /\ ResolveAll(new)
        /\ events' = {bps[k].id : k \in {k \in new : Succeeds(k, bps'[k].at)}}
  /\ TrySetupEntryBreakpoint
  /\ UNCHANGED <<codeVars, nextId, stopAtEntry, cmdVars, cbmod, shown>>

(* The events go out without the mutex, then the process continues.        *)
EmitBreakpointEvent ==
  /\ cbpc = "emit"
  /\ \E i \in events :
       /\ events' = events \ {i}
       /\ shown' = [k \in Keys |-> IF shown[k].id = i THEN [shown[k] EXCEPT !.verified = TRUE]
                                   ELSE shown[k]]
  /\ UNCHANGED <<codeVars, bps, nextId, entryVars, cmdVars, cbpc, cbmod>>

LoadModuleReturns ==
  /\ cbpc = "emit" /\ events = {} /\ cbpc' = "idle" /\ cbmod' = NoModule
  /\ UNCHANGED <<codeVars, bps, nextId, entryVars, cmdVars, events, shown>>

(* The debuggee reaches an active breakpoint; a worker takes over.         *)
ReachBreakpoint ==
  /\ proc = "alive" /\ ~stopped /\ hit = NoPoint /\ cbpc = "idle"
  /\ hit' \in Armed
  /\ UNCHANGED <<proc, run, modules, stopped, bps, nextId, entryVars, cmdVars, cbVars, shown>>

-----------------------------------------------------------------------------
(* HitBreakpoint, run by the worker under the mutex.                       *)

(* HitEntry: the entry breakpoint serves once.                             *)
HitEntry == stopAtEntry /\ hit \in entryAt

\* Mutation of HitManagedBreakpoint: the bare name is looked up first.
HitManagedBreakpoint_NameFirst ==
  LET d == PosOf[hit.point][1]
      file == IF \E l \in Lines : IsSet(<<NameOf[d], l>>) THEN NameOf[d] ELSE d
      k == <<file, PosOf[hit.point][2]>>
  IN IF PosOf[hit.point] # NoPos /\ hit.point \in {a.point : a \in bps[k].at} THEN {k} ELSE {}

(* HitManagedBreakpoint looks the place up by its document, and by the     *)
(* name only if no breakpoint is set under the full path.  Method and      *)
(* offset must agree, the process is not asked about.                      *)
HitManagedBreakpoint ==
  LET d == PosOf[hit.point][1]
      file == IF \E l \in Lines : IsSet(<<d, l>>) THEN d ELSE NameOf[d]
      k == <<file, PosOf[hit.point][2]>>
  IN IF PosOf[hit.point] # NoPos /\ hit.point \in {a.point : a \in bps[k].at} THEN {k} ELSE {}

\* Mutation of HitManagedFunctionBreakpoint: parameters are not compared.
HitManagedFunctionBreakpoint_AnyOverload == {k \in Funcs : hit \in bps[k].at}

(* HitManagedFunctionBreakpoint takes the first one at the place whose     *)
(* parameters match, in the order of a hash map.                           *)
HitManagedFunctionBreakpoint ==
  {k \in Funcs : hit \in bps[k].at /\ hit.point \in ByParams[k]}

(* The search ends with an error at a function breakpoint with parameters, *)
(* wherever that one is set, when the arguments of the frame cannot be     *)
(* read.                                                                   *)
ArgumentsFail == hit.point \in Unreadable /\ \E k \in Params : IsSet(k)

(* HandleEnabled: a condition that is false or fails is a miss; a source   *)
(* breakpoint that misses gives way to the function breakpoints.           *)
Report == Usable(hit) /\ (HitEntry \/ HitManagedBreakpoint \cup HitManagedFunctionBreakpoint # {})
Miss ==
  \/ ~Usable(hit)
  \/ /\ ~HitEntry
     /\ \A k \in HitManagedBreakpoint : ~Unconditional(k)
     /\ \/ HitManagedFunctionBreakpoint = {}
        \/ \E k \in HitManagedFunctionBreakpoint : ~Unconditional(k)
        \/ ArgumentsFail

HitBreakpoint ==
  /\ hit # NoPoint /\ hit' = NoPoint
  /\ ~Locked
  /\ (Report /\ stopped' = TRUE) \/ (Miss /\ UNCHANGED stopped)
  /\ entryAt' = IF Usable(hit) /\ HitEntry THEN {} ELSE entryAt
  /\ UNCHANGED <<proc, run, modules, bps, nextId, stopAtEntry, entryPoint, cmdVars, cbVars,
                 shown>>

-----------------------------------------------------------------------------
Requests(keys) ==
  UNION {[1..n -> {s \in Sources : s.key \in keys}] : n \in 0..MaxSources}

Client ==
  \/ \E file \in Files : \E src \in Requests({file} \X Lines) : SetBreakpoints(file, src)
  \/ \E src \in Requests(Funcs) : SetFunctionBreakpoints(src)

Disconnect == TerminateProcess \/ DetachFromProcess

(* What goes on below the protocol, whichever it is.                       *)
Debugger ==
  \/ SetOneLine \/ SetOneFunction \/ ProcessReleased
  \/ \E m \in Modules : LoadModule(m)
  \/ TryLoadModuleSymbols \/ TryResolveBreakpointsForModule
  \/ EmitBreakpointEvent \/ LoadModuleReturns
  \/ ExitProcess \/ ReachBreakpoint \/ HitBreakpoint

Next == Client \/ Reply \/ Continue \/ Launch \/ Attach \/ Disconnect \/ Debugger

Spec == Init /\ [][Next]_vars

-----------------------------------------------------------------------------
(* ResolvedWhenLoaded: between a request's look at the list of modules and *)
(* the callback's look at the list of breakpoints nothing falls through: a *)
(* breakpoint that is set but nowhere is in no loaded module with symbols, *)
(* unless the runtime refused it, a function in that module and a line in  *)
(* whichever module it was tried in.  Dead entries of the module list,     *)
(* which a callback can leave behind when the process is terminated under  *)
(* it, are excluded: they make GetLocationInAny give up.                   *)
Missed(k, m) ==
  /\ PlacesIn(k, m) # {}
  /\ IF k \in Funcs THEN ~Refused(k, m) ELSE \A j \in modules : ~Refused(k, j)

ResolvedWhenLoaded ==
  proc = "alive" /\ cbpc # "resolve" /\ Stale = {} =>
    \A k \in Keys, m \in modules :
      IsSet(k) /\ ~IsResolved(k) /\ m.module \in Symbols => ~Missed(k, m)

(* The inductive invariant behind it: modules are of runs that have begun, *)
(* and an unresolved breakpoint may only be in the module that the         *)
(* callback has added and not yet gone through.                            *)
RunsBegun ==
  /\ cbpc # "idle" => cbmod \in Loaded /\ cbmod.run <= run
  /\ \A m \in modules : m.run <= run

OnlyInNewModule ==
  proc = "alive" /\ Stale = {} =>
    \A k \in Keys, m \in modules :
      IsSet(k) /\ ~IsResolved(k) /\ m.module \in Symbols =>
        ~Missed(k, m) \/ (cbpc = "resolve" /\ m = cbmod)

TodoInv ==
  /\ Locked => todo # <<>>
  /\ cpc = "lines" => \A i \in 1..Len(todo) : todo[i].key \notin Funcs

ResolveInv ==
  /\ TypeOK
  /\ TodoInv
  /\ RunsBegun
  /\ OnlyInNewModule

(* ClientAgrees: whatever the order in which answers and events arrive,    *)
(* between two requests the client knows the breakpoints by their ids, and *)
(* what it shows as verified was resolved.                                 *)
ClientAgrees ==
  cpc = "idle" => \A k \in Keys :
    shown[k].id # 0 => /\ bps[k].id = shown[k].id
                       /\ shown[k].verified => IsResolved(k)

(* StopsWhereAsked: a stop is only reported of the process that is being   *)
(* debugged, at a place some breakpoint set at that moment accepts or at   *)
(* the entry point, although the worker looks it up after requests have    *)
(* changed the breakpoints or replaced the process.                        *)
AskedStop ==
  stopped' /\ ~stopped =>
    /\ proc = "alive" /\ hit.run = run
    /\ \/ hit.point = entryPoint
       \/ \E k \in Keys : /\ IsSet(k) /\ Matches(k, hit.point)
                          /\ k \in Funcs => hit.point \in ByParams[k]

StopsWhereAsked == [][AskedStop]_vars

(* UnconditionalStops: a hit is not lost while an unconditional breakpoint *)
(* stands at its place, if its file is named letter for letter as in the   *)
(* symbols (resolution ignores case, the lookup of a hit does not) and no  *)
(* other one hides it: one set under the full path of the file, a          *)
(* conditional function breakpoint, or, where the arguments of the frame   *)
(* cannot be read, a function breakpoint with parameters.                  *)
Exact(k) ==
  k \in LineKeys => k[1] \in {PosOf[hit.point][1], NameOf[PosOf[hit.point][1]]}

Hides(j, k) ==
  \/ j \in LineKeys /\ k \in LineKeys /\ j[1] = PosOf[hit.point][1] /\ k[1] # j[1]
  \/ j \in Funcs /\ k \in Funcs /\ (~Unconditional(j) \/ (j \in Params /\ ArgumentsFail))

HitNotLost ==
  hit # NoPoint /\ hit' = NoPoint /\ Usable(hit) =>
    \A k \in Keys :
      (/\ IsSet(k) /\ Unconditional(k) /\ hit \in bps[k].at /\ Exact(k)
       /\ k \in Funcs => hit.point \in ByParams[k]
       /\ ~\E j \in Keys : IsSet(j) /\ Hides(j, k)) => stopped'

UnconditionalStops == [][HitNotLost]_vars

(* The inductive invariant behind both: only what is set has places, they  *)
(* are places of its key, and the entry breakpoint is at the entry point.  *)
PlacesInv ==
  \A k \in Keys : /\ ~IsSet(k) => ~IsResolved(k)
                  /\ \A a \in bps[k].at : Matches(k, a.point)

HitsInv ==
  /\ ResolveInv
  /\ PlacesInv
  /\ \A a \in entryAt : a.point = entryPoint

-----------------------------------------------------------------------------
(* The breakpoints implement the table: ids, resolution and the client's   *)
(* knowledge are state of both, and a request is open from the erasure of  *)
(* what it does not name until its answer is sent.                         *)
Table == INSTANCE BreakpointTable WITH
  table <- [k \in Keys |-> [id |-> bps[k].id, resolved |-> IsResolved(k)]],
  last <- nextId - 1,
  known <- shown,
  busy <- group

(* ImplementsTable: whatever the order of requests, of the answers and     *)
(* events on their way and of processes, no id is given out twice, nothing *)
(* is unresolved again, an answer built under the mutex is still true when *)
(* it is sent without it, and an event never speaks of another breakpoint. *)
ImplementsTable == Table!Spec

(* The inductive invariant behind it: a request in progress stays inside   *)
(* its group, ids are below the counter and belong to one key, and what    *)
(* has been prepared for the client is still so.                           *)
Agrees(k, told) ==
  IF told.id = 0 THEN ~told.verified
  ELSE bps[k].id = told.id /\ (told.verified => IsResolved(k))

GroupInv ==
  /\ cpc \in {"idle", "terminating"} => group = {}
  /\ \A i \in 1..Len(todo) : todo[i].key \in group
  /\ ~Locked => todo = <<>>
  /\ \A k \in Keys \ group : reply[k] = Unshown
  /\ \A k \in group : IsSet(k) => reply[k].id # 0 \/ k \in KeysOf(todo)

IdsInv ==
  /\ \A k \in Keys : bps[k].id < nextId /\ shown[k].id < nextId
  /\ \A i \in events : i < nextId
  /\ \A j, k \in Keys : bps[j].id = bps[k].id /\ IsSet(k) => j = k

ToldInv ==
  /\ \A k \in Keys : Agrees(k, reply[k])
  /\ \A k \in Keys \ group : Agrees(k, shown[k])
  /\ \A i \in events, k \in Keys : bps[k].id = i => IsResolved(k)

TableInv ==
  /\ ResolveInv
  /\ GroupInv /\ IdsInv /\ ToldInv
  /\ \A k \in Keys : ~IsSet(k) => ~IsResolved(k)
=============================================================================
