------------------------ MODULE BreakpointHits_proof ------------------------
(***************************************************************************)
(* Proofs about what the worker decides when a breakpoint is hit: it stops *)
(* only where asked, and always where asked without a condition.           *)
(***************************************************************************)
EXTENDS Breakpoints_proof

(* A breakpoint can only be set at places of its key.                      *)
LEMMA PlacesMatch ==
  ASSUME NEW k \in Keys, NEW m, NEW at \in PlacesIn(k, m), NEW a \in at
  PROVE  Matches(k, a.point)
<1>1. \A P : \A h \in Here(P) : h.point \in P
  BY DEF Here
<1>2. \A p \in PointsIn(k, m) : Matches(k, p)
  BY DEF PointsIn
<1>3. PICK P \in SUBSET PointsIn(k, m) : at = Here(P)
  <2>1. CASE k \notin Funcs
    <3>1. PICK p \in PointsIn(k, m) : at = Here({p} \cap Settable)
      BY <2>1 DEF PlacesIn
    <3>2. {p} \cap Settable \in SUBSET PointsIn(k, m)
      OBVIOUS
    <3> QED
      BY <3>1, <3>2
  <2>2. CASE k \in Funcs /\ Refused(k, m)
    BY <2>2 DEF PlacesIn
  <2>3. CASE k \in Funcs /\ ~Refused(k, m)
    BY <2>3 DEF PlacesIn
  <2> QED
    BY <2>1, <2>2, <2>3
<1> QED
  BY <1>1, <1>2, <1>3

(* So do the lookups in all modules.                                       *)
LEMMA FoundMatch ==
  ASSUME NEW k \in Keys, NEW at \in ResolveBreakpoint(k) \cup ResolveFunctionBreakpoint(k),
         NEW a \in at
  PROVE  Matches(k, a.point)
<1>1. CASE at \in ResolveBreakpoint(k)
  <2>1. PICK m \in modules : at \in PlacesIn(k, m)
    BY <1>1 DEF ResolveBreakpoint
  <2> QED
    BY <2>1, PlacesMatch
<1>2. CASE at \in ResolveFunctionBreakpoint(k)
  <2>1. at \subseteq UNION {UNION PlacesIn(k, m) : m \in modules}
    BY <1>2 DEF ResolveFunctionBreakpoint
  <2>2. PICK m \in modules : a \in UNION PlacesIn(k, m)
    BY <2>1
  <2>3. PICK places \in PlacesIn(k, m) : a \in places
    BY <2>2
  <2> QED
    BY <2>3, PlacesMatch
<1> QED
  BY <1>1, <1>2

(* A request erases breakpoints.                                           *)
LEMMA ErasedPlaces ==
  ASSUME PlacesInv, bps \in [Keys -> Breakpoint], NEW G,
         bps' = [k \in Keys |-> IF k \in G THEN Unset ELSE bps[k]]
  PROVE  PlacesInv'
  BY DEF PlacesInv, IsSet, IsResolved, Unset

(* A request sets one breakpoint.                                          *)
LEMMA SetOnePlaces ==
  ASSUME PlacesInv, TypeOK, Locked, todo # <<>>, NEW places,
         \A at \in places : \A a \in at : Matches(Head(todo).key, a.point),
         SetOne(Head(todo).key, Head(todo).cond, places)
  PROVE  PlacesInv'
<1> DEFINE k0 == Head(todo).key
           c0 == Head(todo).cond
<1>1. k0 \in Keys /\ nextId # 0 /\ bps \in [Keys -> Breakpoint]
  BY TodoTypes, BreakpointsAssumption DEF TypeOK
<1>2. CASE IsSet(k0)
  <2>1. bps' = [bps EXCEPT ![k0].cond = c0]
    BY <1>2 DEF SetOne
  <2>2. \A k \in Keys : bps'[k].id = bps[k].id /\ bps'[k].at = bps[k].at
    <3>1. \A b \in Breakpoint : [b EXCEPT !.cond = c0].id = b.id
                                /\ [b EXCEPT !.cond = c0].at = b.at
      BY DEF Breakpoint
    <3> QED
      BY <1>1, <2>1, <3>1
  <2> QED
    BY <2>2 DEF PlacesInv, IsSet, IsResolved
<1>3. CASE ~IsSet(k0)
  <2>1. PICK at \in places : bps' = [bps EXCEPT ![k0] = [id |-> nextId, cond |-> c0, at |-> at]]
    BY <1>3 DEF SetOne
  <2>2. /\ bps'[k0].id = nextId /\ bps'[k0].at = at
        /\ \A k \in Keys \ {k0} : bps'[k] = bps[k]
    BY <1>1, <2>1
  <2> QED
    BY <1>1, <2>2 DEF PlacesInv, IsSet, IsResolved
<1> QED
  BY <1>2, <1>3

(* The callback resolves breakpoints in the new module, and may set the    *)
(* entry breakpoint.                                                       *)
LEMMA ResolvedPlaces ==
  ASSUME HitsInv, TryResolveBreakpointsForModule
  PROVE  PlacesInv' /\ \A a \in entryAt' : a.point = entryPoint'
<1> DEFINE new == {k \in Keys : /\ IsSet(k) /\ ~IsResolved(k)
                                /\ cbmod \in modules /\ PlacesIn(k, cbmod) # {}}
<1>1. PICK at \in [new -> UNION {PlacesIn(k, cbmod) : k \in new}] :
        /\ \A k \in new : at[k] \in PlacesIn(k, cbmod)
        /\ bps' = [k \in Keys |-> IF k \in new THEN [bps[k] EXCEPT !.at = at[k]] ELSE bps[k]]
  BY DEF TryResolveBreakpointsForModule, ResolveAll
<1>2. \A x : \A b \in Breakpoint : [b EXCEPT !.at = x].id = b.id /\ [b EXCEPT !.at = x].at = x
  BY DEF Breakpoint
<1>3. bps \in [Keys -> Breakpoint]
  BY DEF HitsInv, ResolveInv, TypeOK
<1>4. ASSUME NEW k \in Keys
      PROVE  /\ ~IsSet(k)' => ~IsResolved(k)'
             /\ \A a \in bps'[k].at : Matches(k, a.point)
  <2>1. CASE k \in new
    <3>1. bps'[k].id = bps[k].id /\ bps'[k].at = at[k]
      BY <1>1, <1>2, <1>3, <2>1
    <3>2. IsSet(k) /\ at[k] \in PlacesIn(k, cbmod)
      BY <1>1, <2>1
    <3> QED
      BY <3>1, <3>2, PlacesMatch DEF IsSet
  <2>2. CASE k \notin new
    <3>1. bps'[k] = bps[k]
      BY <1>1, <2>2
    <3> QED
      BY <3>1 DEF HitsInv, PlacesInv, IsSet, IsResolved
  <2> QED
    BY <2>1, <2>2
<1>5. PlacesInv'
  BY <1>4 DEF PlacesInv
<1>6. \A a \in entryAt' : a.point = entryPoint'
  <2>1. CASE UNCHANGED <<entryPoint, entryAt>>
    BY <2>1 DEF HitsInv
  <2>2. CASE /\ entryPoint' = EntryOf[cbmod.module]
             /\ entryAt' = Here({EntryOf[cbmod.module]})
    BY <2>2 DEF Here
  <2> QED
    BY <2>1, <2>2 DEF TryResolveBreakpointsForModule, TrySetupEntryBreakpoint
<1> QED
  BY <1>5, <1>6

(* So the start of a request keeps what the decisions rest on.             *)
LEMMA RequestHits ==
  ASSUME HitsInv, ResolveInv', NEW keys, NEW src, NEW loop, StartRequest(keys, src, loop)
  PROVE  HitsInv'
<1>1. /\ \E G : bps' = [k \in Keys |-> IF k \in G THEN Unset ELSE bps[k]]
      /\ UNCHANGED <<entryAt, entryPoint>>
  BY DEF StartRequest, entryVars
<1>2. PlacesInv'
  BY <1>1, ErasedPlaces DEF HitsInv, ResolveInv, TypeOK
<1> QED
  BY <1>1, <1>2 DEF HitsInv

LEMMA HitsInit == Init => HitsInv
<1> SUFFICES ASSUME Init PROVE HitsInv
  OBVIOUS
<1>1. PlacesInv
  BY DEF Init, PlacesInv, Unset, IsResolved
<1> QED
  BY <1>1, ResolveInit DEF Init, HitsInv

LEMMA HitsNext == HitsInv /\ [Next]_vars => HitsInv'
<1> SUFFICES ASSUME HitsInv, [Next]_vars PROVE HitsInv'
  OBVIOUS
<1> USE DEF codeVars, entryVars, cmdVars, cbVars
<1>0. ResolveInv' /\ ResolveInv /\ TypeOK /\ PlacesInv
      /\ (\A a \in entryAt : a.point = entryPoint) /\ bps \in [Keys -> Breakpoint]
  BY ResolveNext DEF HitsInv, ResolveInv, TypeOK
<1>1. CASE Client
  BY <1>0, <1>1, RequestHits DEF Client, SetBreakpoints, SetFunctionBreakpoints
<1>2. CASE SetOneLine \/ SetOneFunction
  <2>1. Locked /\ todo # <<>>
    BY <1>0, <1>2 DEF SetOneLine, SetOneFunction, Locked, ResolveInv, TodoInv
  <2>2. Head(todo).key \in Keys
    BY <1>0, <2>1, TodoTypes DEF TypeOK
  <2>3. PICK places \in {ResolveBreakpoint(Head(todo).key),
                         ResolveFunctionBreakpoint(Head(todo).key)} :
          SetOne(Head(todo).key, Head(todo).cond, places)
    BY <1>2 DEF SetOneLine, SetOneFunction
  <2>4. \A at \in places : \A a \in at : Matches(Head(todo).key, a.point)
    BY <2>2, <2>3, FoundMatch
  <2>5. PlacesInv'
    BY <1>0, <2>1, <2>3, <2>4, SetOnePlaces
  <2>6. UNCHANGED <<entryAt, entryPoint>>
    BY <2>3 DEF SetOne
  <2> QED
    BY <1>0, <2>5, <2>6 DEF HitsInv
<1>3. CASE TryResolveBreakpointsForModule
  BY <1>0, <1>3, ResolvedPlaces DEF HitsInv
<1>4. CASE DetachFromProcess
  <2>1. bps' = [k \in Keys |-> IF k \in Keys \ Funcs THEN Unset ELSE bps[k]] /\ entryAt' = {}
    BY <1>4 DEF DetachFromProcess
  <2>2. PlacesInv'
    BY <1>0, <2>1, ErasedPlaces
  <2> QED
    BY <1>0, <2>1, <2>2 DEF HitsInv
<1>5. CASE \/ Reply \/ Continue \/ Launch \/ Attach \/ ExitProcess \/ TerminateProcess
           \/ ProcessReleased \/ (\E m \in Modules : LoadModule(m)) \/ TryLoadModuleSymbols
           \/ EmitBreakpointEvent \/ LoadModuleReturns \/ ReachBreakpoint \/ HitBreakpoint
           \/ UNCHANGED vars
  <2>1. UNCHANGED <<bps, entryPoint>> /\ entryAt' \subseteq entryAt
    BY <1>5 DEF Reply, Continue, Launch, Attach, NewProcess, ExitProcess, TerminateProcess,
                ProcessReleased, LoadModule, TryLoadModuleSymbols, EmitBreakpointEvent,
                LoadModuleReturns, ReachBreakpoint, HitBreakpoint, vars
  <2>2. PlacesInv'
    BY <1>0, <2>1 DEF PlacesInv, IsSet, IsResolved
  <2> QED
    BY <1>0, <2>1, <2>2 DEF HitsInv
<1> QED
  BY <1>1, <1>2, <1>3, <1>4, <1>5 DEF Next, Debugger, Disconnect

(* The invariant behind the decisions about hits holds.                    *)
THEOREM HitsInvariant == Spec => []HitsInv
<1> QED
  BY HitsInit, HitsNext, PTL DEF Spec

(* What a lookup finds is set, and is a breakpoint of this place.          *)
LEMMA FoundIsSet ==
  ASSUME HitsInv, hit # NoPoint
  PROVE  /\ \A k \in HitManagedBreakpoint : k \in LineKeys /\ IsSet(k) /\ Matches(k, hit.point)
         /\ \A k \in HitManagedFunctionBreakpoint :
              k \in Funcs /\ IsSet(k) /\ Matches(k, hit.point) /\ hit.point \in ByParams[k]
<1>0. hit.point \in Points /\ PlacesInv
  <2>1. hit \in Locations
    BY DEF HitsInv, ResolveInv, TypeOK
  <2> QED
    BY <2>1 DEF Locations, HitsInv
<1>1. ASSUME NEW k \in HitManagedBreakpoint
      PROVE  k \in LineKeys /\ IsSet(k) /\ Matches(k, hit.point)
  <2> DEFINE d == PosOf[hit.point][1]
             l == PosOf[hit.point][2]
  <2>1. /\ PosOf[hit.point] # NoPos /\ hit.point \in {a.point : a \in bps[k].at}
        /\ k = <<d, l>> \/ k = <<NameOf[d], l>>
    BY DEF HitManagedBreakpoint
  <2>2. d \in Docs /\ l \in Lines
    BY <1>0, <2>1, BreakpointsAssumption
  <2>3. k \in LineKeys /\ k \in Keys
    BY <2>1, <2>2, BreakpointsAssumption DEF LineKeys, Files, Keys
  <2>4. PICK a \in bps[k].at : hit.point = a.point
    BY <2>1
  <2> QED
    BY <1>0, <2>3, <2>4 DEF PlacesInv, IsResolved
<1>2. ASSUME NEW k \in HitManagedFunctionBreakpoint
      PROVE  k \in Funcs /\ IsSet(k) /\ Matches(k, hit.point) /\ hit.point \in ByParams[k]
  <2>1. k \in Funcs /\ hit \in bps[k].at /\ hit.point \in ByParams[k]
    BY DEF HitManagedFunctionBreakpoint
  <2>2. k \in Keys
    BY <2>1 DEF Keys
  <2> QED
    BY <1>0, <2>1, <2>2 DEF PlacesInv, IsResolved
<1> QED
  BY <1>1, <1>2

(* Only a worker's decision shows a stop or forgets a hit.                 *)
LEMMA OnlyWorkers ==
  ASSUME [Next]_vars, (stopped' /\ ~stopped) \/ (hit # NoPoint /\ hit' = NoPoint)
  PROVE  HitBreakpoint
<1> USE DEF codeVars, entryVars, cmdVars, cbVars
<1>1. CASE \/ Client \/ Reply \/ Continue \/ Launch \/ Attach \/ Disconnect
           \/ SetOneLine \/ SetOneFunction \/ ProcessReleased
  <2>1. hit' = hit /\ (stopped' = stopped \/ stopped' = FALSE)
    BY <1>1 DEF Client, SetBreakpoints, SetFunctionBreakpoints, StartRequest, Reply, Continue,
                Launch, Attach, NewProcess, Disconnect, TerminateProcess, DetachFromProcess,
                SetOneLine, SetOneFunction, SetOne, ProcessReleased
  <2> QED
    BY <2>1
<1>2. CASE \/ (\E m \in Modules : LoadModule(m)) \/ TryLoadModuleSymbols
           \/ TryResolveBreakpointsForModule \/ EmitBreakpointEvent \/ LoadModuleReturns
           \/ ExitProcess \/ UNCHANGED vars
  <2>1. hit' = hit /\ stopped' = stopped
    BY <1>2 DEF LoadModule, TryLoadModuleSymbols, TryResolveBreakpointsForModule,
                EmitBreakpointEvent, LoadModuleReturns, ExitProcess, vars
  <2> QED
    BY <2>1
<1>3. CASE ReachBreakpoint
  BY <1>3 DEF ReachBreakpoint
<1> QED
  BY <1>1, <1>2, <1>3 DEF Next, Debugger

(* When the worker reports a stop, it is of this process, and a breakpoint *)
(* that is set asks for it.                                                *)
LEMMA ReportIsAsked ==
  ASSUME HitsInv, HitBreakpoint, stopped', ~stopped
  PROVE  /\ proc = "alive" /\ hit.run = run
         /\ \/ hit.point = entryPoint
            \/ \E k \in Keys : /\ IsSet(k) /\ Matches(k, hit.point)
                               /\ k \in Funcs => hit.point \in ByParams[k]
<1>1. hit # NoPoint /\ Report
  BY DEF HitBreakpoint
<1>2. proc = "alive" /\ hit.run = run
  BY <1>1 DEF Report, Usable
<1>3. CASE HitEntry
  BY <1>2, <1>3 DEF HitEntry, HitsInv
<1>4. CASE \E k \in HitManagedBreakpoint : TRUE
  <2>1. PICK k \in HitManagedBreakpoint : TRUE
    BY <1>4
  <2>2. k \in LineKeys /\ IsSet(k) /\ Matches(k, hit.point)
    BY <1>1, <2>1, FoundIsSet
  <2>3. k \in Keys /\ k \notin Funcs
    BY <2>2, BreakpointsAssumption DEF Keys
  <2> QED
    BY <1>2, <2>2, <2>3
<1>5. CASE \E k \in HitManagedFunctionBreakpoint : TRUE
  <2>1. PICK k \in HitManagedFunctionBreakpoint : TRUE
    BY <1>5
  <2>2. k \in Funcs /\ IsSet(k) /\ Matches(k, hit.point) /\ hit.point \in ByParams[k]
    BY <1>1, <2>1, FoundIsSet
  <2>3. k \in Keys
    BY <2>2 DEF Keys
  <2> QED
    BY <1>2, <2>2, <2>3
<1> QED
  BY <1>1, <1>3, <1>4, <1>5 DEF Report

(* When it reports none, no breakpoint without a condition was in sight.   *)
LEMMA MissIsRight ==
  ASSUME HitsInv, HitBreakpoint, Usable(hit),
         NEW k \in Keys, IsSet(k), Unconditional(k), hit \in bps[k].at, Exact(k),
         k \in Funcs => hit.point \in ByParams[k],
         ~\E j \in Keys : IsSet(j) /\ Hides(j, k)
  PROVE  stopped'
<1> SUFFICES ASSUME Miss PROVE FALSE
  BY DEF HitBreakpoint
<1>1. hit # NoPoint
  BY DEF HitBreakpoint
<1>2. /\ \A j \in HitManagedBreakpoint : ~Unconditional(j)
      /\ \/ HitManagedFunctionBreakpoint = {}
         \/ \E j \in HitManagedFunctionBreakpoint : ~Unconditional(j)
         \/ ArgumentsFail
  BY DEF Miss
<1>3. CASE k \in Funcs
  <2>1. k \in HitManagedFunctionBreakpoint
    BY <1>3 DEF HitManagedFunctionBreakpoint
  <2>2. CASE \E j \in HitManagedFunctionBreakpoint : ~Unconditional(j)
    <3>1. PICK j \in HitManagedFunctionBreakpoint : ~Unconditional(j)
      BY <2>2
    <3>2. j \in Funcs /\ IsSet(j) /\ j \in Keys
      BY <1>1, <3>1, FoundIsSet DEF Keys
    <3> QED
      BY <1>3, <3>1, <3>2 DEF Hides
  <2>3. CASE ArgumentsFail
    <3>1. PICK j \in Params : IsSet(j)
      BY <2>3 DEF ArgumentsFail
    <3>2. j \in Funcs /\ j \in Keys
      BY BreakpointsAssumption DEF Keys
    <3> QED
      BY <1>3, <2>3, <3>1, <3>2 DEF Hides
  <2> QED
    BY <1>2, <2>1, <2>2, <2>3
<1>4. CASE k \notin Funcs
  <2> DEFINE d == PosOf[hit.point][1]
             l == PosOf[hit.point][2]
  <2>1. Matches(k, hit.point)
    BY DEF HitsInv, PlacesInv
  <2>2. PosOf[hit.point] # NoPos /\ k[2] = l /\ k[1] \in {d, NameOf[d]} /\ k \in LineKeys
    BY <1>4, <2>1 DEF Matches, Keys, Exact
  <2>3. k = <<k[1], l>> /\ k[1] \in Files
    BY <2>2 DEF LineKeys
  <2>4. hit.point \in {a.point : a \in bps[k].at}
    OBVIOUS
  <2>5. k \notin HitManagedBreakpoint
    BY <1>2
  <2>6. CASE k[1] = d
    <3>1. \E x \in Lines : IsSet(<<d, x>>)
      BY <2>2, <2>3, <2>6 DEF LineKeys
    <3> QED
      BY <2>2, <2>3, <2>4, <2>5, <2>6, <3>1 DEF HitManagedBreakpoint
  <2>7. CASE k[1] # d
    <3>1. PICK x \in Lines : IsSet(<<d, x>>)
      BY <2>2, <2>3, <2>4, <2>5, <2>7 DEF HitManagedBreakpoint
    <3>2. <<d, x>> \in LineKeys /\ <<d, x>> \in Keys
      <4>1. hit.point \in Points
        BY <1>1 DEF HitsInv, ResolveInv, TypeOK, Locations
      <4>2. d \in Docs
        BY <2>2, <4>1, BreakpointsAssumption
      <4> QED
        BY <4>2 DEF LineKeys, Files, Keys
    <3>3. Hides(<<d, x>>, k)
      BY <2>2, <2>7, <3>2 DEF Hides
    <3> QED
      BY <3>1, <3>2, <3>3
  <2> QED
    BY <2>6, <2>7
<1> QED
  BY <1>3, <1>4

(* Whatever requests did between the hit and the decision, and whichever   *)
(* process is there by then: a stop is of this process, and a breakpoint   *)
(* that is set asks for it.                                                *)
THEOREM StopsAreAsked == Spec => StopsWhereAsked
<1>1. HitsInv /\ [Next]_vars => AskedStop
  BY OnlyWorkers, ReportIsAsked DEF AskedStop
<1> QED
  BY <1>1, HitsInvariant, PTL DEF Spec, StopsWhereAsked

(* A hit is not lost while a breakpoint without a condition stands at its  *)
(* place and is not hidden by another: deleting, replacing and reordering  *)
(* the others, and other processes before this one, change nothing.        *)
THEOREM UnconditionalAlwaysStop == Spec => UnconditionalStops
<1>1. HitsInv /\ [Next]_vars => HitNotLost
  BY OnlyWorkers, MissIsRight DEF HitNotLost
<1> QED
  BY <1>1, HitsInvariant, PTL DEF Spec, UnconditionalStops
=============================================================================
