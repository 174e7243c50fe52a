-------------------------- MODULE Breakpoints_proof --------------------------
(***************************************************************************)
(* Proofs about Breakpoints for every set of files, lines, functions and   *)
(* modules, every code, and all bounds.                                    *)
(***************************************************************************)
EXTENDS Breakpoints, SequenceTheorems, TLAPS

(* A breakpoint is set at places of this run; it is set nowhere in a       *)
(* module that has it only if the runtime refuses it there.                *)
LEMMA PlacesAreLocations ==
  ASSUME TypeOK, NEW k \in Keys, NEW m, NEW at \in PlacesIn(k, m)
  PROVE  at \in SUBSET Locations /\ (at = {} => Refused(k, m))
<1>1. proc = "alive" /\ PointsIn(k, m) # {}
  BY DEF PlacesIn, Usable
<1>2. run \in Runs
  BY <1>1, BreakpointsAssumption DEF TypeOK, Runs
<1>3. PointsIn(k, m) \subseteq Points
  BY DEF PointsIn
<1>4. \A P \in SUBSET Points : Here(P) \in SUBSET Locations /\ (P # {} => Here(P) # {})
  <2> TAKE P \in SUBSET Points
  <2>1. \A p \in P : [run |-> run, point |-> p] \in Here(P)
    BY DEF Here
  <2>2. Here(P) \in SUBSET Locations
    BY <1>2 DEF Here, Locations
  <2> QED
    BY <2>1, <2>2
<1>5. CASE k \notin Funcs
  <2>1. PICK p \in PointsIn(k, m) : at = Here({p} \cap Settable)
    BY <1>1, <1>5 DEF PlacesIn
  <2>2. {p} \cap Settable \in SUBSET Points /\ (p \in Settable => {p} \cap Settable # {})
    BY <1>3
  <2>3. at \in SUBSET Locations /\ (p \in Settable => at # {})
    BY <1>4, <2>1, <2>2
  <2> QED
    BY <2>1, <2>3 DEF Refused
<1>6. CASE k \in Funcs /\ Refused(k, m)
  <2>1. PICK P \in SUBSET (PointsIn(k, m) \cap Settable) : at = Here(P)
    BY <1>1, <1>6 DEF PlacesIn
  <2> QED
    BY <1>3, <1>4, <1>6, <2>1
<1>7. CASE k \in Funcs /\ ~Refused(k, m)
  <2>1. at = Here(PointsIn(k, m))
    BY <1>1, <1>7 DEF PlacesIn
  <2> QED
    BY <1>1, <1>3, <1>4, <2>1
<1> QED
  BY <1>5, <1>6, <1>7

(* What GetLocationInAny finds for a line: places, and nothing only if no  *)
(* module has the line, the runtime refused it, or a dead module is in the *)
(* way.                                                                    *)
LEMMA ResolveBreakpointFinds ==
  ASSUME TypeOK, NEW k \in Keys, k \notin Funcs, NEW at \in ResolveBreakpoint(k)
  PROVE  /\ at \in SUBSET Locations
         /\ at = {} /\ Stale = {} => \A m \in modules : ~Missed(k, m)
<1>1. \A m \in modules : \A a \in PlacesIn(k, m) : a \in SUBSET Locations
                                                  /\ (a = {} => Refused(k, m))
  BY PlacesAreLocations
<1>2. CASE \E m \in modules : at \in PlacesIn(k, m)
  BY <1>1, <1>2 DEF Missed
<1>3. CASE \A m \in modules : at \notin PlacesIn(k, m)
  <2>1. at = {} /\ (Stale # {} \/ UNION {PlacesIn(k, m) : m \in modules} = {})
    BY <1>3 DEF ResolveBreakpoint
  <2> QED
    BY <2>1 DEF Missed
<1> QED
  BY <1>2, <1>3

(* The same of ResolveFunctionInAny, where a refusal only counts for its   *)
(* own module.                                                             *)
LEMMA ResolveFunctionBreakpointFinds ==
  ASSUME TypeOK, NEW k \in Keys, NEW at \in ResolveFunctionBreakpoint(k)
  PROVE  /\ at \in SUBSET Locations
         /\ at = {} /\ Stale = {} => \A m \in modules : ~Missed(k, m)
<1> DEFINE In(m) == {a \in at : ModuleOf[a.point] = m.module}
<1>1. \A m \in modules : \A a \in PlacesIn(k, m) : a \in SUBSET Locations
                                                  /\ (a = {} => Refused(k, m))
  BY PlacesAreLocations
<1>2. /\ at \subseteq UNION {UNION PlacesIn(k, m) : m \in modules}
      /\ \A m \in modules : \/ In(m) \in PlacesIn(k, m)
                            \/ In(m) = {} /\ (Stale # {} \/ PlacesIn(k, m) = {})
  BY DEF ResolveFunctionBreakpoint
<1>3. at \in SUBSET Locations
  BY <1>1, <1>2
<1>4. ASSUME at = {}, Stale = {}, NEW m \in modules PROVE ~Missed(k, m)
  <2>1. In(m) = {}
    BY <1>4
  <2>2. PlacesIn(k, m) = {} \/ Refused(k, m)
    BY <1>1, <1>2, <1>4, <2>1
  <2> QED
    BY <1>4, <2>2 DEF Missed
<1> QED
  BY <1>3, <1>4

(* The first element and the rest of a request.                            *)
LEMMA TodoTypes ==
  ASSUME NEW s \in Seq(Sources), s # <<>>
  PROVE  /\ Head(s) \in Sources /\ Head(s).key \in Keys /\ Head(s).cond \in Conds \cup {NoCond}
         /\ Tail(s) \in Seq(Sources) /\ Len(Tail(s)) = Len(s) - 1 /\ Len(s) \in Nat
<1>1. Head(s) \in Sources /\ Tail(s) \in Seq(Sources) /\ Len(Tail(s)) = Len(s) - 1
  BY HeadTailProperties
<1>2. Len(s) \in Nat
  BY LenProperties
<1> QED
  BY <1>1, <1>2 DEF Sources

(* What is still to be set is the first element or in the rest.            *)
LEMMA HeadFirst ==
  ASSUME NEW s \in Seq(Sources), s # <<>>
  PROVE  /\ \A i \in 1..Len(Tail(s)) : i + 1 \in 1..Len(s) /\ Tail(s)[i] = s[i + 1]
         /\ KeysOf(s) \subseteq {Head(s).key} \cup KeysOf(Tail(s))
<1>1. /\ Tail(s) \in Seq(Sources) /\ Len(Tail(s)) = Len(s) - 1
      /\ \A i \in 1..Len(Tail(s)) : Tail(s)[i] = s[i + 1]
  BY HeadTailProperties
<1>2. Head(s) = s[1] /\ Len(s) \in Nat /\ Len(s) # 0
  BY LenProperties, EmptySeq
<1>3. ASSUME NEW i \in 1..Len(s), i # 1
      PROVE  i - 1 \in 1..Len(Tail(s)) /\ Tail(s)[i - 1] = s[i]
  BY <1>1, <1>2, <1>3
<1>4. KeysOf(s) \subseteq {Head(s).key} \cup KeysOf(Tail(s))
  BY <1>2, <1>3 DEF KeysOf
<1>5. \A i \in 1..Len(Tail(s)) : i + 1 \in 1..Len(s)
  BY <1>1, <1>2
<1> QED
  BY <1>1, <1>4, <1>5

(* The requests the client makes are sequences of sources of the group.    *)
LEMMA RequestTypes ==
  ASSUME NEW G \in SUBSET Keys, NEW src \in Requests(G)
  PROVE  src \in Seq(Sources) /\ \A i \in 1..Len(src) : src[i].key \in G
<1>1. PICK n \in 0..MaxSources : src \in [1..n -> {s \in Sources : s.key \in G}]
  BY DEF Requests
<1>2. n \in Nat /\ src \in [1..n -> Sources]
  BY <1>1, BreakpointsAssumption
<1>3. src \in Seq(Sources)
  BY <1>2, SeqDef
<1>4. Len(src) = n
  BY <1>2
<1> QED
  BY <1>1, <1>3, <1>4

(* Nothing is set, loaded or resolved at the start.                        *)
LEMMA ResolveInit == Init => ResolveInv
<1> SUFFICES ASSUME Init PROVE ResolveInv
  OBVIOUS
<1>1. <<>> \in Seq(Sources) /\ Len(<<>>) = 0
  BY EmptySeq
<1>2. Unset \in Breakpoint /\ Unshown \in Shown
  BY BreakpointsAssumption DEF Breakpoint, Unset, Shown, Unshown
<1>3. bps \in [Keys -> Breakpoint] /\ reply \in [Keys -> Shown] /\ shown \in [Keys -> Shown]
  BY <1>2 DEF Init
<1>4. nextId \in 1..MaxId + 1 /\ run \in 0..MaxRuns /\ nextId + Len(todo) <= MaxId + 1
  BY <1>1, BreakpointsAssumption DEF Init
<1>5. TypeOK
  BY <1>1, <1>3, <1>4 DEF Init, TypeOK
<1> QED
  BY <1>5 DEF Init, ResolveInv, TodoInv, Locked, RunsBegun, OnlyInNewModule

(* Where a breakpoint can be set depends on the process alone.             *)
LEMMA PlacesKept ==
  ASSUME UNCHANGED <<proc, run>>, NEW k, NEW m
  PROVE  PlacesIn(k, m)' = PlacesIn(k, m)
<1>1. Usable(m)' <=> Usable(m)
  BY DEF Usable
<1>2. PointsIn(k, m)' = PointsIn(k, m)
  BY DEF PointsIn
<1>3. \A P : Here(P)' = Here(P)
  BY DEF Here
<1> QED
  BY <1>1, <1>2, <1>3 DEF PlacesIn, Refused

(* Another module only makes it harder to miss a place.                    *)
LEMMA MissedKept ==
  ASSUME UNCHANGED <<proc, run>>, modules \subseteq modules', NEW k, NEW m
  PROVE  Missed(k, m)' => Missed(k, m)
<1>1. PlacesIn(k, m)' = PlacesIn(k, m)
  BY PlacesKept
<1>2. \A j : Refused(k, j)' <=> Refused(k, j)
  BY DEF Refused, PointsIn
<1> QED
  BY <1>1, <1>2 DEF Missed

(* A step that changes neither the process nor the modules keeps what is   *)
(* said about them, if every breakpoint that is unresolved after it is     *)
(* only in the new module.                                                 *)
LEMMA UnresolvedAfter ==
  ASSUME UNCHANGED <<proc, run, modules>>,
         ASSUME proc = "alive", Stale = {}, NEW k \in Keys, NEW m \in modules,
                IsSet(k)', ~IsResolved(k)', m.module \in Symbols
         PROVE  ~Missed(k, m) \/ (cbpc' = "resolve" /\ m = cbmod')
  PROVE  OnlyInNewModule'
<1>1. Stale' = Stale
  BY DEF Stale, Usable
<1>2. \A k \in Keys, m \in modules : Missed(k, m)' => Missed(k, m)
  BY MissedKept
<1> QED
  BY <1>1, <1>2 DEF OnlyInNewModule

(* A step that leaves the process, the modules and the breakpoints alone,  *)
(* and lets the callback thread not forget the module it resolves, keeps   *)
(* what is said about them.                                                *)
LEMMA CodeKept ==
  ASSUME OnlyInNewModule, UNCHANGED <<proc, run, modules, bps>>,
         cbpc = "resolve" => UNCHANGED <<cbpc, cbmod>>
  PROVE  OnlyInNewModule'
<1> SUFFICES ASSUME proc = "alive", Stale = {}, NEW k \in Keys, NEW m \in modules,
                    IsSet(k)', ~IsResolved(k)', m.module \in Symbols
             PROVE  ~Missed(k, m) \/ (cbpc' = "resolve" /\ m = cbmod')
  BY UnresolvedAfter
<1>1. IsSet(k) /\ ~IsResolved(k)
  BY DEF IsSet, IsResolved
<1> QED
  BY <1>1 DEF OnlyInNewModule

(* So does a step after which there is no process.                         *)
LEMMA NoProcess == proc' # "alive" => OnlyInNewModule'
  BY DEF OnlyInNewModule

(* A request starts: breakpoints of its group are erased.                  *)
LEMMA RequestKeeps ==
  ASSUME ResolveInv, NEW keys \in SUBSET Keys, NEW src \in Seq(Sources),
         NEW loop \in {"lines", "funcs"}, StartRequest(keys, src, loop),
         loop = "lines" => \A i \in 1..Len(src) : src[i].key \notin Funcs
  PROVE  ResolveInv'
<1> USE DEF StartRequest, codeVars, entryVars, cbVars
<1>1. src \in Seq(Sources) /\ Len(src) \in Nat
  BY LenProperties
<1>2. bps' \in [Keys -> Breakpoint]
  BY BreakpointsAssumption DEF ResolveInv, TypeOK, Breakpoint, Unset
<1>3. TypeOK'
  BY <1>1, <1>2 DEF ResolveInv, TypeOK
<1>4. TodoInv'
  BY DEF TodoInv, Locked
<1>5. RunsBegun'
  BY DEF ResolveInv, RunsBegun
<1>6. OnlyInNewModule'
  <2>1. \A k \in Keys : IsSet(k)' => bps'[k] = bps[k]
    BY DEF IsSet, Unset, ResolveInv, TypeOK
  <2> SUFFICES ASSUME proc = "alive", Stale = {}, NEW k \in Keys, NEW m \in modules,
                      IsSet(k)', ~IsResolved(k)', m.module \in Symbols
               PROVE  ~Missed(k, m) \/ (cbpc' = "resolve" /\ m = cbmod')
    BY UnresolvedAfter
  <2>2. IsSet(k) /\ ~IsResolved(k)
    BY <2>1 DEF IsSet, IsResolved
  <2> QED
    BY <2>2 DEF ResolveInv, OnlyInNewModule
<1> QED
  BY <1>3, <1>4, <1>5, <1>6 DEF ResolveInv

(* One breakpoint of a request: what is set now and stays unresolved is in *)
(* no loaded module.                                                       *)
LEMMA SetOneKeeps ==
  ASSUME ResolveInv, Locked, NEW places,
         \A at \in places : /\ at \in SUBSET Locations
                            /\ at = {} /\ Stale = {} =>
                                 \A m \in modules : ~Missed(Head(todo).key, m),
         SetOne(Head(todo).key, Head(todo).cond, places)
  PROVE  ResolveInv'
<1> DEFINE k0 == Head(todo).key
           c0 == Head(todo).cond
<1> USE DEF codeVars, entryVars, cbVars
<1>1. /\ todo \in Seq(Sources) /\ todo # <<>> /\ TypeOK
      /\ nextId + Len(todo) <= MaxId + 1 /\ nextId \in 1..MaxId + 1
  BY DEF ResolveInv, TypeOK, TodoInv
<1>2. /\ k0 \in Keys /\ c0 \in Conds \cup {NoCond} /\ Tail(todo) \in Seq(Sources)
      /\ Len(Tail(todo)) = Len(todo) - 1 /\ Len(todo) \in Nat
  BY <1>1, TodoTypes
<1>3. nextId \in 1..MaxId /\ nextId + 1 \in 1..MaxId + 1
  <2>1. Len(todo) # 0
    BY <1>1, EmptySeq
  <2> QED
    BY <1>1, <1>2, <2>1, BreakpointsAssumption
<1>4. PICK new \in Breakpoint : /\ bps' = [bps EXCEPT ![k0] = new]
                                /\ IsSet(k0) => new.at = bps[k0].at
                                /\ ~IsSet(k0) => new.at \in places
                                /\ nextId' = IF IsSet(k0) THEN nextId ELSE nextId + 1
  <2>1. bps[k0] \in Breakpoint
    BY <1>1, <1>2 DEF TypeOK
  <2>2. CASE IsSet(k0)
    <3>1. bps' = [bps EXCEPT ![k0] = [bps[k0] EXCEPT !.cond = c0]] /\ nextId' = nextId
      BY <2>2 DEF SetOne
    <3>2. [bps[k0] EXCEPT !.cond = c0] \in Breakpoint
      BY <1>2, <2>1 DEF Breakpoint
    <3>3. [bps[k0] EXCEPT !.cond = c0].at = bps[k0].at
      BY <2>1 DEF Breakpoint
    <3> QED
      BY <2>2, <3>1, <3>2, <3>3
  <2>3. CASE ~IsSet(k0)
    <3>1. PICK at \in places :
                 bps' = [bps EXCEPT ![k0] = [id |-> nextId, cond |-> c0, at |-> at]]
      BY <2>3 DEF SetOne
    <3>2. [id |-> nextId, cond |-> c0, at |-> at] \in Breakpoint
      BY <1>2, <1>3 DEF Breakpoint
    <3>3. nextId' = nextId + 1
      BY <2>3 DEF SetOne
    <3> QED
      BY <2>3, <3>1, <3>2, <3>3
  <2> QED
    BY <2>2, <2>3
<1>5. bps \in [Keys -> Breakpoint] /\ bps' \in [Keys -> Breakpoint] /\ bps'[k0] = new
  BY <1>1, <1>2, <1>4 DEF TypeOK
<1>6. reply' \in [Keys -> Shown]
  <2>1. bps'[k0].id \in 0..MaxId
    BY <1>2, <1>5 DEF Breakpoint
  <2>2. [id |-> bps'[k0].id, verified |-> bps'[k0].at # {}] \in Shown
    BY <2>1 DEF Shown
  <2> QED
    BY <1>1, <2>2 DEF SetOne, TypeOK
<1>7. nextId' \in 1..MaxId + 1 /\ nextId' + Len(todo') <= MaxId + 1
  BY <1>1, <1>2, <1>3, <1>4, BreakpointsAssumption DEF SetOne
<1>8. TypeOK'
  BY <1>1, <1>2, <1>5, <1>6, <1>7 DEF SetOne, TypeOK
<1>9. TodoInv'
  <2>1. /\ todo' = Tail(todo)
        /\ cpc' = IF Tail(todo) = <<>> THEN "reply" ELSE cpc
    BY DEF SetOne
  <2>2. \A i \in 1..Len(Tail(todo)) : i + 1 \in 1..Len(todo) /\ Tail(todo)[i] = todo[i + 1]
    BY <1>1, HeadFirst
  <2> QED
    BY <2>1, <2>2 DEF ResolveInv, TodoInv, Locked
<1>10. RunsBegun'
  BY DEF SetOne, ResolveInv, RunsBegun
<1>11. OnlyInNewModule'
  <2> SUFFICES ASSUME proc = "alive", Stale = {}, NEW k \in Keys, NEW m \in modules,
                      IsSet(k)', ~IsResolved(k)', m.module \in Symbols
               PROVE  ~Missed(k, m) \/ (cbpc' = "resolve" /\ m = cbmod')
    <3>1. UNCHANGED <<proc, run, modules>>
      BY DEF SetOne
    <3> QED
      BY <3>1, UnresolvedAfter
  <2>0. cbpc' = cbpc /\ cbmod' = cbmod
    BY DEF SetOne
  <2>1. CASE k # k0
    <3>1. IsSet(k) /\ ~IsResolved(k)
      BY <1>4, <1>5, <2>1 DEF IsSet, IsResolved
    <3> QED
      BY <3>1, <2>0 DEF ResolveInv, OnlyInNewModule
  <2>2. CASE k = k0 /\ IsSet(k0)
    <3>1. ~IsResolved(k)
      BY <1>4, <1>5, <2>2 DEF IsResolved
    <3> QED
      BY <2>0, <2>2, <3>1 DEF ResolveInv, OnlyInNewModule
  <2>3. CASE k = k0 /\ ~IsSet(k0)
    <3>1. new.at \in places /\ new.at = {}
      BY <1>4, <1>5, <2>3 DEF IsResolved
    <3> QED
      BY <2>3, <3>1
  <2> QED
    BY <2>1, <2>2, <2>3
<1> QED
  BY <1>8, <1>9, <1>10, <1>11 DEF ResolveInv

(* The callback resolves, in the module it has added, everything that is   *)
(* still unresolved.                                                       *)
LEMMA ResolveKeeps ==
  ASSUME ResolveInv, TryResolveBreakpointsForModule
  PROVE  ResolveInv'
<1> DEFINE new == {k \in Keys : /\ IsSet(k) /\ ~IsResolved(k)
                                /\ cbmod \in modules /\ PlacesIn(k, cbmod) # {}}
<1> USE DEF codeVars, cmdVars
<1>1. PICK at \in [new -> UNION {PlacesIn(k, cbmod) : k \in new}] :
         /\ \A k \in new : at[k] \in PlacesIn(k, cbmod)
         /\ bps' = [k \in Keys |-> IF k \in new THEN [bps[k] EXCEPT !.at = at[k]] ELSE bps[k]]
  BY DEF TryResolveBreakpointsForModule, ResolveAll
<1>2. TypeOK /\ bps \in [Keys -> Breakpoint]
  BY DEF ResolveInv, TypeOK
<1>3. bps' \in [Keys -> Breakpoint]
  <2>1. \A k \in new : at[k] \in SUBSET Locations
    BY <1>1, <1>2, PlacesAreLocations
  <2> QED
    BY <1>1, <1>2, <2>1 DEF Breakpoint
<1>4. events' \in SUBSET (1..MaxId)
  <2>1. \A k \in new : bps[k].id \in 1..MaxId
    BY <1>2, BreakpointsAssumption DEF IsSet, Breakpoint
  <2>2. events' \subseteq {bps[k].id : k \in new}
    BY DEF TryResolveBreakpointsForModule
  <2> QED
    BY <2>1, <2>2
<1>5. entryPoint' \in Points \cup {NoPoint} /\ entryAt' \in SUBSET Locations
  <2>1. CASE UNCHANGED <<entryPoint, entryAt>>
    BY <1>2, <2>1 DEF TypeOK
  <2>2. CASE /\ EntryOf[cbmod.module] \in Settable /\ Usable(cbmod) /\ cbmod \in Loaded
             /\ entryPoint' = EntryOf[cbmod.module]
             /\ entryAt' = Here({EntryOf[cbmod.module]})
    <3>1. EntryOf[cbmod.module] \in Points
      BY <2>2, BreakpointsAssumption DEF Loaded
    <3>2. run \in Runs
      BY <1>2, <2>2, BreakpointsAssumption DEF TypeOK, Runs, Usable
    <3>3. Here({EntryOf[cbmod.module]}) \in SUBSET Locations
      BY <3>1, <3>2 DEF Here, Locations
    <3> QED
      BY <2>2, <3>1, <3>3
  <2>3. cbmod \in Loaded
    BY DEF ResolveInv, RunsBegun, TryResolveBreakpointsForModule
  <2> QED
    BY <2>1, <2>2, <2>3 DEF TryResolveBreakpointsForModule, TrySetupEntryBreakpoint
<1>6. TypeOK'
  BY <1>2, <1>3, <1>4, <1>5 DEF TypeOK, TryResolveBreakpointsForModule
<1>7. TodoInv' /\ RunsBegun'
  BY DEF ResolveInv, TodoInv, Locked, RunsBegun, TryResolveBreakpointsForModule
<1>8. OnlyInNewModule'
  <2> SUFFICES ASSUME proc = "alive", Stale = {}, NEW k \in Keys, NEW m \in modules,
                      IsSet(k)', ~IsResolved(k)', m.module \in Symbols
               PROVE  ~Missed(k, m)
    <3>1. UNCHANGED <<proc, run, modules>>
      BY DEF TryResolveBreakpointsForModule
    <3> QED
      BY <3>1, UnresolvedAfter
  <2>1. CASE k \in new
    <3>1. IsSet(k) /\ ~IsResolved(k) /\ cbmod \in modules
      BY <2>1
    <3>2. bps'[k].at = at[k] /\ at[k] \in PlacesIn(k, cbmod)
      BY <1>1, <1>2, <2>1 DEF Breakpoint
    <3>3. Refused(k, cbmod)
      BY <1>2, <3>2, PlacesAreLocations DEF IsResolved
    <3>4. ~Missed(k, m) \/ m = cbmod
      BY <3>1 DEF ResolveInv, OnlyInNewModule
    <3> QED
      BY <3>1, <3>3, <3>4 DEF Missed
  <2>2. CASE k \notin new
    <3>1. IsSet(k) /\ ~IsResolved(k)
      BY <1>1, <2>2 DEF IsSet, IsResolved
    <3>2. ~Missed(k, m) \/ m = cbmod
      BY <3>1 DEF ResolveInv, OnlyInNewModule
    <3> QED
      BY <2>2, <3>1, <3>2 DEF Missed
  <2> QED
    BY <2>1, <2>2
<1> QED
  BY <1>6, <1>7, <1>8 DEF ResolveInv

(* Every step keeps the invariant.                                         *)
LEMMA ResolveNext == ResolveInv /\ [Next]_vars => ResolveInv'
<1> SUFFICES ASSUME ResolveInv, [Next]_vars PROVE ResolveInv'
  OBVIOUS
<1> USE DEF codeVars, entryVars, cmdVars, cbVars
<1>0. TypeOK /\ RunsBegun /\ OnlyInNewModule /\ TodoInv
  BY DEF ResolveInv
<1>1. CASE UNCHANGED vars
  <2>1. TypeOK' /\ RunsBegun' /\ TodoInv'
    BY <1>0, <1>1 DEF vars, TypeOK, RunsBegun, TodoInv, Locked
  <2>2. OnlyInNewModule'
    BY <1>0, <1>1, CodeKept DEF vars
  <2> QED
    BY <2>1, <2>2 DEF ResolveInv
<1>2. CASE Client
  <2>1. \A file \in Files : {file} \X Lines \in SUBSET Keys
    BY DEF Keys, LineKeys
  <2>2. Funcs \in SUBSET Keys
    BY DEF Keys
  <2>3. \A file \in Files : \A k \in {file} \X Lines : k \notin Funcs
    BY BreakpointsAssumption DEF LineKeys
  <2>4. ASSUME NEW file \in Files, NEW src \in Requests({file} \X Lines),
               SetBreakpoints(file, src)
        PROVE  ResolveInv'
    <3>1. src \in Seq(Sources) /\ \A i \in 1..Len(src) : src[i].key \in {file} \X Lines
      BY <2>1, <2>4, RequestTypes
    <3> QED
      BY <2>1, <2>3, <2>4, <3>1, RequestKeeps DEF SetBreakpoints
  <2>5. ASSUME NEW src \in Requests(Funcs), SetFunctionBreakpoints(src)
        PROVE  ResolveInv'
    <3>1. src \in Seq(Sources)
      BY <2>2, <2>5, RequestTypes
    <3> QED
      BY <2>2, <2>5, <3>1, RequestKeeps DEF SetFunctionBreakpoints
  <2> QED
    BY <1>2, <2>4, <2>5 DEF Client
<1>3. CASE SetOneLine
  <2>1. Locked
    BY <1>3 DEF SetOneLine, TodoInv, Locked
  <2>2. Head(todo).key \in Keys /\ Head(todo).key \notin Funcs
    <3>1. todo \in Seq(Sources) /\ todo # <<>> /\ cpc = "lines"
      BY <1>0, <1>3, <2>1 DEF TypeOK, TodoInv, SetOneLine
    <3>2. Head(todo) = todo[1] /\ 1 \in 1..Len(todo)
      BY <3>1, LenProperties, EmptySeq
    <3> QED
      BY <1>0, <3>1, <3>2, TodoTypes DEF TodoInv
  <2> QED
    BY <1>0, <1>3, <2>1, <2>2, SetOneKeeps, ResolveBreakpointFinds DEF SetOneLine
<1>4. CASE SetOneFunction
  <2>1. Locked
    BY <1>4 DEF SetOneFunction, TodoInv, Locked
  <2>2. Head(todo).key \in Keys
    BY <1>0, <2>1, TodoTypes DEF TypeOK, TodoInv
  <2> QED
    BY <1>0, <1>4, <2>1, <2>2, SetOneKeeps, ResolveFunctionBreakpointFinds DEF SetOneFunction
<1>5. CASE Reply
  <2>1. reply' \in [Keys -> Shown] /\ shown' \in [Keys -> Shown]
    BY <1>0, <1>5, BreakpointsAssumption DEF Reply, TypeOK, Shown, Unshown
  <2>2. TypeOK' /\ RunsBegun' /\ TodoInv'
    BY <1>0, <1>5, <2>1 DEF Reply, TypeOK, RunsBegun, TodoInv, Locked
  <2>3. OnlyInNewModule'
    BY <1>0, <1>5, CodeKept DEF Reply
  <2> QED
    BY <2>2, <2>3 DEF ResolveInv
<1>6. CASE Continue
  <2>1. TypeOK' /\ RunsBegun' /\ TodoInv'
    BY <1>0, <1>6 DEF Continue, TypeOK, RunsBegun, TodoInv, Locked
  <2>2. OnlyInNewModule'
    BY <1>0, <1>6, CodeKept DEF Continue
  <2> QED
    BY <2>1, <2>2 DEF ResolveInv
<1>7. CASE Launch \/ Attach
  <2>1. NewProcess /\ stopAtEntry' \in BOOLEAN
    BY <1>0, <1>7 DEF Launch, Attach, TypeOK
  <2>2. run' \in 0..MaxRuns /\ run' > run /\ run' # 0 /\ run \in Nat
    BY <1>0, <2>1, BreakpointsAssumption DEF NewProcess, TypeOK
  <2>3. TypeOK'
    BY <1>0, <2>1, <2>2 DEF NewProcess, TypeOK
  <2>4. RunsBegun' /\ TodoInv'
    <3>1. \A m \in Loaded : m.run \in Nat
      BY BreakpointsAssumption DEF Loaded, Runs
    <3>2. modules' \subseteq modules /\ modules \subseteq Loaded
      BY <1>0, <2>1 DEF NewProcess, TypeOK
    <3> QED
      BY <1>0, <2>1, <2>2, <3>1, <3>2 DEF NewProcess, RunsBegun, TodoInv, Locked
  <2>5. OnlyInNewModule'
    <3>1. \A m \in modules' : m \in Stale'
      <4>1. \A m \in Loaded : m.run \in Nat
        BY BreakpointsAssumption DEF Loaded, Runs
      <4>2. modules' \subseteq modules /\ modules \subseteq Loaded
        BY <1>0, <2>1 DEF NewProcess, TypeOK
      <4>3. \A m \in modules' : m.run # run'
        BY <1>0, <2>2, <4>1, <4>2 DEF RunsBegun
      <4> QED
        BY <4>3 DEF Stale, Usable
    <3> QED
      BY <3>1 DEF OnlyInNewModule
  <2> QED
    BY <2>3, <2>4, <2>5 DEF ResolveInv
<1>8. CASE ExitProcess
  <2>1. TypeOK' /\ RunsBegun' /\ TodoInv'
    BY <1>0, <1>8 DEF ExitProcess, TypeOK, RunsBegun, TodoInv, Locked
  <2> QED
    BY <1>8, <2>1, NoProcess DEF ExitProcess, ResolveInv
<1>9. CASE TerminateProcess
  <2>1. shown' \in [Keys -> Shown]
    BY <1>9, BreakpointsAssumption DEF TerminateProcess, Shown, Unshown
  <2>2. TypeOK' /\ RunsBegun' /\ TodoInv'
    BY <1>0, <1>9, <2>1 DEF TerminateProcess, TypeOK, RunsBegun, TodoInv, Locked
  <2> QED
    BY <1>9, <2>2, NoProcess DEF TerminateProcess, ResolveInv
<1>10. CASE ProcessReleased
  <2>1. TypeOK' /\ RunsBegun' /\ TodoInv'
    BY <1>0, <1>10 DEF ProcessReleased, TypeOK, RunsBegun, TodoInv, Locked
  <2> QED
    BY <1>10, <2>1, NoProcess DEF ProcessReleased, ResolveInv
<1>11. CASE DetachFromProcess
  <2>1. shown' \in [Keys -> Shown] /\ bps' \in [Keys -> Breakpoint]
    BY <1>0, <1>11, BreakpointsAssumption
       DEF DetachFromProcess, TypeOK, Shown, Unshown, Breakpoint, Unset
  <2>2. TypeOK' /\ RunsBegun' /\ TodoInv'
    BY <1>0, <1>11, <2>1 DEF DetachFromProcess, TypeOK, RunsBegun, TodoInv, Locked
  <2> QED
    BY <1>11, <2>2, NoProcess DEF DetachFromProcess, ResolveInv
<1>12. ASSUME NEW mod \in Modules, LoadModule(mod) PROVE ResolveInv'
  <2>1. run \in Runs
    BY <1>0, <1>12, BreakpointsAssumption DEF LoadModule, TypeOK, Runs
  <2>2. cbmod' \in Loaded /\ cbmod'.run <= run
    BY <1>12, <2>1, BreakpointsAssumption DEF LoadModule, Loaded, Runs
  <2>3. TypeOK' /\ RunsBegun' /\ TodoInv'
    BY <1>0, <1>12, <2>2 DEF LoadModule, TypeOK, RunsBegun, TodoInv, Locked
  <2>4. OnlyInNewModule'
    BY <1>0, <1>12, CodeKept DEF LoadModule
  <2> QED
    BY <2>3, <2>4 DEF ResolveInv
<1>13. CASE TryLoadModuleSymbols
  <2>1. cbmod \in Loaded /\ cbmod.run <= run
    BY <1>0, <1>13 DEF TryLoadModuleSymbols, RunsBegun
  <2>2. modules' \in {modules, modules \cup {cbmod}} /\ cbpc' \in {"resolve", "emit"}
    BY <1>13 DEF TryLoadModuleSymbols
  <2>3. TypeOK' /\ RunsBegun' /\ TodoInv'
    BY <1>0, <1>13, <2>1, <2>2 DEF TryLoadModuleSymbols, TypeOK, RunsBegun, TodoInv, Locked
  <2>4. OnlyInNewModule'
    <3>0. UNCHANGED <<proc, run, bps, cbmod>>
      BY <1>13 DEF TryLoadModuleSymbols
    <3> SUFFICES ASSUME proc = "alive", Stale' = {}, NEW k \in Keys, NEW m \in modules',
                        IsSet(k), ~IsResolved(k), m.module \in Symbols
                 PROVE  ~Missed(k, m)' \/ (cbpc' = "resolve" /\ m = cbmod)
      <4>1. \A k \in Keys : (IsSet(k)' <=> IsSet(k)) /\ (IsResolved(k)' <=> IsResolved(k))
        BY <3>0 DEF IsSet, IsResolved
      <4> QED
        BY <3>0, <4>1 DEF OnlyInNewModule
    <3>1. Stale = {}
      BY <1>13, <2>2 DEF TryLoadModuleSymbols, Stale, Usable
    <3>2. CASE m \in modules
      <4>1. ~Missed(k, m)
        BY <1>0, <1>13, <3>1, <3>2 DEF TryLoadModuleSymbols, OnlyInNewModule
      <4> QED
        BY <2>2, <3>0, <4>1, MissedKept
    <3>3. CASE m \notin modules
      BY <1>13, <3>3 DEF TryLoadModuleSymbols
    <3> QED
      BY <3>2, <3>3
  <2> QED
    BY <2>3, <2>4 DEF ResolveInv
<1>14. CASE TryResolveBreakpointsForModule
  BY <1>14, ResolveKeeps
<1>15. CASE EmitBreakpointEvent
  <2>0. PICK i \in events :
               /\ events' = events \ {i}
               /\ shown' = [k \in Keys |-> IF shown[k].id = i THEN [shown[k] EXCEPT !.verified = TRUE]
                                          ELSE shown[k]]
    BY <1>15 DEF EmitBreakpointEvent
  <2>1. shown' \in [Keys -> Shown] /\ events' \in SUBSET (1..MaxId)
    <3>1. \A x \in Shown : [x EXCEPT !.verified = TRUE] \in Shown
      BY DEF Shown
    <3>2. shown \in [Keys -> Shown] /\ events \in SUBSET (1..MaxId)
      BY <1>0 DEF TypeOK
    <3> QED
      BY <2>0, <3>1, <3>2
  <2>2. TypeOK' /\ RunsBegun' /\ TodoInv'
    BY <1>0, <1>15, <2>1 DEF EmitBreakpointEvent, TypeOK, RunsBegun, TodoInv, Locked
  <2>3. OnlyInNewModule'
    BY <1>0, <1>15, CodeKept DEF EmitBreakpointEvent
  <2> QED
    BY <2>2, <2>3 DEF ResolveInv
<1>16. CASE LoadModuleReturns
  <2>1. TypeOK' /\ RunsBegun' /\ TodoInv'
    BY <1>0, <1>16 DEF LoadModuleReturns, TypeOK, RunsBegun, TodoInv, Locked
  <2>2. OnlyInNewModule'
    BY <1>0, <1>16, CodeKept DEF LoadModuleReturns
  <2> QED
    BY <2>1, <2>2 DEF ResolveInv
<1>17. CASE ReachBreakpoint
  <2>1. hit' \in Locations
    <3>1. \A k \in Keys : bps[k].at \subseteq Locations
      <4>1. \A b \in Breakpoint : b.at \subseteq Locations
        BY DEF Breakpoint
      <4> QED
        BY <1>0, <4>1 DEF TypeOK
    <3>2. entryAt \subseteq Locations
      BY <1>0 DEF TypeOK
    <3>3. hit' \in entryAt \/ \E k \in Keys : hit' \in bps[k].at
      BY <1>17 DEF ReachBreakpoint, Armed
    <3> QED
      BY <3>1, <3>2, <3>3
  <2>2. TypeOK' /\ RunsBegun' /\ TodoInv'
    BY <1>0, <1>17, <2>1 DEF ReachBreakpoint, TypeOK, RunsBegun, TodoInv, Locked
  <2>3. OnlyInNewModule'
    BY <1>0, <1>17, CodeKept DEF ReachBreakpoint
  <2> QED
    BY <2>2, <2>3 DEF ResolveInv
<1>18. CASE HitBreakpoint
  <2>0. stopped' \in BOOLEAN
    BY <1>0, <1>18 DEF HitBreakpoint, TypeOK
  <2>1. entryAt' \in SUBSET Locations
    BY <1>0, <1>18 DEF HitBreakpoint, TypeOK
  <2>2. TypeOK' /\ RunsBegun' /\ TodoInv'
    BY <1>0, <1>18, <2>0, <2>1 DEF HitBreakpoint, TypeOK, RunsBegun, TodoInv, Locked
  <2>3. OnlyInNewModule'
    BY <1>0, <1>18, CodeKept DEF HitBreakpoint
  <2> QED
    BY <2>2, <2>3 DEF ResolveInv
<1> QED
  BY <1>1, <1>2, <1>3, <1>4, <1>5, <1>6, <1>7, <1>8, <1>9, <1>10, <1>11, <1>12, <1>13, <1>14,
     <1>15, <1>16, <1>17, <1>18 DEF Next, Debugger, Disconnect

(* The invariant behind the resolution of breakpoints holds.               *)
THEOREM ResolveInvariant == Spec => []ResolveInv
<1> QED
  BY ResolveInit, ResolveNext, PTL DEF Spec

(* Every variable of the breakpoint tables, the module list, the request   *)
(* and the callback keeps its type; in particular no request runs out of   *)
(* breakpoint ids on its way.                                              *)
THEOREM BreakpointsTypeCorrect == Spec => []TypeOK
<1>1. ResolveInv => TypeOK
  BY DEF ResolveInv
<1> QED
  BY <1>1, ResolveInvariant, PTL

(* Nothing falls through between a request's look at the modules and the   *)
(* callback's look at the breakpoints.                                     *)
THEOREM ResolvedInLoaded == Spec => []ResolvedWhenLoaded
<1>1. ResolveInv => ResolvedWhenLoaded
  BY DEF ResolveInv, OnlyInNewModule, ResolvedWhenLoaded
<1> QED
  BY <1>1, ResolveInvariant, PTL
=============================================================================
