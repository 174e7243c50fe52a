------------------------ MODULE BreakpointTable_proof ------------------------
(***************************************************************************)
(* Proof that Breakpoints implements BreakpointTable, and that the client  *)
(* agrees with the debugger between two requests.                          *)
(***************************************************************************)
EXTENDS Breakpoints_proof

(* The shape of breakpoints and of what the client is told of them.        *)
LEMMA Shapes ==
  ASSUME TypeOK
  PROVE  /\ \A k \in Keys : /\ bps[k] \in Breakpoint /\ bps[k].id \in Nat
                            /\ shown[k] \in Shown /\ shown[k].id \in Nat
                            /\ reply[k] \in Shown /\ reply[k].id \in Nat
         /\ nextId \in Nat /\ nextId > 0
<1>1. \A b \in Breakpoint : b.id \in Nat
  BY BreakpointsAssumption DEF Breakpoint
<1>2. \A s \in Shown : s.id \in Nat
  BY BreakpointsAssumption DEF Shown
<1> QED
  BY <1>1, <1>2, BreakpointsAssumption DEF TypeOK

(* Nothing is set and nothing told at the start.                           *)
LEMMA TableInit == Init => TableInv /\ Table!Init
<1> SUFFICES ASSUME Init PROVE TableInv /\ Table!Init
  OBVIOUS
<1>1. /\ \A k \in Keys : bps[k] = Unset /\ reply[k] = Unshown /\ shown[k] = Unshown
      /\ cpc = "idle" /\ group = {} /\ events = {} /\ nextId = 1
      /\ shown = [k \in Keys |-> Unshown]
  BY DEF Init
<1>2. GroupInv
  <2>1. todo = <<>> /\ Len(todo) = 0
    BY EmptySeq DEF Init
  <2> QED
    BY <1>1, <2>1 DEF GroupInv, Locked
<1>3. IdsInv
  BY <1>1 DEF IdsInv, Unset, Unshown, IsSet
<1>4. ToldInv
  BY <1>1 DEF ToldInv, Agrees, Unshown, Unset
<1>5. \A k \in Keys : ~IsSet(k) /\ ~IsResolved(k)
  BY <1>1 DEF IsSet, IsResolved, Unset
<1>6. TableInv
  BY <1>2, <1>3, <1>4, <1>5, ResolveInit DEF TableInv
<1>7. Table!Init
  <2>1. \A k \in Keys : [id |-> bps[k].id, resolved |-> IsResolved(k)] = Table!NoEntry
    <3> SUFFICES ASSUME NEW k \in Keys
                 PROVE  [id |-> bps[k].id, resolved |-> IsResolved(k)] = Table!NoEntry
      OBVIOUS
    <3>1. bps[k].id = 0 /\ bps[k].at = {}
      BY <1>1 DEF Unset
    <3>2. IsResolved(k) = FALSE
      BY <3>1 DEF IsResolved
    <3> QED
      BY <3>1, <3>2 DEF Table!NoEntry
  <2>2. Unshown = Table!Unknown
    BY DEF Unshown, Table!Unknown
  <2> QED
    BY <1>1, <2>1, <2>2 DEF Table!Init
<1> QED
  BY <1>6, <1>7

(* A step that leaves the breakpoints and all messages about them alone    *)
(* changes nothing the client could notice.                                *)
LEMMA TableKept ==
  ASSUME TableInv, ResolveInv', UNCHANGED <<bps, nextId, todo, reply, group, events, shown>>,
         cpc' # cpc => cpc \in {"idle", "terminating"} /\ cpc' \in {"idle", "terminating"}
  PROVE  TableInv' /\ UNCHANGED Table!vars
<1>1. GroupInv'
  BY DEF TableInv, GroupInv, Locked, IsSet, KeysOf
<1>2. IdsInv'
  BY DEF TableInv, IdsInv, IsSet
<1>3. ToldInv'
  BY DEF TableInv, ToldInv, Agrees, IsResolved
<1>4. (\A k \in Keys : ~IsSet(k) => ~IsResolved(k))'
  BY DEF TableInv, IsSet, IsResolved
<1>5. \A k \in Keys : IsResolved(k)' = IsResolved(k)
  BY DEF IsResolved
<1>6. UNCHANGED Table!vars
  BY <1>5 DEF Table!vars
<1> QED
  BY <1>1, <1>2, <1>3, <1>4, <1>6 DEF TableInv

(* A request starts.                                                       *)
LEMMA RequestOpens ==
  ASSUME TableInv, ResolveInv', NEW keys \in SUBSET Keys, NEW src \in Seq(Sources),
         \A i \in 1..Len(src) : src[i].key \in keys,
         NEW loop \in {"lines", "funcs"}, StartRequest(keys, src, loop)
  PROVE  TableInv' /\ Table!Next
<1> DEFINE gone == keys \ KeysOf(src)
<1>1. /\ group = {} /\ group' = keys /\ todo' = src /\ cpc = "idle"
      /\ UNCHANGED <<nextId, reply, events, shown>>
      /\ bps' = [k \in Keys |-> IF k \in gone THEN Unset ELSE bps[k]]
  BY DEF TableInv, GroupInv, StartRequest, cbVars
<1>2. \A k \in Keys : bps'[k] = (IF k \in gone THEN Unset ELSE bps[k])
  BY <1>1
<1>3. \A k \in Keys : reply[k] = Unshown
  BY <1>1 DEF TableInv, GroupInv
<1>5. GroupInv'
  <2>1. cpc' = (IF src = <<>> THEN "reply" ELSE loop)
    BY DEF StartRequest
  <2>2. \A k \in keys : bps'[k].id # 0 => k \in KeysOf(src)
    BY <1>2 DEF Unset
  <2> QED
    BY <1>1, <1>3, <2>1, <2>2 DEF GroupInv, Locked, IsSet, KeysOf
<1>6. /\ \A k \in Keys : IsSet(k)' => k \notin gone /\ bps'[k] = bps[k]
      /\ \A k \in Keys : IsResolved(k)' => k \notin gone /\ bps'[k] = bps[k]
      /\ \A k \in Keys : k \in gone => ~IsSet(k)' /\ ~IsResolved(k)'
      /\ \A k \in Keys : k \notin gone => bps'[k] = bps[k]
  BY <1>2 DEF IsSet, IsResolved, Unset
<1>7. IdsInv'
  <2>1. \A k \in Keys : bps'[k].id < nextId'
    BY <1>1, <1>2, Shapes DEF TableInv, ResolveInv, IdsInv, Unset
  <2>2. \A j, k \in Keys : bps'[j].id = bps'[k].id /\ bps'[k].id # 0 => j = k
    BY <1>2 DEF TableInv, IdsInv, IsSet, Unset
  <2> QED
    BY <1>1, <2>1, <2>2 DEF TableInv, IdsInv, IsSet
<1>8. ToldInv'
  <2>1. \A k \in Keys : Agrees(k, reply[k])'
    BY <1>1, <1>3 DEF Agrees, Unshown
  <2>2. \A k \in Keys \ group' : Agrees(k, shown[k])'
    <3> SUFFICES ASSUME NEW k \in Keys \ keys PROVE Agrees(k, shown[k])'
      BY <1>1
    <3>1. bps'[k] = bps[k] /\ shown'[k] = shown[k]
      BY <1>1, <1>2
    <3>2. Agrees(k, shown[k])
      BY <1>1 DEF TableInv, ToldInv
    <3> QED
      BY <3>1, <3>2 DEF Agrees, IsResolved
  <2>3. \A i \in events', k \in Keys : bps'[k].id = i => IsResolved(k)'
    <3> SUFFICES ASSUME NEW i \in events, NEW k \in Keys, bps'[k].id = i
                 PROVE  IsResolved(k)'
      BY <1>1
    <3>1. i # 0
      BY DEF TableInv, ResolveInv, TypeOK
    <3>2. bps'[k] = bps[k]
      BY <1>2, <3>1 DEF Unset
    <3> QED
      BY <3>2 DEF TableInv, ToldInv, IsResolved
  <2> QED
    BY <2>1, <2>2, <2>3 DEF ToldInv
<1>9. (\A k \in Keys : ~IsSet(k) => ~IsResolved(k))'
  BY <1>2 DEF TableInv, IsSet, IsResolved, Unset
<1>10. Table!Open(keys, gone)
  BY <1>1, <1>2, <1>6 DEF Table!Open, Table!NoEntry, Unset, IsResolved
<1> QED
  BY <1>5, <1>7, <1>8, <1>9, <1>10 DEF TableInv, Table!Next

(* The keys of a request that is under way.                                *)
LEMMA TodoInGroup ==
  ASSUME TableInv, Locked
  PROVE  /\ todo \in Seq(Sources) /\ todo # <<>> /\ Head(todo).key \in Keys \cap group
         /\ \A i \in 1..Len(Tail(todo)) : Tail(todo)[i].key \in group
         /\ KeysOf(todo) \subseteq {Head(todo).key} \cup KeysOf(Tail(todo))
<1>1. todo \in Seq(Sources) /\ todo # <<>>
  BY DEF TableInv, ResolveInv, TypeOK, TodoInv
<1>2. \A i \in 1..Len(todo) : todo[i].key \in group
  BY DEF TableInv, GroupInv
<1>3. Head(todo) = todo[1] /\ 1 \in 1..Len(todo)
  BY <1>1, LenProperties, EmptySeq
<1> QED
  BY <1>1, <1>2, <1>3, TodoTypes, HeadFirst

(* One breakpoint of the request gets a fresh id or keeps its own, and the *)
(* others keep theirs.                                                     *)
LEMMA SetOneIds ==
  ASSUME TableInv, Locked, NEW places, NEW k0, NEW c0, k0 = Head(todo).key,
         SetOne(k0, c0, places)
  PROVE  /\ \/ /\ IsSet(k0) /\ nextId' = nextId /\ bps'[k0].id = bps[k0].id
               /\ bps'[k0].at = bps[k0].at
            \/ ~IsSet(k0) /\ nextId' = nextId + 1 /\ bps'[k0].id = nextId
         /\ \A k \in Keys : k # k0 => bps'[k] = bps[k] /\ reply'[k] = reply[k]
<1>1. k0 \in Keys /\ bps \in [Keys -> Breakpoint] /\ reply \in [Keys -> Shown]
  BY TodoInGroup DEF TableInv, ResolveInv, TypeOK
<1>2. reply' = [reply EXCEPT ![k0] = [id |-> bps'[k0].id, verified |-> bps'[k0].at # {}]]
  BY DEF SetOne
<1>3. CASE IsSet(k0)
  <2>1. bps' = [bps EXCEPT ![k0] = [bps[k0] EXCEPT !.cond = c0]] /\ nextId' = nextId
    BY <1>3 DEF SetOne
  <2> QED
    BY <1>1, <1>2, <1>3, <2>1 DEF Breakpoint
<1>4. CASE ~IsSet(k0)
  <2>1. PICK at \in places :
               bps' = [bps EXCEPT ![k0] = [id |-> nextId, cond |-> c0, at |-> at]]
    BY <1>4 DEF SetOne
  <2>2. bps'[k0].id = nextId
    BY <1>1, <2>1
  <2>3. nextId' = nextId + 1
    BY <1>4 DEF SetOne
  <2> QED
    BY <1>1, <1>2, <1>4, <2>1, <2>2, <2>3
<1> QED
  BY <1>3, <1>4

(* So the table gets an entry or stays as it is, and the answer tells it.  *)
LEMMA SetOneTells ==
  ASSUME TableInv, ResolveInv', Locked, NEW places, NEW k0, NEW c0,
         k0 = Head(todo).key, SetOne(k0, c0, places)
  PROVE  TableInv' /\ (Table!Next \/ UNCHANGED Table!vars)
<1>1. k0 \in Keys /\ k0 \in group /\ bps \in [Keys -> Breakpoint] /\ reply \in [Keys -> Shown]
  BY TodoInGroup DEF TableInv, ResolveInv, TypeOK
<1>2. /\ UNCHANGED <<group, events, shown>> /\ todo' = Tail(todo)
      /\ cpc' = (IF Tail(todo) = <<>> THEN "reply" ELSE cpc)
      /\ reply' = [reply EXCEPT ![k0] = [id |-> bps'[k0].id, verified |-> bps'[k0].at # {}]]
  BY DEF SetOne, cbVars
<1>3. \/ /\ IsSet(k0) /\ nextId' = nextId /\ bps'[k0].id = bps[k0].id
         /\ bps'[k0].at = bps[k0].at
      \/ ~IsSet(k0) /\ nextId' = nextId + 1 /\ bps'[k0].id = nextId
  BY SetOneIds
<1>4. \A k \in Keys : k # k0 => bps'[k] = bps[k] /\ reply'[k] = reply[k]
  BY SetOneIds
<1>5. reply'[k0].id = bps'[k0].id /\ (reply'[k0].verified <=> bps'[k0].at # {})
  BY <1>1, <1>2
<1>6. nextId \in Nat /\ nextId > 0 /\ \A k \in Keys : bps[k].id \in Nat /\ bps[k].id < nextId
  BY Shapes DEF TableInv, ResolveInv, IdsInv
<1>7. GroupInv'
  <2>1. (\A k \in group : IsSet(k) => reply[k].id # 0 \/ k \in KeysOf(todo))'
    <3> SUFFICES ASSUME NEW k \in group, bps'[k].id # 0
                 PROVE  reply'[k].id # 0 \/ k \in KeysOf(Tail(todo))
      BY <1>2 DEF IsSet, KeysOf
    <3>1. k \in Keys
      BY DEF TableInv, ResolveInv, TypeOK
    <3>2. k = k0 => reply'[k].id # 0
      BY <1>5
    <3>3. k # k0 => reply[k].id # 0 \/ k \in KeysOf(todo)
      BY <1>4, <3>1 DEF TableInv, GroupInv, IsSet
    <3> QED
      BY <1>4, <3>1, <3>2, <3>3, TodoInGroup
  <2> QED
    BY <1>1, <1>2, <1>4, <2>1, TodoInGroup DEF TableInv, GroupInv, Locked
<1>8. IdsInv'
  <2>1. \A k \in Keys : bps'[k].id < nextId'
    BY <1>3, <1>4, <1>6
  <2>2. (\A k \in Keys : shown[k].id < nextId)' /\ (\A i \in events : i < nextId)'
    <3>1. \A i \in events : i \in Nat /\ i < nextId
      BY DEF TableInv, ResolveInv, TypeOK, IdsInv
    <3>2. \A k \in Keys : shown[k].id \in Nat /\ shown[k].id < nextId
      BY Shapes DEF TableInv, ResolveInv, IdsInv
    <3> QED
      BY <1>2, <1>3, <1>6, <3>1, <3>2
  <2>3. \A j, k \in Keys : bps'[j].id = bps'[k].id /\ bps'[k].id # 0 => j = k
    <3>1. \A j, k \in Keys : bps[j].id = bps[k].id /\ bps[k].id # 0 => j = k
      BY DEF TableInv, IdsInv, IsSet
    <3> QED
      BY <1>1, <1>3, <1>4, <1>6, <3>1
  <2> QED
    BY <2>1, <2>2, <2>3 DEF IdsInv, IsSet
<1>9. \A k \in Keys : bps[k].id # 0 => bps'[k].id = bps[k].id /\ bps'[k].at = bps[k].at
  BY <1>1, <1>3, <1>4 DEF IsSet
<1>10. ToldInv'
  <2>1. \A k \in Keys : Agrees(k, reply[k])'
    <3>1. Agrees(k0, reply[k0])'
      BY <1>3, <1>5, <1>6 DEF Agrees, IsResolved, IsSet
    <3>2. ASSUME NEW k \in Keys, k # k0 PROVE Agrees(k, reply[k])'
      BY <1>4, <3>2 DEF TableInv, ToldInv, Agrees, IsResolved
    <3> QED
      BY <3>1, <3>2
  <2>2. \A k \in Keys \ group' : Agrees(k, shown[k])'
    BY <1>1, <1>2, <1>4 DEF TableInv, ToldInv, Agrees, IsResolved
  <2>3. \A i \in events', k \in Keys : bps'[k].id = i => IsResolved(k)'
    <3> SUFFICES ASSUME NEW i \in events, NEW k \in Keys, bps'[k].id = i
                 PROVE  IsResolved(k)'
      BY <1>2
    <3>1. i < nextId /\ i # 0 /\ i \in Nat
      BY DEF TableInv, IdsInv, ResolveInv, TypeOK
    <3>2. bps[k].id = i
      BY <1>3, <1>4, <1>6, <3>1
    <3> QED
      BY <1>9, <3>1, <3>2 DEF TableInv, ToldInv, IsResolved
  <2> QED
    BY <2>1, <2>2, <2>3 DEF ToldInv
<1>11. (\A k \in Keys : ~IsSet(k) => ~IsResolved(k))'
  <2>1. ASSUME NEW k \in Keys, k # k0, ~IsSet(k)' PROVE ~IsResolved(k)'
    BY <1>4, <2>1 DEF TableInv, IsSet, IsResolved
  <2>2. IsSet(k0)'
    BY <1>3, <1>6 DEF IsSet
  <2> QED
    BY <2>1, <2>2
<1>12. CASE IsSet(k0)
  <2>1. \A k \in Keys : bps'[k].id = bps[k].id /\ bps'[k].at = bps[k].at
    BY <1>3, <1>4, <1>12
  <2>2. \A k \in Keys : IsResolved(k)' = IsResolved(k)
    BY <2>1 DEF IsResolved
  <2>3. UNCHANGED Table!vars
    BY <1>2, <1>3, <1>12, <2>1, <2>2 DEF Table!vars
  <2> QED
    BY <1>7, <1>8, <1>10, <1>11, <2>3 DEF TableInv
<1>13. CASE ~IsSet(k0)
  <2> DEFINE entry == [k \in Keys |-> [id |-> bps[k].id, resolved |-> IsResolved(k)]]
  <2>1. bps[k0].id = 0 /\ bps'[k0].id = nextId /\ nextId' = nextId + 1
    BY <1>3, <1>13 DEF IsSet
  <2>2. \A k \in Keys : k # k0 => bps'[k].id = bps[k].id /\ IsResolved(k)' = IsResolved(k)
    BY <1>4 DEF IsResolved
  <2>3. entry' = [entry EXCEPT ![k0] = [id |-> nextId' - 1, resolved |-> IsResolved(k0)']]
    <3>1. nextId' - 1 = bps'[k0].id
      BY <2>1, <1>6
    <3> QED
      BY <1>1, <2>2, <3>1
  <2>4. entry[k0].id = 0 /\ IsResolved(k0)' \in BOOLEAN
    BY <1>1, <2>1 DEF IsResolved
  <2>5. nextId' - 1 = nextId - 1 + 1
    BY <1>6, <2>1
  <2>6. Table!Set(k0)
    BY <1>1, <1>2, <2>3, <2>4, <2>5 DEF Table!Set
  <2> QED
    BY <1>1, <1>7, <1>8, <1>10, <1>11, <2>6 DEF TableInv, Table!Next
<1> QED
  BY <1>12, <1>13

(* The client is told something true of every breakpoint, and perhaps the  *)
(* request is over.                                                        *)
LEMMA ToldAnew ==
  ASSUME TableInv, ResolveInv', UNCHANGED <<bps, nextId, todo, events>>,
         \/ UNCHANGED <<cpc, group, reply>>
         \/ /\ cpc = "reply" /\ cpc' = "idle"
            /\ group' = {} /\ reply' = [k \in Keys |-> Unshown],
         \A k \in Keys : Agrees(k, shown[k])'
  PROVE  TableInv'
<1>1. \A k \in Keys : bps[k].id \in Nat /\ bps[k].id < nextId /\ nextId > 0 /\ nextId \in Nat
  BY Shapes DEF TableInv, ResolveInv, IdsInv
<1>2. GroupInv'
  <2>1. CASE UNCHANGED <<cpc, group, reply>>
    BY <2>1 DEF TableInv, GroupInv, Locked, IsSet, KeysOf
  <2>2. CASE /\ cpc = "reply" /\ cpc' = "idle"
             /\ group' = {} /\ reply' = [k \in Keys |-> Unshown]
    <3>1. todo = <<>> /\ Len(todo) = 0
      BY <2>2, EmptySeq DEF TableInv, GroupInv, Locked
    <3> QED
      BY <2>2, <3>1 DEF GroupInv, Locked
  <2> QED
    BY <2>1, <2>2
<1>3. IdsInv'
  <2>1. \A k \in Keys : bps[k].id < nextId /\ shown'[k].id < nextId
    BY <1>1 DEF Agrees
  <2> QED
    BY <2>1 DEF TableInv, IdsInv, IsSet
<1>4. ToldInv'
  <2>1. \A k \in Keys : Agrees(k, reply[k])'
    BY DEF TableInv, ToldInv, Agrees, IsResolved, Unshown
  <2>2. (\A i \in events, k \in Keys : bps[k].id = i => IsResolved(k))'
    BY DEF TableInv, ToldInv, IsResolved
  <2> QED
    BY <2>1, <2>2 DEF ToldInv
<1>5. (\A k \in Keys : ~IsSet(k) => ~IsResolved(k))'
  BY DEF TableInv, IsSet, IsResolved
<1> QED
  BY <1>2, <1>3, <1>4, <1>5 DEF TableInv

(* The answer to a request is sent.                                        *)
LEMMA ReplyAnswers ==
  ASSUME TableInv, ResolveInv', Reply
  PROVE  TableInv' /\ Table!Next
<1>1. /\ UNCHANGED <<bps, nextId, todo, events>> /\ cpc = "reply" /\ cpc' = "idle"
      /\ group' = {} /\ reply' = [k \in Keys |-> Unshown]
      /\ shown' = [k \in Keys |-> IF k \in group THEN reply[k] ELSE shown[k]]
  BY DEF Reply, codeVars, cbVars
<1>2. \A k \in Keys : Agrees(k, reply[k]) /\ (k \notin group => Agrees(k, shown[k]))
  BY DEF TableInv, ToldInv
<1>3. \A k \in Keys : Agrees(k, shown[k])'
  BY <1>1, <1>2 DEF Agrees, IsResolved
<1>4. TableInv'
  BY <1>1, <1>3, ToldAnew
<1>5. Table!Answer
  <2>1. \A k \in group : k \in Keys
    BY DEF TableInv, ResolveInv, TypeOK
  <2>2. \A k \in group : reply[k].id = 0 => bps[k].id = 0
    <3>1. todo = <<>> /\ Len(todo) = 0
      BY <1>1, EmptySeq DEF TableInv, GroupInv, Locked
    <3>2. KeysOf(todo) = {}
      BY <3>1 DEF KeysOf
    <3> QED
      BY <3>2 DEF TableInv, GroupInv, IsSet
  <2>3. \A k \in group : /\ shown'[k].id = bps[k].id
                         /\ shown'[k].verified => IsResolved(k)
    BY <1>1, <1>2, <2>1, <2>2 DEF Agrees
  <2>4. \A k \in Keys : IsResolved(k)' = IsResolved(k)
    BY <1>1 DEF IsResolved
  <2> QED
    BY <1>1, <2>1, <2>2, <2>3, <2>4 DEF Table!Answer, Table!MayTell
<1> QED
  BY <1>4, <1>5 DEF Table!Next

(* The callback resolves breakpoints and notes their ids.                  *)
LEMMA ResolveTells ==
  ASSUME TableInv, ResolveInv', TryResolveBreakpointsForModule
  PROVE  TableInv' /\ Table!Next
<1> DEFINE found == {k \in Keys : /\ IsSet(k) /\ ~IsResolved(k)
                                  /\ cbmod \in modules /\ PlacesIn(k, cbmod) # {}}
<1>0. PICK at \in [found -> UNION {PlacesIn(k, cbmod) : k \in found}] :
         /\ \A k \in found : at[k] \in PlacesIn(k, cbmod)
         /\ bps' = [k \in Keys |-> IF k \in found THEN [bps[k] EXCEPT !.at = at[k]] ELSE bps[k]]
  BY DEF TryResolveBreakpointsForModule, ResolveAll
<1>1. PICK new \in SUBSET found : new = {k \in found : bps'[k].at # {}}
  OBVIOUS
<1>2. /\ UNCHANGED <<nextId, cpc, todo, reply, group, shown>>
      /\ events' \subseteq {bps[k].id : k \in new}
  <2>1. events' = {bps[k].id : k \in {k \in found : Succeeds(k, bps'[k].at)}}
    BY DEF TryResolveBreakpointsForModule
  <2>2. UNCHANGED <<nextId, cpc, todo, reply, group, shown>>
    BY DEF TryResolveBreakpointsForModule, cmdVars
  <2> HIDE DEF found
  <2>3. ASSUME NEW i \in events' PROVE i \in {bps[k].id : k \in new}
    <3>1. PICK k \in found : bps'[k].at # {} /\ i = bps[k].id
      BY <2>1 DEF Succeeds
    <3> QED
      BY <1>1, <3>1
  <2> QED
    BY <2>2, <2>3
<1>3. TypeOK /\ bps \in [Keys -> Breakpoint]
  BY DEF TableInv, ResolveInv, TypeOK
<1>4. \A k \in new : IsSet(k) /\ k \in Keys
  BY <1>1
<1>5. \A k \in Keys : bps'[k].id = bps[k].id
  BY <1>0, <1>3 DEF Breakpoint
<1>6. \A k \in Keys : k \notin found => bps'[k].at = bps[k].at
  BY <1>0, <1>3
<1>7. \A k \in found : bps[k].at = {}
  BY DEF IsResolved
<1>8. /\ \A k \in Keys : IsResolved(k)' <=> (IsResolved(k) \/ k \in new)
      /\ \A k \in Keys : IsSet(k)' <=> IsSet(k)
  BY <1>1, <1>5, <1>6, <1>7 DEF IsResolved, IsSet
<1>9. GroupInv'
  <2>1. group \subseteq Keys
    BY <1>3 DEF TypeOK
  <2> QED
    BY <1>2, <1>8, <2>1 DEF TableInv, GroupInv, Locked, KeysOf
<1>10. IdsInv'
  <2>1. (\A k \in Keys : bps[k].id < nextId /\ shown[k].id < nextId)'
    BY <1>2, <1>5 DEF TableInv, IdsInv
  <2>2. \A i \in events' : i < nextId'
    BY <1>2, <1>4 DEF TableInv, IdsInv
  <2>3. (\A j, k \in Keys : bps[j].id = bps[k].id /\ IsSet(k) => j = k)'
    BY <1>5, <1>8 DEF TableInv, IdsInv
  <2> QED
    BY <2>1, <2>2, <2>3 DEF IdsInv
<1>11. ToldInv'
  <2>1. \A k \in Keys : Agrees(k, reply[k])'
    BY <1>2, <1>5, <1>8 DEF TableInv, ToldInv, Agrees
  <2>2. (\A k \in Keys \ group : Agrees(k, shown[k]))'
    BY <1>2, <1>5, <1>8 DEF TableInv, ToldInv, Agrees
  <2>3. \A i \in events', k \in Keys : bps'[k].id = i => IsResolved(k)'
    <3> SUFFICES ASSUME NEW j \in new, NEW k \in Keys, bps[k].id = bps[j].id
                 PROVE  IsResolved(k)'
      BY <1>2, <1>5
    <3>1. j = k
      BY <1>4 DEF TableInv, IdsInv
    <3> QED
      BY <1>8, <3>1
  <2> QED
    BY <2>1, <2>2, <2>3 DEF ToldInv
<1>12. (\A k \in Keys : ~IsSet(k) => ~IsResolved(k))'
  BY <1>4, <1>8 DEF TableInv
<1>13. Table!Resolve(new)
  <2>1. \A k \in new : k \in Keys /\ bps[k].id # 0
    BY <1>4 DEF IsSet
  <2>2. \A k \in Keys : IsResolved(k)' = (IF k \in new THEN TRUE ELSE IsResolved(k))
    BY <1>8 DEF IsResolved
  <2>3. \A k \in Keys : [id |-> bps'[k].id, resolved |-> IsResolved(k)'] =
                        IF k \in new
                        THEN [[id |-> bps[k].id, resolved |-> IsResolved(k)] EXCEPT !.resolved = TRUE]
                        ELSE [id |-> bps[k].id, resolved |-> IsResolved(k)]
    BY <1>5, <2>2
  <2> QED
    BY <1>2, <2>1, <2>3 DEF Table!Resolve
<1>14. Table!Next
  BY <1>13 DEF Table!Next
<1> QED
  BY <1>9, <1>10, <1>11, <1>12, <1>14 DEF TableInv

(* An event is sent: the client finds its id, if it knows it.              *)
LEMMA EventTells ==
  ASSUME TableInv, ResolveInv', EmitBreakpointEvent
  PROVE  TableInv' /\ Table!Next
<1>1. PICK i \in events :
         /\ events' = events \ {i}
         /\ shown' = [k \in Keys |-> IF shown[k].id = i THEN [shown[k] EXCEPT !.verified = TRUE]
                                     ELSE shown[k]]
  BY DEF EmitBreakpointEvent
<1>2. UNCHANGED <<bps, nextId, cpc, todo, reply, group>>
  BY DEF EmitBreakpointEvent, cmdVars
<1>3. TypeOK /\ shown \in [Keys -> Shown] /\ i \in 1..MaxId
  BY <1>1 DEF TableInv, ResolveInv, TypeOK
<1>4. \A k \in Keys : /\ shown'[k].id = shown[k].id
                      /\ shown[k].id # i => shown'[k] = shown[k]
  BY <1>1, <1>3 DEF Shown
<1>5. \A k \in Keys : IsResolved(k)' = IsResolved(k)
  BY <1>2 DEF IsResolved
<1>6. \A k \in Keys : bps[k].id = i => IsResolved(k)
  BY <1>1 DEF TableInv, ToldInv
<1>7. i # 0
  BY <1>3, BreakpointsAssumption
<1>8. \A k \in Keys \ group : shown[k].id = i => bps[k].id = i /\ IsResolved(k)
  BY <1>6, <1>7 DEF TableInv, ToldInv, Agrees
<1>9. GroupInv'
  BY <1>2 DEF TableInv, GroupInv, Locked, IsSet, KeysOf
<1>10. IdsInv'
  BY <1>1, <1>2, <1>4 DEF TableInv, IdsInv, IsSet
<1>11. ToldInv'
  <2>1. \A k \in Keys : Agrees(k, reply[k])'
    BY <1>2, <1>5 DEF TableInv, ToldInv, Agrees
  <2>2. \A k \in Keys \ group : Agrees(k, shown[k])'
    <3> SUFFICES ASSUME NEW k \in Keys \ group PROVE Agrees(k, shown[k])'
      OBVIOUS
    <3>1. CASE shown[k].id = i
      BY <1>2, <1>4, <1>5, <1>7, <1>8, <3>1 DEF Agrees
    <3>2. CASE shown[k].id # i
      BY <1>2, <1>4, <1>5, <3>2 DEF TableInv, ToldInv, Agrees
    <3> QED
      BY <3>1, <3>2
  <2>3. (\A e \in events, k \in Keys : bps[k].id = e => IsResolved(k))'
    BY <1>1, <1>2, <1>5 DEF TableInv, ToldInv
  <2> QED
    BY <1>2, <2>1, <2>2, <2>3 DEF ToldInv
<1>12. (\A k \in Keys : ~IsSet(k) => ~IsResolved(k))'
  BY <1>2, <1>5 DEF TableInv, IsSet
<1>13. Table!Verify(i)
  BY <1>1, <1>2, <1>5, <1>8 DEF Table!Verify
<1> QED
  BY <1>3, <1>9, <1>10, <1>11, <1>12, <1>13 DEF TableInv, Table!Next

(* The session ends: the client forgets, and in a detach the source        *)
(* breakpoints are deleted.                                                *)
LEMMA SessionForgotten ==
  ASSUME TableInv, ResolveInv', TerminateProcess \/ DetachFromProcess
  PROVE  TableInv' /\ Table!Next
<1>1. /\ UNCHANGED <<nextId, todo, reply, group, events>>
      /\ cpc = "idle" /\ cpc' = "terminating"
      /\ shown' = [k \in Keys |-> Unshown]
  BY DEF TerminateProcess, DetachFromProcess, entryVars, cbVars
<1>2. PICK gone \in SUBSET Keys :
         bps' = [k \in Keys |-> IF k \in gone THEN Unset ELSE bps[k]]
  <2>1. CASE TerminateProcess
    <3>1. bps' = [k \in Keys |-> IF k \in {} THEN Unset ELSE bps[k]]
      BY <2>1 DEF TerminateProcess, TableInv, ResolveInv, TypeOK
    <3> WITNESS {} \in SUBSET Keys
    <3> QED
      BY <3>1
  <2>2. CASE DetachFromProcess
    <3>1. bps' = [k \in Keys |-> IF k \in Keys \ Funcs THEN Unset ELSE bps[k]]
      BY <2>2 DEF DetachFromProcess
    <3> QED
      BY <3>1
  <2> QED
    BY <2>1, <2>2
<1>3. group = {} /\ \A k \in Keys : reply[k] = Unshown
  BY <1>1 DEF TableInv, GroupInv
<1>4. \A k \in Keys : bps'[k] = (IF k \in gone THEN Unset ELSE bps[k])
  BY <1>2
<1>5. GroupInv'
  BY <1>1, <1>3 DEF TableInv, GroupInv, Locked
<1>6. IdsInv'
  <2>1. nextId \in Nat /\ nextId > 0
    BY Shapes DEF TableInv, ResolveInv
  <2>2. \A k \in Keys : bps'[k].id < nextId' /\ shown'[k].id < nextId'
    BY <1>1, <1>4, <2>1 DEF TableInv, IdsInv, Unset, Unshown
  <2>3. \A j, k \in Keys : bps'[j].id = bps'[k].id /\ bps'[k].id # 0 => j = k
    BY <1>4 DEF TableInv, IdsInv, IsSet, Unset
  <2> QED
    BY <1>1, <2>2, <2>3 DEF TableInv, IdsInv, IsSet
<1>7. ToldInv'
  <2>1. (\A k \in Keys : Agrees(k, reply[k]) /\ Agrees(k, shown[k]))'
    BY <1>1, <1>3 DEF Agrees, Unshown
  <2>2. \A i \in events', k \in Keys : bps'[k].id = i => IsResolved(k)'
    <3> SUFFICES ASSUME NEW i \in events, NEW k \in Keys, bps'[k].id = i
                 PROVE  IsResolved(k)'
      BY <1>1
    <3>1. i # 0
      BY DEF TableInv, ResolveInv, TypeOK
    <3>2. bps'[k] = bps[k]
      BY <1>4, <3>1 DEF Unset
    <3> QED
      BY <3>2 DEF TableInv, ToldInv, IsResolved
  <2> QED
    BY <2>1, <2>2 DEF ToldInv
<1>8. (\A k \in Keys : ~IsSet(k) => ~IsResolved(k))'
  BY <1>4 DEF TableInv, IsSet, IsResolved, Unset
<1>9. Table!Forget(gone)
  <2>1. \A k \in Keys : k \in gone => bps'[k].id = 0 /\ IsResolved(k)' = FALSE
    BY <1>4 DEF IsResolved, Unset
  <2>2. \A k \in Keys : k \notin gone => bps'[k].id = bps[k].id /\ IsResolved(k)' = IsResolved(k)
    BY <1>4 DEF IsResolved
  <2>3. Unshown = Table!Unknown
    BY DEF Unshown, Table!Unknown
  <2> QED
    BY <1>1, <1>3, <2>1, <2>2, <2>3 DEF Table!Forget, Table!NoEntry
<1>10. Table!Next
  BY <1>9 DEF Table!Next
<1> QED
  BY <1>5, <1>6, <1>7, <1>8, <1>10 DEF TableInv

(* Every step keeps the invariant and is one of the table or none.         *)
LEMMA TableStep ==
  TableInv /\ [Next]_vars => TableInv' /\ (Table!Next \/ UNCHANGED Table!vars)
<1> SUFFICES ASSUME TableInv, [Next]_vars
             PROVE  TableInv' /\ (Table!Next \/ UNCHANGED Table!vars)
  OBVIOUS
<1>0. ResolveInv' /\ TypeOK
  BY ResolveNext DEF TableInv, ResolveInv
<1>1. CASE Client
  <2>1. \A file \in Files : {file} \X Lines \in SUBSET Keys
    BY DEF Keys, LineKeys
  <2>2. Funcs \in SUBSET Keys
    BY DEF Keys
  <2> QED
    BY <1>0, <1>1, <2>1, <2>2, RequestOpens, RequestTypes
       DEF Client, SetBreakpoints, SetFunctionBreakpoints
<1>2. CASE SetOneLine
  <2>1. Locked
    BY <1>2 DEF SetOneLine, Locked
  <2> QED
    BY <1>0, <1>2, <2>1, SetOneTells DEF SetOneLine
<1>3. CASE SetOneFunction
  <2>1. Locked
    BY <1>3 DEF SetOneFunction, Locked
  <2> QED
    BY <1>0, <1>3, <2>1, SetOneTells DEF SetOneFunction
<1>4. CASE Reply
  BY <1>0, <1>4, ReplyAnswers
<1>5. CASE TryResolveBreakpointsForModule
  BY <1>0, <1>5, ResolveTells
<1>6. CASE EmitBreakpointEvent
  BY <1>0, <1>6, EventTells
<1>7. CASE Disconnect
  BY <1>0, <1>7, SessionForgotten DEF Disconnect
<1>8. CASE \/ Continue \/ Launch \/ Attach \/ ExitProcess \/ ProcessReleased
           \/ (\E m \in Modules : LoadModule(m)) \/ TryLoadModuleSymbols
           \/ LoadModuleReturns \/ ReachBreakpoint \/ HitBreakpoint \/ UNCHANGED vars
  <2> USE DEF codeVars, entryVars, cmdVars, cbVars
  <2>1. UNCHANGED <<bps, nextId, todo, reply, group, events, shown>>
    BY <1>8 DEF Continue, Launch, Attach, NewProcess, ExitProcess, ProcessReleased, LoadModule,
                TryLoadModuleSymbols, LoadModuleReturns, ReachBreakpoint, HitBreakpoint, vars
  <2>2. cpc' # cpc => cpc = "terminating" /\ cpc' = "idle"
    BY <1>8 DEF Continue, Launch, Attach, NewProcess, ExitProcess, ProcessReleased, LoadModule,
                TryLoadModuleSymbols, LoadModuleReturns, ReachBreakpoint, HitBreakpoint, vars
  <2> QED
    BY <1>0, <2>1, <2>2, TableKept
<1> QED
  BY <1>1, <1>2, <1>3, <1>4, <1>5, <1>6, <1>7, <1>8 DEF Next, Debugger, Disconnect

(* The invariant behind the refinement holds.                              *)
THEOREM TableInvariant == Spec => []TableInv
<1> QED
  BY TableInit, TableStep, PTL DEF Spec

(* Breakpoints implements BreakpointTable: no id is given out twice, what  *)
(* is resolved stays so, and the client is only told what is so when it is *)
(* told, although answers and events are sent without the mutex.           *)
THEOREM TableImplemented == Spec => ImplementsTable
<1>1. Init => Table!Init
  BY TableInit
<1>2. TableInv /\ [Next]_vars => [Table!Next]_(Table!vars)
  BY TableStep
<1> QED
  BY <1>1, <1>2, TableInvariant, PTL DEF Spec, ImplementsTable, Table!Spec

(* Between two requests the client's picture of the breakpoints is right.  *)
THEOREM ClientAlwaysAgrees == Spec => []ClientAgrees
<1>1. TableInv => ClientAgrees
  BY DEF TableInv, ToldInv, GroupInv, Agrees, ClientAgrees
<1> QED
  BY <1>1, TableInvariant, PTL
=============================================================================
