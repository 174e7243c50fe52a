--------------------------- MODULE Variables_proof ---------------------------
(***************************************************************************)
(* Proofs about Variables: the references and variable objects a client    *)
(* was told lead to what it was told for, and pages are slices, for any    *)
(* values, frames and pages.                                               *)
(***************************************************************************)
EXTENDS Variables, FiniteSetTheorems, TLAPS

USE VariablesAssumption

Image(number, positions) == {number[i] : i \in positions}

Counted(ids, positions, first) ==
  /\ Cardinality(ids) = Cardinality(positions) /\ Cardinality(ids) \in Nat
  /\ ids \subseteq first .. (first + Cardinality(ids) - 1)

(* The numbers given to finitely many positions run from first on.         *)
LEMMA Increasing ==
  \A positions \in SUBSET Int, first \in Nat :
    IsFiniteSet(positions) =>
      \A number \in Numberings(positions, first) :
        /\ DOMAIN number = positions
        /\ \A i, j \in positions : number[i] = number[j] => i = j
        /\ \A i \in positions : number[i] \in first .. (first + Cardinality(positions) - 1)
<1> SUFFICES ASSUME NEW positions \in SUBSET Int, NEW first \in Nat, IsFiniteSet(positions),
                    NEW number \in Numberings(positions, first)
             PROVE  /\ DOMAIN number = positions
                    /\ \A i, j \in positions : number[i] = number[j] => i = j
                    /\ \A i \in positions :
                         number[i] \in first .. (first + Cardinality(positions) - 1)
  OBVIOUS
<1>1. \A i \in positions : number[i] \in first .. (first + Cardinality(positions) - 1)
  BY DEF Numberings
<1>2. ASSUME NEW i \in positions, NEW j \in positions, i < j
      PROVE  number[i] # number[j]
  <2>1. Cardinality(positions) \in Nat
    BY FS_CardinalityType
  <2>2. number[i] \in Int /\ number[j] \in Int /\ number[i] < number[j]
    BY <1>1, <1>2, <2>1 DEF Numberings
  <2> QED BY <2>2
<1>3. DOMAIN number = positions
  BY DEF Numberings
<1> QED BY <1>1, <1>2, <1>3

(* The numbers given to finitely many positions run from first on.         *)
LEMMA NumberingsRange ==
  \A positions \in SUBSET Int, first \in Nat :
    IsFiniteSet(positions) =>
      \A number \in Numberings(positions, first) :
        Counted(Image(number, positions), positions, first)
<1> SUFFICES ASSUME NEW positions \in SUBSET Int, NEW first \in Nat, IsFiniteSet(positions),
                    NEW number \in Numberings(positions, first)
             PROVE  Counted(Image(number, positions), positions, first)
  OBVIOUS
<1> PICK ids : ids = Image(number, positions) /\ ids = {number[i] : i \in positions}
  BY DEF Image
<1>1. number \in [positions -> ids]
  BY DEF Numberings
<1>2. \A i, j \in positions : number[i] = number[j] => i = j
  BY Increasing
<1>3. ExistsBijection(positions, ids)
  <2>1. \A id \in ids : \E i \in positions : number[i] = id
    OBVIOUS
  <2>2. number \in Injection(positions, ids)
    BY <1>1, <1>2 DEF Injection, IsInjective
  <2>3. number \in Surjection(positions, ids)
    BY <1>1, <2>1 DEF Surjection
  <2> QED BY <2>2, <2>3, Zenon DEF ExistsBijection, Bijection
<1>4. IsFiniteSet(ids) /\ Cardinality(ids) = Cardinality(positions)
  BY <1>3, FS_Bijection
<1>5. Cardinality(ids) \in Nat
  BY <1>4, FS_CardinalityType
<1>6. ids \subseteq first .. (first + Cardinality(ids) - 1)
  <2>1. \A i \in positions : number[i] \in first .. (first + Cardinality(positions) - 1)
    BY DEF Numberings
  <2> QED BY <1>4, <2>1
<1> QED BY <1>4, <1>5, <1>6 DEF Counted

(* A table of new entries: numbered from the next number on.               *)
Fresh(new, first) ==
  /\ Cardinality(DOMAIN new) \in Nat
  /\ DOMAIN new \subseteq first .. (first + Cardinality(DOMAIN new) - 1)

IsNumbered(new, number, what, positions, S, first) ==
  /\ new \in [DOMAIN new -> S] /\ Fresh(new, first)
  /\ Cardinality(DOMAIN new) = Cardinality(positions)
  /\ \A id \in DOMAIN new : \E i \in positions : number[i] = id
  /\ \A i \in positions : number[i] \in DOMAIN new /\ new[number[i]] = what[i]

LEMMA NumberedIds ==
  \A S : \A positions \in SUBSET Int, first \in Nat :
    IsFiniteSet(positions) =>
      \A number \in Numberings(positions, first), what \in [positions -> S] :
        IsNumbered(Numbered(number, what), number, what, positions, S, first)
<1> SUFFICES ASSUME NEW S, NEW positions \in SUBSET Int, NEW first \in Nat,
                    IsFiniteSet(positions), NEW number \in Numberings(positions, first),
                    NEW what \in [positions -> S]
             PROVE  IsNumbered(Numbered(number, what), number, what, positions, S, first)
  OBVIOUS
<1> PICK new : new = Numbered(number, what)
  OBVIOUS
<1>1. DOMAIN number = positions /\ \A i, j \in positions : number[i] = number[j] => i = j
  BY Increasing
<1> PICK ids : ids = Image(number, positions) /\ ids = {number[i] : i \in positions}
  BY DEF Image
<1>2. DOMAIN new = ids
  BY <1>1 DEF Numbered
<1>3. ASSUME NEW i \in positions
      PROVE  number[i] \in ids /\ new[number[i]] = what[i]
  <2> PICK id \in ids : id = number[i]
    OBVIOUS
  <2>1. (CHOOSE j \in positions : number[j] = id) = i
    BY <1>1
  <2>2. new[id] = what[CHOOSE j \in positions : number[j] = id]
    BY <1>1 DEF Numbered
  <2> QED BY <2>1, <2>2
<1>4. new = [id \in ids |-> new[id]]
  BY <1>1 DEF Numbered
<1>5. new \in [ids -> S]
  <2>1. ASSUME NEW n \in ids
        PROVE  new[n] \in S
    <3> PICK i \in positions : number[i] = n
      OBVIOUS
    <3> QED BY <1>3
  <2> QED BY <1>4, <2>1
<1>6. Counted(ids, positions, first)
  <2>1. Counted(Image(number, positions), positions, first)
    BY NumberingsRange
  <2> QED BY <2>1
<1>7. new \in [DOMAIN new -> S]
  BY <1>2, <1>5
<1>8. Fresh(new, first) /\ Cardinality(DOMAIN new) = Cardinality(positions)
  BY <1>2, <1>6 DEF Fresh, Counted
<1>9. \A id \in DOMAIN new : \E i \in positions : number[i] = id
  BY <1>2
<1>10. \A i \in positions : number[i] \in DOMAIN new /\ new[number[i]] = what[i]
  BY <1>2, <1>3
<1> QED BY <1>7, <1>8, <1>9, <1>10 DEF IsNumbered

LEMMA Maps ==
  ASSUME NEW map, NEW new, NEW S, map \in [DOMAIN map -> S], new \in [DOMAIN new -> S]
  PROVE  /\ DOMAIN Emplace(map, new) = DOMAIN map \cup DOMAIN new
         /\ Emplace(map, new) \in [DOMAIN map \cup DOMAIN new -> S]
         /\ DOMAIN Override(map, new) = DOMAIN map \cup DOMAIN new
         /\ Override(map, new) \in [DOMAIN map \cup DOMAIN new -> S]
BY DEF Emplace, Override

LEMMA Nothing == DOMAIN <<>> = {} /\ \A S : <<>> \in [{} -> S]
  OBVIOUS

(* AddVariableReference: what the client was told stays its own, and what  *)
(* it is told now is.                                                      *)
Kept ==
  raced' \/ \A id \in DOMAIN refs : id \in DOMAIN refs' /\ refs'[id] = refs[id]

LEMMA Adds ==
  ASSUME VariablesInv, UNCHANGED <<process, callback>>,
         NEW new, NEW reply, new \in [DOMAIN new -> Targets], Fresh(new, seen),
         \A id \in DOMAIN new : new[id].named = NumMembers(new[id]),
         reply = <<>> \/ (reply = new /\ Synchronized),
         AddVariableReference(new, reply)
  PROVE  /\ DOMAIN refs' \subseteq 1 .. MaxRef /\ refs' \in [DOMAIN refs' -> Targets]
         /\ nextRef' \in 1 .. (MaxRef + 1) /\ seen' \in 0 .. MaxRef
         /\ DOMAIN given' \subseteq 1 .. MaxRef /\ given' \in [DOMAIN given' -> Targets]
         /\ forgotten' \in SUBSET (1 .. MaxRef) /\ raced' \in BOOLEAN
         /\ NumbersInv' /\ GivenInv' /\ OwnTarget'
         /\ Kept
         /\ raced' \/ \A id \in DOMAIN new : id \in DOMAIN refs' /\ refs'[id] = new[id]
<1>1. TypeOK /\ nextRef \in Nat /\ nextRef > 0 /\ seen \in Nat
  BY DEF VariablesInv, TypeOK
<1>2. /\ \/ DOMAIN new = {} /\ UNCHANGED <<nextRef, seen, raced>>
         \/ /\ DOMAIN new # {} /\ seen > 0 /\ seen' = 0
            /\ nextRef' = seen + Cardinality(DOMAIN new) /\ nextRef' <= MaxRef + 1
            /\ raced' = (raced \/ nextRef # seen \/ worker \in {"store", "put"})
      /\ refs' = Emplace(refs, new) /\ given' = Override(given, reply)
      /\ forgotten' = forgotten \ DOMAIN reply
  BY DEF AddVariableReference
<1>3. /\ DOMAIN refs' = DOMAIN refs \cup DOMAIN new
      /\ refs' \in [DOMAIN refs' -> Targets]
  BY <1>1, <1>2, Maps DEF TypeOK
<1>4. reply \in [DOMAIN reply -> Targets] /\ DOMAIN reply \subseteq DOMAIN new
      /\ \A id \in DOMAIN reply : reply[id] = new[id]
  BY Nothing
<1>5. /\ DOMAIN given' = DOMAIN given \cup DOMAIN reply
      /\ given' \in [DOMAIN given' -> Targets]
  BY <1>1, <1>2, <1>4, Maps DEF TypeOK
<1>6. DOMAIN new \subseteq 1 .. MaxRef /\ nextRef' \in 1 .. (MaxRef + 1) /\ seen' \in 0 .. MaxRef
  <2>1. CASE DOMAIN new = {} /\ UNCHANGED <<nextRef, seen>>
    BY <1>1, <2>1 DEF TypeOK
  <2>2. CASE /\ DOMAIN new # {} /\ seen > 0 /\ seen' = 0
             /\ nextRef' = seen + Cardinality(DOMAIN new) /\ nextRef' <= MaxRef + 1
    BY <1>1, <2>2 DEF Fresh
  <2> QED BY <1>2, <2>1, <2>2
<1>7. raced' \in BOOLEAN
  BY <1>1, <1>2, Zenon DEF TypeOK
<1>t. forgotten' \in SUBSET (1 .. MaxRef)
  BY <1>1, <1>2 DEF TypeOK
<1>g. GivenInv'
  <2>1. CASE Synchronized
    BY <1>2, <1>4, <1>5, <2>1 DEF GivenInv, VariablesInv, NumMembers, Override, Locals, process,
       Synchronized
  <2>2. CASE ~Synchronized
    <3>1. DOMAIN given = {} /\ DOMAIN reply = {}
      BY <2>2, Nothing DEF VariablesInv, GivenInv
    <3> QED BY <1>5, <3>1 DEF GivenInv
  <2> QED BY <2>1, <2>2
<1>8. CASE raced'
  <2>1. NumbersInv' /\ OwnTarget' /\ Kept
    BY <1>8 DEF NumbersInv, OwnTarget, Kept
  <2> QED BY <1>1, <1>3, <1>5, <1>6, <1>7, <1>t, <1>g, <1>8, <2>1 DEF TypeOK
<1>9. CASE ~raced'
  <2>1. /\ ~raced
        /\ DOMAIN new = {} \/ (nextRef = seen /\ worker \notin {"store", "put"})
        /\ DOMAIN new = {} => nextRef' = nextRef
        /\ DOMAIN new # {} => nextRef' = seen + Cardinality(DOMAIN new)
    <3>1. CASE DOMAIN new = {} /\ UNCHANGED <<nextRef, seen, raced>>
      BY <1>9, <3>1
    <3>2. CASE /\ DOMAIN new # {} /\ nextRef' = seen + Cardinality(DOMAIN new)
               /\ raced' = (raced \/ nextRef # seen \/ worker \in {"store", "put"})
      <4>1. ~raced /\ nextRef = seen /\ worker \notin {"store", "put"}
        BY <1>9, <3>2, Zenon
      <4> QED BY <3>2, <4>1
    <3> QED BY <1>2, <3>1, <3>2
  <2>2. \A id \in DOMAIN refs : id < nextRef
    BY <2>1 DEF VariablesInv, NumbersInv
  <2>3. \A id \in DOMAIN new : id >= nextRef /\ id < nextRef' /\ id \notin DOMAIN refs
    BY <1>1, <2>1, <2>2 DEF Fresh
  <2>4. \A id \in DOMAIN refs : id \in DOMAIN refs' /\ refs'[id] = refs[id]
    BY <1>2, <1>3 DEF Emplace
  <2>5. \A id \in DOMAIN new : id \in DOMAIN refs' /\ refs'[id] = new[id]
    BY <1>2, <1>3, <2>3 DEF Emplace
  <2>6. NumbersInv'
    <3>1. CASE DOMAIN new = {}
      <4>1. nextRef' = nextRef /\ DOMAIN refs' = DOMAIN refs
        BY <1>3, <2>1, <3>1
      <4> QED BY <2>1, <4>1 DEF VariablesInv, NumbersInv, callback
    <3>2. CASE DOMAIN new # {}
      <4>1. \A id \in DOMAIN refs' : id < nextRef'
        BY <1>1, <1>3, <2>1, <2>2, <2>3, <3>2 DEF Fresh, TypeOK
      <4> QED BY <2>1, <3>2, <4>1 DEF NumbersInv, callback
    <3> QED BY <3>1, <3>2
  <2>7. OwnTarget'
    <3>1. \A id \in DOMAIN given \ forgotten : id \in DOMAIN refs /\ refs[id] = given[id]
      BY <2>1 DEF VariablesInv, OwnTarget
    <3>2. ASSUME NEW id \in DOMAIN given' \ forgotten'
          PROVE  id \in DOMAIN refs' /\ refs'[id] = given'[id]
      <4>1. CASE id \in DOMAIN reply
        BY <1>2, <1>4, <1>5, <2>5, <4>1 DEF Override
      <4>2. CASE id \notin DOMAIN reply
        BY <1>2, <1>5, <2>4, <3>1, <4>2 DEF Override
      <4> QED BY <4>1, <4>2
    <3> QED BY <3>2 DEF OwnTarget
  <2> QED BY <1>1, <1>3, <1>5, <1>6, <1>7, <1>t, <1>g, <2>4, <2>5, <2>6, <2>7 DEF TypeOK, Kept
<1> QED BY <1>8, <1>9

(* The members of a target, and the pages of them.                         *)
LEMMA TargetsOf ==
  \A v \in Values :
    /\ ValueTarget(v) \in Targets /\ ClassTarget(v) \in Targets
    /\ ValueTarget(v).named = NumMembers(ValueTarget(v))
    /\ ClassTarget(v).named = NumMembers(ClassTarget(v))
<1> SUFFICES ASSUME NEW v \in Values
             PROVE  /\ ValueTarget(v) \in Targets /\ ClassTarget(v) \in Targets
                    /\ ValueTarget(v).named = NumMembers(ValueTarget(v))
                    /\ ClassTarget(v).named = NumMembers(ClassTarget(v))
  OBVIOUS
<1>1. Instance[v] \in Seq(Values) /\ Static[v] \in Seq(Values)
  OBVIOUS
<1>2. GetNumChild(v, TRUE) \in Nat /\ GetNumChild(v, FALSE) \in Nat
  BY <1>1 DEF GetNumChild
<1> QED BY <1>2 DEF ValueTarget, ClassTarget, Targets, NumMembers

LEMMA LocalsSeq == TypeOK => Locals \in Seq(Values)
BY DEF TypeOK, Locals

(* The children on a page.                                                 *)
Listed(t, page) ==
  /\ page \in SUBSET Int /\ IsFiniteSet(page)
  /\ \A i \in page : Child(t, i) \in Targets /\ Child(t, i).named = NumMembers(Child(t, i))

LEMMA PageChildren ==
  ASSUME TypeOK, NEW t \in Targets, NEW filter, NEW start \in Int, NEW count \in Int,
         NEW page, page = Page(t, filter, start, count)
  PROVE  Listed(t, page)
<1>1. Members(t) \in Seq(Values)
  BY LocalsSeq DEF Members, Targets
<1>2. ASSUME NEW i \in page
      PROVE  /\ i \in 0 .. Len(Members(t))
             /\ i < Len(Members(t)) \/ t.kind = "value"
  <2>1. Len(Members(t)) \in Nat
    BY <1>1
  <2> QED BY <2>1 DEF Page, GetStackVariables, GetChildren
<1>3. page \subseteq 0 .. Len(Members(t)) /\ Len(Members(t)) \in Nat
  BY <1>1, <1>2
<1>4. IsFiniteSet(page)
  <2> PICK last \in Nat : last = Len(Members(t))
    BY <1>3
  <2>1. IsFiniteSet(0 .. last) /\ page \subseteq 0 .. last
    BY <1>3, FS_Interval
  <2> QED BY <2>1, FS_Subset
<1>5. ASSUME NEW i \in page
      PROVE  /\ Child(t, i) \in Targets
             /\ Child(t, i).named = NumMembers(Child(t, i))
  <2>1. CASE i < Len(Members(t))
    <3>1. Members(t)[i + 1] \in Values
      BY <1>1, <1>3, <2>1
    <3>2. Child(t, i) = ValueTarget(Members(t)[i + 1])
      BY <2>1 DEF Child
    <3> QED BY <3>1, <3>2, TargetsOf
  <2>2. CASE ~(i < Len(Members(t)))
    <3>1. t.of \in Values
      BY <1>2, <2>2 DEF Targets
    <3>2. Child(t, i) = ClassTarget(t.of)
      BY <2>2 DEF Child
    <3> QED BY <3>1, <3>2, TargetsOf
  <2> QED BY <2>1, <2>2
<1> QED BY <1>3, <1>4, <1>5 DEF Listed

(* What the protocol thread adds: entries numbered from what it read on,   *)
(* each of its target's size.                                              *)
NewEntries(new) ==
  /\ new \in [DOMAIN new -> Targets] /\ Fresh(new, seen)
  /\ \A id \in DOMAIN new : new[id].named = NumMembers(new[id])

LEMMA ScopeNew ==
  ASSUME TypeOK
  PROVE  NewEntries(Scope) /\ DOMAIN Scope = {seen} /\ Scope[seen] \in Targets
<1>1. seen \in Nat /\ Len(Locals) \in Nat
  BY LocalsSeq DEF TypeOK
<1>2. DOMAIN Scope = {seen} /\ Cardinality({seen}) = 1
  BY FS_Singleton DEF Scope
<1>3. Scope[seen] \in Targets /\ Scope[seen].named = NumMembers(Scope[seen])
  BY <1>1 DEF Scope, Targets, NumMembers
<1>4. Scope \in [{seen} -> Targets]
  BY <1>3 DEF Scope
<1> QED BY <1>1, <1>2, <1>3, <1>4 DEF NewEntries, Fresh

LEMMA ReferenceNew ==
  ASSUME TypeOK, NEW v \in Values
  PROVE  /\ NewEntries(Reference(v))
         /\ DOMAIN Reference(v) = {} \/ DOMAIN Reference(v) = {seen}
         /\ \A id \in DOMAIN Reference(v) : Reference(v)[id] = ValueTarget(v)
<1>1. seen \in Nat
  BY DEF TypeOK
<1>2. DOMAIN Reference(v) = {} \/ DOMAIN Reference(v) = {seen}
  BY DEF Reference
<1>3. \A id \in DOMAIN Reference(v) : Reference(v)[id] = ValueTarget(v)
  BY DEF Reference
<1>4. Reference(v) \in [DOMAIN Reference(v) -> Targets]
  BY TargetsOf DEF Reference
<1>5. Fresh(Reference(v), seen)
  <2>1. CASE DOMAIN Reference(v) = {}
    BY <2>1, FS_EmptySet DEF Fresh
  <2>2. CASE DOMAIN Reference(v) = {seen}
    <3>1. Cardinality(DOMAIN Reference(v)) = 1
      BY <2>2, FS_Singleton
    <3> QED BY <1>1, <2>2, <3>1 DEF Fresh
  <2> QED BY <1>2, <2>1, <2>2
<1> QED BY <1>2, <1>3, <1>4, <1>5, TargetsOf DEF NewEntries

IsChildren(new, number, t, shown, first) ==
  /\ new \in [DOMAIN new -> Targets] /\ Fresh(new, first)
  /\ \A id \in DOMAIN new : new[id].named = NumMembers(new[id])
  /\ \A i \in shown : number[i] \in DOMAIN new /\ new[number[i]] = Child(t, i)

LEMMA ChildrenNew ==
  \A t \in Targets : \A page, shown : \A first \in Nat : \A number :
    Listed(t, page) /\ shown \in WithMembers(t, page) /\ number \in Numberings(shown, first)
    => IsChildren(Numbered(number, [i \in shown |-> Child(t, i)]), number, t, shown, first)
<1> SUFFICES ASSUME NEW t \in Targets, NEW page, NEW shown, NEW first \in Nat, NEW number,
                    Listed(t, page), shown \in WithMembers(t, page),
                    number \in Numberings(shown, first)
             PROVE  IsChildren(Numbered(number, [i \in shown |-> Child(t, i)]),
                               number, t, shown, first)
  OBVIOUS
<1> PICK new : new = Numbered(number, [i \in shown |-> Child(t, i)])
  OBVIOUS
<1>1. shown \subseteq page /\ IsFiniteSet(shown) /\ shown \in SUBSET Int
  BY FS_Subset DEF WithMembers, Listed
<1> PICK what : what = [i \in shown |-> Child(t, i)]
  OBVIOUS
<1>2. what \in [shown -> Targets]
  BY <1>1 DEF Listed
<1>3. /\ new \in [DOMAIN new -> Targets] /\ Fresh(new, first)
      /\ \A id \in DOMAIN new : \E i \in shown : number[i] = id
      /\ \A i \in shown : number[i] \in DOMAIN new /\ new[number[i]] = what[i]
  <2>1. IsNumbered(Numbered(number, what), number, what, shown, Targets, first)
    BY <1>1, <1>2, NumberedIds
  <2> QED BY <2>1 DEF IsNumbered
<1>4. \A i \in shown : what[i] = Child(t, i)
  OBVIOUS
<1>5. ASSUME NEW id \in DOMAIN new
      PROVE  new[id].named = NumMembers(new[id])
  <2> PICK i \in shown : number[i] = id
    BY <1>3
  <2>1. new[id] = Child(t, i) /\ i \in page
    BY <1>1, <1>3, <1>4
  <2> QED BY <2>1 DEF Listed
<1>6. \A i \in shown : number[i] \in DOMAIN new /\ new[number[i]] = Child(t, i)
  BY <1>3, <1>4
<1> QED BY <1>3, <1>5, <1>6 DEF IsChildren

ObjectsOwn ==
  raced \/ \A name \in DOMAIN objects :
             told[name] # None /\ objects[name] # 0 =>
               objects[name] \in DOMAIN refs /\ refs[objects[name]] = told[name]

ObjectsTyped ==
  /\ DOMAIN objects \subseteq Nat \cup ClientNames
  /\ objects \in [DOMAIN objects -> 0 .. MaxRef] /\ varCounter \in 0 .. MaxVar
  /\ told \in [DOMAIN objects -> Targets \cup {None}] /\ chosen \in SUBSET ClientNames

(* What the references that are added leave to be shown of a step.         *)
LEMMA AddsRest ==
  ASSUME VariablesInv, UNCHANGED <<interp, process, callback>>,
         NEW new, NEW reply, NewEntries(new), reply = <<>> \/ (reply = new /\ Synchronized),
         AddVariableReference(new, reply),
         ObjectsTyped', NamesInv', ObjectsOwn'
  PROVE  VariablesInv'
<1>1. /\ DOMAIN refs' \subseteq 1 .. MaxRef /\ refs' \in [DOMAIN refs' -> Targets]
      /\ nextRef' \in 1 .. (MaxRef + 1) /\ seen' \in 0 .. MaxRef
      /\ DOMAIN given' \subseteq 1 .. MaxRef /\ given' \in [DOMAIN given' -> Targets]
      /\ forgotten' \in SUBSET (1 .. MaxRef) /\ raced' \in BOOLEAN
      /\ NumbersInv' /\ GivenInv' /\ OwnTarget'
  BY Adds DEF NewEntries
<1>2. TypeOK'
  BY <1>1 DEF VariablesInv, TypeOK, ObjectsTyped, process, callback
<1>3. BusyInv'
  BY DEF VariablesInv, BusyInv, process, callback
<1>4. varCounter' \in DOMAIN objects' => varCounter' \in chosen'
  BY DEF NamesInv, ObjectsTyped
<1>5. VarObjectsOwn'
  BY <1>4 DEF VarObjectsOwn, ObjectsOwn
<1> QED BY <1>1, <1>2, <1>3, <1>5 DEF VariablesInv

(* The commands that leave the variable objects alone.                     *)
LEMMA AddsOnly ==
  ASSUME VariablesInv, UNCHANGED <<mi, process, callback>>,
         NEW new, NEW reply, NewEntries(new), reply = <<>> \/ (reply = new /\ Synchronized),
         AddVariableReference(new, reply)
  PROVE  VariablesInv'
<1>1. /\ raced' \/ \A id \in DOMAIN refs : id \in DOMAIN refs' /\ refs'[id] = refs[id]
      /\ UNCHANGED <<interp, objects, varCounter, told, chosen>>
  BY Adds DEF NewEntries, Kept, mi
<1>2. raced => raced'
  BY DEF AddVariableReference
<1>3. ObjectsOwn'
  BY <1>1, <1>2 DEF VariablesInv, VarObjectsOwn, ObjectsOwn
<1>4. NamesInv'
  BY <1>1 DEF VariablesInv, NamesInv
<1>5. ObjectsTyped'
  BY <1>1 DEF VariablesInv, TypeOK, ObjectsTyped
<1> QED BY <1>1, <1>3, <1>4, <1>5, AddsRest

-----------------------------------------------------------------------------
(* One lemma for each command that adds references.                        *)

LEMMA GetScopesKeeps ==
  ASSUME VariablesInv, GetScopes
  PROVE  VariablesInv'
<1>1. TypeOK /\ Synchronized /\ UNCHANGED <<mi, process, callback>>
      /\ AddVariableReference(Scope, Scope)
  BY DEF VariablesInv, GetScopes
<1> PICK new : new = Scope
  OBVIOUS
<1> QED BY <1>1, ScopeNew, AddsOnly

LEMMA GetVariablesKeeps ==
  ASSUME VariablesInv, NEW id \in DOMAIN refs, NEW filter \in {"both", "named", "indexed"},
         NEW start \in Positions, NEW count \in Positions,
         GetVariables(id, filter, start, count)
  PROVE  VariablesInv'
<1> PICK t \in Targets : t = refs[id]
  BY DEF VariablesInv, TypeOK
<1> PICK page : page = Page(t, filter, start, count)
  OBVIOUS
<1> PICK shown \in WithMembers(t, page) :
      \E number \in Numberings(shown, seen), fails \in BOOLEAN :
        AddVariableReference(Numbered(number, [i \in shown |-> Child(t, i)]),
          IF fails THEN <<>> ELSE Numbered(number, [i \in shown |-> Child(t, i)]))
  BY DEF GetVariables
<1> PICK number \in Numberings(shown, seen), fails \in BOOLEAN :
      AddVariableReference(Numbered(number, [i \in shown |-> Child(t, i)]),
        IF fails THEN <<>> ELSE Numbered(number, [i \in shown |-> Child(t, i)]))
  OBVIOUS
<1> PICK new, reply :
      /\ new = Numbered(number, [i \in shown |-> Child(t, i)])
      /\ reply = <<>> \/ reply = new
      /\ AddVariableReference(new, reply)
  OBVIOUS
<1>1. /\ TypeOK /\ seen \in Nat
      /\ Synchronized /\ UNCHANGED <<mi, process, callback>>
  <2>1. TypeOK /\ Synchronized /\ UNCHANGED <<mi, process, callback>>
    BY DEF VariablesInv, GetVariables
  <2>2. seen \in Nat
    BY <2>1 DEF TypeOK
  <2> QED BY <2>1, <2>2
<1>2. start \in Int /\ count \in Int
  OBVIOUS
<1>3. Listed(t, page)
  BY <1>1, <1>2, PageChildren
<1>4. IsChildren(Numbered(number, [i \in shown |-> Child(t, i)]), number, t, shown, seen)
  BY <1>1, <1>3, ChildrenNew
<1>5. NewEntries(new)
  BY <1>4 DEF NewEntries, IsChildren
<1> QED BY <1>1, <1>5, AddsOnly

LEMMA EvaluateKeeps ==
  ASSUME VariablesInv, NEW v \in Values, Evaluate(v)
  PROVE  VariablesInv'
<1>1. TypeOK /\ Synchronized /\ UNCHANGED <<mi, process, callback>>
      /\ AddVariableReference(Reference(v), Reference(v))
  BY DEF VariablesInv, Evaluate
<1> PICK new : new = Reference(v)
  OBVIOUS
<1> QED BY <1>1, ReferenceNew, AddsOnly

(* The protocol thread reads the next number; the process runs on while it *)
(* adds the reference.                                                     *)
LEMMA ReadReferenceKeeps ==
  ASSUME VariablesInv, ReadReference
  PROVE  VariablesInv'
<1>1. /\ UNCHANGED <<refs, nextRef, interp, objects, varCounter, told, chosen, run, frame, exc>>
      /\ UNCHANGED <<worker, taken, target, given, forgotten, raced>>
      /\ seen' = nextRef /\ nextRef <= MaxRef
  BY DEF ReadReference, mi, process, callback, client
<1>2. raced' \in BOOLEAN
  BY <1>1, Zenon DEF VariablesInv, TypeOK
<1>3. TypeOK'
  BY <1>1, <1>2 DEF VariablesInv, TypeOK
<1>4. NumbersInv' /\ BusyInv' /\ GivenInv' /\ NamesInv' /\ OwnTarget' /\ VarObjectsOwn'
  BY <1>1 DEF VariablesInv, NumbersInv, BusyInv, GivenInv, NamesInv, OwnTarget, VarObjectsOwn,
     Synchronized, NumMembers, Locals
<1> QED BY <1>3, <1>4 DEF VariablesInv

LEMMA RequestFailsKeeps ==
  ASSUME VariablesInv, NEW v \in Values, RequestFails(v)
  PROVE  VariablesInv'
<1> PICK new, reply : new = Reference(v) /\ reply = <<>>
  OBVIOUS
<1>1. TypeOK /\ UNCHANGED <<mi, process, callback>> /\ AddVariableReference(new, reply)
  BY DEF VariablesInv, RequestFails
<1>2. NewEntries(new)
  BY <1>1, ReferenceNew
<1> QED BY <1>1, <1>2, AddsOnly

LEMMA StackListVariablesKeeps ==
  ASSUME VariablesInv, StackListVariables
  PROVE  VariablesInv'
<1>1. /\ TypeOK /\ seen \in Nat
      /\ Synchronized /\ UNCHANGED <<mi, process, callback>>
  <2>1. TypeOK /\ Synchronized /\ UNCHANGED <<mi, process, callback>>
    BY DEF VariablesInv, StackListVariables
  <2>2. seen \in Nat
    BY <2>1 DEF TypeOK
  <2> QED BY <2>1, <2>2
<1> PICK t \in Targets : t = Scope[seen]
  BY <1>1, ScopeNew
<1> PICK page : page = Page(t, "named", 0, 0)
  OBVIOUS
<1> PICK shown \in WithMembers(t, page) :
      \E number \in Numberings(shown, seen + 1) :
        AddVariableReference(
          Override(Scope, Numbered(number, [i \in shown |-> Child(t, i)])), <<>>)
  BY DEF StackListVariables
<1> PICK number \in Numberings(shown, seen + 1) :
      AddVariableReference(
        Override(Scope, Numbered(number, [i \in shown |-> Child(t, i)])), <<>>)
  OBVIOUS
<1> PICK children : children = Numbered(number, [i \in shown |-> Child(t, i)])
  OBVIOUS
<1> PICK new : new = Override(Scope, children)
  OBVIOUS
<1>2. Listed(t, page)
  BY <1>1, PageChildren
<1>3. /\ children \in [DOMAIN children -> Targets] /\ Fresh(children, seen + 1)
      /\ \A id \in DOMAIN children : children[id].named = NumMembers(children[id])
  <2>1. seen + 1 \in Nat
    BY <1>1
  <2>2. IsChildren(Numbered(number, [i \in shown |-> Child(t, i)]), number, t, shown, seen + 1)
    BY <1>2, <2>1, ChildrenNew
  <2> QED BY <2>2 DEF IsChildren
<1>4. /\ NewEntries(Scope) /\ DOMAIN Scope = {seen}
  BY <1>1, ScopeNew
<1>5. DOMAIN new = {seen} \cup DOMAIN children /\ new \in [DOMAIN new -> Targets]
  <2>1. Scope \in [DOMAIN Scope -> Targets]
    BY <1>4 DEF NewEntries
  <2>2. /\ DOMAIN Override(Scope, children) = DOMAIN Scope \cup DOMAIN children
        /\ Override(Scope, children) \in [DOMAIN Scope \cup DOMAIN children -> Targets]
    BY <1>3, <2>1, Maps
  <2> QED BY <1>4, <2>2
<1>6. Fresh(new, seen)
  <2>1. seen \notin DOMAIN children
    BY <1>1, <1>3 DEF Fresh
  <2>2. IsFiniteSet(DOMAIN children)
    <3> PICK many \in Nat : many = Cardinality(DOMAIN children)
      BY <1>3 DEF Fresh
    <3>1. /\ DOMAIN children \subseteq (seen + 1) .. (seen + 1 + many - 1)
          /\ seen + 1 \in Int /\ seen + 1 + many - 1 \in Int
      BY <1>1, <1>3 DEF Fresh
    <3>2. IsFiniteSet((seen + 1) .. (seen + 1 + many - 1))
      BY <3>1, FS_Interval
    <3> QED BY <3>1, <3>2, FS_Subset
  <2>3. Cardinality(DOMAIN children \cup {seen}) = Cardinality(DOMAIN children) + 1
    BY <2>1, <2>2, FS_AddElement
  <2>4. DOMAIN new = DOMAIN children \cup {seen}
    BY <1>5
  <2>5. Cardinality(DOMAIN new) = Cardinality(DOMAIN children) + 1
    BY <2>3, <2>4
  <2> PICK many \in Nat : many = Cardinality(DOMAIN children)
    BY <1>3 DEF Fresh
  <2>6. DOMAIN children \subseteq (seen + 1) .. (seen + 1 + many - 1)
    BY <1>3 DEF Fresh
  <2>7. DOMAIN new \subseteq seen .. (seen + (many + 1) - 1)
    <3>1. ASSUME NEW n \in DOMAIN new
          PROVE  n \in seen .. (seen + (many + 1) - 1)
      <4>1. n = seen \/ n \in DOMAIN children
        BY <1>5
      <4> QED BY <1>1, <2>6, <4>1
    <3> QED BY <3>1
  <2> QED BY <2>5, <2>7 DEF Fresh
<1>7. \A id \in DOMAIN new : new[id].named = NumMembers(new[id])
  BY <1>3, <1>4, <1>5 DEF NewEntries, Override
<1> QED BY <1>1, <1>5, <1>6, <1>7, AddsOnly DEF NewEntries

(* A variable object made of a value, and those of a page of children.     *)
LEMMA CreateVarKeeps ==
  ASSUME VariablesInv, NEW name \in ClientNames \cup {None}, NEW v \in Values,
         CreateVar(name, v)
  PROVE  VariablesInv'
<1> PICK new, reply : new = Reference(v) /\ reply = <<>>
  OBVIOUS
<1> PICK id : id = IF DOMAIN Reference(v) = {} THEN 0 ELSE seen
  OBVIOUS
<1> PICK made : made = IF name = None THEN varCounter ELSE name
  OBVIOUS
<1>1. /\ TypeOK /\ seen \in Nat /\ varCounter \in Nat
      /\ Synchronized /\ UNCHANGED <<interp, process, callback>>
      /\ AddVariableReference(new, reply)
  <2>1. /\ TypeOK /\ Synchronized /\ UNCHANGED <<interp, process, callback>>
        /\ AddVariableReference(new, reply)
    BY DEF VariablesInv, CreateVar
  <2>2. seen \in Nat /\ varCounter \in Nat
    BY <2>1 DEF TypeOK
  <2> QED BY <2>1, <2>2
<1>2. /\ objects' = Override(objects, [n \in {made} |-> id])
      /\ told' = Override(told, [n \in {made} |-> ValueTarget(v)])
      /\ IF name = None THEN varCounter' = varCounter + 1 /\ chosen' = chosen \ {varCounter}
                        ELSE varCounter' = varCounter /\ chosen' = chosen \cup {name}
      /\ varCounter' <= MaxVar
  BY DEF CreateVar
<1>3. /\ NewEntries(new)
      /\ DOMAIN new = {} \/ DOMAIN new = {seen}
      /\ \A n \in DOMAIN new : new[n] = ValueTarget(v)
  BY <1>1, ReferenceNew
<1>4. /\ Kept
      /\ raced' \/ \A n \in DOMAIN new : n \in DOMAIN refs' /\ refs'[n] = new[n]
  <2>1. UNCHANGED <<process, callback>> /\ (reply = <<>> \/ (reply = new /\ Synchronized))
    BY <1>1
  <2>2. /\ new \in [DOMAIN new -> Targets] /\ Fresh(new, seen)
        /\ \A n \in DOMAIN new : new[n].named = NumMembers(new[n])
    BY <1>3 DEF NewEntries
  <2>3. Synchronized /\ AddVariableReference(new, reply)
    BY <1>1
  <2> QED BY <2>1, <2>2, <2>3, Adds
<1>5. id \in 0 .. MaxRef /\ (id # 0 => id \in DOMAIN new)
  <2>1. CASE DOMAIN new = {}
    BY <2>1
  <2>2. CASE DOMAIN new = {seen}
    <3>1. Cardinality(DOMAIN new) = 1
      BY <2>2, FS_Singleton
    <3>2. seen + Cardinality(DOMAIN new) <= MaxRef + 1
      BY <1>1, <2>2 DEF AddVariableReference
    <3> QED BY <1>1, <2>2, <3>1, <3>2
  <2> QED BY <1>3, <2>1, <2>2
<1>6. /\ made \in Nat \cup ClientNames
      /\ made \in Nat /\ made \notin chosen' => made < varCounter'
      /\ varCounter' \in 0 .. MaxVar /\ varCounter' >= varCounter
      /\ chosen' \in SUBSET ClientNames /\ chosen \subseteq chosen' \cup {made}
  <2>1. CASE name = None
    BY <1>1, <1>2, <2>1 DEF TypeOK
  <2>2. CASE name # None
    BY <1>1, <1>2, <2>2 DEF TypeOK
  <2> QED BY <2>1, <2>2
<1>7. /\ DOMAIN objects' = DOMAIN objects \cup {made} /\ DOMAIN told' = DOMAIN objects'
      /\ \A n \in DOMAIN objects' :
           IF n = made THEN objects'[n] = id /\ told'[n] = ValueTarget(v)
                       ELSE n \in DOMAIN objects /\ objects'[n] = objects[n] /\ told'[n] = told[n]
      /\ objects' = [n \in DOMAIN objects' |-> objects'[n]]
      /\ told' = [n \in DOMAIN objects' |-> told'[n]]
  BY <1>1, <1>2 DEF Override, TypeOK
<1>8. ObjectsTyped'
  <2>1. ValueTarget(v) \in Targets
    BY TargetsOf
  <2>2. /\ DOMAIN objects' \subseteq Nat \cup ClientNames
        /\ \A n \in DOMAIN objects' : /\ objects'[n] \in 0 .. MaxRef
                                     /\ told'[n] \in Targets \cup {None}
    BY <1>1, <1>5, <1>6, <1>7, <2>1 DEF TypeOK
  <2>3. /\ objects' \in [DOMAIN objects' -> 0 .. MaxRef]
        /\ told' \in [DOMAIN objects' -> Targets \cup {None}]
    BY <1>7, <2>2
  <2> QED BY <1>6, <2>2, <2>3 DEF ObjectsTyped
<1>9. NamesInv'
  <2>1. \A n \in DOMAIN objects : n \in Nat /\ n \notin chosen => n < varCounter
    BY DEF VariablesInv, NamesInv
  <2>2. \A n \in DOMAIN objects' : n = made \/ n \in DOMAIN objects
    BY <1>7
  <2>3. varCounter' \in Nat /\ varCounter \in Nat /\ varCounter' >= varCounter
    BY <1>1, <1>6
  <2>4. ASSUME NEW n \in DOMAIN objects', n \in Nat, n \notin chosen'
        PROVE  n < varCounter'
    <3>1. CASE n = made
      BY <1>6, <2>4, <3>1
    <3>2. CASE n # made
      <4>1. n < varCounter
        BY <1>6, <2>1, <2>2, <2>4, <3>2
      <4> QED BY <2>3, <2>4, <4>1
    <3> QED BY <3>1, <3>2
  <2> QED BY <2>4 DEF NamesInv
<1>10. ASSUME ~raced', NEW n \in DOMAIN objects', told'[n] # None, objects'[n] # 0
       PROVE  objects'[n] \in DOMAIN refs' /\ refs'[objects'[n]] = told'[n]
  <2>1. CASE n = made
    BY <1>3, <1>4, <1>5, <1>7, <1>10, <2>1
  <2>2. CASE n # made
    <3>1. ~raced
      BY <1>1, <1>10 DEF AddVariableReference
    <3>2. n \in DOMAIN objects /\ objects'[n] = objects[n] /\ told'[n] = told[n]
      BY <1>7, <2>2
    <3>3. objects[n] \in DOMAIN refs /\ refs[objects[n]] = told[n]
      BY <1>10, <3>1, <3>2 DEF VariablesInv, VarObjectsOwn
    <3> QED BY <1>4, <1>10, <3>2, <3>3 DEF Kept
  <2> QED BY <2>1, <2>2
<1>11. ObjectsOwn'
  BY <1>10 DEF ObjectsOwn
<1>12. UNCHANGED <<interp, process, callback>> /\ (reply = <<>> \/ (reply = new /\ Synchronized))
       /\ Synchronized /\ AddVariableReference(new, reply) /\ NewEntries(new)
  BY <1>1, <1>3
<1> QED BY <1>8, <1>9, <1>11, <1>12, AddsRest

LEMMA ListChildrenKeeps ==
  ASSUME VariablesInv, NEW name \in DOMAIN objects, NEW childStart \in Positions,
         NEW childEnd \in Positions, ListChildren(name, childStart, childEnd)
  PROVE  VariablesInv'
<1>t. PICK t : t = refs[objects[name]]
  OBVIOUS
<1>p. PICK page : page = Page(t, "named", childStart, childEnd - childStart)
  OBVIOUS
<1>s. PICK shown \in WithMembers(t, page) :
      \E number \in Numberings(shown, seen), names \in Numberings(page, varCounter) :
        /\ AddVariableReference(Numbered(number, [i \in shown |-> Child(t, i)]), <<>>)
        /\ objects' = Override(objects,
             Numbered(names, [i \in page |-> IF i \in shown THEN number[i] ELSE 0]))
        /\ told' = Override(told, Numbered(names, [i \in page |-> Child(t, i)]))
        /\ chosen' = chosen \ {names[i] : i \in page}
        /\ varCounter' = varCounter + Cardinality(page)
  BY <1>t, <1>p DEF ListChildren
<1>n. PICK number \in Numberings(shown, seen), names \in Numberings(page, varCounter) :
      /\ AddVariableReference(Numbered(number, [i \in shown |-> Child(t, i)]), <<>>)
      /\ objects' = Override(objects,
           Numbered(names, [i \in page |-> IF i \in shown THEN number[i] ELSE 0]))
      /\ told' = Override(told, Numbered(names, [i \in page |-> Child(t, i)]))
      /\ chosen' = chosen \ {names[i] : i \in page}
      /\ varCounter' = varCounter + Cardinality(page)
  BY <1>s
<1>r. PICK new, reply : new = Numbered(number, [i \in shown |-> Child(t, i)]) /\ reply = <<>>
  OBVIOUS
<1>i. PICK id : id = [i \in page |-> IF i \in shown THEN number[i] ELSE 0]
  OBVIOUS
<1>c. PICK child : child = [i \in page |-> Child(t, i)]
  OBVIOUS
<1>m. PICK made, for : made = Numbered(names, id) /\ for = Numbered(names, child)
  OBVIOUS
<1>1. /\ TypeOK /\ seen \in Nat /\ varCounter \in Nat /\ t \in Targets
      /\ Synchronized /\ UNCHANGED <<interp, process, callback>>
      /\ varCounter' <= MaxVar
  <2>1. /\ TypeOK /\ Synchronized /\ UNCHANGED <<interp, process, callback>>
        /\ objects[name] \in DOMAIN refs /\ varCounter' <= MaxVar
    BY DEF VariablesInv, ListChildren
  <2>2. seen \in Nat /\ varCounter \in Nat /\ t \in Targets
    BY <1>t, <2>1 DEF TypeOK
  <2> QED BY <2>1, <2>2
<1>2. /\ AddVariableReference(new, reply) /\ varCounter' = varCounter + Cardinality(page)
      /\ objects' = Override(objects, made) /\ told' = Override(told, for)
      /\ chosen' = chosen \ {names[i] : i \in page}
  BY <1>n, <1>r, <1>i, <1>c, <1>m
<1>3. Listed(t, page)
  <2>1. childStart \in Int /\ childEnd - childStart \in Int
    OBVIOUS
  <2> QED BY <1>1, <1>p, <2>1, PageChildren
<1>4. IsChildren(new, number, t, shown, seen)
  <2>1. IsChildren(Numbered(number, [i \in shown |-> Child(t, i)]), number, t, shown, seen)
    BY <1>1, <1>3, ChildrenNew
  <2> QED BY <1>r, <2>1
<1>5. NewEntries(new)
  BY <1>4 DEF NewEntries, IsChildren
<1>6. /\ Kept
      /\ raced' \/ \A n \in DOMAIN new : n \in DOMAIN refs' /\ refs'[n] = new[n]
  <2>1. UNCHANGED <<process, callback>> /\ (reply = <<>> \/ (reply = new /\ Synchronized))
    BY <1>1, <1>r
  <2>2. /\ new \in [DOMAIN new -> Targets] /\ Fresh(new, seen)
        /\ \A n \in DOMAIN new : new[n].named = NumMembers(new[n])
    BY <1>5 DEF NewEntries
  <2>3. Synchronized /\ AddVariableReference(new, reply)
    BY <1>1, <1>2
  <2> QED BY <2>1, <2>2, <2>3, Adds
<1>7. \A i \in shown : /\ number[i] \in DOMAIN new /\ new[number[i]] = Child(t, i)
                      /\ number[i] \in 1 .. MaxRef
  <2>1. \A n \in DOMAIN new : n \in 1 .. MaxRef
    <3>1. DOMAIN new # {} => seen + Cardinality(DOMAIN new) <= MaxRef + 1 /\ seen > 0
      BY <1>2 DEF AddVariableReference
    <3> QED BY <1>1, <1>5, <3>1 DEF NewEntries, Fresh
  <2> QED BY <1>4, <2>1 DEF IsChildren
<1>8. /\ id \in [page -> 0 .. MaxRef] /\ child \in [page -> Targets]
      /\ page \in SUBSET Int /\ IsFiniteSet(page)
      /\ \A i \in page : child[i] = Child(t, i) /\ (id[i] # 0 => i \in shown /\ id[i] = number[i])
  <2>1. \A i \in page : Child(t, i) \in Targets
    BY <1>3 DEF Listed
  <2>2. child \in [page -> Targets] /\ \A i \in page : child[i] = Child(t, i)
    BY <1>c, <2>1
  <2>3. /\ id \in [page -> 0 .. MaxRef]
        /\ \A i \in page : id[i] # 0 => i \in shown /\ id[i] = number[i]
    BY <1>i, <1>7
  <2> QED BY <1>3, <2>2, <2>3 DEF Listed
<1>9. /\ IsNumbered(made, names, id, page, 0 .. MaxRef, varCounter)
      /\ IsNumbered(for, names, child, page, Targets, varCounter)
  <2>1. /\ IsNumbered(Numbered(names, id), names, id, page, 0 .. MaxRef, varCounter)
        /\ IsNumbered(Numbered(names, child), names, child, page, Targets, varCounter)
    BY <1>1, <1>8, NumberedIds
  <2> QED BY <1>m, <2>1
<1>10. /\ DOMAIN made = DOMAIN for
       /\ made \in [DOMAIN made -> 0 .. MaxRef] /\ for \in [DOMAIN for -> Targets]
       /\ \A n \in DOMAIN made : \E i \in page : names[i] = n
       /\ \A i \in page : made[names[i]] = id[i] /\ for[names[i]] = child[i]
  <2>1. DOMAIN made = DOMAIN for
    BY <1>m DEF Numbered
  <2> QED BY <1>9, <2>1 DEF IsNumbered
<1>11. /\ DOMAIN made \subseteq Nat /\ varCounter' \in 0 .. MaxVar /\ varCounter' >= varCounter
       /\ \A n \in DOMAIN made : n < varCounter'
  <2>1. /\ Cardinality(page) \in Nat /\ Cardinality(page) = Cardinality(DOMAIN made)
        /\ DOMAIN made \subseteq varCounter .. (varCounter + Cardinality(DOMAIN made) - 1)
    BY <1>9 DEF IsNumbered, Fresh
  <2> QED BY <1>1, <1>2, <2>1
<1>12. /\ DOMAIN objects' = DOMAIN objects \cup DOMAIN made /\ DOMAIN told' = DOMAIN objects'
       /\ \A n \in DOMAIN objects' :
            IF n \in DOMAIN made
              THEN objects'[n] = made[n] /\ told'[n] = for[n]
              ELSE n \in DOMAIN objects /\ objects'[n] = objects[n] /\ told'[n] = told[n]
       /\ objects' = [n \in DOMAIN objects' |-> objects'[n]]
       /\ told' = [n \in DOMAIN objects' |-> told'[n]]
  BY <1>1, <1>2, <1>10 DEF Override, TypeOK
<1>13. ObjectsTyped'
  <2>1. chosen' \in SUBSET ClientNames
    BY <1>1, <1>2 DEF TypeOK
  <2> QED BY <1>1, <1>10, <1>11, <1>12, <2>1 DEF TypeOK, ObjectsTyped
<1>14. NamesInv'
  <2>1. ASSUME NEW n \in DOMAIN objects', n \in Nat, n \notin chosen'
        PROVE  n < varCounter'
    <3>1. CASE n \in DOMAIN made
      BY <1>11, <3>1
    <3>2. CASE n \notin DOMAIN made
      <4>1. \A i \in page : names[i] \in DOMAIN made
        BY <1>9 DEF IsNumbered
      <4>2. n \in DOMAIN objects /\ n \notin chosen
        BY <1>2, <1>12, <2>1, <3>2, <4>1
      <4>3. n < varCounter
        BY <2>1, <4>2 DEF VariablesInv, NamesInv
      <4> QED BY <1>1, <1>11, <2>1, <4>3
    <3> QED BY <3>1, <3>2
  <2> QED BY <2>1 DEF NamesInv
<1>15. ASSUME ~raced', NEW n \in DOMAIN objects', told'[n] # None, objects'[n] # 0
       PROVE  objects'[n] \in DOMAIN refs' /\ refs'[objects'[n]] = told'[n]
  <2>1. CASE n \in DOMAIN made
    <3> PICK i \in page : names[i] = n
      BY <1>10, <2>1
    <3>1. objects'[n] = id[i] /\ told'[n] = child[i]
      BY <1>10, <1>12, <2>1
    <3>2. i \in shown /\ objects'[n] = number[i] /\ told'[n] = Child(t, i)
      BY <1>8, <1>15, <3>1
    <3> QED BY <1>6, <1>7, <1>15, <3>2
  <2>2. CASE n \notin DOMAIN made
    <3>1. ~raced
      BY <1>2, <1>15 DEF AddVariableReference
    <3>2. n \in DOMAIN objects /\ objects'[n] = objects[n] /\ told'[n] = told[n]
      BY <1>12, <2>2
    <3>3. objects[n] \in DOMAIN refs /\ refs[objects[n]] = told[n]
      BY <1>15, <3>1, <3>2 DEF VariablesInv, VarObjectsOwn
    <3> QED BY <1>6, <1>15, <3>2, <3>3 DEF Kept
  <2> QED BY <2>1, <2>2
<1>16. ObjectsOwn'
  BY <1>15 DEF ObjectsOwn
<1>17. UNCHANGED <<interp, process, callback>> /\ (reply = <<>> \/ (reply = new /\ Synchronized))
       /\ Synchronized /\ AddVariableReference(new, reply) /\ NewEntries(new)
  BY <1>1, <1>2, <1>5, <1>r
<1> QED BY <1>13, <1>14, <1>16, <1>17, AddsRest

(* The steps that add no reference from the protocol thread.               *)
LEMMA DeleteVarKeeps ==
  ASSUME VariablesInv, NEW name \in DOMAIN objects, DeleteVar(name)
  PROVE  VariablesInv'
<1>1. /\ UNCHANGED <<interp, varCounter, refs, nextRef, seen, run, frame, exc>>
      /\ UNCHANGED <<worker, taken, target, given, forgotten, raced>>
      /\ chosen' = chosen \ {name}
  BY DEF DeleteVar, table, process, callback, client
<1>2. /\ DOMAIN objects' = DOMAIN objects \ {name} /\ DOMAIN told' = DOMAIN told \ {name}
      /\ \A n \in DOMAIN objects' : objects'[n] = objects[n]
      /\ \A n \in DOMAIN told' : told'[n] = told[n]
      /\ objects' = [n \in DOMAIN objects' |-> objects'[n]]
      /\ told' = [n \in DOMAIN told' |-> told'[n]]
  BY DEF DeleteVar
<1>3. TypeOK'
  <2>1. TypeOK /\ DOMAIN told = DOMAIN objects
    BY DEF VariablesInv, TypeOK
  <2>2. /\ DOMAIN objects' \subseteq Nat \cup ClientNames
        /\ objects' \in [DOMAIN objects' -> 0 .. MaxRef]
        /\ told' \in [DOMAIN objects' -> Targets \cup {None}]
    BY <1>2, <2>1 DEF TypeOK
  <2>3. raced' \in BOOLEAN
    BY <1>1, <2>1, Zenon DEF TypeOK
  <2>4. chosen' \in SUBSET ClientNames
    BY <1>1, <2>1 DEF TypeOK
  <2> QED BY <1>1, <2>1, <2>2, <2>3, <2>4 DEF TypeOK
<1>4. NumbersInv' /\ BusyInv' /\ GivenInv' /\ OwnTarget'
  BY <1>1 DEF VariablesInv, NumbersInv, BusyInv, GivenInv, OwnTarget, Synchronized, NumMembers,
     Locals
<1>5. NamesInv' /\ VarObjectsOwn'
  <2>1. DOMAIN told = DOMAIN objects
    BY DEF VariablesInv, TypeOK
  <2> QED BY <1>1, <1>2, <2>1 DEF VariablesInv, NamesInv, VarObjectsOwn
<1> QED BY <1>3, <1>4, <1>5 DEF VariablesInv

(* The process moves on: nothing that was told counts any more.            *)
LEMMA MovesKeeps ==
  ASSUME TypeOK, Moves
  PROVE  /\ frame' \in Seq(Values) /\ exc' \in Values \cup {None}
         /\ DOMAIN given' = {} /\ given' \in [DOMAIN given' -> Targets] /\ forgotten' = {}
         /\ GivenInv' /\ OwnTarget'
<1>1. frame' \in Seq(Values) /\ exc' = None /\ given' = <<>> /\ forgotten' = {}
  BY DEF Moves
<1>2. DOMAIN given' = {} /\ given' \in [DOMAIN given' -> Targets]
  BY <1>1, Nothing
<1> QED BY <1>1, <1>2 DEF GivenInv, OwnTarget

LEMMA ResumesKeeps ==
  ASSUME VariablesInv, Continue \/ Startup
  PROVE  VariablesInv'
<1>1. /\ UNCHANGED <<refs, nextRef, seen, interp, objects, varCounter, told, chosen>>
      /\ UNCHANGED <<worker, taken, target, raced>>
      /\ run' = "running" /\ run # "callback"
  BY DEF Continue, Startup, table, mi, callback
<1>2. worker = "idle" /\ TypeOK
  BY <1>1 DEF VariablesInv, BusyInv
<1>3. /\ frame' \in Seq(Values) /\ exc' \in Values \cup {None}
      /\ DOMAIN given' \subseteq 1 .. MaxRef /\ given' \in [DOMAIN given' -> Targets]
      /\ forgotten' \in SUBSET (1 .. MaxRef) /\ GivenInv' /\ OwnTarget'
  <2>1. CASE Continue
    BY <1>2, <2>1, MovesKeeps DEF Continue
  <2>2. CASE Startup
    <3>1. UNCHANGED <<frame, exc, given, forgotten>> /\ DOMAIN given = {}
      BY <2>2 DEF Startup, VariablesInv, GivenInv, Synchronized, client
    <3> QED BY <1>2, <3>1 DEF TypeOK, GivenInv, OwnTarget
  <2> QED BY <2>1, <2>2
<1>4. raced' \in BOOLEAN
  BY <1>1, <1>2, Zenon DEF TypeOK
<1>5. TypeOK'
  BY <1>1, <1>2, <1>3, <1>4 DEF TypeOK
<1>6. NumbersInv' /\ BusyInv' /\ NamesInv' /\ VarObjectsOwn'
  BY <1>1, <1>2 DEF VariablesInv, NumbersInv, BusyInv, NamesInv, VarObjectsOwn
<1> QED BY <1>3, <1>5, <1>6 DEF VariablesInv

LEMMA StepCommandKeeps ==
  ASSUME VariablesInv, StepCommand
  PROVE  VariablesInv'
<1>1. /\ UNCHANGED <<interp, objects, varCounter, chosen, seen, worker, taken, target>>
      /\ refs' = <<>> /\ nextRef' = 1 /\ raced' = FALSE /\ run = "stopped"
      /\ told' = [n \in DOMAIN told |-> None]
  BY DEF StepCommand, callback
<1>2. worker = "idle" /\ TypeOK /\ DOMAIN told = DOMAIN objects
  BY <1>1 DEF VariablesInv, BusyInv, TypeOK
<1>3. DOMAIN refs' = {} /\ refs' \in [DOMAIN refs' -> Targets]
  BY <1>1, Nothing
<1>4. /\ frame' \in Seq(Values) /\ exc' \in Values \cup {None}
      /\ DOMAIN given' \subseteq 1 .. MaxRef /\ given' \in [DOMAIN given' -> Targets]
      /\ forgotten' \in SUBSET (1 .. MaxRef)
      /\ GivenInv' /\ OwnTarget' /\ run' \in {"running", "stopped"}
  <2>1. CASE run' = "running" /\ Moves
    BY <1>2, <2>1, MovesKeeps
  <2>2. CASE forgotten' = DOMAIN given /\ UNCHANGED <<process, given>>
    <3>1. UNCHANGED <<run, frame, exc, given>> /\ DOMAIN given' \ forgotten' = {}
      BY <2>2 DEF process
    <3>2. OwnTarget'
      BY <3>1 DEF OwnTarget
    <3>3. GivenInv'
      BY <3>1 DEF VariablesInv, GivenInv, Synchronized, NumMembers, Locals
    <3> QED BY <1>1, <1>2, <2>2, <3>1, <3>2, <3>3 DEF TypeOK
  <2> QED BY <2>1, <2>2 DEF StepCommand
<1>5. TypeOK'
  <2>1. nextRef' \in 1 .. (MaxRef + 1)
    BY <1>1
  <2>2. told' \in [DOMAIN objects' -> Targets \cup {None}]
    BY <1>1, <1>2
  <2> QED BY <1>1, <1>2, <1>3, <1>4, <2>1, <2>2 DEF TypeOK
<1>6. NumbersInv' /\ BusyInv' /\ NamesInv' /\ VarObjectsOwn'
  BY <1>1, <1>2, <1>3 DEF VariablesInv, NumbersInv, BusyInv, NamesInv, VarObjectsOwn
<1> QED BY <1>4, <1>5, <1>6 DEF VariablesInv

LEMMA CleanupKeeps ==
  ASSUME VariablesInv, Cleanup
  PROVE  VariablesInv'
<1>1. /\ UNCHANGED <<interp, refs, nextRef, seen, worker, taken, target, raced>>
      /\ objects' = <<>> /\ varCounter' = 0 /\ told' = <<>> /\ chosen' = {}
      /\ run \in {"running", "stopped"} /\ run' = "none" /\ Moves
  BY DEF Cleanup, table, callback
<1>2. worker = "idle" /\ TypeOK
  BY <1>1 DEF VariablesInv, BusyInv
<1>3. /\ DOMAIN objects' = {} /\ objects' \in [DOMAIN objects' -> 0 .. MaxRef]
      /\ told' \in [DOMAIN objects' -> Targets \cup {None}]
  BY <1>1, Nothing
<1>4. /\ frame' \in Seq(Values) /\ exc' \in Values \cup {None}
      /\ DOMAIN given' = {} /\ given' \in [DOMAIN given' -> Targets] /\ forgotten' = {}
      /\ GivenInv' /\ OwnTarget'
  BY <1>1, <1>2, MovesKeeps
<1>5. raced' \in BOOLEAN
  BY <1>1, <1>2, Zenon DEF TypeOK
<1>6. TypeOK'
  BY <1>1, <1>2, <1>3, <1>4, <1>5 DEF TypeOK
<1>7. NumbersInv' /\ BusyInv' /\ NamesInv' /\ VarObjectsOwn'
  BY <1>1, <1>2, <1>3 DEF VariablesInv, NumbersInv, BusyInv, NamesInv, VarObjectsOwn
<1> QED BY <1>4, <1>6, <1>7 DEF VariablesInv

LEMMA BreakpointKeeps ==
  ASSUME VariablesInv, Breakpoint
  PROVE  VariablesInv'
<1>1. /\ UNCHANGED <<refs, nextRef, seen, interp, objects, varCounter, told, chosen>>
      /\ UNCHANGED <<worker, taken, target, given, forgotten, raced>>
      /\ run = "running" /\ run' = "callback"
      /\ frame' \in Frames /\ exc' \in Exceptions \cup {None}
  BY DEF Breakpoint, table, mi, callback, client
<1>2. TypeOK /\ worker = "idle" /\ DOMAIN given = {}
  BY <1>1 DEF VariablesInv, BusyInv, GivenInv, Synchronized
<1>3. raced' \in BOOLEAN
  BY <1>1, <1>2, Zenon DEF TypeOK
<1>4. TypeOK'
  BY <1>1, <1>2, <1>3 DEF TypeOK
<1>5. NumbersInv' /\ BusyInv' /\ GivenInv' /\ OwnTarget' /\ NamesInv' /\ VarObjectsOwn'
  BY <1>1, <1>2 DEF VariablesInv, NumbersInv, BusyInv, GivenInv, OwnTarget, NamesInv,
     VarObjectsOwn
<1> QED BY <1>4, <1>5 DEF VariablesInv

(* The worker's evaluation, up to the entry it puts into the table.        *)
LEMMA WorkerReadsKeeps ==
  ASSUME VariablesInv, ReadNext \/ \E v \in Values : EvaluateCondition(v)
  PROVE  VariablesInv'
<1>1. /\ UNCHANGED <<refs, nextRef, seen, interp, objects, varCounter, told, chosen>>
      /\ UNCHANGED <<run, frame, exc, given, forgotten, raced>>
  BY DEF ReadNext, EvaluateCondition, table, mi, process, client
<1>2. TypeOK
  BY DEF VariablesInv
<1>3. /\ run = "callback" /\ taken' \in 1 .. (MaxRef + 1) /\ target' \in Targets
      /\ worker' = "add" \/ (worker' = "store" /\ taken' = nextRef)
  <2>1. CASE ReadNext
    BY <1>2, <2>1 DEF ReadNext, VariablesInv, BusyInv, TypeOK
  <2>2. CASE \E v \in Values : EvaluateCondition(v)
    <3> PICK v \in Values : EvaluateCondition(v)
      BY <2>2
    <3>1. run = "callback" /\ taken' = taken /\ target' = ValueTarget(v) /\ worker' = "add"
      BY DEF EvaluateCondition
    <3>2. taken \in 1 .. (MaxRef + 1)
      BY <1>2 DEF TypeOK
    <3>3. ValueTarget(v) \in Targets
      BY TargetsOf
    <3> QED BY <3>1, <3>2, <3>3
  <2> QED BY <2>1, <2>2
<1>4. raced' \in BOOLEAN
  BY <1>1, <1>2, Zenon DEF TypeOK
<1>5. TypeOK'
  BY <1>1, <1>2, <1>3, <1>4 DEF TypeOK
<1>6. NumbersInv' /\ BusyInv'
  BY <1>1, <1>3 DEF VariablesInv, NumbersInv, BusyInv
<1>7. GivenInv' /\ OwnTarget' /\ NamesInv' /\ VarObjectsOwn'
  BY <1>1 DEF VariablesInv, GivenInv, OwnTarget, NamesInv, VarObjectsOwn, Synchronized,
     NumMembers, Locals
<1> QED BY <1>5, <1>6, <1>7 DEF VariablesInv

LEMMA StoreNextKeeps ==
  ASSUME VariablesInv, StoreNext
  PROVE  VariablesInv'
<1>1. /\ UNCHANGED <<refs, seen, interp, objects, varCounter, told, chosen>>
      /\ UNCHANGED <<run, frame, exc, taken, target, given, forgotten, raced>>
      /\ worker = "store" /\ worker' = "put" /\ taken <= MaxRef /\ nextRef' = taken + 1
  BY DEF StoreNext, mi, process, client
<1>2. TypeOK
  BY DEF VariablesInv
<1>3. raced' \in BOOLEAN
  BY <1>1, <1>2, Zenon DEF TypeOK
<1>4. TypeOK'
  <2>1. nextRef' \in 1 .. (MaxRef + 1)
    BY <1>1, <1>2 DEF TypeOK
  <2> QED BY <1>1, <1>2, <1>3, <2>1 DEF TypeOK
<1>5. NumbersInv'
  <2>1. CASE raced
    BY <1>1, <2>1 DEF NumbersInv
  <2>2. CASE ~raced
    <3>1. \A id \in DOMAIN refs : id < taken
      BY <1>1, <2>2 DEF VariablesInv, NumbersInv
    <3>2. \A id \in DOMAIN refs : id < taken + 1
      BY <1>2, <3>1 DEF TypeOK
    <3>3. taken \notin DOMAIN refs
      BY <1>2, <3>1 DEF TypeOK
    <3> QED BY <1>1, <3>2, <3>3 DEF NumbersInv
  <2> QED BY <2>1, <2>2
<1>6. BusyInv'
  BY <1>1 DEF VariablesInv, BusyInv
<1>7. GivenInv' /\ OwnTarget' /\ NamesInv' /\ VarObjectsOwn'
  BY <1>1 DEF VariablesInv, GivenInv, OwnTarget, NamesInv, VarObjectsOwn, Synchronized,
     NumMembers, Locals
<1> QED BY <1>4, <1>5, <1>6, <1>7 DEF VariablesInv

LEMMA PutReferenceKeeps ==
  ASSUME VariablesInv, PutReference
  PROVE  VariablesInv'
<1> PICK new : new = [n \in {taken} |-> target]
  OBVIOUS
<1>1. /\ UNCHANGED <<nextRef, seen, interp, objects, varCounter, told, chosen>>
      /\ UNCHANGED <<run, frame, exc, given, forgotten, raced>>
      /\ worker = "put" /\ worker' = "idle" /\ refs' = Emplace(refs, new)
      /\ taken' = 1 /\ target' = NoTarget
  BY DEF PutReference, mi, process, client
<1>2. TypeOK /\ taken \in 1 .. MaxRef
  BY <1>1 DEF VariablesInv, TypeOK, BusyInv
<1>3. new \in [DOMAIN new -> Targets] /\ DOMAIN new = {taken}
  BY <1>2 DEF TypeOK
<1>4. DOMAIN refs' = DOMAIN refs \cup {taken} /\ refs' \in [DOMAIN refs' -> Targets]
  <2>1. refs \in [DOMAIN refs -> Targets]
    BY <1>2 DEF TypeOK
  <2>2. /\ DOMAIN Emplace(refs, new) = DOMAIN refs \cup DOMAIN new
        /\ Emplace(refs, new) \in [DOMAIN refs \cup DOMAIN new -> Targets]
    BY <1>3, <2>1, Maps
  <2> QED BY <1>1, <1>3, <2>2
<1>5. \A id \in DOMAIN refs : id \in DOMAIN refs' /\ refs'[id] = refs[id]
  BY <1>1, <1>4 DEF Emplace
<1>6. raced' \in BOOLEAN
  BY <1>1, <1>2, Zenon DEF TypeOK
<1>7. TypeOK'
  <2>1. NoTarget \in Targets /\ 1 \in 1 .. (MaxRef + 1)
    BY DEF NoTarget, Targets
  <2> QED BY <1>1, <1>2, <1>4, <1>6, <2>1 DEF TypeOK
<1>8. NumbersInv'
  <2>1. CASE raced
    BY <1>1, <2>1 DEF NumbersInv
  <2>2. CASE ~raced
    <3>1. (\A id \in DOMAIN refs : id < nextRef) /\ taken + 1 = nextRef
      BY <1>1, <2>2 DEF VariablesInv, NumbersInv
    <3>2. taken < nextRef
      BY <1>2, <3>1
    <3> QED BY <1>1, <1>4, <3>1, <3>2 DEF NumbersInv
  <2> QED BY <2>1, <2>2
<1>9. OwnTarget' /\ VarObjectsOwn'
  BY <1>1, <1>5 DEF VariablesInv, OwnTarget, VarObjectsOwn
<1>10. BusyInv' /\ GivenInv' /\ NamesInv'
  BY <1>1 DEF VariablesInv, BusyInv, GivenInv, NamesInv, Synchronized, NumMembers, Locals
<1> QED BY <1>7, <1>8, <1>9, <1>10 DEF VariablesInv

LEMMA CallbackDoneKeeps ==
  ASSUME VariablesInv, CallbackDone
  PROVE  VariablesInv'
<1>1. /\ UNCHANGED <<refs, nextRef, seen, interp, objects, varCounter, told, chosen>>
      /\ UNCHANGED <<worker, taken, target, raced>>
      /\ run = "callback" /\ worker = "idle"
  BY DEF CallbackDone, table, mi, callback
<1>2. TypeOK
  BY DEF VariablesInv
<1>3. raced' \in BOOLEAN
  BY <1>1, <1>2, Zenon DEF TypeOK
<1>4. /\ frame' \in Seq(Values) /\ exc' \in Values \cup {None}
      /\ DOMAIN given' \subseteq 1 .. MaxRef /\ given' \in [DOMAIN given' -> Targets]
      /\ forgotten' \in SUBSET (1 .. MaxRef)
      /\ GivenInv' /\ OwnTarget' /\ run' \in {"running", "stopped"}
  <2>1. CASE run' = "stopped" /\ UNCHANGED <<frame, exc, client>>
    BY <1>1, <1>2, <2>1 DEF VariablesInv, TypeOK, GivenInv, OwnTarget, Synchronized,
       NumMembers, Locals, client
  <2>2. CASE run' = "running" /\ Moves
    BY <1>2, <2>2, MovesKeeps
  <2> QED BY <2>1, <2>2 DEF CallbackDone
<1>5. TypeOK'
  BY <1>1, <1>2, <1>3, <1>4 DEF TypeOK
<1>6. NumbersInv' /\ BusyInv' /\ NamesInv' /\ VarObjectsOwn'
  BY <1>1 DEF VariablesInv, NumbersInv, BusyInv, NamesInv, VarObjectsOwn
<1> QED BY <1>4, <1>5, <1>6 DEF VariablesInv

LEMMA StutterKeeps ==
  ASSUME VariablesInv, UNCHANGED vars
  PROVE  VariablesInv'
<1>1. /\ UNCHANGED <<refs, nextRef, seen, interp, objects, varCounter, told, chosen>>
      /\ UNCHANGED <<run, frame, exc, worker, taken, target, given, forgotten, raced>>
  BY DEF vars, table, mi, process, callback, client
<1>2. raced' \in BOOLEAN
  BY <1>1, Zenon DEF VariablesInv, TypeOK
<1>3. TypeOK'
  BY <1>1, <1>2 DEF VariablesInv, TypeOK
<1>4. NumbersInv' /\ BusyInv' /\ GivenInv' /\ NamesInv' /\ OwnTarget' /\ VarObjectsOwn'
  BY <1>1 DEF VariablesInv, NumbersInv, BusyInv, GivenInv, NamesInv, OwnTarget, VarObjectsOwn,
     Synchronized, NumMembers, Locals
<1> QED BY <1>3, <1>4 DEF VariablesInv

-----------------------------------------------------------------------------
LEMMA InitHolds == Init => VariablesInv
<1> SUFFICES ASSUME Init PROVE VariablesInv
  OBVIOUS
<1>1. /\ DOMAIN refs = {} /\ refs \in [DOMAIN refs -> Targets]
      /\ DOMAIN given = {} /\ given \in [DOMAIN given -> Targets]
      /\ DOMAIN objects = {} /\ objects \in [DOMAIN objects -> 0 .. MaxRef]
      /\ told \in [DOMAIN objects -> Targets \cup {None}]
  BY Nothing DEF Init
<1>2. NoTarget \in Targets /\ 1 \in 1 .. (MaxRef + 1) /\ frame \in Seq(Values)
  BY DEF Init, NoTarget, Targets
<1>3. TypeOK
  <2>1. /\ interp \in Interpreters /\ varCounter \in 0 .. MaxVar /\ run = "running"
        /\ exc \in Values \cup {None} /\ worker = "idle" /\ nextRef = 1 /\ taken = 1
        /\ target \in Targets /\ seen = 0 /\ forgotten = {} /\ chosen = {}
    BY <1>2 DEF Init
  <2>2. raced \in BOOLEAN
    BY Zenon DEF Init
  <2> QED BY <1>1, <1>2, <2>1, <2>2 DEF TypeOK
<1>4. NumbersInv /\ BusyInv /\ GivenInv /\ NamesInv /\ OwnTarget /\ VarObjectsOwn
  BY <1>1 DEF Init, NumbersInv, BusyInv, GivenInv, NamesInv, OwnTarget, VarObjectsOwn
<1> QED BY <1>3, <1>4 DEF VariablesInv

(* Whatever the client asks for, in whatever order, and whatever the       *)
(* callback's worker evaluates meanwhile: the table of references, the     *)
(* numbers and the variable objects stay consistent.                       *)
THEOREM VariablesInvariant == Spec => []VariablesInv
<1>1. VariablesInv /\ [Next]_vars => VariablesInv'
  <2> SUFFICES ASSUME VariablesInv, [Next]_vars PROVE VariablesInv'
    OBVIOUS
  <2>1. CASE GetScopes
    BY <2>1, GetScopesKeeps
  <2>2. CASE StackListVariables
    BY <2>2, StackListVariablesKeeps
  <2>3. ASSUME NEW id \in DOMAIN refs, NEW filter \in {"both", "named", "indexed"},
               NEW start \in Positions, NEW count \in Positions,
               GetVariables(id, filter, start, count)
        PROVE  VariablesInv'
    BY <2>3, GetVariablesKeeps
  <2>4. ASSUME NEW v \in Values, Evaluate(v)
        PROVE  VariablesInv'
    BY <2>4, EvaluateKeeps
  <2>5. ASSUME NEW name \in ClientNames \cup {None}, NEW v \in Values, CreateVar(name, v)
        PROVE  VariablesInv'
    BY <2>5, CreateVarKeeps
  <2>6. ASSUME NEW name \in DOMAIN objects, DeleteVar(name)
        PROVE  VariablesInv'
    BY <2>6, DeleteVarKeeps
  <2>7. ASSUME NEW name \in DOMAIN objects, NEW childStart \in Positions,
               NEW childEnd \in Positions, ListChildren(name, childStart, childEnd)
        PROVE  VariablesInv'
    BY <2>7, ListChildrenKeeps
  <2>8. CASE Continue \/ Startup
    BY <2>8, ResumesKeeps
  <2>9. CASE StepCommand
    BY <2>9, StepCommandKeeps
  <2>10. CASE Cleanup
    BY <2>10, CleanupKeeps
  <2>11. CASE Breakpoint
    BY <2>11, BreakpointKeeps
  <2>12. CASE ReadNext \/ \E v \in Values : EvaluateCondition(v)
    BY <2>12, WorkerReadsKeeps
  <2>13. CASE StoreNext
    BY <2>13, StoreNextKeeps
  <2>14. CASE PutReference
    BY <2>14, PutReferenceKeeps
  <2>15. CASE CallbackDone
    BY <2>15, CallbackDoneKeeps
  <2>16. CASE UNCHANGED vars
    BY <2>16, StutterKeeps
  <2>17. CASE ReadReference
    BY <2>17, ReadReferenceKeeps
  <2>18. ASSUME NEW v \in Values, RequestFails(v)
         PROVE  VariablesInv'
    BY <2>18, RequestFailsKeeps
  <2> QED
    BY <2>1, <2>2, <2>3, <2>4, <2>5, <2>6, <2>7, <2>8, <2>9, <2>10, <2>11, <2>12, <2>13,
       <2>14, <2>15, <2>16, <2>17, <2>18 DEF Next
<1> QED BY <1>1, InitHolds, PTL DEF Spec

(* The table of references, the variable objects, the worker's number and  *)
(* what the client was told stay well typed.                               *)
THEOREM VariablesTypeCorrect == Spec => []TypeOK
<1>1. VariablesInv => TypeOK
  BY DEF VariablesInv
<1> QED BY <1>1, VariablesInvariant, PTL

(* A reference the client was told while the process stands where it is    *)
(* leads to what it was told for, unless a step failed there since it was  *)
(* told or, since the last step, the callback's worker and the protocol    *)
(* thread met in AddVariableReference.                                     *)
THEOREM OwnTargets == Spec => []OwnTarget
<1>1. VariablesInv => OwnTarget
  BY DEF VariablesInv
<1> QED BY <1>1, VariablesInvariant, PTL

(* A variable object made since the last step lists the children of what   *)
(* it was made for, unless the two threads met in AddVariableReference;    *)
(* and the next name that is generated was not generated before: the only  *)
(* object it can replace is one that the client itself called varN.        *)
THEOREM ObjectsAlwaysOwn == Spec => []VarObjectsOwn
<1>1. VariablesInv => VarObjectsOwn
  BY DEF VariablesInv
<1> QED BY <1>1, VariablesInvariant, PTL

(* The positions a target has are its members, and "Static members" last.  *)
LEMMA Sizes ==
  ASSUME TypeOK, NEW t \in Targets, t.named = NumMembers(t)
  PROVE  /\ Len(Members(t)) \in Nat /\ t.named \in Nat
         /\ IF t.kind = "value" /\ Static[t.of] # <<>>
              THEN t.named = Len(Members(t)) + 1 ELSE t.named = Len(Members(t))
<1>1. Locals \in Seq(Values)
  BY LocalsSeq
<1>2. t.kind \in {"scope", "value", "class"} /\ (t.kind # "scope" => t.of \in Values)
  BY DEF Targets
<1> QED BY <1>1, <1>2 DEF Members, NumMembers, GetNumChild

(* The positions that the walk over the members shows of a page.           *)
LEMMA ShownSlice ==
  ASSUME TypeOK, NEW t \in Targets, t.named = NumMembers(t),
         NEW start \in Nat, NEW count \in Int
  PROVE  /\ t.kind = "scope" =>
              GetStackVariables(t, start, count) =
                {i \in 0 .. (t.named - 1) : InPage(start, count, i)}
                \cup (IF exc # None THEN {0} ELSE {})
         /\ t.kind # "scope" =>
              GetChildren(t, start, count) = {i \in 0 .. (t.named - 1) : InPage(start, count, i)}
<1> PICK n : n = Len(Members(t))
  OBVIOUS
<1>1. n \in Nat /\ t.named \in Nat
  BY Sizes
<1>2. ASSUME t.kind = "scope"
      PROVE  GetStackVariables(t, start, count) =
               {i \in 0 .. (t.named - 1) : InPage(start, count, i)}
               \cup (IF exc # None THEN {0} ELSE {})
  <2>1. t.named = n
    BY <1>2, Sizes
  <2>2. exc # None => n > 0
    <3>1. Locals \in Seq(Values) /\ Len(Locals) = n
      BY <1>2, LocalsSeq DEF Members
    <3>2. exc # None => exc \in Values /\ frame \in Seq(Values) /\ Locals = <<exc>> \o frame
      BY DEF TypeOK, Locals
    <3> QED BY <3>1, <3>2
  <2> QED BY <1>1, <2>1, <2>2 DEF GetStackVariables
<1>3. ASSUME t.kind # "scope"
      PROVE  GetChildren(t, start, count) = {i \in 0 .. (t.named - 1) : InPage(start, count, i)}
  <2>1. CASE t.kind = "value" /\ Static[t.of] # <<>>
    <3>1. t.named = n + 1
      BY <2>1, Sizes
    <3> QED BY <1>1, <2>1, <3>1 DEF GetChildren, InPage
  <2>2. CASE ~(t.kind = "value" /\ Static[t.of] # <<>>)
    <3>1. t.named = n
      BY <2>2, Sizes
    <3> QED BY <1>1, <2>2, <3>1 DEF GetChildren, InPage
  <2> QED BY <2>1, <2>2
<1> QED BY <1>2, <1>3

(* Turning the pages of whatever the client was told about shows each      *)
(* member once.                                                            *)
OnEveryPage(t) == IF t.kind = "scope" /\ exc # None THEN {0} ELSE {}
Slice(t, start, count) == {i \in 0 .. (t.named - 1) : InPage(start, count, i)}

Sliced(t, filter, start, count, slice, always) ==
  /\ filter # "indexed" => Page(t, filter, start, count) = slice \cup always
  /\ filter = "indexed" => Page(t, filter, start, count) = always
  /\ count > 0 => (HasMore(t, start + count) <=>
                     \E i \in 0 .. (t.named - 1) : i >= start /\ i \notin slice)

LEMMA PageSlice ==
  \A t \in Targets, start \in Nat, count \in Nat, filter \in {"both", "named", "indexed"} :
    TypeOK /\ t.named = NumMembers(t)
    => Sliced(t, filter, start, count, Slice(t, start, count), OnEveryPage(t))
<1> SUFFICES ASSUME NEW t \in Targets, NEW start \in Nat, NEW count \in Nat,
                    NEW filter \in {"both", "named", "indexed"},
                    TypeOK, t.named = NumMembers(t)
             PROVE  Sliced(t, filter, start, count, Slice(t, start, count), OnEveryPage(t))
  OBVIOUS
<1>l. PICK slice, always : slice = Slice(t, start, count) /\ always = OnEveryPage(t)
  OBVIOUS
<1>e. /\ always = IF t.kind = "scope" /\ exc # None THEN {0} ELSE {}
      /\ slice = {i \in 0 .. (t.named - 1) : InPage(start, count, i)}
  BY <1>l DEF Slice, OnEveryPage
<1>f. PICK first : first = IF filter = "indexed" THEN start + t.named ELSE start
  OBVIOUS
<1>m. PICK many : many = IF filter = "named" /\ (start + count > t.named \/ count = 0)
                         THEN t.named - start ELSE count
  OBVIOUS
<1>1. t.named \in Nat
  BY Sizes
<1>2. first \in Nat /\ many \in Int
  BY <1>f, <1>m, <1>1
<1>3. Page(t, filter, start, count) =
        IF t.kind = "scope" THEN GetStackVariables(t, first, many)
                            ELSE GetChildren(t, first, many)
  BY <1>f, <1>m DEF Page
<1>4. Page(t, filter, start, count) =
        {i \in 0 .. (t.named - 1) : InPage(first, many, i)} \cup always
  <2>1. CASE t.kind = "scope"
    BY <1>2, <1>3, <1>e, <2>1, ShownSlice
  <2>2. CASE t.kind # "scope"
    BY <1>2, <1>3, <1>e, <2>2, ShownSlice
  <2> QED BY <2>1, <2>2
<1>5. filter # "indexed" => \A i \in 0 .. (t.named - 1) :
                              InPage(first, many, i) <=> InPage(start, count, i)
  BY <1>1, <1>f, <1>m DEF InPage
<1>6. filter = "indexed" => \A i \in 0 .. (t.named - 1) : ~InPage(first, many, i)
  BY <1>1, <1>f, <1>m DEF InPage
<1>7. count > 0 => (HasMore(t, start + count) <=>
                      \E i \in 0 .. (t.named - 1) : i >= start /\ i \notin slice)
  <2> SUFFICES ASSUME count > 0
               PROVE  HasMore(t, start + count) <=>
                        \E i \in 0 .. (t.named - 1) : i >= start /\ i \notin slice
    OBVIOUS
  <2>1. ASSUME start + count < t.named
        PROVE  \E i \in 0 .. (t.named - 1) : i >= start /\ i \notin slice
    <3>1. t.named - 1 \in 0 .. (t.named - 1) /\ t.named - 1 >= start
          /\ ~InPage(start, count, t.named - 1)
      BY <1>1, <2>1 DEF InPage
    <3> QED BY <1>e, <3>1
  <2>2. ASSUME NEW i \in 0 .. (t.named - 1), i >= start, i \notin slice
        PROVE  start + count < t.named
    BY <1>1, <1>e, <2>2 DEF InPage
  <2> QED BY <2>1, <2>2 DEF HasMore
<1>8. /\ filter # "indexed" => Page(t, filter, start, count) = slice \cup always
      /\ filter = "indexed" => Page(t, filter, start, count) = always
  BY <1>4, <1>5, <1>6, <1>e
<1> QED BY <1>7, <1>8, <1>l DEF Sliced

(* Turning the pages of whatever the client was told about shows each      *)
(* member once.                                                            *)
THEOREM AlwaysSlices == Spec => []PagesAreSlices
<1>1. VariablesInv => PagesAreSlices
  <2> SUFFICES ASSUME VariablesInv,
                      NEW id \in DOMAIN given, NEW start \in Positions, NEW count \in Positions
               PROVE  LET t      == given[id]
                          always == IF t.kind = "scope" /\ exc # None THEN {0} ELSE {}
                          slice  == {i \in 0 .. (t.named - 1) : InPage(start, count, i)}
                      IN /\ \A filter \in {"both", "named"} :
                              Page(t, filter, start, count) = slice \cup always
                         /\ Page(t, "indexed", start, count) = always
                         /\ count > 0 =>
                              (HasMore(t, start + count) <=>
                                 \E i \in 0 .. (t.named - 1) : i >= start /\ i \notin slice)
    BY DEF PagesAreSlices
  <2>t. PICK t : t = given[id]
    OBVIOUS
  <2>a. PICK always : always = IF t.kind = "scope" /\ exc # None THEN {0} ELSE {}
    OBVIOUS
  <2>s. PICK slice : slice = {i \in 0 .. (t.named - 1) : InPage(start, count, i)}
    OBVIOUS
  <2>1. TypeOK /\ t \in Targets /\ t.named = NumMembers(t) /\ start \in Nat /\ count \in Nat
    BY <2>t DEF VariablesInv, TypeOK, GivenInv
  <2>2. \A filter \in {"both", "named", "indexed"} :
          Sliced(t, filter, start, count, slice, always)
    <3>1. slice = Slice(t, start, count) /\ always = OnEveryPage(t)
      BY <2>a, <2>s DEF Slice, OnEveryPage
    <3> QED BY <2>1, <3>1, PageSlice
  <2>3. /\ \A filter \in {"both", "named"} : Page(t, filter, start, count) = slice \cup always
        /\ Page(t, "indexed", start, count) = always
        /\ count > 0 => (HasMore(t, start + count) <=>
                           \E i \in 0 .. (t.named - 1) : i >= start /\ i \notin slice)
    BY <2>2 DEF Sliced
  <2> QED BY <2>t, <2>a, <2>s, <2>3
<1> QED BY <1>1, VariablesInvariant, PTL
=============================================================================
