-------------------------- MODULE MIBreakpoints_proof --------------------------
(***************************************************************************)
(* Proofs about breakpoints as a GDB/MI client sets them, for every number *)
(* of files, lines, functions and commands.                                *)
(***************************************************************************)
EXTENDS MIBreakpoints, BreakpointTable_proof, BreakpointHits_proof, FiniteSetTheorems

-----------------------------------------------------------------------------
(* The operators of the library the model uses.                            *)

(* A set of numbers that is not empty has a least element: of the sets of  *)
(* its elements up to each of them, one contains no other.                 *)
LEMMA MinIsIn ==
  ASSUME NEW I \in SUBSET Nat, I # {}
  PROVE  Min(I) \in I
<1> DEFINE Upto(i) == I \cap (0..i)
           Family == {Upto(i) : i \in I}
<1>1. Family # {} /\ Family \subseteq FiniteSubsetsOf(Nat)
  <2>1. \A i \in I : IsFiniteSet(0..i)
    BY FS_Interval
  <2>2. \A i \in I : IsFiniteSet(Upto(i))
    BY <2>1, FS_Intersection
  <2> QED
    BY <2>2 DEF FiniteSubsetsOf
<1>2. PICK U \in Family : \A V \in Family : <<V, U>> \notin StrictSubsetOrdering(Nat)
  <2> HIDE DEF Family
  <2> QED
    BY <1>1, FS_StrictSubsetOrderingWellFounded, WFMin
<1>3. PICK m \in I : U = Upto(m)
  OBVIOUS
<1>4. ASSUME NEW i \in I, i < m PROVE FALSE
  <2>1. Upto(i) \in Family /\ Upto(i) \subseteq Upto(m)
    BY <1>4
  <2>2. m \in Upto(m) /\ m \notin Upto(i)
    BY <1>4
  <2>3. Upto(i) \in SUBSET Nat /\ Upto(m) \in SUBSET Nat
    OBVIOUS
  <2> QED
    BY <1>2, <1>3, <2>1, <2>2, <2>3 DEF StrictSubsetOrdering
<1>5. \A i \in I : m <= i
  BY <1>4
<1> QED
  BY <1>5 DEF Min

(* The answer to an insertion is found among what was sent, by its name.   *)
LEMMA FirstIsFound ==
  ASSUME NEW s \in Seq(Sources), NEW a \in Sources, \E i \in 1..Len(s) : s[i] = a
  PROVE  LET first == SelectInSeq(s, LAMBDA x : SameName(x.key, a.key))
         IN first \in 1..Len(s) /\ SameName(s[first].key, a.key)
<1> DEFINE I == {i \in 1..Len(s) : SameName(s[i].key, a.key)}
<1>1. I # {} /\ I \subseteq Nat
  BY DEF SameName
<1>2. Min(I) \in I
  BY <1>1, MinIsIn
<1> QED
  BY <1>1, <1>2 DEF SelectInSeq

(* The copy is finite: its entries are told apart by their ids.            *)
LEMMA CopyFinite ==
  ASSUME NEW C \in SUBSET Entries, \A d, e \in C : d.id = e.id => d = e
  PROVE  IsFiniteSet(C)
<1> DEFINE F == [e \in C |-> e.id]
<1>1. F \in Injection(C, 1..MaxId)
  BY DEF Entries, Injection, IsInjective
<1>2. IsFiniteSet(1..MaxId)
  BY FS_Interval, BreakpointsAssumption
<1> QED
  BY <1>1, <1>2, FS_Injection

(* A list in the order of a hash map names what it is made of, and nothing *)
(* is left out of it.                                                      *)
LEMMA ListOfEntries ==
  ASSUME NEW C \in SUBSET Entries, IsFiniteSet(C), NEW src \in Lists(C)
  PROVE  src \in Seq(Sources) /\ KeysOf(src) = {e.key : e \in C}
<1> DEFINE n == Cardinality(C)
<1>1. n \in Nat
  BY FS_CardinalityType
<1>2. PICK order \in SetToSeqs(C) : src = [i \in DOMAIN order |-> Source(order[i])]
  BY DEF Lists
<1>3. order \in [1..n -> C] /\ \A i, j \in 1..n : i # j => order[i] # order[j]
  BY <1>2 DEF SetToSeqs
<1>4. order \in Surjection(1..n, C)
  <2>1. order \in Injection(1..n, C)
    BY <1>3 DEF Injection, IsInjective
  <2>2. Cardinality(1..n) = n
    BY <1>1, FS_Interval
  <2> QED
    BY <1>1, <2>1, <2>2, FS_Injection
<1>5. \A e \in C : Source(e) \in Sources /\ Source(e).key = e.key
  BY DEF Entries, Source, Sources
<1>6. src \in [1..n -> Sources] /\ \A i \in 1..n : src[i].key = order[i].key
  BY <1>2, <1>3, <1>5
<1>7. src \in Seq(Sources) /\ Len(src) = n
  BY <1>1, <1>6, SeqDef
<1>8. KeysOf(src) = {e.key : e \in C}
  BY <1>3, <1>4, <1>6, <1>7 DEF KeysOf, Surjection
<1> QED
  BY <1>7, <1>8

(* Files and functions are the groups a request replaces.                  *)
LEMMA GroupFacts ==
  /\ \A G \in Groups : G \in SUBSET Keys
  /\ \A k \in Keys : GroupOf(k) \in Groups /\ k \in GroupOf(k)
<1>1. \A G \in Groups : G \in SUBSET Keys
  BY DEF Groups, FileKeys, Keys, LineKeys
<1>2. ASSUME NEW k \in Keys PROVE GroupOf(k) \in Groups /\ k \in GroupOf(k)
  <2>1. CASE k \in Funcs
    BY <2>1 DEF GroupOf, Groups
  <2>2. CASE k \notin Funcs
    <3>1. k \in Files \X Lines
      BY <2>2 DEF Keys, LineKeys
    <3>2. k[1] \in Files /\ k \in {k[1]} \X Lines
      BY <3>1
    <3> QED
      BY <2>2, <3>2 DEF GroupOf, Groups, FileKeys
  <2> QED
    BY <2>1, <2>2
<1> QED
  BY <1>1, <1>2

(* A list of entries of the copy is a request.                             *)
LEMMA CopiedList ==
  ASSUME MITypeOK, NEW E \in SUBSET copy, NEW src \in Lists(E)
  PROVE  src \in Seq(Sources) /\ KeysOf(src) = {e.key : e \in E}
<1>1. E \in SUBSET Entries /\ \A d, e \in E : d.id = e.id => d = e
  BY DEF MITypeOK
<1>2. IsFiniteSet(E)
  BY <1>1, CopyFinite
<1> QED
  BY <1>1, <1>2, ListOfEntries

-----------------------------------------------------------------------------
(* Types, and what is decided about hits.                                  *)

(* A command sends a request.                                              *)
LEMMA SendKeeps ==
  ASSUME HitsInv, NEW G \in Groups, NEW src \in Seq(Sources), Send(G, src), KeysOf(src) \subseteq G
  PROVE  /\ HitsInv'
         /\ cpc = "idle" /\ cpc' \in {"lines", "funcs", "reply"}
         /\ todo' = src /\ (~Locked' => todo' = <<>>)
<1> DEFINE loop == IF G = Funcs THEN "funcs" ELSE "lines"
<1>1. StartRequest(G, src, loop) /\ loop \in {"lines", "funcs"} /\ G \in SUBSET Keys
  BY GroupFacts DEF Send
<1>5. loop = "lines" => \A i \in 1..Len(src) : src[i].key \notin Funcs
  <2>1. G # Funcs => \A k \in G : k \notin Funcs
    BY BreakpointsAssumption DEF Groups, FileKeys, LineKeys
  <2> QED
    BY <2>1 DEF KeysOf
<1> HIDE DEF loop
<1>2. ResolveInv'
  BY <1>1, <1>5, RequestKeeps DEF HitsInv
<1>3. HitsInv'
  BY <1>1, <1>2, RequestHits
<1>4. /\ cpc = "idle" /\ cpc' \in {"lines", "funcs", "reply"}
      /\ todo' = src /\ (~Locked' => todo' = <<>>)
  BY <1>1 DEF StartRequest, Locked
<1> QED
  BY <1>3, <1>4

(* What is told to the client says nothing of modules, places and hits.    *)
LEMMA TellKeeps ==
  ASSUME HitsInv, UNCHANGED <<codeVars, bps, nextId, entryVars, todo, cbVars>>,
         shown' \in [Keys -> Shown],
         \/ UNCHANGED <<cpc, reply, group>>
         \/ cpc' = "idle" /\ reply' = [k \in Keys |-> Unshown] /\ group' = {}
  PROVE  HitsInv'
<1> USE DEF codeVars, entryVars, cbVars
<1>1. ResolveInv
  BY DEF HitsInv
<1>2. TypeOK'
  <2>1. Unshown \in Shown
    BY BreakpointsAssumption DEF Unshown, Shown
  <2> QED
    BY <1>1, <2>1 DEF ResolveInv, TypeOK
<1>3. TodoInv' /\ RunsBegun'
  BY <1>1 DEF ResolveInv, TodoInv, Locked, RunsBegun
<1>4. OnlyInNewModule'
  BY <1>1, CodeKept DEF ResolveInv
<1>5. PlacesInv'
  BY DEF HitsInv, PlacesInv, IsSet, IsResolved
<1> QED
  BY <1>2, <1>3, <1>4, <1>5 DEF HitsInv, ResolveInv

LEMMA InsertTypes ==
  ASSUME MITypeInv, NEW s \in Sources, Insert(s.key, s.cond)
  PROVE  MITypeInv'
<1> DEFINE G == GroupOf(s.key)
<1>1. PICK list \in Lists(Copied(G)) : sent' = Append(list, asked') /\ Send(G, sent')
  BY DEF Insert
<1>2. /\ asked' = [key |-> s.key, cond |-> s.cond] /\ asked' \in Sources
      /\ asked'.key = s.key /\ s.key \in Keys
  BY DEF Insert, Sources
<1>3. G \in Groups /\ s.key \in G
  BY <1>2, GroupFacts
<1>4. list \in Seq(Sources) /\ KeysOf(list) \subseteq G
  BY <1>1, CopiedList DEF MITypeInv, Copied
<1>5. /\ sent' \in Seq(Sources) /\ Len(sent') = Len(list) + 1 /\ Len(list) \in Nat
      /\ sent'[Len(list) + 1] = asked' /\ \A i \in 1..Len(list) : sent'[i] = list[i]
  BY <1>1, <1>2, <1>4, AppendProperties, LenProperties
<1>9. \A i \in 1..Len(sent') : sent'[i].key \in G
  BY <1>2, <1>3, <1>4, <1>5 DEF KeysOf
<1>6. /\ HitsInv' /\ cpc' \in {"lines", "funcs", "reply"}
      /\ todo' = sent' /\ (~Locked' => todo' = <<>>)
  <2>1. KeysOf(sent') \subseteq G
    BY <1>9 DEF KeysOf
  <2> QED
    BY <1>1, <1>3, <1>5, <2>1, SendKeeps DEF MITypeInv
<1>7. MITypeOK'
  <2>1. UNCHANGED <<copy, ids, groups>> /\ op' = "insert" /\ deleted' = deleted \ {s.key}
    BY DEF Insert
  <2> QED
    BY <1>2, <1>5, <2>1 DEF MITypeInv, MITypeOK
<1>8. RequestInv'
  <2>1. op' = "insert"
    BY DEF Insert
  <2>2. \E i \in 1..Len(sent') : sent'[i] = asked'
    BY <1>5
  <2>3. \A i \in 1..Len(sent') : sent'[i].key \in KeysOf(todo')
    BY <1>6 DEF KeysOf
  <2> QED
    BY <1>2, <1>6, <1>9, <2>1, <2>2, <2>3 DEF RequestInv
<1> QED
  BY <1>6, <1>7, <1>8 DEF MITypeInv

LEMMA ConditionTypes ==
  ASSUME MITypeInv, NEW e \in copy, NEW cond \in Conds \cup {NoCond},
         SetBreakpointCondition(e, cond)
  PROVE  MITypeInv'
<1> DEFINE G == GroupOf(e.key)
<1>1. /\ copy' = (copy \ {e}) \cup {[e EXCEPT !.cond = cond]} /\ op' = "condition"
      /\ UNCHANGED <<asked, sent, ids, groups, deleted>>
  BY DEF SetBreakpointCondition, argVars
<1>2. MITypeOK'
  <2>1. e \in Entries /\ [e EXCEPT !.cond = cond] \in Entries
        /\ [e EXCEPT !.cond = cond].id = e.id
    BY DEF MITypeInv, MITypeOK, Entries
  <2> QED
    BY <1>1, <2>1 DEF MITypeInv, MITypeOK
<1>3. G \in Groups
  BY GroupFacts DEF MITypeInv, MITypeOK, Entries
<1>4. PICK src \in Lists({d \in copy' : d.key \in G}) : Send(G, src)
  BY DEF SetBreakpointCondition
<1>5. src \in Seq(Sources) /\ KeysOf(src) \subseteq G
  <2> DEFINE E == {d \in copy' : d.key \in G}
  <2>1. E \in SUBSET Entries /\ \A c, d \in E : c.id = d.id => c = d
    BY <1>2 DEF MITypeOK
  <2>2. IsFiniteSet(E)
    BY <2>1, CopyFinite
  <2> QED
    BY <1>4, <2>1, <2>2, ListOfEntries
<1>6. HitsInv' /\ cpc' \in {"lines", "funcs", "reply"} /\ (~Locked' => todo' = <<>>)
  BY <1>3, <1>4, <1>5, SendKeeps DEF MITypeInv
<1>7. RequestInv'
  BY <1>1, <1>6 DEF RequestInv
<1> QED
  BY <1>2, <1>6, <1>7 DEF MITypeInv

LEMMA DeleteTypes ==
  ASSUME MITypeInv, NEW I \in SUBSET Told, Delete(I)
  PROVE  MITypeInv'
<1>1. /\ op' = "delete" /\ cpc = "idle" /\ UNCHANGED <<cpc, todo, reply, group>>
      /\ UNCHANGED <<codeVars, bps, nextId, entryVars, cbVars, copy, asked, sent>>
      /\ shown' = [k \in Keys |-> IF shown[k].id \in I THEN Unshown ELSE shown[k]]
  BY DEF Delete, cmdVars
<1>2. shown \in [Keys -> Shown] /\ shown' \in [Keys -> Shown]
  <2>1. Unshown \in Shown
    BY BreakpointsAssumption DEF Unshown, Shown
  <2> QED
    BY <1>1, <2>1 DEF MITypeInv, HitsInv, ResolveInv, TypeOK
<1>3. HitsInv'
  BY <1>1, <1>2, TellKeeps DEF MITypeInv
<1>4. MITypeOK'
  <2>1. ids' \in SUBSET (1..MaxId)
    <3>1. \A x \in Shown : x.id # 0 => x.id \in 1..MaxId
      BY BreakpointsAssumption DEF Shown
    <3> QED
      BY <1>2, <3>1 DEF Delete, Told
  <2>2. groups' \in SUBSET Groups /\ deleted' \in SUBSET Keys
    BY DEF Delete, MITypeInv, MITypeOK
  <2> QED
    BY <1>1, <2>1, <2>2 DEF MITypeInv, MITypeOK
<1>5. RequestInv'
  BY <1>1 DEF MITypeInv, RequestInv, Locked
<1> QED
  BY <1>3, <1>4, <1>5 DEF MITypeInv

LEMMA DeleteNextTypes ==
  ASSUME MITypeInv, NEW G \in Groups, DeleteNext(G)
  PROVE  MITypeInv'
<1>1. UNCHANGED <<copy, op, asked, sent, ids, deleted>> /\ op = "delete" /\ groups' \subseteq groups
  BY DEF DeleteNext
<1>2. PICK src \in Lists({e \in Copied(G) : e.id \notin ids}) : Send(G, src)
  BY DEF DeleteNext
<1>3. src \in Seq(Sources) /\ KeysOf(src) \subseteq G
  BY <1>2, CopiedList DEF MITypeInv, Copied
<1>4. HitsInv' /\ cpc' \in {"lines", "funcs", "reply"} /\ (~Locked' => todo' = <<>>)
  BY <1>2, <1>3, SendKeeps DEF MITypeInv
<1>5. MITypeOK'
  BY <1>1 DEF MITypeInv, MITypeOK
<1>6. RequestInv'
  BY <1>1, <1>4 DEF RequestInv
<1> QED
  BY <1>4, <1>5, <1>6 DEF MITypeInv

(* What an insertion is answered: the breakpoint of that name among those  *)
(* sent, which has got an id.                                              *)
LEMMA AnswerFound ==
  ASSUME MITypeInv, cpc = "reply", op = "insert"
  PROVE  LET first == SelectInSeq(sent, LAMBDA s : SameName(s.key, asked.key))
         IN /\ sent[first] \in Sources /\ SameName(sent[first].key, asked.key)
            /\ sent[first].key \in GroupOf(asked.key)
            /\ reply[sent[first].key] \in Shown /\ reply[sent[first].key].id \in 1..MaxId
            /\ asked \in Sources
<1> DEFINE first == SelectInSeq(sent, LAMBDA s : SameName(s.key, asked.key))
<1>1. sent \in Seq(Sources) /\ RequestInv /\ TypeOK
  BY DEF MITypeInv, MITypeOK, HitsInv, ResolveInv
<1>2. \E i \in 1..Len(sent) : sent[i] = asked
  BY <1>1 DEF RequestInv
<1>3. asked \in Sources
  BY <1>1, <1>2, ElementOfSeq
<1>4. first \in 1..Len(sent) /\ SameName(sent[first].key, asked.key)
  BY <1>1, <1>2, <1>3, FirstIsFound
<1> HIDE DEF first
<1>5. sent[first] \in Sources /\ sent[first].key \in Keys
  <2>1. sent[first] \in Sources
    BY <1>1, <1>4, ElementOfSeq
  <2> QED
    BY <2>1 DEF Sources
<1>6. sent[first].key \in GroupOf(asked.key) /\ reply[sent[first].key].id # 0
  <2>1. KeysOf(todo) = {}
    <3>1. todo = <<>> /\ Len(todo) = 0
      BY <1>1, EmptySeq DEF RequestInv, Locked
    <3> QED
      BY <3>1 DEF KeysOf
  <2> QED
    BY <1>1, <1>4, <2>1 DEF RequestInv
<1>7. reply[sent[first].key] \in Shown
  BY <1>1, <1>5 DEF TypeOK
<1>8. reply[sent[first].key].id \in 1..MaxId
  BY <1>6, <1>7, BreakpointsAssumption DEF Shown
<1> QED
  BY <1>3, <1>4, <1>5, <1>6, <1>7, <1>8 DEF first

LEMMA InsertReturnsTypes ==
  ASSUME MITypeInv, InsertReturns
  PROVE  MITypeInv'
<1>1. PICK key, cond : /\ key \in Keys /\ cond \in Conds \cup {NoCond}
                       /\ reply[key] \in Shown /\ reply[key].id \in 1..MaxId
                       /\ asked \in Sources
                       /\ copy' = IF \E e \in copy : e.id = reply[key].id THEN copy
                                  ELSE copy \cup {[id |-> reply[key].id, key |-> key, cond |-> cond]}
                       /\ shown' = [shown EXCEPT ![asked.key] = reply[key]]
  <2> DEFINE first == SelectInSeq(sent, LAMBDA s : SameName(s.key, asked.key))
  <2>1. /\ copy' = IF \E e \in copy : e.id = reply[sent[first].key].id THEN copy
                   ELSE copy \cup {[id |-> reply[sent[first].key].id,
                                     key |-> sent[first].key, cond |-> sent[first].cond]}
        /\ shown' = [shown EXCEPT ![asked.key] = reply[sent[first].key]]
    BY DEF InsertReturns
  <2>2. cpc = "reply" /\ op = "insert"
    BY DEF InsertReturns
  <2>3. /\ sent[first] \in Sources /\ asked \in Sources
        /\ reply[sent[first].key] \in Shown /\ reply[sent[first].key].id \in 1..MaxId
    BY <2>2, AnswerFound
  <2> HIDE DEF first
  <2>4. sent[first].key \in Keys /\ sent[first].cond \in Conds \cup {NoCond}
    BY <2>3 DEF Sources
  <2> QED
    BY <2>1, <2>3, <2>4
<1>2. /\ UNCHANGED <<codeVars, bps, nextId, entryVars, todo, cbVars, ids, groups, deleted>>
      /\ op' = "idle" /\ cpc' = "idle" /\ asked' = NoModule /\ sent' = <<>>
      /\ reply' = [k \in Keys |-> Unshown] /\ group' = {} /\ cpc = "reply"
  BY DEF InsertReturns
<1>3. HitsInv'
  <2>1. shown' \in [Keys -> Shown]
    BY <1>1 DEF MITypeInv, HitsInv, ResolveInv, TypeOK, Sources
  <2> QED
    BY <1>2, <2>1, TellKeeps DEF MITypeInv
<1>4. MITypeOK'
  <2>1. copy' \in SUBSET Entries /\ \A d, e \in copy' : d.id = e.id => d = e
    <3>1. CASE \E e \in copy : e.id = reply[key].id
      BY <1>1, <3>1 DEF MITypeInv, MITypeOK
    <3>2. CASE ~\E e \in copy : e.id = reply[key].id
      <4>1. [id |-> reply[key].id, key |-> key, cond |-> cond] \in Entries
        BY <1>1 DEF Entries
      <4> QED
        BY <1>1, <3>2, <4>1 DEF MITypeInv, MITypeOK
    <3> QED
      BY <3>1, <3>2
  <2>2. <<>> \in Seq(Sources)
    BY EmptySeq
  <2> QED
    BY <1>2, <2>1, <2>2 DEF MITypeInv, MITypeOK
<1>5. RequestInv'
  BY <1>2 DEF MITypeInv, RequestInv, Locked
<1> QED
  BY <1>3, <1>4, <1>5 DEF MITypeInv

LEMMA RequestReturnsTypes ==
  ASSUME MITypeInv, RequestReturns
  PROVE  MITypeInv'
<1>1. /\ UNCHANGED <<codeVars, bps, nextId, entryVars, todo, cbVars, shown>>
      /\ UNCHANGED <<copy, asked, sent, ids, groups, deleted>>
      /\ cpc = "reply" /\ cpc' = "idle" /\ op' \in {"idle", "delete"}
      /\ reply' = [k \in Keys |-> Unshown] /\ group' = {}
  BY DEF RequestReturns, argVars
<1>2. HitsInv'
  <2>1. shown' \in [Keys -> Shown]
    BY <1>1 DEF MITypeInv, HitsInv, ResolveInv, TypeOK
  <2> QED
    BY <1>1, <2>1, TellKeeps DEF MITypeInv
<1>3. MITypeOK'
  BY <1>1 DEF MITypeInv, MITypeOK
<1>4. RequestInv'
  BY <1>1 DEF MITypeInv, RequestInv, Locked
<1> QED
  BY <1>2, <1>3, <1>4 DEF MITypeInv

LEMMA DeleteDoneTypes ==
  ASSUME MITypeInv, DeleteDone
  PROVE  MITypeInv'
<1>1. UNCHANGED <<vars, copy, asked, sent, groups, deleted>> /\ op' = "idle" /\ cpc = "idle"
      /\ ids' = {}
  BY DEF DeleteDone
<1>2. HitsInv'
  BY <1>1, HitsNext DEF MITypeInv
<1>3. MITypeOK'
  BY <1>1 DEF MITypeInv, MITypeOK
<1>4. RequestInv'
  BY <1>1 DEF MITypeInv, RequestInv, Locked, vars, cmdVars
<1> QED
  BY <1>2, <1>3, <1>4 DEF MITypeInv

(* The process is continued, started or left between two commands.         *)
LEMMA ProcessesTypes ==
  ASSUME MITypeInv, Processes
  PROVE  MITypeInv'
<1> USE DEF cmdVars
<1>1. Continue \/ Launch \/ Attach \/ Disconnect
  BY DEF Processes, ExecRun
<1>2. HitsInv'
  BY <1>1, HitsNext DEF MITypeInv, Next
<1>3. /\ copy' \subseteq copy /\ deleted' \subseteq deleted
      /\ UNCHANGED <<op, asked, sent, ids, groups>> /\ op = "idle"
  BY DEF Processes, Cleanup, Copied, miVars, argVars
<1>4. MITypeOK'
  BY <1>3 DEF MITypeInv, MITypeOK
<1>5. UNCHANGED <<todo, reply, group>> /\ cpc' \in {"idle", "terminating"} /\ cpc = "idle"
  BY <1>1 DEF Continue, Launch, Attach, NewProcess, Disconnect, TerminateProcess, DetachFromProcess
<1>6. RequestInv'
  BY <1>3, <1>5 DEF MITypeInv, RequestInv, Locked
<1> QED
  BY <1>2, <1>4, <1>6 DEF MITypeInv

(* One breakpoint of the request gets an id, and is done.                  *)
LEMMA SetOneAnswers ==
  ASSUME MITypeInv, Locked, NEW places, SetOne(Head(todo).key, Head(todo).cond, places)
  PROVE  /\ cpc' \in {cpc, "reply"} /\ (~Locked' => todo' = <<>>)
         /\ \A k \in Keys : k \in KeysOf(todo) \/ reply[k].id # 0 =>
                            k \in KeysOf(todo') \/ reply'[k].id # 0
<1> DEFINE k0 == Head(todo).key
<1>1. TypeOK /\ todo # <<>> /\ todo \in Seq(Sources)
  BY DEF MITypeInv, HitsInv, ResolveInv, TypeOK, TodoInv
<1>2. /\ k0 \in Keys /\ bps \in [Keys -> Breakpoint] /\ reply \in [Keys -> Shown]
      /\ nextId \in 1..MaxId + 1
  BY <1>1, TodoTypes DEF TypeOK
<1>3. /\ todo' = Tail(todo) /\ cpc' = IF Tail(todo) = <<>> THEN "reply" ELSE cpc
      /\ reply' = [reply EXCEPT ![k0] = [id |-> bps'[k0].id, verified |-> bps'[k0].at # {}]]
  BY DEF SetOne
<1>4. bps'[k0].id # 0
  <2>1. CASE IsSet(k0)
    <3>1. bps' = [bps EXCEPT ![k0] = [bps[k0] EXCEPT !.cond = Head(todo).cond]]
      BY <2>1 DEF SetOne
    <3> QED
      BY <1>2, <2>1, <3>1 DEF IsSet, Breakpoint
  <2>2. CASE ~IsSet(k0)
    <3>1. PICK at \in places :
                 bps' = [bps EXCEPT ![k0] = [id |-> nextId, cond |-> Head(todo).cond, at |-> at]]
      BY <2>2 DEF SetOne
    <3>2. nextId # 0
      BY <1>2, BreakpointsAssumption
    <3> QED
      BY <1>2, <3>1, <3>2
  <2> QED
    BY <2>1, <2>2
<1>5. reply'[k0].id # 0 /\ \A k \in Keys : k # k0 => reply'[k] = reply[k]
  BY <1>2, <1>3, <1>4
<1>6. KeysOf(todo) \subseteq {k0} \cup KeysOf(Tail(todo))
  BY <1>1, HeadFirst
<1>7. cpc' \in {cpc, "reply"} /\ (~Locked' => todo' = <<>>)
  BY <1>3 DEF Locked
<1> QED
  BY <1>3, <1>5, <1>6, <1>7

(* Below the protocol only requests under way are carried on.              *)
LEMMA DebuggerTypes ==
  ASSUME MITypeInv, Debugger, UNCHANGED miVars
  PROVE  MITypeInv'
<1> USE DEF cmdVars
<1>1. HitsInv'
  BY HitsNext DEF MITypeInv, Next
<1>2. UNCHANGED <<copy, op, asked, sent, ids, groups, deleted>>
  BY DEF miVars, argVars
<1>3. MITypeOK'
  BY <1>2 DEF MITypeInv, MITypeOK
<1>4. RequestInv'
  <2>1. CASE SetOneLine \/ SetOneFunction
    <3>1. Locked
      BY <2>1 DEF SetOneLine, SetOneFunction, Locked
    <3>2. PICK places : SetOne(Head(todo).key, Head(todo).cond, places)
      BY <2>1 DEF SetOneLine, SetOneFunction
    <3>3. /\ cpc' \in {cpc, "reply"} /\ (~Locked' => todo' = <<>>)
          /\ \A k \in Keys : k \in KeysOf(todo) \/ reply[k].id # 0 =>
                             k \in KeysOf(todo') \/ reply'[k].id # 0
      BY <3>1, <3>2, SetOneAnswers
    <3>4. \A i \in 1..Len(sent) : sent[i].key \in Keys
      <4>1. sent \in Seq(Sources)
        BY DEF MITypeInv, MITypeOK
      <4>2. \A i \in 1..Len(sent) : sent[i] \in Sources
        BY <4>1, ElementOfSeq
      <4> QED
        BY <4>2 DEF Sources
    <3> QED
      BY <1>2, <3>1, <3>3, <3>4 DEF MITypeInv, RequestInv, Locked
  <2>2. CASE ProcessReleased
    BY <1>2, <2>2 DEF MITypeInv, RequestInv, Locked, ProcessReleased
  <2>3. CASE UNCHANGED <<cpc, todo, reply>>
    BY <1>2, <2>3 DEF MITypeInv, RequestInv, Locked, KeysOf
  <2>4. CASE \/ (\E m \in Modules : LoadModule(m)) \/ TryLoadModuleSymbols
             \/ TryResolveBreakpointsForModule \/ EmitBreakpointEvent \/ LoadModuleReturns
             \/ ExitProcess \/ ReachBreakpoint \/ HitBreakpoint
    BY <2>3, <2>4 DEF LoadModule, TryLoadModuleSymbols, TryResolveBreakpointsForModule,
                      EmitBreakpointEvent, LoadModuleReturns, ExitProcess, ReachBreakpoint,
                      HitBreakpoint
  <2> QED
    BY <2>1, <2>2, <2>4 DEF Debugger
<1> QED
  BY <1>1, <1>3, <1>4 DEF MITypeInv

LEMMA MITypeInit == MIInit => MITypeInv
<1> SUFFICES ASSUME MIInit PROVE MITypeInv
  OBVIOUS
<1>1. HitsInv
  BY HitsInit DEF MIInit
<1>2. MITypeOK
  BY EmptySeq DEF MIInit, MITypeOK
<1>3. RequestInv
  BY DEF MIInit, Init, RequestInv
<1> QED
  BY <1>1, <1>2, <1>3 DEF MITypeInv

(* Every command, answer and step of the debugger keeps the invariant.     *)
LEMMA MITypeNext == MITypeInv /\ [MINext]_<<vars, miVars>> => MITypeInv'
<1> SUFFICES ASSUME MITypeInv, [MINext]_<<vars, miVars>> PROVE MITypeInv'
  OBVIOUS
<1>1. CASE MICommands
  BY <1>1, InsertTypes, ConditionTypes, DeleteTypes DEF MICommands
<1>2. CASE MIReturns
  BY <1>2, InsertReturnsTypes, RequestReturnsTypes, DeleteDoneTypes, DeleteNextTypes DEF MIReturns
<1>3. CASE Processes
  BY <1>3, ProcessesTypes
<1>4. CASE Debugger /\ UNCHANGED miVars
  BY <1>4, DebuggerTypes
<1>5. CASE UNCHANGED <<vars, miVars>>
  <2>1. HitsInv'
    BY <1>5, HitsNext DEF MITypeInv
  <2>2. MITypeOK'
    BY <1>5 DEF MITypeInv, MITypeOK, miVars, argVars
  <2>3. RequestInv'
    BY <1>5 DEF MITypeInv, RequestInv, Locked, vars, cmdVars, miVars, argVars, KeysOf
  <2> QED
    BY <2>1, <2>2, <2>3 DEF MITypeInv
<1> QED
  BY <1>1, <1>2, <1>3, <1>4, <1>5 DEF MINext

THEOREM MITypeInvariant == MISpec => []MITypeInv
<1> QED
  BY MITypeInit, MITypeNext, PTL DEF MISpec

(* MIProtocol's copy never has two entries under one id, although what is  *)
(* deleted stays in it, and every answer to a break-insert is found in the *)
(* request it was sent with.                                               *)
THEOREM MITypeCorrect == MISpec => []MITypeOK
<1>1. MITypeInv => MITypeOK
  BY DEF MITypeInv
<1> QED
  BY <1>1, MITypeInvariant, PTL

(* No command of the client and no answer to it reports a stop or forgets  *)
(* a hit.                                                                  *)
LEMMA MIOnlyWorkers ==
  ASSUME [MINext]_<<vars, miVars>>, (stopped' /\ ~stopped) \/ (hit # NoPoint /\ hit' = NoPoint)
  PROVE  HitBreakpoint
<1>1. CASE MICommands \/ MIReturns
  <2>1. UNCHANGED codeVars
    BY <1>1 DEF MICommands, MIReturns, Insert, SetBreakpointCondition, Delete, InsertReturns,
                RequestReturns, DeleteDone, DeleteNext, Send, StartRequest, vars
  <2> QED
    BY <2>1 DEF codeVars
<1>2. CASE Processes \/ (Debugger /\ UNCHANGED miVars)
  <2>1. [Next]_vars
    BY <1>2 DEF Processes, ExecRun, Next
  <2> QED
    BY <2>1, OnlyWorkers
<1>3. CASE UNCHANGED <<vars, miVars>>
  BY <1>3 DEF vars, codeVars
<1> QED
  BY <1>1, <1>2, <1>3 DEF MINext

(* With a GDB/MI client a stop is of this process too, and a breakpoint    *)
(* that is set asks for it.                                                *)
THEOREM MIStopsAreAsked == MISpec => StopsWhereAsked
<1>1. MITypeInv /\ [MINext]_<<vars, miVars>> => AskedStop
  BY MIOnlyWorkers, ReportIsAsked DEF AskedStop, MITypeInv
<1>2. MITypeInv /\ [MINext]_<<vars, miVars>> => [AskedStop]_vars
  BY <1>1
<1> QED
  BY <1>2, MITypeInvariant, PTL DEF MISpec, StopsWhereAsked

(* Nor is a hit lost at a breakpoint without a condition, whatever the     *)
(* commands did to the copy.                                               *)
THEOREM MIUnconditionalAlwaysStop == MISpec => UnconditionalStops
<1>1. MITypeInv /\ [MINext]_<<vars, miVars>> => HitNotLost
  BY MIOnlyWorkers, MissIsRight DEF HitNotLost, MITypeInv
<1>2. MITypeInv /\ [MINext]_<<vars, miVars>> => [HitNotLost]_vars
  BY <1>1
<1> QED
  BY <1>2, MITypeInvariant, PTL DEF MISpec, UnconditionalStops

(* And nothing falls through between a command's look at the modules and   *)
(* the callback's look at the breakpoints.                                 *)
THEOREM MIResolvedInLoaded == MISpec => []ResolvedWhenLoaded
<1>1. MITypeInv => ResolvedWhenLoaded
  BY DEF MITypeInv, HitsInv, ResolveInv, OnlyInNewModule, ResolvedWhenLoaded
<1> QED
  BY <1>1, MITypeInvariant, PTL

-----------------------------------------------------------------------------
(* What the client knows.                                                  *)

(* A request that names everything the client was told of its group erases *)
(* nothing the client knows.                                               *)
LEMMA SendAgrees ==
  ASSUME AgreeInv, ResolveInv', NEW G \in Groups, NEW src \in Seq(Sources),
         Send(G, src), KeysOf(src) \subseteq G,
         \A k \in G : shown[k].id # 0 => k \in KeysOf(src)
  PROVE  /\ TableInv'
         /\ \A k \in Keys : Agrees(k, shown[k])' /\ bps'[k].id \in {0, bps[k].id}
         /\ UNCHANGED <<nextId, shown>>
<1> DEFINE loop == IF G = Funcs THEN "funcs" ELSE "lines"
<1>1. StartRequest(G, src, loop) /\ loop \in {"lines", "funcs"} /\ G \in SUBSET Keys
  BY GroupFacts DEF Send
<1> HIDE DEF loop
<1>2. \A i \in 1..Len(src) : src[i].key \in G
  BY DEF KeysOf
<1>3. TableInv'
  BY <1>1, <1>2, RequestOpens DEF AgreeInv
<1>4. /\ bps' = [k \in Keys |-> IF k \in G \ KeysOf(src) THEN Unset ELSE bps[k]]
      /\ UNCHANGED <<nextId, shown>>
  BY <1>1 DEF StartRequest
<1>5. ASSUME NEW k \in Keys PROVE Agrees(k, shown[k])' /\ bps'[k].id \in {0, bps[k].id}
  <2>1. Agrees(k, shown[k])
    BY DEF AgreeInv
  <2>2. CASE k \in G \ KeysOf(src)
    <3>1. bps'[k].id = 0
      BY <1>4, <2>2 DEF Unset
    <3>2. shown[k].id = 0
      BY <2>2
    <3> QED
      BY <1>4, <2>1, <3>1, <3>2 DEF Agrees
  <2>3. CASE k \notin G \ KeysOf(src)
    <3>1. bps'[k] = bps[k]
      BY <1>4, <2>3
    <3> QED
      BY <1>4, <2>1, <3>1 DEF Agrees, IsResolved
  <2> QED
    BY <2>2, <2>3
<1> QED
  BY <1>3, <1>4, <1>5

(* Ids of the copy stay with their keys while no breakpoint gets an old id. *)
LEMMA CopyIdsKept ==
  ASSUME AgreeInv, nextId' \in Nat, nextId' >= nextId,
         \A e \in copy' : \E d \in copy : d.id = e.id /\ d.key = e.key,
         \A k \in Keys : bps'[k].id \in {0, bps[k].id} \/ bps'[k].id = nextId
  PROVE  \A e \in copy' : e.id < nextId' /\ \A k \in Keys : bps'[k].id = e.id => k = e.key
<1> SUFFICES ASSUME NEW d \in copy
             PROVE  d.id < nextId' /\ \A k \in Keys : bps'[k].id = d.id => k = d.key
  OBVIOUS
<1>1. d.id \in Nat /\ d.id # 0
  BY BreakpointsAssumption DEF AgreeInv, MITypeInv, MITypeOK, Entries
<1>2. d.id < nextId /\ \A k \in Keys : bps[k].id = d.id => k = d.key
  BY DEF AgreeInv, CopyInv
<1>3. nextId \in Nat
  BY Shapes DEF AgreeInv, TableInv, ResolveInv
<1> QED
  BY <1>1, <1>2, <1>3

LEMMA InsertAgrees ==
  ASSUME AgreeInv, MITypeInv', NEW s \in Sources, Insert(s.key, s.cond)
  PROVE  AgreeInv'
<1> DEFINE G == GroupOf(s.key)
<1>1. PICK list \in Lists(Copied(G)) : sent' = Append(list, asked') /\ Send(G, sent')
  BY DEF Insert
<1>2. /\ UNCHANGED <<copy, ids>> /\ op' = "insert"
      /\ asked' = [key |-> s.key, cond |-> s.cond] /\ asked' \in Sources
      /\ asked'.key = s.key /\ s.key \in Keys
  BY DEF Insert, Sources
<1>3. G \in Groups /\ s.key \in G
  BY <1>2, GroupFacts
<1>4. list \in Seq(Sources) /\ KeysOf(list) = {e.key : e \in Copied(G)}
  BY <1>1, CopiedList DEF AgreeInv, MITypeInv, Copied
<1>5. /\ sent' \in Seq(Sources) /\ Len(sent') = Len(list) + 1 /\ Len(list) \in Nat
      /\ sent'[Len(list) + 1] = asked' /\ \A i \in 1..Len(list) : sent'[i] = list[i]
  BY <1>1, <1>2, <1>4, AppendProperties, LenProperties
<1>6. KeysOf(sent') = KeysOf(list) \cup {s.key}
  BY <1>2, <1>5 DEF KeysOf
<1>7. KeysOf(sent') \subseteq G
  BY <1>3, <1>4, <1>6 DEF Copied
<1>8. \A k \in G : shown[k].id # 0 => k \in KeysOf(sent')
  <2>1. G \subseteq Keys
    BY <1>3, GroupFacts
  <2> QED
    BY <1>4, <1>6, <2>1 DEF AgreeInv, CopyInv, Copied
<1>9. /\ TableInv' /\ UNCHANGED <<nextId, shown>>
      /\ \A k \in Keys : Agrees(k, shown[k])' /\ bps'[k].id \in {0, bps[k].id}
  BY <1>1, <1>3, <1>5, <1>7, <1>8, SendAgrees DEF MITypeInv, HitsInv
<1>10. CopyInv'
  <2>1. nextId \in Nat
    BY Shapes DEF AgreeInv, TableInv, ResolveInv
  <2>2. \A e \in copy' : e.id < nextId' /\ \A k \in Keys : bps'[k].id = e.id => k = e.key
    BY <1>2, <1>9, <2>1, CopyIdsKept
  <2> QED
    BY <1>2, <1>9, <2>2 DEF AgreeInv, CopyInv
<1> QED
  BY <1>9, <1>10 DEF AgreeInv

LEMMA ConditionAgrees ==
  ASSUME AgreeInv, MITypeInv', NEW e \in copy, NEW cond \in Conds \cup {NoCond},
         SetBreakpointCondition(e, cond)
  PROVE  AgreeInv'
<1> DEFINE G == GroupOf(e.key)
           new == [e EXCEPT !.cond = cond]
<1>1. copy' = (copy \ {e}) \cup {new} /\ op' = "condition" /\ UNCHANGED ids
  BY DEF SetBreakpointCondition, argVars
<1>2. e \in Entries /\ new.id = e.id /\ new.key = e.key
  BY DEF AgreeInv, MITypeInv, MITypeOK, Entries
<1>3. G \in Groups /\ G \subseteq Keys
  BY <1>2, GroupFacts DEF Entries
<1>4. PICK src \in Lists({d \in copy' : d.key \in G}) : Send(G, src)
  BY DEF SetBreakpointCondition
<1>5. src \in Seq(Sources) /\ KeysOf(src) = {d.key : d \in {c \in copy' : c.key \in G}}
  <2> DEFINE E == {d \in copy' : d.key \in G}
  <2>1. E \in SUBSET Entries /\ \A c, d \in E : c.id = d.id => c = d
    BY DEF MITypeInv, MITypeOK
  <2>2. IsFiniteSet(E)
    BY <2>1, CopyFinite
  <2> QED
    BY <1>4, <2>1, <2>2, ListOfEntries
<1>6. /\ \A d \in copy' : \E c \in copy : c.id = d.id /\ c.key = d.key
      /\ \A c \in copy : \E d \in copy' : c.id = d.id /\ c.key = d.key
  BY <1>1, <1>2
<1>7. \A k \in Keys : shown[k].id # 0 => \E d \in copy' : d.key = k /\ d.id = shown[k].id
  BY <1>6 DEF AgreeInv, CopyInv
<1>8. KeysOf(src) \subseteq G /\ \A k \in G : shown[k].id # 0 => k \in KeysOf(src)
  BY <1>3, <1>5, <1>7
<1>9. /\ TableInv' /\ UNCHANGED <<nextId, shown>>
      /\ \A k \in Keys : Agrees(k, shown[k])' /\ bps'[k].id \in {0, bps[k].id}
  BY <1>3, <1>4, <1>5, <1>8, SendAgrees DEF MITypeInv, HitsInv
<1>10. CopyInv'
  <2>1. nextId \in Nat
    BY Shapes DEF AgreeInv, TableInv, ResolveInv
  <2>2. \A d \in copy' : d.id < nextId' /\ \A k \in Keys : bps'[k].id = d.id => k = d.key
    BY <1>6, <1>9, <2>1, CopyIdsKept
  <2> QED
    BY <1>1, <1>7, <1>9, <2>2 DEF CopyInv
<1> QED
  BY <1>9, <1>10 DEF AgreeInv

(* A deletion makes the client forget before anything is sent.             *)
LEMMA DeleteAgrees ==
  ASSUME AgreeInv, MITypeInv', NEW I \in SUBSET Told, Delete(I)
  PROVE  AgreeInv'
<1>1. /\ op' = "delete" /\ ids' = I /\ UNCHANGED copy
      /\ UNCHANGED <<bps, nextId, todo, events, cpc, group, reply>>
      /\ shown' = [k \in Keys |-> IF shown[k].id \in I THEN Unshown ELSE shown[k]]
  BY DEF Delete, cmdVars, cbVars
<1>2. 0 \notin I
  BY DEF Told
<1>3. \A k \in Keys : shown'[k].id \notin I /\ (shown'[k].id # 0 => shown'[k] = shown[k])
  BY <1>1, <1>2 DEF Unshown
<1>4. \A k \in Keys : Agrees(k, shown[k])'
  BY <1>1 DEF AgreeInv, Agrees, IsResolved, Unshown
<1>5. TableInv'
  BY <1>1, <1>4, ToldAnew DEF MITypeInv, HitsInv, AgreeInv
<1>6. CopyInv'
  BY <1>1, <1>3 DEF AgreeInv, CopyInv
<1> QED
  BY <1>4, <1>5, <1>6 DEF AgreeInv

LEMMA DeleteNextAgrees ==
  ASSUME AgreeInv, MITypeInv', NEW G \in Groups, DeleteNext(G)
  PROVE  AgreeInv'
<1>1. UNCHANGED <<copy, op, ids>> /\ op = "delete"
  BY DEF DeleteNext
<1>2. PICK src \in Lists({e \in Copied(G) : e.id \notin ids}) : Send(G, src)
  BY DEF DeleteNext
<1>3. /\ src \in Seq(Sources)
      /\ KeysOf(src) = {e.key : e \in {d \in Copied(G) : d.id \notin ids}}
  BY <1>2, CopiedList DEF AgreeInv, MITypeInv, Copied
<1>4. KeysOf(src) \subseteq G /\ \A k \in G : shown[k].id # 0 => k \in KeysOf(src)
  <2>1. G \subseteq Keys
    BY GroupFacts
  <2> QED
    BY <1>1, <1>3, <2>1 DEF AgreeInv, CopyInv, Copied
<1>5. /\ TableInv' /\ UNCHANGED <<nextId, shown>>
      /\ \A k \in Keys : Agrees(k, shown[k])' /\ bps'[k].id \in {0, bps[k].id}
  BY <1>2, <1>3, <1>4, SendAgrees DEF MITypeInv, HitsInv
<1>6. CopyInv'
  <2>1. nextId \in Nat
    BY Shapes DEF AgreeInv, TableInv, ResolveInv
  <2>2. \A e \in copy' : e.id < nextId' /\ \A k \in Keys : bps'[k].id = e.id => k = e.key
    BY <1>1, <1>5, <2>1, CopyIdsKept
  <2> QED
    BY <1>1, <1>5, <2>2 DEF AgreeInv, CopyInv
<1> QED
  BY <1>5, <1>6 DEF AgreeInv

(* The answer to an insertion is that of the breakpoint asked for, unless  *)
(* another has its name.                                                   *)
LEMMA AnswerIsAsked ==
  ASSUME NoOverloads, MITypeInv, cpc = "reply", op = "insert"
  PROVE  LET first == SelectInSeq(sent, LAMBDA s : SameName(s.key, asked.key))
         IN sent[first].key = asked.key
<1> DEFINE first == SelectInSeq(sent, LAMBDA s : SameName(s.key, asked.key))
<1> SUFFICES sent[first].key = asked.key
  OBVIOUS
<1>1. /\ SameName(sent[first].key, asked.key) /\ sent[first].key \in GroupOf(asked.key)
      /\ asked \in Sources
  BY AnswerFound
<1> HIDE DEF first
<1>2. CASE asked.key \in Funcs
  <2>1. sent[first].key \in Funcs
    BY <1>1, <1>2 DEF GroupOf
  <2> QED
    BY <1>1, <1>2, <2>1 DEF SameName, NoOverloads
<1>3. CASE asked.key \notin Funcs
  BY <1>1, <1>3 DEF SameName
<1> QED
  BY <1>2, <1>3

LEMMA InsertReturnsAgrees ==
  ASSUME NoOverloads, AgreeInv, MITypeInv', InsertReturns
  PROVE  AgreeInv'
<1> DEFINE k0 == asked.key
<1>1. /\ UNCHANGED <<bps, nextId, todo, events, ids>> /\ op' = "idle" /\ op = "insert"
      /\ cpc = "reply" /\ cpc' = "idle" /\ group' = {} /\ reply' = [k \in Keys |-> Unshown]
  BY DEF InsertReturns, cbVars
<1>2. PICK cond : /\ copy' = IF \E e \in copy : e.id = reply[k0].id THEN copy
                             ELSE copy \cup {[id |-> reply[k0].id, key |-> k0, cond |-> cond]}
                  /\ shown' = [shown EXCEPT ![k0] = reply[k0]]
  <2> DEFINE first == SelectInSeq(sent, LAMBDA s : SameName(s.key, asked.key))
  <2>1. /\ copy' = IF \E e \in copy : e.id = reply[sent[first].key].id THEN copy
                   ELSE copy \cup {[id |-> reply[sent[first].key].id,
                                     key |-> sent[first].key, cond |-> sent[first].cond]}
        /\ shown' = [shown EXCEPT ![k0] = reply[sent[first].key]]
    BY DEF InsertReturns
  <2>2. sent[first].key = k0
    BY <1>1, AnswerIsAsked DEF AgreeInv
  <2> HIDE DEF first
  <2> QED
    BY <2>1, <2>2
<1>3. reply[k0].id \in 1..MaxId /\ k0 \in Keys /\ shown \in [Keys -> Shown]
  <2> DEFINE first == SelectInSeq(sent, LAMBDA s : SameName(s.key, asked.key))
  <2>1. sent[first].key = k0 /\ reply[sent[first].key].id \in 1..MaxId /\ asked \in Sources
    BY <1>1, AnswerIsAsked, AnswerFound DEF AgreeInv
  <2> HIDE DEF first
  <2> QED
    BY <2>1 DEF AgreeInv, TableInv, ResolveInv, TypeOK, Sources
<1>4. shown'[k0] = reply[k0] /\ \A k \in Keys : k # k0 => shown'[k] = shown[k]
  BY <1>2, <1>3
<1>5. Agrees(k0, reply[k0]) /\ reply[k0].id # 0 /\ bps[k0].id = reply[k0].id
  BY <1>3, BreakpointsAssumption DEF AgreeInv, TableInv, ToldInv, Agrees
<1>6. \A k \in Keys : Agrees(k, shown[k])'
  BY <1>1, <1>4, <1>5 DEF AgreeInv, Agrees, IsResolved
<1>7. TableInv'
  BY <1>1, <1>6, ToldAnew DEF MITypeInv, HitsInv, AgreeInv
<1>8. \A e \in copy' : e \in copy \/ (e.id = reply[k0].id /\ e.key = k0)
  BY <1>2
<1>9. \A e \in copy' : e.id < nextId /\ \A k \in Keys : bps[k].id = e.id => k = e.key
  <2>1. bps[k0].id < nextId /\ \A k \in Keys : bps[k].id = bps[k0].id => k = k0
    BY <1>3, <1>5 DEF AgreeInv, TableInv, IdsInv, IsSet
  <2> QED
    BY <1>5, <1>8, <2>1 DEF AgreeInv, CopyInv
<1>10. \E e \in copy' : e.key = k0 /\ e.id = reply[k0].id
  <2>1. CASE \E e \in copy : e.id = reply[k0].id
    BY <1>2, <1>3, <1>5, <2>1 DEF AgreeInv, CopyInv
  <2>2. CASE ~\E e \in copy : e.id = reply[k0].id
    <3> DEFINE e0 == [id |-> reply[k0].id, key |-> k0, cond |-> cond]
    <3>1. e0 \in copy'
      BY <1>2, <2>2
    <3>2. e0.key = k0 /\ e0.id = reply[k0].id
      OBVIOUS
    <3> QED
      BY <3>1, <3>2
  <2> QED
    BY <2>1, <2>2
<1>11. copy \subseteq copy'
  BY <1>2
<1>12. CopyInv'
  BY <1>1, <1>4, <1>9, <1>10, <1>11 DEF AgreeInv, CopyInv
<1> QED
  BY <1>6, <1>7, <1>12 DEF AgreeInv

LEMMA RequestReturnsAgrees ==
  ASSUME AgreeInv, MITypeInv', RequestReturns
  PROVE  AgreeInv'
<1>1. /\ UNCHANGED <<bps, nextId, todo, events, ids, shown, copy>> 
      /\ (op' = "delete" => op = "delete")
      /\ cpc = "reply" /\ cpc' = "idle" /\ group' = {} /\ reply' = [k \in Keys |-> Unshown]
  BY DEF RequestReturns, cbVars, argVars
<1>2. \A k \in Keys : Agrees(k, shown[k])'
  BY <1>1 DEF AgreeInv, Agrees, IsResolved
<1>3. TableInv'
  BY <1>1, <1>2, ToldAnew DEF MITypeInv, HitsInv, AgreeInv
<1>4. CopyInv'
  BY <1>1 DEF AgreeInv, CopyInv
<1> QED
  BY <1>2, <1>3, <1>4 DEF AgreeInv

LEMMA DeleteDoneAgrees ==
  ASSUME AgreeInv, MITypeInv', DeleteDone
  PROVE  AgreeInv'
<1>1. UNCHANGED <<vars, copy>> /\ op' = "idle"
  BY DEF DeleteDone
<1>2. TableInv'
  BY <1>1, TableStep DEF AgreeInv
<1>3. UNCHANGED <<bps, nextId, shown>>
  BY <1>1 DEF vars
<1>4. \A k \in Keys : Agrees(k, shown[k])'
  BY <1>3 DEF AgreeInv, Agrees, IsResolved
<1>5. CopyInv'
  BY <1>1, <1>3 DEF AgreeInv, CopyInv
<1> QED
  BY <1>2, <1>4, <1>5 DEF AgreeInv

(* Between two commands the client forgets everything when it disconnects, *)
(* and otherwise nothing it knows changes.                                 *)
LEMMA ProcessesAgrees ==
  ASSUME AgreeInv, MITypeInv', Processes, proc = "exited" => run' = run
  PROVE  AgreeInv'
<1>1. Continue \/ Launch \/ Attach \/ Disconnect
  BY DEF Processes, ExecRun
<1>2. TableInv' /\ nextId \in Nat
  BY <1>1, TableStep, Shapes DEF AgreeInv, TableInv, ResolveInv, Next
<1>3. op' = "idle" /\ copy' \subseteq copy
  BY DEF Processes, Cleanup, Copied, miVars
<1>4. CASE Disconnect
  <2>1. shown' = [k \in Keys |-> Unshown] /\ nextId' = nextId
    BY <1>4 DEF Disconnect, TerminateProcess, DetachFromProcess
  <2>2. \A k \in Keys : bps'[k].id \in {0, bps[k].id}
    BY <1>4 DEF Disconnect, TerminateProcess, DetachFromProcess, Unset
  <2>3. \A k \in Keys : Agrees(k, shown[k])'
    BY <2>1 DEF Agrees, Unshown
  <2>4. CopyInv'
    <3>1. \A e \in copy' : e.id < nextId' /\ \A k \in Keys : bps'[k].id = e.id => k = e.key
      BY <1>2, <1>3, <2>1, <2>2, CopyIdsKept
    <3> QED
      BY <1>3, <2>1, <3>1 DEF CopyInv, Unshown
  <2> QED
    BY <1>2, <2>3, <2>4 DEF AgreeInv
<1>5. CASE Continue \/ Launch \/ Attach
  <2>1. UNCHANGED <<bps, nextId, shown>>
    BY <1>5 DEF Continue, Launch, Attach, NewProcess
  <2>2. copy' = copy
    <3>1. CASE Continue
      <4>1. ~(Launch \/ Attach \/ Disconnect)
        BY <3>1 DEF Continue, Launch, Attach, NewProcess, Disconnect, TerminateProcess,
                    DetachFromProcess, cmdVars
      <4> QED
        BY <4>1 DEF Processes, ExecRun, miVars
    <3>2. CASE Launch \/ Attach
      <4>1. run' # run /\ proc' = "alive"
        BY <3>2 DEF Launch, Attach, NewProcess, AgreeInv, TableInv, ResolveInv, TypeOK
      <4>2. proc # "exited" /\ ~Disconnect
        BY <4>1 DEF Disconnect, TerminateProcess, DetachFromProcess
      <4> QED
        BY <4>2 DEF Processes, miVars
    <3> QED
      BY <1>5, <3>1, <3>2
  <2>3. \A k \in Keys : Agrees(k, shown[k])'
    BY <2>1 DEF AgreeInv, Agrees, IsResolved
  <2>4. CopyInv'
    BY <1>3, <2>1, <2>2 DEF AgreeInv, CopyInv
  <2> QED
    BY <1>2, <2>3, <2>4 DEF AgreeInv
<1> QED
  BY <1>1, <1>4, <1>5

(* Below the protocol no breakpoint loses its id or its resolution, and    *)
(* what is said to be verified is resolved.                                *)
LEMMA DebuggerKeeps ==
  ASSUME TableInv, Debugger
  PROVE  /\ nextId' \in Nat /\ nextId' >= nextId
         /\ \A k \in Keys : \/ bps'[k].id = bps[k].id /\ (IsResolved(k) => IsResolved(k)')
                            \/ bps[k].id = 0 /\ bps'[k].id = nextId
         /\ \/ UNCHANGED shown
            \/ \E i \in events :
                 shown' = [k \in Keys |-> IF shown[k].id = i THEN [shown[k] EXCEPT !.verified = TRUE]
                                         ELSE shown[k]]
<1> USE DEF cmdVars, cbVars
<1>0. nextId \in Nat /\ bps \in [Keys -> Breakpoint] /\ TypeOK
  BY Shapes DEF TableInv, ResolveInv, TypeOK
<1>1. CASE SetOneLine \/ SetOneFunction
  <2>1. Locked
    BY <1>1 DEF SetOneLine, SetOneFunction, Locked
  <2>2. PICK places : SetOne(Head(todo).key, Head(todo).cond, places)
    BY <1>1 DEF SetOneLine, SetOneFunction
  <2> DEFINE k0 == Head(todo).key
  <2>3. \/ /\ IsSet(k0) /\ nextId' = nextId /\ bps'[k0].id = bps[k0].id
           /\ bps'[k0].at = bps[k0].at
        \/ ~IsSet(k0) /\ nextId' = nextId + 1 /\ bps'[k0].id = nextId
    BY <2>1, <2>2, SetOneIds
  <2>4. \A k \in Keys : k # k0 => bps'[k] = bps[k]
    BY <2>1, <2>2, SetOneIds
  <2>5. UNCHANGED shown
    BY <2>2 DEF SetOne
  <2> QED
    BY <1>0, <2>3, <2>4, <2>5 DEF IsSet, IsResolved
<1>2. CASE TryResolveBreakpointsForModule
  <2> DEFINE new == {k \in Keys : /\ IsSet(k) /\ ~IsResolved(k)
                                  /\ cbmod \in modules /\ PlacesIn(k, cbmod) # {}}
  <2>1. PICK at \in [new -> UNION {PlacesIn(k, cbmod) : k \in new}] :
         bps' = [k \in Keys |-> IF k \in new THEN [bps[k] EXCEPT !.at = at[k]] ELSE bps[k]]
    BY <1>2 DEF TryResolveBreakpointsForModule, ResolveAll
  <2>2. \A k \in Keys : bps'[k].id = bps[k].id
    BY <1>0, <2>1 DEF Breakpoint
  <2>3. \A k \in Keys : IsResolved(k) => IsResolved(k)'
    BY <2>1 DEF IsResolved
  <2>4. UNCHANGED <<nextId, shown>>
    BY <1>2 DEF TryResolveBreakpointsForModule
  <2> QED
    BY <1>0, <2>2, <2>3, <2>4
<1>3. CASE \/ ProcessReleased \/ (\E m \in Modules : LoadModule(m)) \/ TryLoadModuleSymbols
           \/ EmitBreakpointEvent \/ LoadModuleReturns
           \/ ExitProcess \/ ReachBreakpoint \/ HitBreakpoint
  <2>1. UNCHANGED <<bps, nextId>>
    BY <1>3 DEF ProcessReleased, LoadModule, TryLoadModuleSymbols, EmitBreakpointEvent,
                LoadModuleReturns, ExitProcess, ReachBreakpoint, HitBreakpoint
  <2>2. UNCHANGED shown \/ EmitBreakpointEvent
    BY <1>3 DEF ProcessReleased, LoadModule, TryLoadModuleSymbols,
                LoadModuleReturns, ExitProcess, ReachBreakpoint, HitBreakpoint
  <2> QED
    BY <1>0, <2>1, <2>2 DEF EmitBreakpointEvent, IsResolved
<1> QED
  BY <1>1, <1>2, <1>3 DEF Debugger

LEMMA DebuggerAgrees ==
  ASSUME AgreeInv, MITypeInv', Debugger, UNCHANGED miVars
  PROVE  AgreeInv'
<1>1. TableInv' /\ TableInv
  BY TableStep DEF AgreeInv, Next
<1>2. UNCHANGED <<copy, op, ids>>
  BY DEF miVars, argVars
<1>3. nextId' \in Nat /\ nextId' >= nextId
  BY <1>1, DebuggerKeeps
<1>4. \A k \in Keys : \/ bps'[k].id = bps[k].id /\ (IsResolved(k) => IsResolved(k)')
                      \/ bps[k].id = 0 /\ bps'[k].id = nextId
  BY <1>1, DebuggerKeeps
<1>5. \A k \in Keys : Agrees(k, shown[k]) /\ shown[k] \in Shown
  BY DEF AgreeInv, TableInv, ResolveInv, TypeOK
<1>6. \A k \in Keys : shown'[k].id = shown[k].id /\ Agrees(k, shown[k])'
  <2>1. CASE UNCHANGED shown
    BY <1>4, <1>5, <2>1 DEF Agrees
  <2>2. ASSUME NEW i \in events,
               shown' = [k \in Keys |-> IF shown[k].id = i THEN [shown[k] EXCEPT !.verified = TRUE]
                                       ELSE shown[k]],
               NEW k \in Keys
        PROVE  shown'[k].id = shown[k].id /\ Agrees(k, shown[k])'
    <3>1. i # 0
      BY <1>1, BreakpointsAssumption DEF TableInv, ResolveInv, TypeOK
    <3>2. bps[k].id = i => IsResolved(k)
      BY <1>1 DEF TableInv, ToldInv
    <3>3. CASE shown[k].id = i
      <4>1. shown'[k].id = i /\ bps[k].id = i
        BY <1>5, <2>2, <3>1, <3>3 DEF Agrees, Shown
      <4> QED
        BY <1>4, <3>1, <3>2, <3>3, <4>1 DEF Agrees
    <3>4. CASE shown[k].id # i
      BY <1>4, <1>5, <2>2, <3>4 DEF Agrees
    <3> QED
      BY <3>3, <3>4
  <2> QED
    BY <1>1, <2>1, <2>2, DebuggerKeeps
<1>7. CopyInv'
  <2>1. \A e \in copy' : e.id < nextId' /\ \A k \in Keys : bps'[k].id = e.id => k = e.key
    BY <1>2, <1>3, <1>4, CopyIdsKept
  <2> QED
    BY <1>2, <1>6, <2>1 DEF AgreeInv, CopyInv
<1> QED
  BY <1>1, <1>6, <1>7 DEF AgreeInv

LEMMA AgreeInit == MIInit => AgreeInv
<1> SUFFICES ASSUME MIInit PROVE AgreeInv
  OBVIOUS
<1>1. MITypeInv /\ TableInv
  BY MITypeInit, TableInit DEF MIInit
<1>2. \A k \in Keys : shown[k] = Unshown
  BY DEF MIInit, Init
<1>3. CopyInv
  BY <1>2 DEF MIInit, CopyInv, Unshown
<1>4. \A k \in Keys : Agrees(k, shown[k])
  BY <1>2 DEF Agrees, Unshown
<1> QED
  BY <1>1, <1>3, <1>4 DEF AgreeInv

(* Every step keeps the invariant, unless it starts a process in the place *)
(* of one that has exited.                                                 *)
LEMMA AgreeNext ==
  ASSUME NoOverloads
  PROVE  AgreeInv /\ [MINext]_<<vars, miVars>> /\ (proc = "exited" => run' = run) => AgreeInv'
<1> SUFFICES ASSUME AgreeInv, [MINext]_<<vars, miVars>>, proc = "exited" => run' = run
             PROVE  AgreeInv'
  OBVIOUS
<1>0. MITypeInv'
  BY MITypeNext DEF AgreeInv
<1>1. CASE MICommands
  BY <1>0, <1>1, InsertAgrees, ConditionAgrees, DeleteAgrees DEF MICommands
<1>2. CASE MIReturns
  BY <1>0, <1>2, InsertReturnsAgrees, RequestReturnsAgrees, DeleteDoneAgrees, DeleteNextAgrees
     DEF MIReturns
<1>3. CASE Processes
  BY <1>0, <1>3, ProcessesAgrees
<1>4. CASE Debugger /\ UNCHANGED miVars
  BY <1>0, <1>4, DebuggerAgrees
<1>5. CASE UNCHANGED <<vars, miVars>>
  <2>1. TableInv'
    BY <1>5, TableStep DEF AgreeInv
  <2>2. UNCHANGED <<bps, nextId, shown, copy, op, ids>>
    BY <1>5 DEF vars, miVars, argVars
  <2>3. \A k \in Keys : Agrees(k, shown[k])'
    BY <2>2 DEF AgreeInv, Agrees, IsResolved
  <2>4. CopyInv'
    BY <2>2 DEF AgreeInv, CopyInv
  <2> QED
    BY <1>0, <2>1, <2>3, <2>4 DEF AgreeInv
<1> QED
  BY <1>1, <1>2, <1>3, <1>4, <1>5 DEF MINext

(* What the GDB/MI client was answered and has not deleted is set under    *)
(* that id, and what it shows as verified is resolved: the copy MIProtocol *)
(* keeps names, in every request, everything the request must not erase.   *)
THEOREM MIClientAgrees ==
  ASSUME NoOverloads
  PROVE  MISpec /\ NoRestart => []ClientAgrees
<1>1. MIInit => AgreeInv
  BY AgreeInit
<1>2. /\ AgreeInv /\ [MINext]_<<vars, miVars>> /\ [proc = "exited" => run' = run]_<<vars, miVars>>
      => AgreeInv'
  <2> SUFFICES ASSUME AgreeInv, [MINext]_<<vars, miVars>>,
                      [proc = "exited" => run' = run]_<<vars, miVars>>
               PROVE  AgreeInv'
    OBVIOUS
  <2>1. proc = "exited" => run' = run
    BY DEF vars, codeVars
  <2> QED
    BY <2>1, AgreeNext
<1>3. AgreeInv => ClientAgrees
  BY DEF AgreeInv, Agrees, ClientAgrees
<1> QED
  BY <1>1, <1>2, <1>3, PTL DEF MISpec, NoRestart
=============================================================================
