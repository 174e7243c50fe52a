--------------------- MODULE ExceptionBreakpoints_proof ---------------------
(***************************************************************************)
(* The proofs about ExceptionBreakpoints: the storage agrees with the      *)
(* filters that stand for the client, and the callback stops at the        *)
(* exceptions they ask for.                                                *)
(***************************************************************************)
EXTENDS ExceptionBreakpoints, SequenceTheorems, TLAPS

USE FilterAssumption

LEMMA FilterStart == Init => FilterInv
<1> SUFFICES ASSUME Init PROVE FilterInv
  OBVIOUS
<1>1. <<>> \in Seq(FilterNames) /\ DefaultMode \in Mode
  BY EmptySeq DEF DefaultMode, Mode, Flags
<1>2. failed \in BOOLEAN
  BY Zenon DEF Init
<1>3. TypeOK
  BY <1>1, <1>2 DEF Init, TypeOK
<1> QED
  BY <1>3 DEF Init, FilterInv, FiltersAgree, OneGlobalFilter, FreshIds, InfoInv, InfoAnswered

(* An insertion succeeds: the id of the last "*" is known.                 *)
LEMMA Inserts ==
  ASSUME FilterInv, pc = "insert", InsertExceptionBreakpoint
  PROVE  /\ Head(names) \in FilterNames /\ Succeeds(Head(names))
         /\ nextId \in 1 .. MaxId /\ nextId' = nextId + 1
         /\ failed' = FALSE
         /\ \/ Len(names) = 1 /\ names' = <<>> /\ pc' = "idle"
            \/ Len(names) # 1 /\ names' = Tail(names) /\ pc' = "insert"
<1>1. names \in Seq(FilterNames) /\ names # <<>> /\ nextId + Len(names) <= MaxId + 1
  BY DEF FilterInv, TypeOK
<1>2. Len(names) \in Nat \ {0}
  BY <1>1, EmptySeq
<1>3. nextId \in 1 .. MaxId /\ nextId \in Nat
  BY <1>1, <1>2 DEF FilterInv, TypeOK
<1>4. Head(names) \in FilterNames
  BY <1>1, <1>2, HeadTailProperties
<1>5. Succeeds(Head(names))
  BY DEF Succeeds, FilterInv, OneGlobalFilter
<1> QED BY <1>2, <1>3, <1>4, <1>5 DEF InsertExceptionBreakpoint

LEMMA InsertTyped ==
  ASSUME FilterInv, InsertExceptionBreakpoint
  PROVE  TypeOK'
<1>1. pc = "insert"
  BY DEF InsertExceptionBreakpoint
<1>2. names \in Seq(FilterNames) /\ names # <<>> /\ nextId + Len(names) <= MaxId + 1
  BY <1>1 DEF FilterInv, TypeOK
<1>3. Len(names) \in Nat \ {0} /\ Tail(names) \in Seq(FilterNames)
      /\ Len(Tail(names)) = Len(names) - 1
  BY <1>2, EmptySeq, HeadTailProperties
<1>4. <<>> \in Seq(FilterNames) /\ Len(<<>>) = 0
  BY EmptySeq
<1>5. /\ names' \in Seq(FilterNames)
      /\ pc' = "insert" => names' # <<>> /\ nextId' + Len(names') <= MaxId + 1
      /\ pc' \in {"idle", "insert"}
  <2>1. nextId' = nextId + 1 /\ nextId \in Nat /\ MaxId \in Nat
    BY <1>1, Inserts
  <2>2. CASE names' = <<>> /\ pc' = "idle"
    BY <1>4, <2>2
  <2>3. CASE Len(names) # 1 /\ names' = Tail(names) /\ pc' = "insert"
    <3>1. Tail(names) # <<>>
      BY <1>3, <1>4, <2>3
    <3>2. nextId' + Len(names') <= MaxId + 1
      BY <1>2, <1>3, <2>1, <2>3
    <3> QED BY <1>3, <2>3, <3>1, <3>2
  <2> QED BY <1>1, <2>2, <2>3, Inserts
<1>6. nextId' \in 1 .. (MaxId + 1) /\ asterisk' \in 0 .. MaxId /\ failed' \in BOOLEAN
  BY <1>1, Inserts DEF InsertExceptionBreakpoint, Insert, FilterInv, TypeOK
<1>7. DOMAIN table' \subseteq 1 .. MaxId /\ table' \in [DOMAIN table' -> FilterNames]
  BY <1>1, Inserts DEF InsertExceptionBreakpoint, Insert, With, Without, FilterInv, TypeOK
<1>8. [name |-> Head(names), mode |-> mode] \in Filter
  BY <1>1, Inserts DEF Filter, FilterInv, TypeOK
<1>9. filters' \subseteq Filter
  BY <1>8 DEF InsertExceptionBreakpoint, Insert, Named, FilterInv, TypeOK
<1>10. DOMAIN asked' \subseteq 1 .. MaxId /\ asked' \in [DOMAIN asked' -> Filter]
  BY <1>1, <1>8, Inserts DEF InsertExceptionBreakpoint, With, Without, FilterInv, TypeOK
<1> QED
  BY <1>5, <1>6, <1>7, <1>9, <1>10 DEF InsertExceptionBreakpoint, FilterInv, TypeOK

LEMMA InsertAgrees ==
  ASSUME FilterInv, InsertExceptionBreakpoint
  PROVE  FiltersAgree' /\ OneGlobalFilter' /\ FreshIds'
<1>1. pc = "insert"
  BY DEF InsertExceptionBreakpoint
<1> PICK n0 \in FilterNames : n0 = Head(names)
  BY <1>1, Inserts
<1> PICK f0 \in Filter : f0 = [name |-> n0, mode |-> mode]
  BY DEF Filter, FilterInv, TypeOK
<1>2. f0.name = n0
  OBVIOUS
<1> PICK k0 \in 1 .. MaxId : k0 = nextId
  BY <1>1, Inserts
<1>3. k0 \notin DOMAIN table /\ k0 \notin DOMAIN asked /\ k0 \notin orphans
      /\ nextId' = k0 + 1 /\ k0 # 0
  <2>1. \A i \in DOMAIN table \cup orphans : i # k0
    BY DEF FilterInv, FreshIds, TypeOK
  <2>2. DOMAIN asked = DOMAIN table
    BY DEF FilterInv, FiltersAgree
  <2> QED BY <1>1, <2>1, <2>2, Inserts
<1> PICK old : old = IF n0 = Star THEN {asterisk} \ {0} ELSE {}
  OBVIOUS
<1>4. old \subseteq DOMAIN table /\ \A i \in DOMAIN table : i \in old <=> n0 = Star /\ table[i] = Star
  BY DEF FilterInv, OneGlobalFilter, TypeOK
<1>5. {i \in DOMAIN asked : n0 = Star /\ asked[i].name = Star} = old
  BY <1>4 DEF FilterInv, FiltersAgree
<1>6. table' = With(Without(table, old), k0, n0) /\ asked' = With(Without(asked, old), k0, f0)
  BY <1>1, <1>5 DEF InsertExceptionBreakpoint, Insert
<1>7. /\ DOMAIN table' = (DOMAIN table \ old) \cup {k0} /\ table'[k0] = n0
      /\ DOMAIN asked' = (DOMAIN asked \ old) \cup {k0} /\ asked'[k0] = f0
      /\ \A i \in DOMAIN table \ old : table'[i] = table[i]
      /\ \A i \in DOMAIN asked \ old : asked'[i] = asked[i]
  BY <1>3, <1>6 DEF With, Without
<1>8. /\ filters' = {f \in filters : n0 = Star => f.name # Star \/ old = {}} \cup {f0}
      /\ orphans' = orphans \ old /\ asterisk' = IF n0 = Star THEN k0 ELSE asterisk
  BY <1>4, <1>5 DEF InsertExceptionBreakpoint, Insert, Named
<1>9. FiltersAgree'
  BY <1>2, <1>4, <1>7, <1>8 DEF FilterInv, FiltersAgree
<1>10. OneGlobalFilter'
  BY <1>3, <1>4, <1>7, <1>8 DEF FilterInv, OneGlobalFilter, FiltersAgree
<1>11. FreshIds'
  BY <1>3, <1>7, <1>8 DEF FilterInv, FreshIds, TypeOK
<1> QED BY <1>9, <1>10, <1>11

LEMMA DeleteAgrees ==
  ASSUME FilterInv, NEW id \in 1 .. MaxId, DeleteExceptionBreakpoint(id), id \in DOMAIN table
  PROVE  TypeOK' /\ FiltersAgree' /\ OneGlobalFilter' /\ FreshIds'
<1>1. /\ id \in DOMAIN table /\ Delete(id) /\ UNCHANGED nextId
      /\ failed' = FALSE /\ ids' = ids \ {id} /\ pc' \in {"idle", "delete"}
      /\ asked' = Without(asked, {id})
      /\ orphans' = (orphans \cup {i \in DOMAIN asked : asked[i].name = asked[id].name}) \ {id}
      /\ UNCHANGED <<interp, names, mode, run, event, info>>
  BY DEF DeleteExceptionBreakpoint
<1>2. /\ DOMAIN table' = DOMAIN table \ {id} /\ DOMAIN asked' = DOMAIN asked \ {id}
      /\ \A i \in DOMAIN table \ {id} : table'[i] = table[i]
      /\ \A i \in DOMAIN asked \ {id} : asked'[i] = asked[i]
  BY <1>1 DEF Delete, Without
<1>3. /\ filters' = {f \in filters : f.name # table[id]}
      /\ asterisk' = IF table[id] = Star THEN 0 ELSE asterisk
  BY <1>1 DEF Delete, Named
<1>4. table' \in [DOMAIN table' -> FilterNames] /\ asked' \in [DOMAIN asked' -> Filter]
  BY <1>1 DEF Delete, Without, FilterInv, TypeOK, FiltersAgree
<1>5. failed' \in BOOLEAN
  BY <1>1, Zenon
<1>6. TypeOK'
  <2>1. pc = "delete" /\ TypeOK
    BY DEF DeleteExceptionBreakpoint, FilterInv
  <2>2. /\ DOMAIN table' \subseteq 1 .. MaxId /\ DOMAIN asked' \subseteq 1 .. MaxId
        /\ filters' \subseteq Filter /\ asterisk' \in 0 .. MaxId /\ ids' \subseteq 1 .. MaxId
        /\ orphans' \subseteq 1 .. MaxId
    BY <1>1, <1>2, <1>3, <2>1 DEF TypeOK
  <2> QED BY <1>1, <1>4, <1>5, <2>1, <2>2 DEF TypeOK
<1>7. FiltersAgree'
  <2>1. \A i \in DOMAIN asked : table[i] = asked[i].name
    BY DEF FilterInv, FiltersAgree
  <2>2. DOMAIN table' = DOMAIN asked' /\ \A i \in DOMAIN asked' : table'[i] = asked'[i].name
    BY <1>2, <2>1 DEF FilterInv, FiltersAgree
  <2>3. ASSUME NEW f \in filters' PROVE \E i \in DOMAIN asked' : asked'[i] = f
    <3>1. f \in filters /\ f.name # table[id]
      BY <1>3, <2>3
    <3>2. PICK i \in DOMAIN asked : asked[i] = f
      BY <3>1 DEF FilterInv, FiltersAgree
    <3>3. i # id
      BY <2>1, <3>1, <3>2
    <3> QED BY <1>2, <3>2, <3>3
  <2>4. ASSUME NEW i \in DOMAIN asked' PROVE asked'[i] \in filters' \/ i \in orphans'
    <3>1. i \in DOMAIN asked /\ i # id /\ asked'[i] = asked[i] /\ id \in DOMAIN asked
      BY <1>1, <1>2, <2>4 DEF FilterInv, FiltersAgree
    <3>2. asked[i] \in filters \/ i \in orphans
      BY <3>1 DEF FilterInv, FiltersAgree
    <3>3. CASE asked[i].name = asked[id].name
      BY <1>1, <3>1, <3>3
    <3>4. CASE asked[i].name # asked[id].name
      BY <1>1, <1>3, <2>1, <3>1, <3>2, <3>4
    <3> QED BY <3>3, <3>4
  <2> QED BY <2>2, <2>3, <2>4 DEF FiltersAgree
<1>8. OneGlobalFilter'
  BY <1>1, <1>2, <1>3 DEF FilterInv, FiltersAgree, OneGlobalFilter
<1>9. FreshIds'
  BY <1>1, <1>2 DEF FilterInv, FreshIds, FiltersAgree
<1> QED BY <1>6, <1>7, <1>8, <1>9

(* Every step keeps the agreement of the storage with the client.          *)
LEMMA AgreementKept ==
  ASSUME FilterInv, [Next]_vars
  PROVE  TypeOK' /\ FiltersAgree' /\ OneGlobalFilter' /\ FreshIds'
<1>1. CASE InsertExceptionBreakpoint
  BY <1>1, InsertTyped, InsertAgrees
<1>2. ASSUME NEW id \in 1 .. MaxId, DeleteExceptionBreakpoint(id)
      PROVE  TypeOK' /\ FiltersAgree' /\ OneGlobalFilter' /\ FreshIds'
  <2>1. CASE id \in DOMAIN table
    BY <1>2, <2>1, DeleteAgrees
  <2>2. CASE id \notin DOMAIN table
    <3>1. /\ failed' \in BOOLEAN /\ ids' = {} /\ pc' = "idle"
          /\ UNCHANGED <<storage, asked, orphans, interp, names, mode, run, event, info>>
      BY <1>2, <2>2, Zenon DEF DeleteExceptionBreakpoint
    <3> QED
      BY <3>1 DEF FilterInv, TypeOK, FiltersAgree, OneGlobalFilter, FreshIds, storage
  <2> QED BY <2>1, <2>2
<1>3. ASSUME NEW ns \in NameLists, NEW c \in Categories, NEW fl \in Flags,
             BreakExceptionInsert(ns, c, fl)
      PROVE  TypeOK' /\ FiltersAgree' /\ OneGlobalFilter' /\ FreshIds'
  <2>1. ns \in Seq(FilterNames)
    <3>1. CASE ns = <<>>
      BY <3>1, EmptySeq
    <3>2. ASSUME NEW m \in FilterNames, ns = <<m>> PROVE ns \in Seq(FilterNames)
      BY <3>2
    <3>3. ASSUME NEW m \in FilterNames, NEW n \in FilterNames, ns = <<m, n>>
          PROVE  ns \in Seq(FilterNames)
      BY <3>3
    <3>4. ns \in FilterNames \X FilterNames =>
            \E m \in FilterNames, n \in FilterNames : ns = <<m, n>>
      OBVIOUS
    <3> QED BY <3>1, <3>2, <3>3, <3>4 DEF NameLists
  <2>2. [category |-> c, flags |-> fl] \in Mode
    BY DEF Mode
  <2> QED
    BY <1>3, <2>1, <2>2 DEF BreakExceptionInsert, FilterInv, TypeOK, FiltersAgree, OneGlobalFilter,
       FreshIds, storage
<1>4. ASSUME NEW fl \in Flags, SetExceptionBreakpoints(fl)
      PROVE  TypeOK' /\ FiltersAgree' /\ OneGlobalFilter' /\ FreshIds'
  <2>1. <<Star>> \in Seq(FilterNames) /\ <<Star>> # <<>> /\ Len(<<Star>>) = 1
    BY DEF FilterNames
  <2>2. [category |-> "CLR", flags |-> fl] \in Mode
    BY DEF Mode
  <2>3. nextId + 1 <= MaxId + 1
    BY <1>4 DEF SetExceptionBreakpoints, FilterInv, TypeOK
  <2> QED
    BY <1>4, <2>1, <2>2, <2>3 DEF SetExceptionBreakpoints, FilterInv, TypeOK, FiltersAgree,
       OneGlobalFilter, FreshIds, storage
<1>5. ASSUME NEW is \in SUBSET (1 .. MaxId), BreakExceptionDelete(is)
      PROVE  TypeOK' /\ FiltersAgree' /\ OneGlobalFilter' /\ FreshIds'
  BY <1>5 DEF BreakExceptionDelete, FilterInv, TypeOK, FiltersAgree, OneGlobalFilter, FreshIds,
     storage
<1>6. CASE UNCHANGED <<protocol, storage, asked, orphans>> /\ event' \in Event
           /\ run' \in {"running", "read", "match", "report", "stopped", "silent", "dead"}
           /\ info' \in {"none", "ok", "failed"}
  BY <1>6 DEF FilterInv, TypeOK, FiltersAgree, OneGlobalFilter, FreshIds, storage, protocol
<1>7. ASSUME (\E e \in Event : Throw(e)) \/ ReadGlobalMode \/ MatchExceptionBreakpoint
               \/ ReportException \/ ExceptionFails
               \/ GetExceptionInfoResponse \/ Continue \/ UNCHANGED vars
      PROVE  /\ UNCHANGED <<protocol, storage, asked, orphans>> /\ event' \in Event
             /\ run' \in {"running", "read", "match", "report", "stopped", "silent", "dead"}
             /\ info' \in {"none", "ok", "failed"}
  BY <1>7 DEF Throw, ReadGlobalMode, MatchExceptionBreakpoint, ReportException, ExceptionFails,
     GetExceptionInfoResponse, Continue, vars, FilterInv, TypeOK
<1> QED BY <1>1, <1>2, <1>3, <1>4, <1>5, <1>6, <1>7 DEF Next

(* What the callback finds for a name: nothing new, or the flags of the    *)
(* filters of one category.                                                *)
Finds(m, out, name) ==
  \/ m = out /\ Named(filters, {name}) = {}
  \/ \E f \in filters :
       /\ f.name = name /\ m.category = f.mode.category
       /\ \A x \in m.flags :
            x \in out.flags
            \/ \E g \in filters :
                 g.name = name /\ g.mode.category = f.mode.category /\ x \in g.mode.flags
       /\ out.flags \subseteq m.flags
       /\ \A g \in filters :
            g.name = name /\ g.mode.category = f.mode.category => g.mode.flags \subseteq m.flags

LEMMA Found ==
  ASSUME NEW out \in Mode, NEW name \in FilterNames, NEW m \in GetExceptionBreakMode(out, name),
         TypeOK
  PROVE  m \in Mode /\ Finds(m, out, name)
<1> DEFINE found == {f.mode : f \in Named(filters, {name})}
<1>1. \A f \in filters : f.mode \in Mode /\ f.mode.category \in {"CLR", "MDA"}
                         /\ f.mode.flags \in Flags
  BY DEF TypeOK, Filter, Mode
<1>2. CASE found = {}
  <2>1. m = out
    BY <1>2 DEF GetExceptionBreakMode
  <2> QED BY <1>2, <2>1 DEF Finds
<1>3. CASE found # {}
  <2>1. PICK first \in found :
          m = [category |-> first.category,
               flags |-> out.flags \cup
                         UNION {n.flags : n \in {k \in found : k.category = first.category}}]
    BY <1>3 DEF GetExceptionBreakMode
  <2>2. PICK f \in filters : f.name = name /\ f.mode = first
    BY <2>1 DEF Named
  <2>3. m.category = f.mode.category
    BY <2>1, <2>2
  <2>4. m.flags = out.flags \cup
                  UNION {n.flags : n \in {k \in found : k.category = f.mode.category}}
    BY <2>1, <2>2
  <2>5. ASSUME NEW x \in m.flags, x \notin out.flags
        PROVE  \E g \in filters : /\ g.name = name /\ g.mode.category = f.mode.category
                                  /\ x \in g.mode.flags
    BY <2>4, <2>5 DEF Named
  <2>6. ASSUME NEW g \in filters, g.name = name, g.mode.category = f.mode.category
        PROVE  g.mode.flags \subseteq m.flags
    <3>1. g.mode \in {k \in found : k.category = f.mode.category}
      BY <2>6 DEF Named
    <3> QED BY <2>4, <3>1
  <2>7. m.flags \in Flags
    BY <1>1, <2>4 DEF Mode, Flags, Named
  <2>8. m \in Mode
    BY <1>1, <2>1, <2>2, <2>4, <2>7 DEF Mode
  <2>9. out.flags \subseteq m.flags
    BY <2>4
  <2> QED BY <2>2, <2>3, <2>5, <2>6, <2>8, <2>9 DEF Finds
<1> QED BY <1>2, <1>3

(* Every step keeps what exceptionInfo relies on.                          *)
LEMMA InfoKept ==
  ASSUME FilterInv, [Next]_vars
  PROVE  InfoInv' /\ InfoAnswered'
<1> interp' = interp
  BY DEF Next, BreakExceptionInsert, SetExceptionBreakpoints, BreakExceptionDelete,
     InsertExceptionBreakpoint, DeleteExceptionBreakpoint, Throw, ReadGlobalMode,
     MatchExceptionBreakpoint, ReportException, ExceptionFails, GetExceptionInfoResponse,
     Continue, vars, protocol
<1> InfoInv /\ InfoAnswered /\ TypeOK
  BY DEF FilterInv
<1>1. CASE InsertExceptionBreakpoint
  <2>1. /\ pc = "insert" /\ UNCHANGED <<run, event, info>>
        /\ [name |-> Head(names), mode |-> mode] \in filters'
        /\ filters' \subseteq filters \cup {[name |-> Head(names), mode |-> mode]}
    BY <1>1 DEF InsertExceptionBreakpoint, Insert
  <2>2. interp = "vscode" => names = <<Star>> /\ Head(names) = Star /\ Len(names) = 1
    BY <2>1 DEF InfoInv
  <2>3. interp = "vscode" => pc' = "idle"
    BY <1>1, <2>1, <2>2, Inserts
  <2> QED BY <2>1, <2>2, <2>3 DEF InfoInv, InfoAnswered
<1>2. ASSUME NEW id \in 1 .. MaxId, DeleteExceptionBreakpoint(id)
      PROVE  InfoInv' /\ InfoAnswered'
  <2>1. pc = "delete" /\ UNCHANGED info
    BY <1>2 DEF DeleteExceptionBreakpoint
  <2> QED BY <2>1 DEF InfoInv, InfoAnswered
<1>3. ASSUME NEW ns \in NameLists, NEW c \in Categories, NEW fl \in Flags,
             BreakExceptionInsert(ns, c, fl)
      PROVE  InfoInv' /\ InfoAnswered'
  BY <1>3 DEF BreakExceptionInsert, InfoInv, InfoAnswered
<1>4. ASSUME NEW fl \in Flags, SetExceptionBreakpoints(fl) PROVE InfoInv' /\ InfoAnswered'
  BY <1>4 DEF SetExceptionBreakpoints, InfoInv, InfoAnswered, storage
<1>5. ASSUME NEW is \in SUBSET (1 .. MaxId), BreakExceptionDelete(is)
      PROVE  InfoInv' /\ InfoAnswered'
  BY <1>5 DEF BreakExceptionDelete, InfoInv, InfoAnswered
<1>6. CASE (\E e \in Event : Throw(e)) \/ Continue \/ UNCHANGED vars \/ ReadGlobalMode
           \/ ReportException \/ ExceptionFails
  BY <1>6 DEF Throw, Continue, ReadGlobalMode, ReportException, ExceptionFails, vars, protocol,
     storage, InfoInv, InfoAnswered
<1>7. CASE MatchExceptionBreakpoint
  <2>1. UNCHANGED <<pc, names, filters, event, info>> /\ run = "match"
    BY <1>7 DEF MatchExceptionBreakpoint, protocol, storage
  <2>2. ASSUME filters = {}, run' = "report" PROVE FALSE
    <3>1. \A out, name : GetExceptionBreakMode(out, name) = {out}
      BY <2>2 DEF GetExceptionBreakMode, Named
    <3>2. Stops(DefaultMode, event.name)
      BY <1>7, <2>2, <3>1 DEF MatchExceptionBreakpoint
    <3> QED BY <3>2 DEF Stops, DefaultMode
  <2>3. run' # "stopped"
    BY <1>7 DEF MatchExceptionBreakpoint
  <2> QED BY <2>1, <2>2, <2>3 DEF InfoInv, InfoAnswered
<1>8. CASE GetExceptionInfoResponse
  <2>1. /\ UNCHANGED <<pc, names, filters, run, event>> /\ run = "stopped" /\ interp = "vscode"
        /\ info' = IF event.unhandled \/ Named(filters, {Star}) # {} THEN "ok" ELSE "failed"
    BY <1>8 DEF GetExceptionInfoResponse, protocol, storage
  <2>2. event.unhandled \/ Named(filters, {Star}) # {}
    BY <2>1 DEF InfoInv, Named
  <2> QED BY <2>1, <2>2 DEF InfoInv, InfoAnswered
<1> QED BY <1>1, <1>2, <1>3, <1>4, <1>5, <1>6, <1>7, <1>8 DEF Next

THEOREM FilterInvariant == Spec => []FilterInv
<1>1. FilterInv /\ [Next]_vars => FilterInv'
  BY AgreementKept, InfoKept DEF FilterInv
<1> QED BY <1>1, FilterStart, PTL DEF Spec

(* The storage, both protocols' ids and the state of the callback stay well*)
(* typed; in particular no insertion under way runs out of ids.            *)
THEOREM FiltersTypeCorrect == Spec => []TypeOK
<1>1. FilterInv => TypeOK
  BY DEF FilterInv
<1> QED BY <1>1, FilterInvariant, PTL

(* The storage agrees with the filters that stand for the client, for all  *)
(* names and numbers of filters.                                           *)
THEOREM FiltersAlwaysAgree == Spec => []FiltersAgree
<1>1. FilterInv => FiltersAgree
  BY DEF FilterInv
<1> QED BY <1>1, FilterInvariant, PTL

(* An insertion of "*" replaces the one before it: there are never two,    *)
(* and the id remembered for it is the id of the one there is.             *)
THEOREM OneAsterisk == Spec => []OneGlobalFilter
<1>1. FilterInv => OneGlobalFilter
  BY DEF FilterInv
<1> QED BY <1>1, FilterInvariant, PTL

(* exceptionInfo never fails for want of a mode.                           *)
THEOREM InfoAlwaysAnswered == Spec => []InfoAnswered
<1>1. FilterInv => InfoAnswered
  BY DEF FilterInv
<1> QED BY <1>1, FilterInvariant, PTL

(* No insertion fails.                                                     *)
THEOREM InsertionsSucceed == Spec => InsertionSucceeds
<1>1. ASSUME FilterInv, [Next]_vars, pc = "insert" PROVE ~failed' \/ pc' = pc
  <2>1. CASE InsertExceptionBreakpoint
    BY <1>1, <2>1, Inserts
  <2>2. CASE ~InsertExceptionBreakpoint
    <3>1. pc' = pc
      BY <1>1, <2>2 DEF Next, BreakExceptionInsert, SetExceptionBreakpoints, BreakExceptionDelete,
         DeleteExceptionBreakpoint, Throw, ReadGlobalMode, MatchExceptionBreakpoint,
         ReportException, ExceptionFails, GetExceptionInfoResponse, Continue, vars, protocol
    <3> QED BY <3>1
  <2> QED BY <2>1, <2>2
<1> QED BY <1>1, FilterInvariant, PTL DEF Spec, InsertionSucceeds

(* Only the callback decides about an exception that is handled.           *)
LEMMA Decides ==
  ASSUME FilterInv, [Next]_vars, run = "match", run' \in {"report", "running", "silent"}
  PROVE  /\ event.name \in Names
         /\ \E general \in GetExceptionBreakMode(DefaultMode, Star) :
              \E special \in GetExceptionBreakMode(general, event.name) :
                /\ Finds(general, DefaultMode, Star) /\ Finds(special, general, event.name)
                /\ run' = "report" <=> Stops(special, event.name)
<1>1. MatchExceptionBreakpoint
  BY DEF Next, BreakExceptionInsert, SetExceptionBreakpoints, BreakExceptionDelete,
     InsertExceptionBreakpoint, DeleteExceptionBreakpoint, Throw, ReadGlobalMode,
     ReportException, ExceptionFails, GetExceptionInfoResponse, Continue, vars, protocol
<1>2. TypeOK /\ event.name \in Names /\ DefaultMode \in Mode
  BY DEF FilterInv, TypeOK, Event, DefaultMode, Mode, Flags
<1>3. PICK general \in GetExceptionBreakMode(DefaultMode, Star) :
        \E special \in GetExceptionBreakMode(general, event.name) :
          run' = "report" <=> Stops(special, event.name)
  BY <1>1 DEF MatchExceptionBreakpoint
<1>4. general \in Mode /\ Finds(general, DefaultMode, Star)
  BY <1>2, Found DEF FilterNames
<1>5. PICK special \in GetExceptionBreakMode(general, event.name) :
        run' = "report" <=> Stops(special, event.name)
  BY <1>3
<1>6. Finds(special, general, event.name)
  BY <1>2, <1>4, Found DEF FilterNames
<1> QED BY <1>2, <1>3, <1>4, <1>5, <1>6

(* The callback decides to stop at handled exceptions only where a filter  *)
(* asks, but for the flags an MDA filter for "*" lends.                    *)
THEOREM OnlyAskedStops == Spec => StopsOnlyAsked
<1>1. ASSUME FilterInv, [Next]_vars, run = "match", run' = "report"
      PROVE  \E i \in DOMAIN asked :
               \/ Asks(asked[i])
               \/ asked[i].name = Star /\ asked[i].mode.category = "MDA"
  <2> PICK general \in GetExceptionBreakMode(DefaultMode, Star) :
             \E special \in GetExceptionBreakMode(general, event.name) :
               /\ Finds(general, DefaultMode, Star) /\ Finds(special, general, event.name)
               /\ Stops(special, event.name)
    BY <1>1, Decides
  <2> PICK special \in GetExceptionBreakMode(general, event.name) :
             /\ Finds(general, DefaultMode, Star) /\ Finds(special, general, event.name)
             /\ Stops(special, event.name)
    OBVIOUS
  <2>1. TypeOK /\ event.name \in FilterNames /\ DefaultMode \in Mode /\ Star \in FilterNames
    BY <1>1 DEF FilterInv, TypeOK, Event, DefaultMode, Mode, Flags, FilterNames
  <2>2. SUFFICES \E f \in filters : Asks(f) \/ (f.name = Star /\ f.mode.category = "MDA")
    BY <1>1 DEF FilterInv, FiltersAgree
  <2>3. \A f \in filters : f.mode.category \in {"CLR", "MDA"}
    BY <2>1 DEF TypeOK, Filter, Mode
  <2> PICK x \in special.flags : x = "throw" \/ (x = "user" /\ event.name \notin SystemNames)
    BY DEF Stops
  <2>4. special.category = "CLR"
    BY DEF Stops
  <2>5. ASSUME NEW g \in filters, g.name \in {event.name, Star}, g.mode.category = "CLR",
               x \in g.mode.flags
        PROVE  Asks(g)
    BY <2>5 DEF Asks, Stops
  <2>6. ASSUME x \in general.flags
        PROVE  \E g \in filters : g.name = Star /\ x \in g.mode.flags
                                 /\ g.mode.category = general.category
    <3>1. x \notin DefaultMode.flags
      BY DEF DefaultMode
    <3> QED BY <2>6, <3>1 DEF Finds
  <2>7. CASE special = general
    BY <2>4, <2>5, <2>6, <2>7
  <2>8. CASE x \in general.flags
    BY <2>3, <2>5, <2>6, <2>8
  <2>9. CASE special # general /\ x \notin general.flags
    <3>1. \E g \in filters : g.name = event.name /\ x \in g.mode.flags
                             /\ g.mode.category = special.category
      BY <2>9 DEF Finds
    <3> QED BY <2>4, <2>5, <3>1
  <2> QED BY <2>7, <2>8, <2>9
<1> QED BY <1>1, FilterInvariant, PTL DEF Spec, StopsOnlyAsked

(* The callback lets an exception pass only if no filter that stands and   *)
(* was not lost with another asks for a stop; a new "*" in place of the    *)
(* last leaves no gap.                                                     *)
THEOREM NoThrowIsMissed == Spec => NoThrowMissed
<1>1. ASSUME FilterInv, [Next]_vars, run = "match", run' \in {"running", "silent"}
      PROVE  \A i \in DOMAIN asked :
               Asks(asked[i]) =>
                 \/ i \in orphans
                 \/ \E j \in DOMAIN asked :
                      asked[j].name = event.name /\ asked[j].mode.category = "MDA"
  <2> SUFFICES ASSUME NEW i \in DOMAIN asked, Asks(asked[i]), i \notin orphans
               PROVE  \E j \in DOMAIN asked :
                        asked[j].name = event.name /\ asked[j].mode.category = "MDA"
    OBVIOUS
  <2> SUFFICES ASSUME \A f \in filters : ~(f.name = event.name /\ f.mode.category = "MDA")
               PROVE  FALSE
    BY <1>1 DEF FilterInv, FiltersAgree
  <2> PICK general \in GetExceptionBreakMode(DefaultMode, Star) :
             \E special \in GetExceptionBreakMode(general, event.name) :
               /\ Finds(general, DefaultMode, Star) /\ Finds(special, general, event.name)
               /\ ~Stops(special, event.name)
    BY <1>1, Decides
  <2> PICK special \in GetExceptionBreakMode(general, event.name) :
             /\ Finds(general, DefaultMode, Star) /\ Finds(special, general, event.name)
             /\ ~Stops(special, event.name)
    OBVIOUS
  <2>1. TypeOK /\ event.name \in FilterNames /\ DefaultMode \in Mode /\ Star \in FilterNames
        /\ event.name # Star
    BY <1>1 DEF FilterInv, TypeOK, Event, DefaultMode, Mode, Flags, FilterNames
  <2> PICK a \in filters : a = asked[i]
    BY <1>1 DEF FilterInv, FiltersAgree
  <2>2. /\ a.name \in {event.name, Star} /\ a.mode.category = "CLR"
        /\ \A m : m.category = "CLR" /\ a.mode.flags \subseteq m.flags => Stops(m, event.name)
    BY <1>1 DEF Asks, Stops
  <2>3. \A f \in filters : f.mode.category \in {"CLR", "MDA"}
    BY <2>1 DEF TypeOK, Filter, Mode
  <2>4. \/ special = general /\ Named(filters, {event.name}) = {}
        \/ /\ special.category = "CLR" /\ general.flags \subseteq special.flags
           /\ \A g \in filters : g.name = event.name => g.mode.flags \subseteq special.flags
    <3>1. \A f \in filters : f.name = event.name => f.mode.category = "CLR"
      BY <2>3
    <3>2. \/ special = general /\ Named(filters, {event.name}) = {}
          \/ \E f \in filters :
               /\ f.name = event.name /\ special.category = f.mode.category
               /\ general.flags \subseteq special.flags
               /\ \A g \in filters :
                    g.name = event.name /\ g.mode.category = f.mode.category
                    => g.mode.flags \subseteq special.flags
      BY ZenonT(60) DEF Finds
    <3> QED BY <3>1, <3>2
  <2>5. a.name # event.name
    BY <2>2, <2>4 DEF Named
  <2>6. a.name # Star
    <3> SUFFICES ASSUME a.name = Star PROVE FALSE
      OBVIOUS
    <3>1. \A f \in filters : f.name = Star => f = a
      BY <1>1 DEF FilterInv, FiltersAgree, OneGlobalFilter
    <3>2. general.category = "CLR" /\ a.mode.flags \subseteq general.flags
      BY <2>2, <3>1 DEF Finds, Named
    <3> QED BY <2>2, <2>4, <3>2
  <2> QED BY <2>2, <2>5, <2>6
<1> QED BY <1>1, FilterInvariant, PTL DEF Spec, NoThrowMissed
=============================================================================
