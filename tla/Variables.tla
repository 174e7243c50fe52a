------------------------------ MODULE Variables ------------------------------
(***************************************************************************)
(* Variable references (class Variables in variables.cpp) and the MI       *)
(* variable objects made of them.                                          *)
(*                                                                         *)
(* The client asks for the locals of the frame, for pages of the children  *)
(* of what it was shown, and for the values of expressions; whatever has   *)
(* children gets a reference, a number to ask for them by.  The conditions *)
(* of breakpoints are evaluated in the same way, by the callback's worker  *)
(* thread, and take references too; nothing locks the two threads out, and *)
(* each reads the next number before it stores the one after.  The         *)
(* references of one request are numbered together.                        *)
(* References are forgotten by StepCommand only, and numbered from 1 anew. *)
(*                                                                         *)
(* A page is the set of positions it shows, from 0 in the order the        *)
(* members are walked in; values are what the walk tells apart.            *)
(***************************************************************************)
EXTENDS Integers, Sequences, FiniteSets

CONSTANTS
  Values,       \* values of the debuggee
  Instance,     \* the instance members of a value
  Static,       \* the static members of its type
  Frames,       \* locals of the frames where the debuggee may stop
  Exceptions,   \* those of them that are thrown
  None,         \* no exception; no name
  Positions,    \* starts, counts and ends of the pages asked for
  Interpreters, \* "mi", "vscode"
  ClientNames,  \* names the client gives variable objects; N stands for "varN"
  MaxRef,       \* bound: references numbered since the last step
  MaxVar        \* bound: names generated for variable objects

ASSUME VariablesAssumption ==
  /\ Instance \in [Values -> Seq(Values)] /\ Static \in [Values -> Seq(Values)]
  /\ Frames \subseteq Seq(Values) /\ Positions \subseteq Nat
  /\ Exceptions \subseteq Values /\ None \notin Values
  /\ Interpreters \subseteq {"mi", "vscode"}
  /\ None \notin ClientNames /\ MaxRef \in Nat /\ MaxVar \in Nat

Targets == [kind : {"value", "class"}, of : Values, named : Nat]
           \cup [kind : {"scope"}, of : {None}, named : Nat]

NoTarget == [kind |-> "scope", of |-> None, named |-> 0]

VARIABLES
  interp,      \* the interpreter
  refs,        \* m_variables: what each reference stands for
  nextRef,     \* m_nextVariableReference
  seen,        \* the number the protocol thread read of it, 0 before
  objects,     \* m_vars: name -> reference, 0 for none; N stands for "varN"
  varCounter,  \* m_varCounter
  run,         \* "none", "running", "callback", "stopped"
  frame,       \* the locals of the frame the process stands in
  exc,         \* its current exception, or None
  worker,      \* AddVariableReference in the callback: "idle", "add", "store", "put"
  taken,       \* the reference the worker read
  target,      \* and what it is for
  given,       \* history: what the references told since the process last ran are for
  forgotten,   \* history: those of them told before a step that failed
  told,        \* history: what each variable object was made for; None once it is stale
  chosen,      \* history: the names of objects that the client chose
  raced        \* history: the two threads met in a reference, since the last step

table == <<refs, nextRef, seen>>
mi == <<interp, objects, varCounter, told, chosen>>
client == <<given, forgotten>>
process == <<run, frame, exc>>
callback == <<worker, taken, target>>
vars == <<table, mi, process, callback, client, raced>>

TypeOK ==
  /\ interp \in Interpreters
  /\ DOMAIN refs \subseteq 1 .. MaxRef /\ refs \in [DOMAIN refs -> Targets]
  /\ nextRef \in 1 .. (MaxRef + 1) /\ seen \in 0 .. MaxRef
  /\ DOMAIN objects \subseteq Nat \cup ClientNames
  /\ objects \in [DOMAIN objects -> 0 .. MaxRef]
  /\ varCounter \in 0 .. MaxVar
  /\ run \in {"none", "running", "callback", "stopped"}
  /\ frame \in Seq(Values) /\ exc \in Values \cup {None}
  /\ worker \in {"idle", "add", "store", "put"}
  /\ taken \in 1 .. (MaxRef + 1)
  /\ target \in Targets
  /\ DOMAIN given \subseteq 1 .. MaxRef /\ given \in [DOMAIN given -> Targets]
  /\ forgotten \in SUBSET (1 .. MaxRef) /\ chosen \in SUBSET ClientNames
  /\ told \in [DOMAIN objects -> Targets \cup {None}]
  /\ raced \in BOOLEAN

-----------------------------------------------------------------------------
(* What the members of a value are, and a page of them.                    *)

GetNumChild(v, static) ==
  IF static THEN Len(Static[v])
  ELSE IF Static[v] # <<>> THEN Len(Instance[v]) + 1 ELSE Len(Instance[v])

ValueTarget(v) == [kind |-> "value", of |-> v, named |-> GetNumChild(v, FALSE)]
ClassTarget(v) == [kind |-> "class", of |-> v, named |-> GetNumChild(v, TRUE)]

Locals == (IF exc = None THEN <<>> ELSE <<exc>>) \o frame

Members(t) ==
  CASE t.kind = "scope" -> Locals
    [] t.kind = "value" -> Instance[t.of]
    [] t.kind = "class" -> Static[t.of]

InPage(start, count, i) == start <= i /\ (count = 0 \/ i < start + count)

GetStackVariables(t, start, count) ==
  {i \in 0 .. (Len(Members(t)) - 1) : InPage(start, count, i) \/ (exc # None /\ i = 0)}

(* Mutant: "Static members" is dropped from the last page.                 *)
GetChildren_LastPage(t, start, count) ==
  {i \in 0 .. (Len(Members(t)) - 1) : InPage(start, count, i)}
  \cup {i \in {Len(Members(t))} :
          /\ t.kind = "value" /\ Static[t.of] # <<>>
          /\ start < t.named /\ (count = 0 \/ start + count > t.named)}

GetChildren(t, start, count) ==
  {i \in 0 .. (Len(Members(t)) - 1) : InPage(start, count, i)}
  \cup {i \in {Len(Members(t))} :      \* "Static members"
          /\ t.kind = "value" /\ Static[t.of] # <<>>
          /\ start < t.named /\ (count = 0 \/ start + count >= t.named)}

Page(t, filter, start, count) ==
  LET first == IF filter = "indexed" THEN start + t.named ELSE start
      many  == IF filter = "named" /\ (start + count > t.named \/ count = 0)
               THEN t.named - start ELSE count
  IN IF t.kind = "scope" THEN GetStackVariables(t, first, many)
                         ELSE GetChildren(t, first, many)

HasMore(t, childEnd) == childEnd < t.named

Child(t, i) ==
  IF i < Len(Members(t)) THEN ValueTarget(Members(t)[i + 1]) ELSE ClassTarget(t.of)

-----------------------------------------------------------------------------
Init ==
  /\ interp \in Interpreters
  /\ refs = <<>> /\ nextRef = 1 /\ seen = 0
  /\ objects = <<>> /\ varCounter = 0 /\ told = <<>> /\ chosen = {}
  /\ run = "running" /\ frame = <<>> /\ exc = None
  /\ worker = "idle" /\ taken = 1 /\ target = NoTarget
  /\ given = <<>> /\ forgotten = {} /\ raced = FALSE

(* The frame can be walked: the process is synchronized.                   *)
Synchronized == run \in {"callback", "stopped"}

(* emplace keeps what is there.                                            *)
Emplace(map, new) ==
  [id \in DOMAIN map \cup DOMAIN new |-> IF id \in DOMAIN map THEN map[id] ELSE new[id]]

Override(map, new) ==
  [id \in DOMAIN map \cup DOMAIN new |-> IF id \in DOMAIN new THEN new[id] ELSE map[id]]

(* Numbers from first on, in the order of the positions.                   *)
Numberings(positions, first) ==
  {f \in [positions -> first .. (first + Cardinality(positions) - 1)] :
     \A i, j \in positions : i < j => f[i] < f[j]}

Numbered(number, what) ==
  [n \in {number[i] : i \in DOMAIN number} |->
     what[CHOOSE i \in DOMAIN number : number[i] = n]]

(* The protocol thread is about to add references: ++ reads the number.    *)
ReadReference ==
  /\ Synchronized /\ seen = 0 /\ nextRef <= MaxRef
  /\ seen' = nextRef
  /\ UNCHANGED <<refs, nextRef, mi, process, callback, client, raced>>

(* It adds the references `new`, if any, numbered from what it read; the   *)
(* client learns those that the reply tells.                               *)
AddVariableReference(new, reply) ==
  /\ \/ DOMAIN new = {} /\ seen = 0 /\ UNCHANGED <<nextRef, seen, raced>>
     \/ /\ DOMAIN new # {} /\ seen > 0 /\ seen' = 0
        /\ nextRef' = seen + Cardinality(DOMAIN new) /\ nextRef' <= MaxRef + 1
        /\ raced' = (raced \/ nextRef # seen \/ worker \in {"store", "put"})
  /\ refs' = Emplace(refs, new)
  /\ given' = Override(given, reply) /\ forgotten' = forgotten \ DOMAIN reply

Scope ==
  [n \in {seen} |-> [kind |-> "scope", of |-> None, named |-> Len(Locals)]]

GetScopes ==
  /\ interp = "vscode" /\ Synchronized /\ Locals # <<>>
  /\ AddVariableReference(Scope, Scope)
  /\ UNCHANGED <<mi, process, callback>>

(* The children on a page that get a reference: those with members, unless *)
(* their getter fails.                                                     *)
WithMembers(t, page) == SUBSET {i \in page : Child(t, i).named > 0}

(* GetVariables may still fail when some of the references are added.      *)
GetVariables(id, filter, start, count) ==
  /\ interp = "vscode" /\ Synchronized
  /\ \E shown \in WithMembers(refs[id], Page(refs[id], filter, start, count)) :
     \E number \in Numberings(shown, seen), fails \in BOOLEAN :
       LET new == Numbered(number, [i \in shown |-> Child(refs[id], i)])
       IN AddVariableReference(new, IF fails THEN <<>> ELSE new)
  /\ UNCHANGED <<mi, process, callback>>

(* The reference of a value that is evaluated, if it has members.          *)
Reference(v) == [n \in {m \in {seen} : ValueTarget(v).named > 0} |-> ValueTarget(v)]

Evaluate(v) ==
  /\ interp = "vscode" /\ Synchronized
  /\ AddVariableReference(Reference(v), Reference(v))
  /\ UNCHANGED <<mi, process, callback>>

(* The process ran on in the middle of a request: what was begun is        *)
(* entered, and the request fails.                                         *)
RequestFails(v) ==
  /\ ~Synchronized /\ seen > 0
  /\ AddVariableReference(Reference(v), <<>>)
  /\ UNCHANGED <<mi, process, callback>>

(* Mutant: a value without members gets a number as well.                  *)
CreateVar_NoZero(name, v) ==
  /\ interp = "mi" /\ Synchronized
  /\ AddVariableReference(Reference(v), <<>>)
  /\ LET made == IF name = None THEN varCounter ELSE name
     IN /\ objects' = Override(objects, [n \in {made} |-> nextRef])
        /\ told' = Override(told, [n \in {made} |-> ValueTarget(v)])
  /\ IF name = None THEN varCounter' = varCounter + 1 /\ chosen' = chosen \ {varCounter}
                    ELSE UNCHANGED varCounter /\ chosen' = chosen \cup {name}
  /\ varCounter' <= MaxVar
  /\ UNCHANGED <<interp, process, callback>>

(* -var-create: the client's name replaces an object that has it; without  *)
(* one ("-") a name is generated, which also replaces an object that has   *)
(* it: nothing keeps the client from calling an object varN.               *)
CreateVar(name, v) ==
  /\ interp = "mi" /\ Synchronized
  /\ AddVariableReference(Reference(v), <<>>)
  /\ LET id   == IF DOMAIN Reference(v) = {} THEN 0 ELSE seen
         made == IF name = None THEN varCounter ELSE name
     IN /\ objects' = Override(objects, [n \in {made} |-> id])
        /\ told' = Override(told, [n \in {made} |-> ValueTarget(v)])
  /\ IF name = None THEN varCounter' = varCounter + 1 /\ chosen' = chosen \ {varCounter}
                    ELSE UNCHANGED varCounter /\ chosen' = chosen \cup {name}
  /\ varCounter' <= MaxVar
  /\ UNCHANGED <<interp, process, callback>>

DeleteVar(name) ==
  /\ seen = 0
  /\ objects' = [n \in DOMAIN objects \ {name} |-> objects[n]]
  /\ told' = [n \in DOMAIN told \ {name} |-> told[n]] /\ chosen' = chosen \ {name}
  /\ UNCHANGED <<interp, varCounter, table, process, callback, client, raced>>

(* -stack-list-variables: all the locals, whose references nobody is told. *)
StackListVariables ==
  /\ interp = "mi" /\ Synchronized /\ Locals # <<>>
  /\ LET t == Scope[seen]
     IN \E shown \in WithMembers(t, Page(t, "named", 0, 0)) :
        \E number \in Numberings(shown, seen + 1) :
          AddVariableReference(
            Override(Scope, Numbered(number, [i \in shown |-> Child(t, i)])), <<>>)
  /\ UNCHANGED <<mi, process, callback>>

(* -var-list-children: every child becomes a variable object of its own.   *)
(* A reference that is no longer known fails; without one the answer is an *)
(* empty list, and nothing changes.                                        *)
ListChildren(name, childStart, childEnd) ==
  /\ Synchronized /\ objects[name] \in DOMAIN refs
  /\ LET t    == refs[objects[name]]
         page == Page(t, "named", childStart, childEnd - childStart)
     IN \E shown \in WithMembers(t, page) :
        \E number \in Numberings(shown, seen), names \in Numberings(page, varCounter) :
          /\ AddVariableReference(Numbered(number, [i \in shown |-> Child(t, i)]), <<>>)
          /\ objects' = Override(objects,
               Numbered(names, [i \in page |-> IF i \in shown THEN number[i] ELSE 0]))
          /\ told' = Override(told, Numbered(names, [i \in page |-> Child(t, i)]))
          /\ chosen' = chosen \ {names[i] : i \in page}
          /\ varCounter' = varCounter + Cardinality(page)
  /\ varCounter' <= MaxVar
  /\ UNCHANGED <<interp, process, callback>>

-----------------------------------------------------------------------------
(* Resuming.  The client resumes a process it was told has stopped.        *)

Moves == frame' = <<>> /\ exc' = None /\ given' = <<>> /\ forgotten' = {}

Continue ==
  /\ run = "stopped" /\ seen = 0 /\ run' = "running" /\ Moves
  /\ UNCHANGED <<table, mi, callback, raced>>

(* Mutant: the numbers start anew, but the table is kept.                  *)
StepCommand_KeepsTable ==
  /\ run = "stopped" /\ seen = 0
  /\ nextRef' = 1
  /\ \/ run' = "running" /\ Moves
     \/ forgotten' = DOMAIN given /\ UNCHANGED <<process, given>>
  /\ told' = [n \in DOMAIN told |-> None] /\ raced' = FALSE
  /\ UNCHANGED <<interp, objects, varCounter, chosen, refs, seen, callback>>

(* Clear: before ICorDebugProcess::Continue, which may fail.  The process  *)
(* then stands where it stood, and what the client was told is forgotten.  *)
StepCommand ==
  /\ run = "stopped" /\ seen = 0
  /\ refs' = <<>> /\ nextRef' = 1
  /\ \/ run' = "running" /\ Moves
     \/ forgotten' = DOMAIN given /\ UNCHANGED <<process, given>>
  /\ told' = [n \in DOMAIN told |-> None] /\ raced' = FALSE
  /\ UNCHANGED <<interp, objects, varCounter, chosen, seen, callback>>

(* Mutant: the counter starts anew, but the objects are kept.              *)
Cleanup_KeepsObjects ==
  /\ run \in {"running", "stopped"} /\ seen = 0 /\ run' = "none" /\ Moves
  /\ varCounter' = 0
  /\ UNCHANGED <<interp, objects, told, chosen, table, callback, raced>>

(* DetachFromProcess, TerminateProcess: Cleanup forgets the variable       *)
(* objects; the references stay.                                           *)
Cleanup ==
  /\ run \in {"running", "stopped"} /\ seen = 0 /\ run' = "none" /\ Moves
  /\ objects' = <<>> /\ varCounter' = 0 /\ told' = <<>> /\ chosen' = {}
  /\ UNCHANGED <<interp, table, callback, raced>>

Startup ==
  /\ run = "none" /\ run' = "running"
  /\ UNCHANGED <<table, mi, frame, exc, callback, client, raced>>

-----------------------------------------------------------------------------
(* A callback: the process stands in some frame.                           *)
Breakpoint ==
  /\ run = "running" /\ run' = "callback"
  /\ frame' \in Frames /\ exc' \in Exceptions \cup {None}
  /\ UNCHANGED <<table, mi, callback, client, raced>>

(* HandleEnabled evaluates a condition; most are no objects, and have no   *)
(* reference.                                                              *)
EvaluateCondition(v) ==
  /\ run = "callback" /\ worker = "idle"
  /\ ValueTarget(v).named > 0 /\ nextRef <= MaxRef
  /\ target' = ValueTarget(v)
  /\ worker' = "add"
  /\ UNCHANGED <<table, mi, process, taken, client, raced>>

(* m_nextVariableReference++ is a read and a write.                        *)
ReadNext ==
  /\ worker = "add" /\ worker' = "store" /\ taken' = nextRef
  /\ UNCHANGED <<table, mi, process, target, client, raced>>

StoreNext ==
  /\ worker = "store" /\ taken <= MaxRef
  /\ worker' = "put" /\ nextRef' = taken + 1
  /\ UNCHANGED <<refs, seen, mi, process, taken, target, client, raced>>

PutReference ==
  /\ worker = "put" /\ worker' = "idle"
  /\ refs' = Emplace(refs, [n \in {taken} |-> target])
  /\ taken' = 1 /\ target' = NoTarget
  /\ UNCHANGED <<nextRef, seen, mi, process, client, raced>>

(* The callback reports the stop or lets the process run on.               *)
CallbackDone ==
  /\ run = "callback" /\ worker = "idle"
  /\ \/ run' = "stopped" /\ UNCHANGED <<frame, exc, client>>
     \/ run' = "running" /\ Moves
  /\ UNCHANGED <<table, mi, callback, raced>>

-----------------------------------------------------------------------------
Next ==
  \/ ReadReference \/ GetScopes \/ StackListVariables
  \/ \E id \in DOMAIN refs, filter \in {"both", "named", "indexed"},
        start \in Positions, count \in Positions : GetVariables(id, filter, start, count)
  \/ \E v \in Values : Evaluate(v) \/ RequestFails(v) \/ EvaluateCondition(v)
  \/ \E name \in ClientNames \cup {None}, v \in Values : CreateVar(name, v)
  \/ \E name \in DOMAIN objects : DeleteVar(name)
  \/ \E name \in DOMAIN objects, childStart, childEnd \in Positions :
        ListChildren(name, childStart, childEnd)
  \/ Continue \/ StepCommand \/ Cleanup \/ Startup
  \/ Breakpoint \/ ReadNext \/ StoreNext \/ PutReference \/ CallbackDone

Spec == Init /\ [][Next]_vars

-----------------------------------------------------------------------------
(* OwnTarget: a reference the client was told while the process stands     *)
(* where it is leads to what it was told for, whatever was asked, listed   *)
(* and evaluated since; unless a step failed there since it was told,      *)
(* which forgets it and gives its number anew, or the two threads met in   *)
(* AddVariableReference since the last step.                               *)
OwnTarget ==
  \/ raced
  \/ \A id \in DOMAIN given \ forgotten : id \in DOMAIN refs /\ refs[id] = given[id]

(* VarObjectsOwn: a variable object made since the last step, failed or    *)
(* not, lists the children of what it was made for; and the name generated *)
(* for the next one is not one that was generated before, also not in a    *)
(* process started later: only an object that the client called varN can   *)
(* be replaced by it.                                                      *)
VarObjectsOwn ==
  /\ varCounter \in DOMAIN objects => varCounter \in chosen
  /\ \/ raced
     \/ \A name \in DOMAIN objects :
          told[name] # None /\ objects[name] # 0 =>
            objects[name] \in DOMAIN refs /\ refs[objects[name]] = told[name]

(* PagesAreSlices: the pages of what the client was told about are slices  *)
(* of one list of `named` positions, so that a client that turns the pages *)
(* sees each member once, "Static members" last; but $exception is on      *)
(* every page of the locals.  No member is indexed.  has_more says whether *)
(* members remain after a page that -var-list-children shows, unless it is *)
(* asked for an empty range, where it shows all the rest.                  *)
PagesAreSlices ==
  \A id \in DOMAIN given, start, count \in Positions :
    LET t      == given[id]
        always == IF t.kind = "scope" /\ exc # None THEN {0} ELSE {}
        slice  == {i \in 0 .. (t.named - 1) : InPage(start, count, i)}
    IN /\ \A filter \in {"both", "named"} :
            Page(t, filter, start, count) = slice \cup always
       /\ Page(t, "indexed", start, count) = always
       /\ count > 0 =>
            (HasMore(t, start + count) <=>
               \E i \in 0 .. (t.named - 1) : i >= start /\ i \notin slice)

-----------------------------------------------------------------------------
(* The inductive invariant.  What keeps the references of the client its   *)
(* own: the next number is above all in the table, except while the worker *)
(* is between its steps, and there it holds the number alone.              *)
NumMembers(t) ==
  CASE t.kind = "scope" -> Len(Locals)
    [] t.kind = "value" -> GetNumChild(t.of, FALSE)
    [] t.kind = "class" -> GetNumChild(t.of, TRUE)

NumbersInv ==
  \/ raced
  \/ /\ \A id \in DOMAIN refs : id < nextRef
     /\ worker = "store" => taken = nextRef
     /\ worker = "put" => taken + 1 = nextRef /\ taken \notin DOMAIN refs

BusyInv ==
  /\ worker # "idle" => run = "callback"
  /\ worker = "put" => taken <= MaxRef

GivenInv ==
  /\ \A id \in DOMAIN given : given[id].named = NumMembers(given[id])
  /\ ~Synchronized => DOMAIN given = {}

NamesInv == \A name \in DOMAIN objects : name \in Nat /\ name \notin chosen => name < varCounter

VariablesInv ==
  TypeOK /\ NumbersInv /\ BusyInv /\ GivenInv /\ NamesInv /\ OwnTarget /\ VarObjectsOwn
=============================================================================
