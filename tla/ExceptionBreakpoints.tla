------------------------ MODULE ExceptionBreakpoints ------------------------
(***************************************************************************)
(* The exception filters (ExceptionBreakpointStorage in breakpoints.cpp)   *)
(* between the protocol thread, which inserts and deletes them, and the    *)
(* Exception callback, which asks them whether to stop.                    *)
(*                                                                         *)
(* A filter has an id for the client and is stored under the name of an    *)
(* exception, or "*" for all of them.  The storage keeps the names by id   *)
(* and the filters by name; one lock covers each operation on it, but      *)
(* not a command of several names or ids.                                  *)
(***************************************************************************)
EXTENDS Naturals, Sequences

CONSTANTS
  Names,         \* types of exceptions
  SystemNames,   \* those whose name starts with "System."
  Star,          \* the name "*"
  Categories,    \* of filters: "CLR", "MDA"
  Interpreters,  \* "mi", "vscode"
  MaxId          \* bound: ids given out

ASSUME FilterAssumption ==
  /\ SystemNames \subseteq Names /\ Star \notin Names
  /\ Categories \subseteq {"CLR", "MDA"} /\ Interpreters \subseteq {"mi", "vscode"}
  /\ MaxId \in Nat

FilterNames == Names \cup {Star}
Flags == SUBSET {"throw", "user"}
Mode == [category : {"CLR", "MDA"}, flags : Flags]
Filter == [name : FilterNames, mode : Mode]
Event == [name : Names, unhandled : BOOLEAN]

VARIABLES
  interp,    \* the interpreter
  table,     \* id -> name
  filters,   \* the filters by name; of equal ones one is kept, as lookups do
  asterisk,  \* current_asterix_id, 0 for none
  nextId,    \* m_nextBreakpointId
  pc,        \* protocol thread: "idle", "insert" or "delete"
  names,     \* the names still to be inserted
  mode,      \* the mode they are inserted with
  ids,       \* the ids still to be deleted
  failed,    \* the last command was answered with an error
  run,       \* "running", "read", "match" and "report" in the callback, "stopped",
             \* "silent" (stopped and never reported), "dead"
  event,     \* the exception being or last reported
  info,      \* how the last exceptionInfo was answered: "none", "ok", "failed"
  asked,     \* history: id -> filter, for each filter that stands for the client
  orphans    \* history: ids whose filter went when another of its name was deleted

storage == <<table, filters, asterisk, nextId>>
protocol == <<interp, pc, names, mode, ids, failed>>
vars == <<protocol, storage, run, event, info, asked, orphans>>

TypeOK ==
  /\ interp \in Interpreters
  /\ DOMAIN table \subseteq 1 .. MaxId /\ table \in [DOMAIN table -> FilterNames]
  /\ filters \subseteq Filter
  /\ asterisk \in 0 .. MaxId
  /\ nextId \in 1 .. (MaxId + 1)
  /\ pc \in {"idle", "insert", "delete"}
  /\ names \in Seq(FilterNames)
  /\ pc = "insert" => names # <<>> /\ nextId + Len(names) <= MaxId + 1
  /\ mode \in Mode
  /\ ids \subseteq 1 .. MaxId
  /\ failed \in BOOLEAN
  /\ run \in {"running", "read", "match", "report", "stopped", "silent", "dead"}
  /\ event \in Event
  /\ info \in {"none", "ok", "failed"}
  /\ DOMAIN asked \subseteq 1 .. MaxId /\ asked \in [DOMAIN asked -> Filter]
  /\ orphans \subseteq 1 .. MaxId

DefaultMode == [category |-> "CLR", flags |-> {}]

Init ==
  /\ interp \in Interpreters
  /\ table = [i \in {} |-> Star] /\ filters = {} /\ asterisk = 0 /\ nextId = 1
  /\ pc = "idle" /\ names = <<>> /\ mode = DefaultMode /\ ids = {} /\ failed = FALSE
  /\ run = "running" /\ event \in Event /\ info = "none"
  /\ asked = [i \in {} |-> [name |-> Star, mode |-> DefaultMode]] /\ orphans = {}

-----------------------------------------------------------------------------
(* Commands.                                                               *)

\* Mutation of BreakExceptionInsert: a command without names is accepted.
BreakExceptionInsert_NoNames(ns, c, flags) ==
  /\ interp = "mi" /\ pc = "idle" /\ flags # {}
  /\ nextId + Len(ns) <= MaxId + 1
  /\ pc' = "insert" /\ names' = ns /\ mode' = [category |-> c, flags |-> flags]
  /\ UNCHANGED <<interp, ids, failed, storage, run, event, info, asked, orphans>>

(* -break-exception-insert: "unhandled" inserts nothing.                   *)
BreakExceptionInsert(ns, c, flags) ==
  /\ interp = "mi" /\ pc = "idle" /\ flags # {} /\ ns # <<>>
  /\ nextId + Len(ns) <= MaxId + 1
  /\ pc' = "insert" /\ names' = ns /\ mode' = [category |-> c, flags |-> flags]
  /\ UNCHANGED <<interp, ids, failed, storage, run, event, info, asked, orphans>>

(* setExceptionBreakpoints: whatever the filters say, one "*" is inserted. *)
SetExceptionBreakpoints(flags) ==
  /\ interp = "vscode" /\ pc = "idle" /\ flags # {"throw"}
  /\ nextId <= MaxId
  /\ pc' = "insert" /\ names' = <<Star>> /\ mode' = [category |-> "CLR", flags |-> flags]
  /\ UNCHANGED <<interp, ids, failed, storage, run, event, info, asked, orphans>>

BreakExceptionDelete(is) ==
  /\ interp = "mi" /\ pc = "idle" /\ is # {}
  /\ pc' = "delete" /\ ids' = is
  /\ UNCHANGED <<interp, names, mode, failed, storage, run, event, info, asked, orphans>>

-----------------------------------------------------------------------------
(* The storage.                                                            *)

Without(f, is) == [i \in DOMAIN f \ is |-> f[i]]
With(f, i, v) == [j \in DOMAIN f \cup {i} |-> IF j = i THEN v ELSE f[j]]
Named(fs, ns) == {f \in fs : f.name \in ns}

\* Mutation of Insert: the last "*" is deleted after the new one is stored.
Insert_DeletesLast(name) ==
  LET old == IF name = Star THEN {asterisk} \ {0} ELSE {}
  IN /\ table' = With(Without(table, old), nextId, name)
     /\ filters' = (filters \cup {[name |-> name, mode |-> mode]})
                   \ Named(filters \cup {[name |-> name, mode |-> mode]},
                           {table[i] : i \in old \cap DOMAIN table})
     /\ asterisk' = IF name = Star THEN nextId ELSE asterisk

(* Insert: a new "*" deletes the last one first, which fails when its id   *)
(* is not known any more; the new one is stored all the same.              *)
Insert(name) ==
  LET old == IF name = Star THEN {asterisk} \ {0} ELSE {}
  IN /\ table' = With(Without(table, old), nextId, name)
     /\ filters' = (filters \ Named(filters, {table[i] : i \in old \cap DOMAIN table}))
                   \cup {[name |-> name, mode |-> mode]}
     /\ asterisk' = IF name = Star THEN nextId ELSE asterisk

Succeeds(name) == name = Star /\ asterisk # 0 => asterisk \in DOMAIN table

(* InsertExceptionBreakpoint and the loop of -break-exception-insert: an   *)
(* id is used up only by an insertion that succeeds, and one that fails    *)
(* ends the command.                                                       *)
InsertExceptionBreakpoint ==
  LET name == Head(names)
      last == ~Succeeds(name) \/ Len(names) = 1
  IN /\ pc = "insert"
     /\ Insert(name)
     /\ nextId' = IF Succeeds(name) THEN nextId + 1 ELSE nextId
     /\ failed' = ~Succeeds(name)
     /\ names' = IF last THEN <<>> ELSE Tail(names)
     /\ pc' = IF last THEN "idle" ELSE "insert"
     /\ asked' = With(Without(asked, {i \in DOMAIN asked : name = Star /\ asked[i].name = Star}),
                      nextId, [name |-> name, mode |-> mode])
     /\ orphans' = orphans \ {i \in DOMAIN asked : name = Star /\ asked[i].name = Star}
     /\ UNCHANGED <<interp, mode, ids, run, event, info>>

\* Mutation of Delete: the id of the last "*" is kept.
Delete_KeepsAsterisk(id) ==
  /\ UNCHANGED asterisk
  /\ filters' = filters \ Named(filters, {table[id]})
  /\ table' = Without(table, {id})

\* Mutation of Delete: the filters of a name go with its last id.
Delete_WithLastId(id) ==
  /\ asterisk' = IF table[id] = Star THEN 0 ELSE asterisk
  /\ filters' = IF \E i \in DOMAIN table \ {id} : table[i] = table[id] THEN filters
                ELSE filters \ Named(filters, {table[id]})
  /\ table' = Without(table, {id})

(* Delete: every filter of the name goes, only one of the ids does.        *)
Delete(id) ==
  /\ asterisk' = IF table[id] = Star THEN 0 ELSE asterisk
  /\ filters' = filters \ Named(filters, {table[id]})
  /\ table' = Without(table, {id})

(* The ids are deleted in no particular order, up to the first that is     *)
(* not known.                                                              *)
DeleteExceptionBreakpoint(id) ==
  /\ pc = "delete" /\ id \in ids
  /\ \/ /\ id \notin DOMAIN table
        /\ failed' = TRUE /\ ids' = {} /\ pc' = "idle"
        /\ UNCHANGED <<storage, asked, orphans>>
     \/ /\ id \in DOMAIN table
        /\ Delete(id) /\ UNCHANGED nextId
        /\ failed' = FALSE /\ ids' = ids \ {id}
        /\ pc' = IF ids = {id} THEN "idle" ELSE "delete"
        /\ asked' = Without(asked, {id})
        /\ orphans' = (orphans \cup {i \in DOMAIN asked : asked[i].name = asked[id].name}) \ {id}
  /\ UNCHANGED <<interp, names, mode, run, event, info>>

-----------------------------------------------------------------------------
(* The Exception callback.                                                 *)

(* A type of exception is thrown where a handler catches it, or none does. *)
Throw(e) ==
  /\ run = "running" /\ run' = "read" /\ event' = e
  /\ UNCHANGED <<protocol, storage, info, asked, orphans>>

(* Whether the exception is one nobody handles; of the mode of "*", only   *)
(* Unhandled is looked at, which every mode has set.                       *)
ReadGlobalMode ==
  /\ run = "read" /\ run' = IF event.unhandled THEN "report" ELSE "match"
  /\ info' = "none"
  /\ UNCHANGED <<protocol, storage, event, asked, orphans>>

(* GetExceptionBreakMode: the filters of a name add their flags to what is *)
(* there and set the category to that of whichever comes first.            *)
GetExceptionBreakMode(out, name) ==
  LET found == {f.mode : f \in Named(filters, {name})}
  IN IF found = {} THEN {out}
     ELSE {[category |-> first.category,
            flags |-> out.flags \cup
                      UNION {m.flags : m \in {n \in found : n.category = first.category}}] :
             first \in found}

Stops(m, name) ==
  m.category = "CLR" /\ ("throw" \in m.flags \/ ("user" \in m.flags /\ name \notin SystemNames))

(* The callback decides; where nothing asks for a stop it continues, which *)
(* may fail and leave the process standing.                                *)
MatchExceptionBreakpoint ==
  /\ run = "match"
  /\ \E general \in GetExceptionBreakMode(DefaultMode, Star) :
       \E special \in GetExceptionBreakMode(general, event.name) :
         run' \in IF Stops(special, event.name) THEN {"report"} ELSE {"running", "silent"}
  /\ UNCHANGED <<protocol, storage, event, info, asked, orphans>>

(* The stop is reported; but an exception thrown while an evaluation is    *)
(* under way is intercepted instead, and the process runs on.              *)
ReportException ==
  /\ run = "report" /\ run' \in {"stopped", "running"}
  /\ UNCHANGED <<protocol, storage, event, info, asked, orphans>>

(* What the callback asks the runtime fails, before it decides or before   *)
(* it reports: it returns, and the process stands with nobody told.        *)
ExceptionFails ==
  /\ run \in {"read", "report"} /\ run' = "silent"
  /\ UNCHANGED <<protocol, storage, event, info, asked, orphans>>

(* exceptionInfo: for an exception that is handled, the mode of "*".       *)
GetExceptionInfoResponse ==
  /\ interp = "vscode" /\ pc = "idle" /\ run = "stopped"
  /\ info' = IF event.unhandled \/ Named(filters, {Star}) # {} THEN "ok" ELSE "failed"
  /\ UNCHANGED <<protocol, storage, run, event, asked, orphans>>

Continue ==
  /\ pc = "idle" /\ run = "stopped"
  /\ run' = IF event.unhandled THEN "dead" ELSE "running"
  /\ UNCHANGED <<protocol, storage, event, info, asked, orphans>>

-----------------------------------------------------------------------------
NameLists == {<<>>} \cup {<<m>> : m \in FilterNames} \cup (FilterNames \X FilterNames)

Next ==
  \/ \E ns \in NameLists, c \in Categories, fl \in Flags : BreakExceptionInsert(ns, c, fl)
  \/ \E fl \in Flags : SetExceptionBreakpoints(fl)
  \/ \E is \in SUBSET (1 .. MaxId) : BreakExceptionDelete(is)
  \/ InsertExceptionBreakpoint
  \/ \E id \in 1 .. MaxId : DeleteExceptionBreakpoint(id)
  \/ \E e \in Event : Throw(e)
  \/ ReadGlobalMode \/ MatchExceptionBreakpoint \/ ReportException \/ ExceptionFails
  \/ GetExceptionInfoResponse \/ Continue

Spec == Init /\ [][Next]_vars

-----------------------------------------------------------------------------
(* FiltersAgree: the ids the storage knows are those that stand for the    *)
(* client, under their names; it has no filter the client took back; and a *)
(* filter it lost is one whose name was deleted with another id.           *)
FiltersAgree ==
  /\ DOMAIN table = DOMAIN asked
  /\ \A i \in DOMAIN asked : table[i] = asked[i].name
  /\ \A f \in filters : \E i \in DOMAIN asked : asked[i] = f
  /\ \A i \in DOMAIN asked : asked[i] \in filters \/ i \in orphans

(* OneGlobalFilter: at most one "*" stands, current_asterix_id is its id,  *)
(* and deleting it never leaves another id without its filter.             *)
OneGlobalFilter ==
  /\ \A i \in DOMAIN table : table[i] = Star => i = asterisk
  /\ asterisk # 0 => asterisk \in DOMAIN table /\ table[asterisk] = Star /\ asterisk \notin orphans

(* InsertionSucceeds: no insertion fails; one that did would have stored   *)
(* its filter under an id that is given out again.                         *)
InsertionSucceeds == [][pc = "insert" => ~failed' \/ pc' = pc]_vars

(* The filters of the client that ask for a stop at this exception.        *)
Asks(f) == f.name \in {event.name, Star} /\ Stops(f.mode, event.name)

(* StopsOnlyAsked: the callback decides to stop at a handled exception     *)
(* only where a filter that stands asks for it, whatever is inserted and   *)
(* deleted while it runs; an MDA filter for "*" may lend its flags to      *)
(* others.                                                                 *)
StopsOnlyAsked ==
  [][run = "match" /\ run' = "report" =>
       \E i \in DOMAIN asked :
         \/ Asks(asked[i])
         \/ asked[i].name = Star /\ asked[i].mode.category = "MDA"]_vars

(* NoThrowMissed: the callback lets an exception pass only if no filter    *)
(* that stands asks for a stop, also while a new "*" replaces the last;    *)
(* unless the filter was lost with another of its name, or an MDA filter   *)
(* has this very name.                                                     *)
NoThrowMissed ==
  [][run = "match" /\ run' \in {"running", "silent"} =>
       \A i \in DOMAIN asked :
         Asks(asked[i]) =>
           \/ i \in orphans
           \/ \E j \in DOMAIN asked :
                asked[j].name = event.name /\ asked[j].mode.category = "MDA"]_vars

(* InfoAnswered: exceptionInfo about a stop of this kind always finds the  *)
(* mode of "*".                                                            *)
InfoAnswered == info # "failed"

(* FilterInv: the inductive invariant behind these: ids are given out once, *)
(* and in the VSCode protocol, once there is a filter, "*" has one.         *)
FreshIds == \A i \in DOMAIN table \cup orphans : i < nextId

InfoInv ==
  interp = "vscode" =>
    /\ pc # "delete" /\ (pc = "insert" => names = <<Star>>)
    /\ \A f \in filters : f.name = Star
    /\ run \in {"report", "stopped"} /\ ~event.unhandled => filters # {}

FilterInv == TypeOK /\ FiltersAgree /\ OneGlobalFilter /\ FreshIds /\ InfoInv /\ InfoAnswered
=============================================================================
