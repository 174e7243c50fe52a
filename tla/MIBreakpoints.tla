---------------------------- MODULE MIBreakpoints ----------------------------
(***************************************************************************)
(* Breakpoints as a GDB/MI client sets them (miprotocol.cpp).  The debugger *)
(* only knows requests that replace all breakpoints of a file, or all       *)
(* function breakpoints; MIProtocol keeps its own copy of what it sent and  *)
(* turns break-insert, break-delete and break-condition into such requests. *)
(* shown is what the client knows: the id its break-insert was answered,    *)
(* until it deletes that id.                                                *)
(***************************************************************************)
EXTENDS Breakpoints, FiniteSets, SequencesExt

CONSTANT FuncName  \* function breakpoint -> its name without module and parameters

ASSUME MIBreakpointsAssumption == DOMAIN FuncName = Funcs

VARIABLES
  copy,   \* MIProtocol's m_breakpoints and m_funcBreakpoints
  op,     \* the command being executed
  asked,  \* the breakpoint a break-insert asks for
  sent,   \* the list it sends to the debugger
  ids,    \* the ids a break-delete names
  groups, \* the files it has still to go through, and the functions
  deleted \* history: keys the client deleted and did not insert again

argVars == <<asked, sent, ids, groups>>
miVars == <<copy, op, argVars, deleted>>

Entries == [id : 1..MaxId, key : Keys, cond : Conds \cup {NoCond}]
FileKeys(file) == {file} \X Lines
Groups == {FileKeys(file) : file \in Files} \cup {Funcs}
GroupOf(k) == IF k \in Funcs THEN Funcs ELSE FileKeys(k[1])
Copied(G) == {e \in copy : e.key \in G}
Source(e) == [key |-> e.key, cond |-> e.cond]

MITypeOK ==
  /\ copy \in SUBSET Entries
  /\ \A d, e \in copy : d.id = e.id => d = e
  /\ op \in {"idle", "insert", "condition", "delete"}
  /\ asked \in Sources \cup {NoModule} /\ sent \in Seq(Sources)
  /\ ids \in SUBSET (1..MaxId) /\ groups \in SUBSET Groups
  /\ deleted \in SUBSET Keys

MIInit ==
  /\ Init
  /\ copy = {} /\ op = "idle" /\ asked = NoModule /\ sent = <<>> /\ ids = {} /\ groups = {}
  /\ deleted = {}

-----------------------------------------------------------------------------
(* A list of entries is sent in the order of a hash map.                   *)
Lists(E) == {[i \in DOMAIN order |-> Source(order[i])] : order \in SetToSeqs(E)}

Send(G, src) == StartRequest(G, src, IF G = Funcs THEN "funcs" ELSE "lines")

\* Mutation of Insert: only the new breakpoint is sent.
Insert_Alone(k, cond) ==
  /\ op = "idle" /\ op' = "insert"
  /\ asked' = [key |-> k, cond |-> cond]
  /\ sent' = <<asked'>>
  /\ Send(GroupOf(k), sent')
  /\ deleted' = deleted \ {k}
  /\ UNCHANGED <<copy, ids, groups>>

(* break-insert: SetBreakpoint and SetFunctionBreakpoint                   *)
Insert(k, cond) ==
  /\ op = "idle" /\ op' = "insert"
  /\ asked' = [key |-> k, cond |-> cond]
  /\ \E list \in Lists(Copied(GroupOf(k))) :
       sent' = Append(list, asked') /\ Send(GroupOf(k), sent')
  /\ deleted' = deleted \ {k}
  /\ UNCHANGED <<copy, ids, groups>>

(* The answer is searched by the line, or by the function's name alone.    *)
SameName(j, k) == IF k \in Funcs THEN FuncName[j] = FuncName[k] ELSE j = k

\* Mutation of InsertReturns: the copy keeps several entries under one id.
InsertReturns_Multimap ==
  /\ cpc = "reply" /\ op = "insert"
  /\ copy' = copy \cup {[id |-> reply[asked.key].id, key |-> asked.key, cond |-> asked.cond]}
  /\ shown' = [shown EXCEPT ![asked.key] = reply[asked.key]]
  /\ UNCHANGED <<ids, groups, deleted>>
  /\ op' = "idle" /\ cpc' = "idle" /\ asked' = NoModule /\ sent' = <<>>
  /\ reply' = [k \in Keys |-> Unshown] /\ group' = {}
  /\ UNCHANGED <<codeVars, bps, nextId, entryVars, todo, cbVars>>

(* An entry of the copy is not overwritten.                                *)
InsertReturns ==
  /\ cpc = "reply" /\ op = "insert"
  /\ LET first == SelectInSeq(sent, LAMBDA s : SameName(s.key, asked.key))
         key == sent[first].key
         answer == reply[key]
     IN /\ copy' = IF \E e \in copy : e.id = answer.id THEN copy
                   ELSE copy \cup {[id |-> answer.id, key |-> key, cond |-> sent[first].cond]}
        /\ shown' = [shown EXCEPT ![asked.key] = answer]
  /\ UNCHANGED <<ids, groups, deleted>>
  /\ op' = "idle" /\ cpc' = "idle" /\ asked' = NoModule /\ sent' = <<>>
  /\ reply' = [k \in Keys |-> Unshown] /\ group' = {}
  /\ UNCHANGED <<codeVars, bps, nextId, entryVars, todo, cbVars>>

(* break-condition: the copy is changed and its file sent again.           *)
SetBreakpointCondition(e, cond) ==
  /\ op = "idle" /\ op' = "condition"
  /\ copy' = (copy \ {e}) \cup {[e EXCEPT !.cond = cond]}
  /\ LET G == GroupOf(e.key)
     IN \E src \in Lists({d \in copy' : d.key \in G}) : Send(G, src)
  /\ UNCHANGED <<argVars, deleted>>

(* break-delete: DeleteBreakpoints, file by file, then                     *)
(* DeleteFunctionBreakpoints.  Nothing is removed from the copy.           *)
Delete(I) ==
  /\ op = "idle" /\ op' = "delete"
  /\ cpc = "idle"
  /\ ids' = I
  /\ groups' = {G \in Groups : \E e \in Copied(G) : e.id \in I}
  /\ groups' = {} \/ nextId + Cardinality(copy) <= MaxId + 1
  /\ shown' = [k \in Keys |-> IF shown[k].id \in I THEN Unshown ELSE shown[k]]
  /\ deleted' = deleted \cup {k \in Keys : shown[k].id \in I}
  /\ UNCHANGED <<copy, asked, sent>>
  /\ UNCHANGED <<codeVars, bps, nextId, entryVars, cmdVars, cbVars>>

DeleteNext(G) ==
  /\ op = "delete" /\ G \in groups
  /\ G = Funcs => groups = {Funcs}
  /\ groups' = groups \ {G}
  /\ \E src \in Lists({e \in Copied(G) : e.id \notin ids}) : Send(G, src)
  /\ UNCHANGED <<copy, op, asked, sent, ids, deleted>>

DeleteDone ==
  /\ op = "delete" /\ cpc = "idle" /\ groups = {}
  /\ op' = "idle" /\ ids' = {}
  /\ UNCHANGED <<vars, copy, asked, sent, groups, deleted>>

RequestReturns ==
  /\ cpc = "reply" /\ cpc' = "idle"
  /\ op \in {"delete", "condition"}
  /\ op' = IF op = "condition" THEN "idle" ELSE op
  /\ reply' = [k \in Keys |-> Unshown] /\ group' = {}
  /\ UNCHANGED <<codeVars, bps, nextId, entryVars, todo, cbVars, shown>>
  /\ UNCHANGED <<copy, argVars, deleted>>

(* MIProtocol::Cleanup forgets the source breakpoints.                     *)
Cleanup == copy' = Copied(Funcs) /\ deleted' = {} /\ UNCHANGED <<op, argVars>>

(* exec-run stops at the entry point.                                      *)
ExecRun == Launch /\ stopAtEntry' = TRUE

-----------------------------------------------------------------------------
Told == {shown[k].id : k \in Keys} \ {0}

MICommands ==
  \/ \E s \in Sources : Insert(s.key, s.cond)
  \/ \E e \in copy, cond \in Conds \cup {NoCond} :
       e.id \in Told /\ SetBreakpointCondition(e, cond)
  \/ \E I \in SUBSET Told : Delete(I)

MIReturns == InsertReturns \/ RequestReturns \/ DeleteDone \/ \E G \in Groups : DeleteNext(G)

Processes ==
  /\ op = "idle"
  /\ \/ Continue /\ UNCHANGED miVars
     \/ (ExecRun \/ Attach) /\ (IF proc = "exited" THEN Cleanup ELSE UNCHANGED miVars)
     \/ Disconnect /\ Cleanup

MINext == MICommands \/ MIReturns \/ Processes \/ (Debugger /\ UNCHANGED miVars)

MISpec == MIInit /\ [][MINext]_<<vars, miVars>>

-----------------------------------------------------------------------------
(* DeletedStaysDeleted: a breakpoint the client has deleted is not set     *)
(* again by a later command that is not about it.  A test deletes a        *)
(* breakpoint and expects the program to run past its line to the end.     *)
DeletedStaysDeleted ==
  op = "idle" /\ cpc = "idle" => \A k \in deleted : ~IsSet(k)

(* The inductive invariant behind the types: a request is under way exactly *)
(* while a command waits for it, and in the answer to an insertion nothing  *)
(* that was sent is missing, what is asked for included.                    *)
RequestInv ==
  /\ ~Locked => todo = <<>>
  /\ op = "idle" => cpc \in {"idle", "terminating"}
  /\ op \in {"insert", "condition"} => cpc \in {"lines", "funcs", "reply"}
  /\ op = "delete" => cpc # "terminating"
  /\ op = "insert" =>
       /\ \E i \in 1..Len(sent) : sent[i] = asked
       /\ \A i \in 1..Len(sent) :
            /\ sent[i].key \in GroupOf(asked.key)
            /\ sent[i].key \in KeysOf(todo) \/ reply[sent[i].key].id # 0

MITypeInv == HitsInv /\ MITypeOK /\ RequestInv

(* What ClientAgrees needs of the program and of the client: functions are *)
(* told apart by their names, and an exited process is left by a           *)
(* disconnect, since starting another forgets the source breakpoints.      *)
NoOverloads == \A j, k \in Funcs : FuncName[j] = FuncName[k] => j = k

NoRestart == [][proc = "exited" => run' = run]_<<vars, miVars>>

(* The inductive invariant behind ClientAgrees here: the copy holds        *)
(* everything the client was told, under the same id, so that no request   *)
(* erases it; an id of the copy belongs to no other key; a deletion does   *)
(* not leave out what the client still knows.                              *)
CopyInv ==
  /\ \A e \in copy : e.id < nextId /\ \A k \in Keys : bps[k].id = e.id => k = e.key
  /\ \A k \in Keys : shown[k].id # 0 => \E e \in copy : e.key = k /\ e.id = shown[k].id
  /\ op = "delete" => \A k \in Keys : shown[k].id \notin ids

AgreeInv ==
  /\ MITypeInv /\ TableInv /\ CopyInv
  /\ \A k \in Keys : Agrees(k, shown[k])
=============================================================================
