--------------------------- MODULE BreakpointTable ---------------------------
(***************************************************************************)
(* What Breakpoints promises its client, whatever happens to modules and   *)
(* processes: a table of breakpoints with ids that are never given out     *)
(* twice, and a client who is only told what is so at that moment.         *)
(***************************************************************************)
EXTENDS Integers

CONSTANTS
  Keys,  \* what a breakpoint may be set on
  MaxId  \* bound: breakpoint ids

VARIABLES
  table, \* key -> its id, 0 when nothing is set, and whether it is resolved
  last,  \* the last id given out
  known, \* key -> the id and verified flag the client was last told
  busy   \* the keys of the request that is being answered

vars == <<table, last, known, busy>>

Entry == [id : 0..MaxId, resolved : BOOLEAN]
NoEntry == [id |-> 0, resolved |-> FALSE]
Unknown == [id |-> 0, verified |-> FALSE]

Init ==
  /\ table = [k \in Keys |-> NoEntry]
  /\ last = 0
  /\ known = [k \in Keys |-> Unknown]
  /\ busy = {}

(* A request for the keys K begins: some of them are erased.               *)
Open(K, gone) ==
  /\ busy = {} /\ busy' = K
  /\ gone \subseteq K
  /\ table' = [k \in Keys |-> IF k \in gone THEN NoEntry ELSE table[k]]
  /\ UNCHANGED <<last, known>>

(* A breakpoint of the request gets an id no other ever had.               *)
Set(k) ==
  /\ k \in busy /\ table[k].id = 0
  /\ last' = last + 1
  /\ \E r \in BOOLEAN : table' = [table EXCEPT ![k] = [id |-> last', resolved |-> r]]
  /\ UNCHANGED <<known, busy>>

(* What may be said of a breakpoint: its id, and verified only if it is.   *)
MayTell(k, t) ==
  /\ t.id = table[k].id
  /\ t.verified => table[k].resolved

(* The client is told of all the keys of the request at once.              *)
Answer ==
  /\ \A k \in busy : MayTell(k, known'[k])
  /\ known' = [k \in Keys |-> IF k \in busy THEN known'[k] ELSE known[k]]
  /\ busy' = {}
  /\ UNCHANGED <<table, last>>

(* Breakpoints are resolved; nothing is ever unresolved.                   *)
Resolve(K) ==
  /\ \A k \in K : table[k].id # 0
  /\ table' = [k \in Keys |-> IF k \in K THEN [table[k] EXCEPT !.resolved = TRUE] ELSE table[k]]
  /\ UNCHANGED <<last, known, busy>>

(* The client is told that a breakpoint was resolved; it looks the id up   *)
(* in what it knows.                                                       *)
Verify(i) ==
  /\ \A k \in Keys \ busy : known[k].id = i => table[k].id = i /\ table[k].resolved
  /\ known' = [k \in Keys |-> IF known[k].id = i THEN [known[k] EXCEPT !.verified = TRUE]
                              ELSE known[k]]
  /\ UNCHANGED <<table, last, busy>>

(* The session ends: the client forgets, some breakpoints are deleted.     *)
Forget(gone) ==
  /\ busy = {}
  /\ table' = [k \in Keys |-> IF k \in gone THEN NoEntry ELSE table[k]]
  /\ known' = [k \in Keys |-> Unknown]
  /\ UNCHANGED <<last, busy>>

Next ==
  \/ \E K \in SUBSET Keys : Resolve(K) \/ Forget(K) \/ \E gone \in SUBSET K : Open(K, gone)
  \/ \E k \in Keys : Set(k)
  \/ Answer
  \/ \E i \in 1..MaxId : Verify(i)

Spec == Init /\ [][Next]_vars
=============================================================================
