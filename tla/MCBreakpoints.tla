--------------------------- MODULE MCBreakpoints ---------------------------
(* An instance of Breakpoints for TLC: a program m1 compiled from d1, and  *)
(* a library m3 without symbols.  n is d1 without its directory, u is d1   *)
(* in another case.  The function breakpoint f matches, by its name, the   *)
(* method p1 of m1 the line is in, another one p2 whose arguments may be   *)
(* unreadable, and in m3 the method p4 and p5, which has no code; by its   *)
(* parameters it only matches those of m1.                                 *)
EXTENDS Breakpoints, TLC

CONSTANTS d1, n, u, f, m1, m3, p1, p2, p4, p5, c

MCNameOf == d1 :> n
MCByFile == [file \in Files |-> {d1}]
MCModuleOf == p1 :> m1 @@ p2 :> m1 @@ p4 :> m3 @@ p5 :> m3
MCPosOf == p1 :> <<d1, 1>> @@ p2 :> NoPos @@ p4 :> NoPos @@ p5 :> NoPos
MCByName == f :> {p1, p2, p4, p5}
MCByParams == f :> {p1, p2}
MCEntryOf == m1 :> p1 @@ m3 :> NoPoint
=============================================================================
