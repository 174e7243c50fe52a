-------------------------- MODULE MCMIBreakpoints --------------------------
(* Instances of MIBreakpoints for TLC: the program m1 has two lines of d1, *)
(* the second of which starts the method f; g is f with parameters.        *)
EXTENDS MIBreakpoints

CONSTANTS d1, f, g, m1, p1, p2, c

On(F, S) == [x \in S |-> F[x]]

MCNameOf == [d \in Docs |-> d]
MCByFile == [d \in Docs |-> {d}]
MCParams == Funcs \cap {g}
MCModuleOf == p1 :> m1 @@ p2 :> m1
MCPosOf == p1 :> <<d1, 1>> @@ p2 :> <<d1, 2>>
MCByName == On(f :> {p2} @@ g :> {p2}, Funcs)
MCByParams == On(f :> {p2} @@ g :> {p2}, Funcs)
MCEntryOf == m1 :> p1
MCFuncName == [h \in Funcs |-> "f"]
=============================================================================
