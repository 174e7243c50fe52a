---------------------------- MODULE MCVariables ----------------------------
(***************************************************************************)
(* An instance of Variables for model checking: a node of a list, which    *)
(* has a node, a leaf and static members; and two frames to stop in.       *)
(***************************************************************************)
EXTENDS Variables

CONSTANTS node, leaf

MCInstance == [v \in Values |-> IF v = node THEN <<node, leaf>> ELSE <<>>]

MCStatic == [v \in Values |-> IF v = node THEN <<leaf>> ELSE <<>>]

MCFrames == {<<node>>, <<leaf, node>>}
=============================================================================
