----------------------------- MODULE MCBaseIndex -----------------------------
(* The block tree for TLC: g - a1 - a2 and g - b1 - b2.                    *)
EXTENDS BaseIndex, FiniteSets, TLC
CONSTANTS g, a1, a2, b1, b2

MCParent == a1 :> g @@ a2 :> a1 @@ b1 :> g @@ b2 :> b1
MCAnc[x \in Block] == IF x = g THEN {g} ELSE {x} \cup MCAnc[MCParent[x]]
MCHeight == [x \in Block |-> Cardinality(MCAnc[x]) - 1]
MCMax == [op \in {"move", "flush", "wait", "stop", "crash", "fail"} |-> IF op = "move" THEN 3 ELSE 1]
=============================================================================
