---------------------------- MODULE MCChainState ----------------------------
(* Two block trees for TLC.  Every block has the same proof, so branches   *)
(* tie and the sequence numbers decide.                                    *)
EXTENDS ChainState, TLC
CONSTANTS g, a1, a2, a3, b1, b2

(* g - a1 - a2 - a3  and  g - b1 - b2                                      *)
TwoBranches == {g, a1, a2, a3, b1, b2}
TwoBranchesParent == a1 :> g @@ a2 :> a1 @@ a3 :> a2 @@ b1 :> g @@ b2 :> b1

(* g - a1 - a2 - a3  and  a1 - b2                                          *)
LateFork == {g, a1, a2, a3, b2}
LateForkParent == a1 :> g @@ a2 :> a1 @@ a3 :> a2 @@ b2 :> a1

MCAnc[x \in Block] == IF x = g THEN {g} ELSE {x} \cup MCAnc[Parent[x]]
MCHeight == [x \in Block |-> Cardinality(MCAnc[x]) - 1]
MCWork == [x \in Block |-> Cardinality(MCAnc[x])]
MCAddr == [x \in Block |-> CHOOSE i \in 1 .. 6 : <<g, b1, a1, b2, a2, a3>>[i] = x]
=============================================================================
