---------------------------- MODULE MCFlushState ----------------------------
(* A trunk of two blocks and a fork of one.  The coin o2 is spent in the   *)
(* block that creates it.                                                  *)
EXTENDS FlushState

CONSTANTS g, a1, a2, b1, o1, o2, o3, p1

Trunk == {g, a1, a2}
Fork == {g, a1, b1}
TrunkAndFork == Trunk \cup Fork
MCParent == [b \in Block \ {g} |-> IF b = a2 THEN a1 ELSE g]
MCAnc == [b \in Block |-> CASE b = g -> {g} [] b = a1 -> {g, a1}
                            [] b = a2 -> {g, a1, a2} [] b = b1 -> {g, b1}]
MCHeight == [b \in Block |-> Cardinality(MCAnc[b]) - 1]
MCCreates == [b \in Block |-> CASE b = g -> {} [] b = a1 -> {o1, o2}
                                [] b = a2 -> {o3} [] b = b1 -> {p1}]
MCSpends == [b \in Block |-> CASE b = a1 -> {o2} [] b = a2 -> {o1} [] OTHER -> {}]
=============================================================================
