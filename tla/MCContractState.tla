-------------------------- MODULE MCContractState ---------------------------
(* Two branches from the genesis block: each block runs one contract, and   *)
(* the transaction t2 is in both branches.                                 *)
EXTENDS ContractState

CONSTANTS g, a1, b1, b2, t1, t2, c1, c2

MCParent == [b \in Block \ {g} |-> IF b = b2 THEN b1 ELSE g]
MCAnc == [b \in Block |-> CASE b = g -> {g} [] b = a1 -> {g, a1}
                            [] b = b1 -> {g, b1} [] b = b2 -> {g, b1, b2}]
MCHeight == [b \in Block |-> Cardinality(MCAnc[b]) - 1]
MCTxs == [b \in Block |-> CASE b = g -> <<>> [] b = a1 -> <<t2>>
                            [] b = b1 -> <<t1>> [] b = b2 -> <<t2>>]
MCRoot == [b \in Block |-> CASE b = g -> <<>>
                             [] b = a1 -> Execs(<<t2>>, g)
                             [] b = b1 -> Execs(<<t1>>, g)
                             [] b = b2 -> Execs(<<t1>>, g) \o Execs(<<t2>>, b1)]
MCLogAddress == [t \in Tx |-> IF t = t2 THEN c2 ELSE c1]
=============================================================================
