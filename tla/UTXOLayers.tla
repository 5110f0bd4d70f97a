----------------------------- MODULE UTXOLayers -----------------------------
(***************************************************************************)
(* What a stack of coins views promises to the validation code: three      *)
(* plain maps from outpoints to coins, with no cache and no flags.         *)
(*                                                                         *)
(*   working    what ConnectBlock / DisconnectBlock see while they run     *)
(*   committed  the UTXO set of the active chain's tip                     *)
(*   durable    the UTXO set in the chainstate database                    *)
(*                                                                         *)
(* and with each map the block it is the UTXO set of.  CoinsCache shows    *)
(* that the layered CCoinsViewCache objects implement this.                *)
(***************************************************************************)
CONSTANTS Outpoints, Coins, Spent, Blocks

VARIABLES working, committed, durable, wBest, cBest, dBest

vars == <<working, committed, durable, wBest, cBest, dBest>>

Map == [Outpoints -> Coins \cup {Spent}]

Init ==
  /\ working = [o \in Outpoints |-> Spent]
  /\ committed = working
  /\ durable = working
  /\ wBest \in Blocks
  /\ cBest = wBest
  /\ dBest = wBest

Put(o, c) ==
  /\ working' = [working EXCEPT ![o] = c]
  /\ UNCHANGED <<committed, durable, wBest, cBest, dBest>>

Remove(o) ==
  /\ working' = [working EXCEPT ![o] = Spent]
  /\ UNCHANGED <<committed, durable, wBest, cBest, dBest>>

Label(b) ==
  /\ wBest' = b
  /\ UNCHANGED <<working, committed, durable, cBest, dBest>>

Commit ==
  /\ committed' = working
  /\ cBest' = wBest
  /\ UNCHANGED <<working, durable, wBest, dBest>>

Abandon ==
  /\ working' = committed
  /\ wBest' = cBest
  /\ UNCHANGED <<committed, durable, cBest, dBest>>

Persist ==
  /\ durable' = committed
  /\ dBest' = cBest
  /\ UNCHANGED <<working, committed, wBest, cBest>>

Next ==
  \/ \E o \in Outpoints : Remove(o) \/ \E c \in Coins : Put(o, c)
  \/ \E b \in Blocks : Label(b)
  \/ Commit
  \/ Abandon
  \/ Persist

Spec == Init /\ [][Next]_vars
=============================================================================
