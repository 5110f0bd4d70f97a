--------------------------- MODULE MCBlockDownload ---------------------------
(***************************************************************************)
(* A peer h that answers and a peer s that need not.  Both are on the      *)
(* chain g - a1 - a2; b1 is a stale block beside a1.  The window of one    *)
(* block makes a2 wait for whoever was asked for a1.                       *)
(***************************************************************************)
EXTENDS BlockDownload, TLC

CONSTANTS h, s, g, a1, a2, b1

MCParent == g :> NoBlock @@ a1 :> g @@ a2 :> a1 @@ b1 :> g

MCAnc == g :> {g} @@ a1 :> {g, a1} @@ a2 :> {g, a1, a2} @@ b1 :> {g, b1}

MCHeight == g :> 0 @@ a1 :> 1 @@ a2 :> 2 @@ b1 :> 1

MCBest == h :> a2 @@ s :> a2

MCHas == h :> {a2} @@ s :> {a2, b1}
=============================================================================
