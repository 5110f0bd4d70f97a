-------------------------- MODULE ChainStateProofs --------------------------
(***************************************************************************)
(* Proofs about ChainState, for any tree of blocks, any verdicts on their  *)
(* bodies and any number of RPC calls.                                     *)
(*                                                                         *)
(* Basics is the inductive invariant everything rests on.  The properties  *)
(* that reconsiderblock, pruning or a second preciousblock break are       *)
(* proved of the states before such a call, each from one more invariant:  *)
(* CauseInv, LinkInv and OrderInv, SoundInv, and CompleteInv with LockInv  *)
(* and PlainOrder.                                                         *)
(***************************************************************************)
EXTENDS ChainState, FiniteSetTheorems, WellFoundedInduction, TLAPS

(* Zenon is the prover of every step that does not name another.           *)
USE Zenon

-----------------------------------------------------------------------------
(* The tree of blocks.                                                     *)

(* A set of natural numbers has a least one.                               *)
LEMMA Least ==
  ASSUME NEW S, S \subseteq Nat, S # {}
  PROVE  \E x \in S : \A y \in S : x <= y
<1>1. PICK x \in S : \A y \in S : ~(<<y, x>> \in OpToRel(<, Nat))
  BY NatLessThanWellFounded, WFMin
<1>2. \A y \in S : ~(y < x)
  BY <1>1 DEF OpToRel
<1> QED BY <1>2, SMT

LEMMA TreeTypes ==
  /\ Genesis \in Block /\ NoBlock \notin Block
  /\ \A b \in Block : /\ Anc[b] \subseteq Block
                      /\ Height[b] \in Nat /\ Work[b] \in Nat /\ Addr[b] \in Nat
  /\ \A b \in Block \ {Genesis} : Parent[b] \in Block /\ Parent[b] # b
<1>1. Genesis \in Block /\ NoBlock \notin Block
  BY TreeAssumption
<1>2. \A b \in Block : /\ Anc[b] \subseteq Block
                       /\ Height[b] \in Nat /\ Work[b] \in Nat /\ Addr[b] \in Nat
  BY TreeAssumption
<1>3. \A b \in Block \ {Genesis} : Parent[b] \in Block
  BY TreeAssumption
<1>4. \A b \in Block \ {Genesis} : Parent[b] # b
  BY TreeAssumption, <1>2, <1>3, SMT
<1> QED BY <1>1, <1>2, <1>3, <1>4

(* The chain below a block: it starts at genesis, it is a line, it holds   *)
(* the chain of each of its blocks, and height and work grow along it.     *)
Chain(b) ==
  /\ b \in Anc[b] /\ Genesis \in Anc[b]
  /\ \A a \in Anc[b] :
       /\ Anc[a] \subseteq Anc[b]
       /\ a # b => /\ Height[a] < Height[b] /\ Work[a] < Work[b] /\ b \notin Anc[a]
                   /\ \E c \in Anc[b] : c # Genesis /\ Parent[c] = a
  /\ \A a, c \in Anc[b] : a \in Anc[c] \/ c \in Anc[a]

LEMMA ChainGrows ==
  ASSUME NEW b \in Block \ {Genesis}, Chain(Parent[b])
  PROVE  Chain(b)
<1> DEFINE p == Parent[b]
<1>1. /\ b \in Block /\ p \in Block /\ b # p /\ b # Genesis
      /\ b \notin Anc[p] /\ Anc[b] = Anc[p] \cup {b}
  BY TreeAssumption, TreeTypes
<1>2. Height[p] < Height[b] /\ Work[p] < Work[b]
  <2>1. Height[b] = Height[p] + 1 /\ Work[b] > Work[p]
    BY TreeAssumption
  <2> QED BY <1>1, <2>1, TreeTypes, SMT
<1>3. p \in Anc[p] /\ Genesis \in Anc[p]
  BY DEF Chain
<1> HIDE DEF p
<1>4. ASSUME NEW a \in Anc[p]
      PROVE  /\ Anc[a] \subseteq Anc[b]
             /\ Height[a] < Height[b] /\ Work[a] < Work[b] /\ b \notin Anc[a]
             /\ \E c \in Anc[b] : c # Genesis /\ Parent[c] = a
  <2>1. Anc[a] \subseteq Anc[p]
    BY DEF Chain, p
  <2>2. a \in Block
    BY <1>1, TreeTypes
  <2>3. CASE a = p
    BY <1>1, <1>2, <2>1, <2>3 DEF p
  <2>4. CASE a # p
    <3>1. Height[a] < Height[p] /\ Work[a] < Work[p]
      BY <2>4 DEF Chain, p
    <3>2. Height[a] < Height[b] /\ Work[a] < Work[b]
      BY <1>1, <1>2, <2>2, <3>1, TreeTypes, SMT
    <3>3. \E c \in Anc[p] : c # Genesis /\ Parent[c] = a
      BY <2>4 DEF Chain, p
    <3> QED BY <1>1, <2>1, <3>2, <3>3
  <2> QED BY <2>3, <2>4
<1>5. \A a, c \in Anc[p] : a \in Anc[c] \/ c \in Anc[a]
  BY DEF Chain, p
<1>6. \A a, c \in Anc[b] : a \in Anc[c] \/ c \in Anc[a]
  BY <1>1, <1>5
<1> QED BY <1>1, <1>3, <1>4, <1>6 DEF Chain

LEMMA Chains == \A b \in Block : Chain(b)
<1> DEFINE Odd == {b \in Block : ~Chain(b)}
           Low == {Height[b] : b \in Odd}
<1> SUFFICES ASSUME Odd # {} PROVE FALSE
  OBVIOUS
<1>1. Low \subseteq Nat /\ Low # {}
  BY TreeTypes
<1>2. PICK h \in Low : \A y \in Low : h <= y
  BY <1>1, Least
<1>3. PICK b \in Odd : Height[b] = h
  BY <1>2
<1>4. b \in Block /\ ~Chain(b)
  BY <1>3
<1>5. CASE b = Genesis
  <2>1. Anc[b] = {b}
    BY <1>5, TreeAssumption
  <2> QED BY <1>4, <1>5, <2>1 DEF Chain
<1>6. CASE b # Genesis
  <2>1. Parent[b] \in Block /\ Height[b] = Height[Parent[b]] + 1
    BY <1>4, <1>6, TreeAssumption
  <2>2. Parent[b] \notin Odd
    <3> SUFFICES ASSUME Parent[b] \in Odd PROVE FALSE
      OBVIOUS
    <3>1. h <= Height[Parent[b]]
      BY <1>2
    <3> QED BY <1>3, <1>4, <2>1, <3>1, TreeTypes, SMT
  <2>3. Chain(Parent[b])
    BY <2>1, <2>2
  <2> QED BY <1>4, <1>6, <2>3, ChainGrows
<1> QED BY <1>5, <1>6

(* The facts of the tree that the steps below use, one at a time.          *)
LEMMA Ancestors ==
  ASSUME NEW b \in Block
  PROVE  /\ b \in Anc[b] /\ Genesis \in Anc[b] /\ Anc[b] \subseteq Block
         /\ \A a \in Anc[b] : Anc[a] \subseteq Anc[b]
         /\ \A a, c \in Anc[b] : a \in Anc[c] \/ c \in Anc[a]
         /\ b # Genesis => /\ Parent[b] \in Block /\ Parent[b] \in Anc[b]
                           /\ b \notin Anc[Parent[b]]
                           /\ Anc[b] = Anc[Parent[b]] \cup {b}
<1>1. Chain(b)
  BY Chains
<1>2. b # Genesis => /\ Parent[b] \in Block /\ b \notin Anc[Parent[b]]
                     /\ Anc[b] = Anc[Parent[b]] \cup {b}
  BY TreeAssumption
<1>3. b # Genesis => Chain(Parent[b])
  BY <1>2, Chains
<1> QED BY <1>1, <1>2, <1>3, TreeTypes DEF Chain

(* The blocks of a chain that are not on the chain of one of its blocks    *)
(* are above that block.                                                   *)
LEMMA Above ==
  ASSUME NEW b \in Block, NEW a \in Anc[b], NEW d \in Anc[b] \ Anc[a]
  PROVE  a \in Anc[d] /\ d \in Block
  BY Ancestors

LEMMA LessWork ==
  ASSUME NEW b \in Block, NEW a \in Anc[b], a # b
  PROVE  Work[a] < Work[b] /\ b \notin Anc[a]
  BY Chains DEF Chain

LEMMA NextUp ==
  ASSUME NEW b \in Block, NEW a \in Anc[b], a # b
  PROVE  \E c \in Anc[b] : c # Genesis /\ Parent[c] = a
<1>1. Chain(b)
  BY Chains
<1> QED BY <1>1 DEF Chain

-----------------------------------------------------------------------------
(* The order of the candidates.                                            *)

LEMMA WorseOrder ==
  ASSUME NEW sid \in [Block -> Int], NEW a \in Block, NEW b \in Block
  PROVE  /\ ~WorseBy(sid, a, a)
         /\ a = b \/ WorseBy(sid, a, b) \/ WorseBy(sid, b, a)
         /\ ~(WorseBy(sid, a, b) /\ WorseBy(sid, b, a))
         /\ Work[a] < Work[b] => WorseBy(sid, a, b) /\ ~WorseBy(sid, b, a)
<1>1. /\ Work[a] \in Nat /\ Work[b] \in Nat /\ Addr[a] \in Nat /\ Addr[b] \in Nat
      /\ sid[a] \in Int /\ sid[b] \in Int /\ (Addr[a] = Addr[b] => a = b)
  BY TreeTypes, TreeAssumption
<1> QED BY <1>1, SMT DEF WorseBy

LEMMA WorseTransitive ==
  ASSUME NEW sid \in [Block -> Int], NEW a \in Block, NEW b \in Block, NEW c \in Block,
         ~WorseBy(sid, a, b), ~WorseBy(sid, b, c)
  PROVE  ~WorseBy(sid, a, c)
<1>1. /\ Work[a] \in Nat /\ Work[b] \in Nat /\ Work[c] \in Nat
      /\ Addr[a] \in Nat /\ Addr[b] \in Nat /\ Addr[c] \in Nat
      /\ sid[a] \in Int /\ sid[b] \in Int /\ sid[c] \in Int
  BY TreeTypes
<1> QED BY <1>1, SMT DEF WorseBy

(* No block sorts before one of its ancestors.                             *)
LEMMA NotWorseThanAncestor ==
  ASSUME NEW sid \in [Block -> Int], NEW b \in Block, NEW a \in Anc[b]
  PROVE  ~WorseBy(sid, b, a)
<1>1. a \in Block
  BY TreeTypes
<1> QED BY <1>1, LessWork, WorseOrder, ZenonT(30)

(* A finite set of blocks has a best one: the one with the fewest better.  *)
LEMMA BestOf ==
  ASSUME seqId \in [Block -> Int], NEW S, S \subseteq Block, IsFiniteSet(S), S # {}
  PROVE  Best(S) \in S /\ \A c \in S : ~Worse(Best(S), c)
<1> DEFINE Better(b) == {c \in S : Worse(b, c)}
           N == {Cardinality(Better(b)) : b \in S}
<1>1. \A b \in S : IsFiniteSet(Better(b)) /\ Cardinality(Better(b)) \in Nat
  <2> TAKE b \in S
  <2>1. Better(b) \in SUBSET S
    OBVIOUS
  <2> QED BY <2>1, FS_Subset, FS_CardinalityType
<1>2. PICK k \in N : \A y \in N : k <= y
  <2> HIDE DEF Better
  <2>1. N \subseteq Nat /\ N # {}
    BY <1>1
  <2> HIDE DEF N
  <2> QED BY <2>1, Least
<1>3. PICK b \in S : \A c \in S : Cardinality(Better(b)) <= Cardinality(Better(c))
  <2> HIDE DEF Better
  <2> QED BY <1>2
<1>4. ASSUME NEW c \in S, Worse(b, c) PROVE FALSE
  <2>1. Better(c) \in SUBSET Better(b)
    <3> SUFFICES ASSUME NEW d \in S, Worse(c, d) PROVE Worse(b, d)
      OBVIOUS
    <3>1. b \in Block /\ c \in Block /\ d \in Block
      OBVIOUS
    <3>2. ~Worse(c, b) /\ ~Worse(d, c)
      BY <1>4, <3>1, WorseOrder DEF Worse
    <3>3. ~Worse(d, b)
      BY <3>1, <3>2, WorseTransitive DEF Worse
    <3>4. b # d
      BY <1>4, <3>1, <3>2
    <3> QED BY <3>1, <3>3, <3>4, WorseOrder DEF Worse
  <2>2. c \in Better(b) /\ c \notin Better(c)
    BY <1>4, WorseOrder DEF Worse
  <2> HIDE DEF Better
  <2>3. Cardinality(Better(c)) < Cardinality(Better(b))
    BY <1>1, <2>1, <2>2, FS_Subset, SMT
  <2> QED BY <1>1, <1>3, <2>3, SMT
<1>5. \A c \in S \ {b} : Worse(c, b)
  BY <1>4, WorseOrder DEF Worse
<1>6. Best(S) \in S /\ \A c \in S \ {Best(S)} : Worse(c, Best(S))
  BY <1>5 DEF Best
<1> QED BY <1>6, WorseOrder DEF Worse

(* A set of blocks of one chain has a topmost one.                         *)
LEMMA TopmostOf ==
  ASSUME NEW b \in Block, NEW S, S \subseteq Anc[b], S # {}
  PROVE  /\ Topmost(S) \in S
         /\ \A d \in Anc[b] \ Anc[Topmost(S)] : d \notin S
<1> DEFINE N == {Height[b] - Height[c] : c \in S}
<1>1. \A c \in S : c \in Block /\ Height[c] \in Nat /\ Height[b] \in Nat /\ Height[c] <= Height[b]
  <2> TAKE c \in S
  <2>1. c \in Block /\ Height[c] \in Nat /\ Height[b] \in Nat
    BY TreeTypes
  <2>2. c # b => Height[c] < Height[b]
    BY Chains DEF Chain
  <2> QED BY <2>1, <2>2, SMT
<1>2. N \subseteq Nat /\ N # {}
  BY <1>1, SMT
<1>3. PICK k \in N : \A y \in N : k <= y
  BY <1>2, Least
<1>4. PICK t \in S : k = Height[b] - Height[t]
  BY <1>3
<1>5. \A c \in S : Height[c] <= Height[t]
  <2> TAKE c \in S
  <2>1. Height[b] - Height[t] <= Height[b] - Height[c]
    BY <1>3, <1>4
  <2> QED BY <1>1, <2>1, SMT
<1>6. Topmost(S) \in S /\ \A c \in S : Height[c] <= Height[Topmost(S)]
  BY <1>5 DEF Topmost
<1>7. ASSUME NEW d \in Anc[b] \ Anc[Topmost(S)], d \in S PROVE FALSE
  <2>1. d \in Block /\ Topmost(S) \in Anc[d] /\ Topmost(S) \in Block
    BY <1>1, <1>6, Above
  <2>2. d # Topmost(S)
    BY <2>1, Ancestors
  <2>3. Height[Topmost(S)] < Height[d]
    BY <2>1, <2>2, Chains, ZenonT(30) DEF Chain
  <2>4. Height[d] <= Height[Topmost(S)]
    BY <1>6, <1>7
  <2> QED BY <2>1, <2>3, <2>4, TreeTypes, SMT
<1> QED BY <1>6, <1>7

-----------------------------------------------------------------------------
(* The inductive invariant.                                                *)

Blocks == Block \cup {NoBlock}

Locals == [pc : {"idle", "unlocked", "find", "disconnect", "connect", "stepped"},
           mostWork : Blocks, start : Blocks, old : Blocks, moved : BOOLEAN]

Walks == [pc : {"idle", "walk"}, block : Blocks, mark : Blocks, byWork : SUBSET Block]

Types ==
  /\ verdict \in [Block -> {"ok", "badBody", "badConnect"}]
  /\ seqId \in [Block -> Int]
  /\ seq \in [next : Nat, rev : Int, lastWork : Nat]
  /\ abc \in Locals
  /\ inv \in Walks
  /\ calls \in [invalidate : Nat, reconsider : Nat, precious : Nat, prune : Nat]

(* What is known of a block: the levels a block passes through imply one   *)
(* another and, linked and BLOCK_VALID_SCRIPTS, reach down to genesis.     *)
(* Only pruning takes data away, or puts a linked block among the waiting. *)
StoreInv ==
  /\ index \subseteq Block /\ Genesis \in index /\ IsFiniteSet(index)
  /\ \A b \in index : Anc[b] \subseteq index
  /\ received \subseteq index /\ txValid = received
  /\ \A b \in received : verdict[b] # "badBody"
  /\ linked \subseteq received /\ Genesis \in linked
  /\ \A b \in linked : Anc[b] \subseteq linked
  /\ scriptsValid \subseteq index
  /\ \A b \in scriptsValid : Anc[b] \subseteq scriptsValid \cup {Genesis}
  /\ haveUndo \subseteq haveData /\ haveData \subseteq received
  /\ \A p \in unlinked : \E b \in haveData \ {Genesis} : p = <<Parent[b], b>>
  /\ ~havePruned => /\ received \subseteq haveData
                    /\ \A b \in linked \ {Genesis} : <<Parent[b], b>> \notin unlinked

(* A chain that may be the active one: linked, and nothing in it marked.   *)
Clean(b, L, F) == b \in L /\ Anc[b] \cap F = {}

(* The active chain is clean and every block of it went through            *)
(* ConnectBlock.                                                           *)
TipInv ==
  /\ Clean(tip, linked, Failed)
  /\ Anc[tip] \subseteq scriptsValid \cup {Genesis}
  /\ \A b \in Anc[tip] : verdict[b] = "ok"
  /\ ~havePruned => Anc[tip] \subseteq haveUndo \cup {Genesis}

QueueInv ==
  /\ candidates \subseteq linked
  /\ failedValid \subseteq index /\ failedChild \subseteq index
  /\ failedBlocks \subseteq failedValid

(* pindexMostWork stays a clean candidate from one critical section of     *)
(* ActivateBestChain to the next, and once the fork point is reached the   *)
(* tip is on the way to it.                                                *)
GoalInv ==
  /\ abc.mostWork # NoBlock =>
       /\ Clean(abc.mostWork, linked, Failed)
       /\ abc.mostWork \in candidates
       /\ abc.pc # "idle"
       /\ abc.pc # "disconnect" => tip \in Anc[abc.mostWork]
       /\ abc.pc = "unlocked" => tip # abc.mostWork
  /\ abc.pc \in {"disconnect", "connect"} => abc.mostWork # NoBlock

(* InvalidateBlock has m_cs_chainstate to itself, and what it has marked   *)
(* last is off the active chain.                                           *)
WalkInv ==
  inv.pc = "walk" =>
    /\ abc.pc = "idle"
    /\ inv.block \in index \ {Genesis}
    /\ inv.mark \in index
    /\ inv.mark = inv.block \/ inv.mark \notin Anc[tip]
    /\ inv.byWork \subseteq linked

Basics == Types /\ StoreInv /\ TipInv /\ QueueInv /\ GoalInv /\ WalkInv

-----------------------------------------------------------------------------
(* StoreInv.                                                               *)

StoreVars == <<verdict, index, received, linked, txValid, scriptsValid, haveData,
               haveUndo, unlinked, havePruned>>

(* AddToBlockIndex, in AcceptBlockHeader and AcceptBlock.                  *)
LEMMA StoreHeader ==
  ASSUME StoreInv, NEW b \in Block \ {Genesis}, b \in index \/ Parent[b] \in index,
         index' = index \cup {b},
         UNCHANGED <<verdict, received, linked, txValid, scriptsValid, haveData, haveUndo,
                     unlinked, havePruned>>
  PROVE  StoreInv'
<1>1. IsFiniteSet(index \cup {b})
  BY FS_AddElement DEF StoreInv
<1>2. \A c \in index \cup {b} : Anc[c] \subseteq index \cup {b}
  <2>1. Anc[b] = Anc[Parent[b]] \cup {b}
    BY Ancestors
  <2>2. Anc[b] \subseteq index \cup {b}
    BY <2>1 DEF StoreInv
  <2> QED BY <2>2 DEF StoreInv
<1> QED BY <1>1, <1>2 DEF StoreInv

LEMMA HeaderKnown ==
  ASSUME StoreInv, QueueInv, NEW b \in Block \ {Genesis}, HeaderAccepted(b)
  PROVE  (b \in index \/ Parent[b] \in index) /\ b \notin Failed
  BY DEF HeaderAccepted, NewHeader, StoreInv, QueueInv, Failed

(* A block that waits in m_blocks_unlinked is stored.                      *)
LEMMA Waiting ==
  ASSUME StoreInv, NEW b, <<Parent[b], b>> \in unlinked
  PROVE  b \in haveData /\ b \in index /\ b # Genesis
  BY DEF StoreInv

(* What ReceivedBlockTransactions links: nothing that was linked before is *)
(* lost, and the links still reach down to genesis.                        *)
LEMMA LinksGrow ==
  ASSUME StoreInv, NEW b \in Block \ {Genesis}, verdict[b] # "badBody"
  PROVE  /\ Linkable(b) \subseteq Block
         /\ \A c \in Linkable(b) : c = b \/ c \in haveData
         /\ Linkable(b) # {} => b \in Linkable(b)
         /\ (linked \ {b}) \cup Linkable(b) = linked \cup Linkable(b)
         /\ \A c \in linked \cup Linkable(b) : Anc[c] \subseteq linked \cup Linkable(b)
         /\ Linkable(b) = {} <=> Parent[b] \notin linked
         /\ \A c \in Linkable(b) \ {b} : Parent[c] \in Linkable(b)
         /\ \A c \in Block \ {Genesis} :
              <<Parent[c], c>> \in unlinked /\ Parent[c] \in Linkable(b) => c \in Linkable(b)
<1> DEFINE now == Linkable(b)
<1>1. now \subseteq Block
  BY DEF Linkable, Extends, StoreInv
<1>2. /\ b \in Anc[b] /\ Anc[b] = Anc[Parent[b]] \cup {b} /\ Parent[b] \in Anc[b]
      /\ b \notin Anc[Parent[b]]
  BY Ancestors
<1>3. Parent[b] \in linked => b \in now
  BY DEF Linkable
<1>4. Parent[b] \notin linked => now = {} /\ b \notin linked
  BY <1>2 DEF Linkable, StoreInv
<1>5. \A c \in now : Parent[b] \in linked /\ b \in Anc[c]
  BY <1>2 DEF Linkable, Extends
<1>6. ASSUME NEW c \in now
      PROVE  c = b \/ c \in haveData
  <2>1. c # b => c \in Anc[c] \ Anc[b]
    <3>1. c \in Block /\ b \in Anc[c]
      BY <1>1, <1>5
    <3> QED BY <3>1, Ancestors, LessWork
  <2>2. c # b => <<Parent[c], c>> \in unlinked
    BY <1>5, <2>1 DEF Linkable
  <2> QED BY <2>2, Waiting
<1>7. ASSUME NEW c \in now, NEW d \in Anc[c]
      PROVE  d \in Anc[b] \/ d \in now
  <2> SUFFICES ASSUME d \notin Anc[b] PROVE d \in now
    OBVIOUS
  <2>1. c \in Block /\ b \in Anc[c] /\ Parent[b] \in linked
    BY <1>1, <1>5
  <2>2. b \in Anc[d] /\ d \in Block /\ Anc[d] \subseteq Anc[c]
    BY <2>1, Above, Ancestors
  <2>3. \A x \in Anc[d] \ Anc[b] : <<Parent[x], x>> \in unlinked
    BY <2>1, <2>2 DEF Linkable
  <2>4. d \in Anc[d] \ Anc[b]
    BY <2>2, Ancestors
  <2>5. d \in index
    BY <2>3, <2>4, Waiting
  <2> QED BY <2>1, <2>2, <2>3, <2>5 DEF Linkable, Extends
<1>10. \A c \in now : \A d \in Anc[c] : d \in linked \cup now
  BY <1>2, <1>3, <1>5, <1>7 DEF StoreInv
<1>11. ASSUME NEW c \in now, c # b
      PROVE  Parent[c] \in now
  <2>1. c \in Block /\ b \in Anc[c] /\ c # Genesis
    BY <1>1, <1>2, <1>5, TreeAssumption
  <2>2. /\ Parent[c] \in Anc[c] /\ Parent[c] \in Block
        /\ Anc[c] = Anc[Parent[c]] \cup {c}
    BY <2>1, Ancestors
  <2>3. b \in Anc[Parent[c]]
    BY <1>11, <2>1, <2>2
  <2>4. Parent[c] # b => Parent[c] \notin Anc[b]
    BY <2>2, <2>3, LessWork
  <2> QED BY <1>3, <1>5, <1>7, <2>2, <2>4
<1>12. ASSUME NEW c \in Block \ {Genesis}, <<Parent[c], c>> \in unlinked, Parent[c] \in now
      PROVE  c \in now
  <2>1. c \in index /\ Parent[c] \in Block /\ b \in Anc[Parent[c]] /\ Anc[c] = Anc[Parent[c]] \cup {c}
    BY <1>1, <1>5, <1>12, Waiting, Ancestors
  <2>2. \A d \in Anc[Parent[c]] \ Anc[b] : <<Parent[d], d>> \in unlinked
    <3>1. Parent[c] = b => Anc[Parent[c]] \ Anc[b] = {}
      OBVIOUS
    <3> QED BY <1>5, <1>12, <3>1 DEF Linkable
  <2> QED BY <1>5, <1>12, <2>1, <2>2 DEF Linkable, Extends
<1>8. (linked \ {b}) \cup now = linked \cup now
  BY <1>3, <1>4
<1>9. \A c \in linked \cup now : Anc[c] \subseteq linked \cup now
  BY <1>10 DEF StoreInv
<1> HIDE DEF now
<1> QED BY <1>1, <1>3, <1>4, <1>6, <1>8, <1>9, <1>11, <1>12 DEF now

LEMMA StoreReceives ==
  ASSUME StoreInv, QueueInv, NEW b \in Block \ {Genesis}, HeaderAccepted(b), b \notin haveData,
         verdict[b] # "badBody", index' = index \cup {b}, ReceivedBlockTransactions(b),
         UNCHANGED <<verdict, scriptsValid, haveUndo, havePruned>>
  PROVE  StoreInv'
<1> DEFINE now == Linkable(b)
           new == IF now = {} /\ Parent[b] \notin Failed THEN {<<Parent[b], b>>} ELSE {}
<1>1. /\ received' = received \cup {b} /\ haveData' = haveData \cup {b}
      /\ txValid' = txValid \cup ({b} \ Failed)
      /\ linked' = (linked \ {b}) \cup now
      /\ unlinked' = {p \in unlinked : p[1] \notin now} \cup new
  BY DEF ReceivedBlockTransactions
<1>2. /\ \A c \in now : c = b \/ c \in haveData
      /\ (linked \ {b}) \cup now = linked \cup now
      /\ \A c \in linked \cup now : Anc[c] \subseteq linked \cup now
      /\ \A c \in now \ {b} : Parent[c] \in now
      /\ now # {} => b \in now
  BY LinksGrow
<1>3. b \notin Failed /\ (b \in index \/ Parent[b] \in index)
  BY HeaderKnown
<1> HIDE DEF now
<1>4. IsFiniteSet(index') /\ \A c \in index' : Anc[c] \subseteq index'
  <2>1. IsFiniteSet(index \cup {b})
    BY FS_AddElement DEF StoreInv
  <2>2. Anc[b] = Anc[Parent[b]] \cup {b}
    BY Ancestors
  <2>3. Anc[b] \subseteq index \cup {b}
    BY <1>3, <2>2 DEF StoreInv
  <2> QED BY <2>1, <2>3 DEF StoreInv
<1>5. \A p \in unlinked' : \E c \in haveData' \ {Genesis} : p = <<Parent[c], c>>
  BY <1>1 DEF StoreInv
<1>6. ASSUME ~havePruned, NEW c \in linked' \ {Genesis}, <<Parent[c], c>> \in unlinked'
      PROVE  FALSE
  <2>1. b \notin linked
    BY <1>6 DEF StoreInv
  <2>2. <<Parent[b], b>> \notin unlinked
    BY Waiting
  <2>3. CASE <<Parent[c], c>> \in new
    <3>1. now = {} /\ c = b
      BY <2>3
    <3> QED BY <1>1, <2>1, <3>1
  <2>4. CASE <<Parent[c], c>> \in unlinked /\ Parent[c] \notin now
    <3>1. c \notin now
      BY <1>2, <2>2, <2>4
    <3>2. c \in linked
      BY <1>1, <1>6, <3>1
    <3> QED BY <1>6, <2>4, <3>2 DEF StoreInv
  <2> QED BY <1>1, <1>6, <2>3, <2>4
<1>7. linked' = linked \cup now /\ \A c \in linked' : Anc[c] \subseteq linked'
  BY <1>1, <1>2
<1>8. linked' \subseteq received' /\ haveData' \subseteq received' /\ haveUndo' \subseteq haveData'
  BY <1>1, <1>2, <1>7 DEF StoreInv
<1>9. /\ received' \subseteq index' /\ txValid' = received'
      /\ \A c \in received' : verdict'[c] # "badBody"
  BY <1>1, <1>3 DEF StoreInv
<1>10. ~havePruned' => received' \subseteq haveData'
  BY <1>1 DEF StoreInv
<1> QED BY <1>4, <1>5, <1>6, <1>7, <1>8, <1>9, <1>10 DEF StoreInv

(* What a turn of FindMostWorkChain drops: the best candidate from the     *)
(* topmost block that is in the way, which is off the active chain.        *)
LEMMA Dropped ==
  ASSUME StoreInv, QueueInv, seqId \in [Block -> Int], tip \in Block, candidates # {},
         Unusable(Best(candidates)) # {}, NEW new, new = Best(candidates),
         NEW test, test = Topmost(Unusable(new))
  PROVE  /\ new \in candidates /\ new \in Block /\ new \in linked
         /\ test \in Anc[new] \ Anc[tip] /\ test \in Block /\ test \in linked
         /\ test \in Failed \/ test \notin haveData
         /\ \A d \in Anc[new] \ Anc[test] :
              d \in haveData /\ d # Genesis /\ test \in Anc[d] /\ d \in index
<1>1. candidates \subseteq index /\ candidates \subseteq Block /\ IsFiniteSet(candidates)
  BY FS_Subset DEF StoreInv, QueueInv
<1>2. new \in candidates
  BY <1>1, BestOf
<1>3. new \in Block /\ new \in linked /\ Anc[new] \subseteq linked /\ linked \subseteq index
  BY <1>1, <1>2 DEF StoreInv, QueueInv
<1>4. Unusable(new) \subseteq Anc[new]
  BY DEF Unusable, Path
<1>5. test \in Unusable(new) /\ \A d \in Anc[new] \ Anc[test] : d \notin Unusable(new)
  BY <1>3, <1>4, TopmostOf
<1>6. test \in Anc[new] \ Anc[tip] /\ (test \in Failed \/ test \notin haveData)
  BY <1>5 DEF Unusable, Path
<1>7. test \in Block /\ test \in linked
  BY <1>3, <1>6 DEF StoreInv
<1>8. ASSUME NEW d \in Anc[new] \ Anc[test]
      PROVE  d \in haveData /\ d # Genesis /\ test \in Anc[d] /\ d \in index
  <2>1. test \in Anc[d] /\ d \in Block
    BY <1>3, <1>6, Above
  <2>2. d \notin Anc[tip]
    <3>1. \A a \in Anc[tip] : Anc[a] \subseteq Anc[tip]
      BY Ancestors
    <3> QED BY <1>6, <2>1, <3>1
  <2>3. d \in haveData
    BY <1>5, <2>2 DEF Unusable, Path
  <2> QED BY <1>3, <1>7, <2>1, <2>3, Ancestors, ZenonT(30)
<1> QED BY <1>2, <1>3, <1>6, <1>7, <1>8

LEMMA StoreDrops ==
  ASSUME StoreInv, QueueInv, seqId \in [Block -> Int], tip \in Block, DropCandidate
  PROVE  StoreInv'
<1> DEFINE new == Best(candidates)
           test == Topmost(Unusable(new))
           above == Anc[new] \ Anc[test]
<1>1. /\ candidates # {} /\ Unusable(new) # {}
      /\ UNCHANGED <<verdict, store, havePruned>>
      /\ \/ UNCHANGED unlinked
         \/ test \notin Failed /\ unlinked' = unlinked \cup {<<Parent[d], d>> : d \in above}
  BY DEF DropCandidate
<1>2. /\ test \in linked /\ (test \in Failed \/ test \notin haveData)
      /\ \A d \in above : d \in haveData /\ d # Genesis
  BY <1>1, Dropped
<1> HIDE DEF new, test, above
<1>3. CASE UNCHANGED unlinked
  BY <1>1, <1>3 DEF StoreInv, store
<1>4. CASE test \notin Failed /\ unlinked' = unlinked \cup {<<Parent[d], d>> : d \in above}
  <2>1. havePruned
    BY <1>2, <1>4 DEF StoreInv
  <2>2. \A p \in unlinked' : \E b \in haveData \ {Genesis} : p = <<Parent[b], b>>
    BY <1>2, <1>4 DEF StoreInv
  <2> QED BY <1>1, <2>1, <2>2 DEF StoreInv, store
<1> QED BY <1>1, <1>3, <1>4

(* The block ConnectTip connects is the one above the tip on the way to    *)
(* pindexMostWork.                                                         *)
LEMMA NextBlock ==
  ASSUME StoreInv, GoalInv, abc.pc = "connect", tip # abc.mostWork,
         NEW new, new = NextToConnect
  PROVE  /\ new \in Anc[abc.mostWork] /\ new # Genesis /\ Parent[new] = tip
         /\ abc.mostWork \in Block /\ new \in Block /\ new \in linked
         /\ Anc[new] = Anc[tip] \cup {new} /\ new \notin Anc[tip] /\ tip \in Block
         /\ new \notin Failed
<1>1. /\ tip \in Anc[abc.mostWork] /\ abc.mostWork \in linked
      /\ Anc[abc.mostWork] \cap Failed = {}
  BY DEF GoalInv, Clean
<1>2. abc.mostWork \in Block /\ Anc[abc.mostWork] \subseteq linked
  BY <1>1 DEF StoreInv
<1>3. \E b \in Anc[abc.mostWork] : b # Genesis /\ Parent[b] = tip
  BY <1>1, <1>2, NextUp
<1>4. new \in Anc[abc.mostWork] /\ new # Genesis /\ Parent[new] = tip
  BY <1>3 DEF NextToConnect
<1>5. new \in Block
  BY <1>2, <1>4, TreeTypes
<1> QED BY <1>1, <1>2, <1>4, <1>5, Ancestors

LEMMA StoreConnects ==
  ASSUME StoreInv, TipInv, GoalInv, ConnectTip
  PROVE  StoreInv'
<1> DEFINE new == NextToConnect
<1>1. /\ new \in Block /\ new \in linked /\ Anc[new] = Anc[tip] \cup {new}
      /\ new \notin Failed
  BY NextBlock DEF ConnectTip
<1>2. /\ new \in haveData
      /\ scriptsValid' = scriptsValid \cup ({new} \ Failed) /\ haveUndo' = haveUndo \cup {new}
      /\ UNCHANGED <<verdict, index, received, linked, txValid, haveData, unlinked, havePruned>>
  BY DEF ConnectTip
<1> HIDE DEF new
<1>3. /\ scriptsValid' \subseteq index
      /\ \A b \in scriptsValid' : Anc[b] \subseteq scriptsValid' \cup {Genesis}
  BY <1>1, <1>2 DEF StoreInv, TipInv
<1> QED BY <1>2, <1>3 DEF StoreInv

LEMMA StorePrunes ==
  ASSUME StoreInv, NEW b \in Block, PruneOneBlockFile(b)
  PROVE  StoreInv'
<1>1. /\ haveData' = haveData \ {b} /\ haveUndo' = haveUndo \ {b} /\ havePruned'
      /\ unlinked' = {p \in unlinked : p[2] # b}
      /\ UNCHANGED <<verdict, index, received, linked, txValid, scriptsValid>>
  BY DEF PruneOneBlockFile, UnlinkedWithout
<1>2. \A p \in unlinked' : \E c \in haveData' \ {Genesis} : p = <<Parent[c], c>>
  <2> TAKE p \in unlinked'
  <2>1. PICK c \in haveData \ {Genesis} : p = <<Parent[c], c>>
    BY <1>1 DEF StoreInv
  <2>2. c # b
    BY <1>1, <2>1, SMT
  <2> QED BY <1>1, <2>1, <2>2
<1> QED BY <1>1, <1>2 DEF StoreInv

LEMMA StoreAccepts ==
  ASSUME StoreInv, QueueInv, NEW b \in Block \ {Genesis}, NEW requested \in BOOLEAN,
         AcceptBlock(b, requested)
  PROVE  StoreInv'
<1>1. /\ HeaderAccepted(b) /\ index' = index \cup {b}
      /\ UNCHANGED <<verdict, scriptsValid, haveUndo, havePruned>>
      /\ \/ UNCHANGED <<received, linked, txValid, haveData, queues>>
         \/ b \notin haveData /\ verdict[b] # "badBody" /\ ReceivedBlockTransactions(b)
  BY DEF AcceptBlock, Wanted
<1>2. CASE UNCHANGED <<received, linked, txValid, haveData, queues>>
  BY <1>1, <1>2, HeaderKnown, StoreHeader DEF queues
<1>3. CASE b \notin haveData /\ verdict[b] # "badBody" /\ ReceivedBlockTransactions(b)
  BY <1>1, <1>3, StoreReceives
<1> QED BY <1>1, <1>2, <1>3

(* All other steps leave the store alone.                                  *)
LEMMA StoreFrame ==
  ASSUME StoreInv, UNCHANGED StoreVars
  PROVE  StoreInv'
  BY DEF StoreInv, StoreVars

LEMMA StoreStep ==
  ASSUME Basics, [Next]_vars
  PROVE  StoreInv'
<1> USE DEF StoreVars, store, flags, order, queues, control
<1>1. /\ StoreInv /\ QueueInv /\ TipInv /\ GoalInv /\ seqId \in [Block -> Int]
      /\ tip \in Block
  BY DEF Basics, Types, StoreInv, TipInv, Clean
<1>2. CASE UNCHANGED vars
  BY <1>1, <1>2, StoreFrame DEF vars
<1>3. CASE ActivateBestChain
  <2>1. CASE Enter \/ Lock \/ NothingToDo \/ BeginStep \/ StepDisconnect \/ BeginConnect
    BY <1>1, <2>1, StoreFrame
       DEF Enter, Lock, NothingToDo, BeginStep, StepDisconnect, BeginConnect
  <2>2. CASE ConnectTipInvalid \/ ConnectTipUnreadable \/ Stepped
    BY <1>1, <2>2, StoreFrame DEF ConnectTipInvalid, ConnectTipUnreadable, Stepped
  <2>3. CASE DropCandidate
    BY <1>1, <2>3, StoreDrops
  <2>4. CASE ConnectTip
    BY <1>1, <2>4, StoreConnects
  <2> QED BY <1>3, <2>1, <2>2, <2>3, <2>4 DEF ActivateBestChain
<1>4. CASE InvalidateBlock
  BY <1>1, <1>4, StoreFrame
     DEF InvalidateBlock, InvalidateBegin, InvalidateDisconnect, InvalidateUnreadable,
         InvalidateMark
<1>5. CASE Arrival
  <2>1. PICK b \in Block \ {Genesis} :
          \/ AcceptBlockHeader(b) \/ RejectDescendant(b)
          \/ \E requested \in BOOLEAN : AcceptBlock(b, requested)
    BY <1>5 DEF Arrival
  <2>2. CASE AcceptBlockHeader(b)
    BY <1>1, <2>2, StoreHeader DEF AcceptBlockHeader, NewHeader
  <2>3. CASE RejectDescendant(b)
    BY <1>1, <2>3, StoreFrame DEF RejectDescendant
  <2> QED BY <1>1, <2>1, <2>2, <2>3, StoreAccepts
<1>6. CASE Command
  <2>1. PICK b \in Block : ResetBlockFailureFlags(b) \/ PreciousBlock(b) \/ PruneOneBlockFile(b)
    BY <1>6 DEF Command
  <2>2. CASE ResetBlockFailureFlags(b) \/ PreciousBlock(b)
    BY <1>1, <2>2, StoreFrame DEF ResetBlockFailureFlags, PreciousBlock
  <2> QED BY <1>1, <2>1, <2>2, StorePrunes
<1> QED BY <1>2, <1>3, <1>4, <1>5, <1>6 DEF Next

-----------------------------------------------------------------------------
(* The active chain, the goal and the marks.                               *)

Active == TipInv /\ QueueInv /\ GoalInv /\ WalkInv

(* A step that does not move the tip or the threads.                       *)
LEMMA ActiveKeeps ==
  ASSUME StoreInv, Active, index \subseteq index', linked \subseteq linked',
         candidates' \subseteq linked',
         abc.mostWork # NoBlock => abc.mostWork \in candidates',
         failedValid' \subseteq index', failedChild' \subseteq index',
         failedBlocks' \subseteq failedValid',
         \A x \in linked : Anc[x] \cap Failed = {} => Anc[x] \cap Failed' = {},
         ~havePruned' => UNCHANGED <<haveUndo, havePruned>>,
         UNCHANGED <<verdict, scriptsValid, tip, abc, inv>>
  PROVE  Active'
<1>1. TipInv'
  BY DEF Active, TipInv, Clean
<1>2. QueueInv'
  BY DEF QueueInv
<1>3. GoalInv'
  BY DEF Active, GoalInv, Clean
<1>4. WalkInv'
  BY DEF Active, WalkInv
<1> QED BY <1>1, <1>2, <1>3, <1>4 DEF Active

LEMMA ActiveHeader ==
  ASSUME StoreInv, Active, NEW b \in Block, AcceptBlockHeader(b)
  PROVE  Active'
<1>1. /\ index \subseteq index'
      /\ UNCHANGED <<verdict, linked, scriptsValid, haveUndo, flags, candidates, tip,
                     havePruned, abc, inv>>
  BY DEF AcceptBlockHeader, queues, control
<1>2. Failed' = Failed
  BY <1>1 DEF Failed, flags
<1> QED BY <1>1, <1>2, ActiveKeeps DEF Active, QueueInv, GoalInv, flags

LEMMA ActiveRejects ==
  ASSUME StoreInv, Active, NEW b \in Block \ {Genesis}, RejectDescendant(b)
  PROVE  Active'
<1>1. PICK f \in FailedAncestors(b) : failedChild' = failedChild \cup Between(f, b)
  BY DEF RejectDescendant
<1>2. /\ Parent[b] \in index
      /\ UNCHANGED <<verdict, store, failedValid, failedBlocks, candidates, tip,
                     havePruned, abc, inv>>
  BY DEF RejectDescendant, NewHeader, queues, control
<1>3. /\ f \in Anc[Parent[b]] /\ f \in Failed /\ Parent[b] \in Block
      /\ Anc[Parent[b]] \subseteq index
  BY <1>1, <1>2 DEF FailedAncestors, StoreInv, Active, QueueInv, Failed
<1>4. \A d \in Between(f, b) : f \in Anc[d] /\ d \in index
  BY <1>3, Above DEF Between
<1>5. Failed' = Failed \cup Between(f, b)
  BY <1>1, <1>2 DEF Failed
<1>6. ASSUME NEW x \in linked, Anc[x] \cap Failed = {}
      PROVE  Anc[x] \cap Failed' = {}
  <2>1. x \in Block
    BY DEF StoreInv
  <2>2. \A a \in Anc[x] : Anc[a] \subseteq Anc[x]
    BY <2>1, Ancestors
  <2> QED BY <1>3, <1>4, <1>5, <1>6, <2>2
<1>7. failedChild' \subseteq index
  BY <1>1, <1>4 DEF Active, QueueInv
<1> QED BY <1>2, <1>6, <1>7, ActiveKeeps DEF Active, QueueInv, GoalInv, store

LEMMA ActiveAccepts ==
  ASSUME StoreInv, Active, NEW b \in Block \ {Genesis}, NEW requested \in BOOLEAN,
         AcceptBlock(b, requested)
  PROVE  Active'
<1>1. /\ index' = index \cup {b}
      /\ UNCHANGED <<verdict, scriptsValid, haveUndo, tip, havePruned, abc, inv>>
      /\ \/ UNCHANGED <<linked, flags, candidates>>
         \/ /\ verdict[b] = "badBody" /\ failedValid' = failedValid \cup {b}
            /\ UNCHANGED <<linked, failedChild, failedBlocks, candidates>>
         \/ verdict[b] # "badBody" /\ ReceivedBlockTransactions(b) /\ UNCHANGED flags
  BY DEF AcceptBlock, queues
<1>2. CASE UNCHANGED <<linked, flags, candidates>>
  <2>1. Failed' = Failed
    BY <1>2 DEF Failed, flags
  <2> QED BY <1>1, <1>2, <2>1, ActiveKeeps DEF Active, QueueInv, GoalInv, flags
<1>3. CASE /\ verdict[b] = "badBody" /\ failedValid' = failedValid \cup {b}
           /\ UNCHANGED <<linked, failedChild, failedBlocks, candidates>>
  <2>1. Failed' = Failed \cup {b}
    BY <1>3 DEF Failed
  <2>2. \A x \in linked : b \notin Anc[x]
    BY <1>3 DEF StoreInv
  <2>3. \A x \in linked : Anc[x] \cap Failed = {} => Anc[x] \cap Failed' = {}
    BY <2>1, <2>2
  <2> QED BY <1>1, <1>3, <2>3, ActiveKeeps DEF Active, QueueInv, GoalInv
<1>4. CASE verdict[b] # "badBody" /\ ReceivedBlockTransactions(b) /\ UNCHANGED flags
  <2>1. Failed' = Failed
    BY <1>4 DEF Failed, flags
  <2>2. /\ linked' = (linked \ {b}) \cup Linkable(b)
        /\ candidates \subseteq candidates' /\ candidates' \subseteq candidates \cup Linkable(b)
    BY <1>4 DEF ReceivedBlockTransactions, NotWorseThanTip
  <2>3. linked' = linked \cup Linkable(b)
    BY <1>4, <2>2, LinksGrow
  <2>4. candidates' \subseteq linked'
    BY <2>2, <2>3 DEF Active, QueueInv
  <2> QED BY <1>1, <1>4, <2>1, <2>2, <2>3, <2>4, ActiveKeeps
          DEF Active, QueueInv, GoalInv, flags
<1> QED BY <1>1, <1>2, <1>3, <1>4

LEMMA ActiveDrops ==
  ASSUME StoreInv, Active, seqId \in [Block -> Int], DropCandidate
  PROVE  Active'
<1> DEFINE new == Best(candidates)
           test == Topmost(Unusable(new))
           above == Anc[new] \ Anc[test]
<1>1. /\ candidates # {} /\ Unusable(new) # {} /\ abc.mostWork = NoBlock
      /\ candidates' \subseteq candidates
      /\ UNCHANGED <<verdict, store, failedValid, failedBlocks, tip, havePruned, abc, inv>>
      /\ \/ UNCHANGED failedChild
         \/ test \in Failed /\ failedChild' = failedChild \cup above
  BY DEF DropCandidate, control
<1>2. tip \in Block
  BY DEF Active, TipInv, Clean, StoreInv
<1>3. \A d \in above : test \in Anc[d] /\ d \in index
  BY <1>1, <1>2, Dropped DEF Active
<1> HIDE DEF new, test, above
<1>4. CASE UNCHANGED failedChild
  <2>1. Failed' = Failed
    BY <1>1, <1>4 DEF Failed
  <2> QED BY <1>1, <1>4, <2>1, ActiveKeeps DEF Active, QueueInv, store
<1>5. CASE test \in Failed /\ failedChild' = failedChild \cup above
  <2>1. Failed' = Failed \cup above
    BY <1>1, <1>5 DEF Failed
  <2>2. ASSUME NEW x \in linked, Anc[x] \cap Failed = {}
        PROVE  Anc[x] \cap Failed' = {}
    <3>1. x \in Block
      BY DEF StoreInv
    <3>2. \A a \in Anc[x] : Anc[a] \subseteq Anc[x]
      BY <3>1, Ancestors
    <3> QED BY <1>3, <1>5, <2>1, <2>2, <3>2
  <2>3. failedChild' \subseteq index
    BY <1>3, <1>5 DEF Active, QueueInv
  <2> QED BY <1>1, <2>2, <2>3, ActiveKeeps DEF Active, QueueInv, store
<1> QED BY <1>1, <1>4, <1>5

LEMMA ActiveResets ==
  ASSUME StoreInv, Active, NEW b \in Block, ResetBlockFailureFlags(b)
  PROVE  Active'
<1>1. /\ failedValid' = failedValid \ Cleared(b) /\ failedChild' = failedChild \ Cleared(b)
      /\ failedBlocks' = failedBlocks \ Cleared(b)
      /\ candidates \subseteq candidates' /\ candidates' \subseteq candidates \cup linked
      /\ UNCHANGED <<verdict, store, tip, havePruned, abc, inv>>
  BY DEF ResetBlockFailureFlags, StillFailedBlocks
<1>2. Failed' \subseteq Failed
  BY <1>1 DEF Failed
<1>3. \A x \in linked : Anc[x] \cap Failed = {} => Anc[x] \cap Failed' = {}
  BY <1>2
<1> QED BY <1>1, <1>3, ActiveKeeps DEF Active, QueueInv, GoalInv, store

(* What PreciousBlock does to the order.                                   *)
LEMMA Renumbered ==
  ASSUME Types, NEW b \in Block,
         NEW rev, rev = IF Work[tip] > seq.lastWork THEN -1 ELSE seq.rev
  PROVE  rev \in Int /\ [seqId EXCEPT ![b] = rev] \in [Block -> Int]
<1>1. seqId \in [Block -> Int] /\ seq.rev \in Int
  BY SMT DEF Types
<1>2. rev \in Int
  BY <1>1, SMT
<1> QED BY <1>1, <1>2

LEMMA ActivePrefers ==
  ASSUME Types, StoreInv, Active, NEW b \in Block, PreciousBlock(b)
  PROVE  Active'
<1> DEFINE rev == IF Work[tip] > seq.lastWork THEN -1 ELSE seq.rev
           sid == [seqId EXCEPT ![b] = rev]
<1>1. /\ CsMainFree /\ b \in index
      /\ UNCHANGED <<verdict, store, flags, tip, havePruned, abc, inv>>
      /\ \/ UNCHANGED candidates
         \/ Usable(b) /\ candidates' = NotWorseThanTip(candidates \cup {b}, sid, tip)
         \/ ~Usable(b) /\ candidates' = candidates \ {b}
  BY DEF PreciousBlock
<1>2. sid \in [Block -> Int]
  BY Renumbered
<1> HIDE DEF sid
<1>3. candidates' \subseteq linked
  BY <1>1 DEF NotWorseThanTip, Usable, Active, QueueInv
<1>4. ASSUME abc.mostWork # NoBlock
      PROVE  abc.mostWork \in candidates'
  <2>1. abc.pc = "unlocked"
    BY <1>1, <1>4 DEF CsMainFree, Active, GoalInv
  <2>2. /\ abc.mostWork \in linked /\ Anc[abc.mostWork] \cap Failed = {}
        /\ abc.mostWork \in candidates /\ tip \in Anc[abc.mostWork] /\ tip # abc.mostWork
    BY <1>4, <2>1 DEF Active, GoalInv, Clean
  <2>3. abc.mostWork \in Block /\ tip \in Block
    BY <2>2, TreeTypes DEF StoreInv
  <2>4. ~WorseBy(sid, abc.mostWork, tip)
    BY <1>2, <2>2, <2>3, NotWorseThanAncestor
  <2>5. Usable(abc.mostWork)
    BY <2>2, <2>3, Ancestors DEF Usable, StoreInv
  <2> QED BY <1>1, <2>2, <2>4, <2>5 DEF NotWorseThanTip
<1>5. Failed' = Failed
  BY <1>1 DEF Failed, flags
<1> QED BY <1>1, <1>3, <1>4, <1>5, ActiveKeeps DEF Active, QueueInv, store, flags

LEMMA ActivePrunes ==
  ASSUME StoreInv, Active, NEW b \in Block, PruneOneBlockFile(b)
  PROVE  Active'
<1>1. /\ havePruned'
      /\ UNCHANGED <<verdict, index, linked, scriptsValid, flags, candidates, tip, abc, inv>>
  BY DEF PruneOneBlockFile
<1>2. Failed' = Failed
  BY <1>1 DEF Failed, flags
<1> QED BY <1>1, <1>2, ActiveKeeps DEF Active, QueueInv, GoalInv, flags

(* Steps of ActivateBestChain that only change its own locals.             *)
LEMMA ActiveThinks ==
  ASSUME Active, UNCHANGED <<verdict, store, flags, candidates, tip, havePruned, inv>>,
         inv.pc # "walk", GoalInv'
  PROVE  Active'
<1>1. Failed' = Failed
  BY DEF Failed, flags
<1>2. TipInv' /\ QueueInv'
  BY <1>1 DEF Active, TipInv, QueueInv, store, flags
<1>3. WalkInv'
  BY DEF WalkInv
<1> QED BY <1>2, <1>3 DEF Active

LEMMA GoalKept ==
  ASSUME Types, Active, UNCHANGED <<store, flags, candidates, tip>>, abc'.mostWork = abc.mostWork,
         abc.pc \notin {"idle", "disconnect"}, abc'.pc \in {"find", "connect"},
         abc'.pc = "connect" => abc.pc = "connect"
  PROVE  GoalInv'
<1>1. Failed' = Failed /\ linked' = linked
  BY DEF Failed, flags, store
<1> QED BY <1>1 DEF Active, GoalInv

LEMMA ActiveEnters ==
  ASSUME Types, StoreInv, Active, Enter \/ Lock \/ BeginConnect
  PROVE  Active'
<1>1. /\ UNCHANGED <<verdict, store, flags, candidates, tip, havePruned, inv>>
      /\ \/ abc.pc = "idle" /\ inv.pc = "idle" /\ abc' = [abc EXCEPT !.pc = "unlocked"]
         \/ /\ abc.pc = "unlocked"
            /\ abc' = [abc EXCEPT !.pc = "find", !.start = tip, !.moved = FALSE]
         \/ /\ abc.pc = "disconnect" /\ tip \in Anc[abc.mostWork]
            /\ abc' = [abc EXCEPT !.pc = "connect"]
  BY DEF Enter, Lock, BeginConnect, ChainstateFree, queues
<1>2. /\ inv.pc # "walk" /\ abc'.mostWork = abc.mostWork
      /\ \/ abc.pc = "idle" /\ abc'.pc = "unlocked"
         \/ abc.pc = "unlocked" /\ abc'.pc = "find"
         \/ abc.pc = "disconnect" /\ tip \in Anc[abc.mostWork] /\ abc'.pc = "connect"
  <2>1. inv.pc # "walk"
    BY <1>1 DEF Active, WalkInv
  <2>2. abc \in Locals
    BY DEF Types
  <2>3. CASE abc.pc = "idle" /\ abc' = [abc EXCEPT !.pc = "unlocked"]
    BY <2>1, <2>2, <2>3, SMT DEF Locals
  <2>4. CASE /\ abc.pc = "unlocked"
             /\ abc' = [abc EXCEPT !.pc = "find", !.start = tip, !.moved = FALSE]
    BY <2>1, <2>2, <2>4, SMT DEF Locals
  <2>5. CASE /\ abc.pc = "disconnect" /\ tip \in Anc[abc.mostWork]
             /\ abc' = [abc EXCEPT !.pc = "connect"]
    BY <2>1, <2>2, <2>5, SMT DEF Locals
  <2> QED BY <1>1, <2>3, <2>4, <2>5
<1>3. Failed' = Failed /\ linked' = linked
  BY <1>1 DEF Failed, flags, store
<1>4. GoalInv'
  BY <1>1, <1>2, <1>3 DEF Active, GoalInv
<1> QED BY <1>1, <1>2, <1>4, ActiveThinks

LEMMA IdleFacts ==
  ASSUME Types
  PROVE  /\ IdleABC.pc = "idle" /\ IdleABC.mostWork = NoBlock
         /\ IdleInv.pc = "idle" /\ IdleABC \in [pc : {"idle"}, mostWork : Blocks,
              start : Blocks, old : Blocks, moved : BOOLEAN]
  BY SMT DEF IdleABC, IdleInv, Blocks

(* The end of a critical section.                                          *)
LEMMA UnlockedGoal ==
  ASSUME Types, NEW goal, tip # NoBlock
  PROVE  \/ Unlocked(goal).pc = "idle" /\ Unlocked(goal).mostWork = NoBlock
         \/ /\ Unlocked(goal).pc = "unlocked" /\ Unlocked(goal).mostWork = goal
            /\ tip # goal
<1>1. CASE tip = goal
  BY <1>1, IdleFacts DEF Unlocked
<1>2. CASE tip # goal
  <2>1. Unlocked(goal) = [abc EXCEPT !.pc = "unlocked", !.mostWork = goal]
    BY <1>2 DEF Unlocked
  <2> QED BY <1>2, <2>1, SMT DEF Types, Locals
<1> QED BY <1>1, <1>2

(* What FindMostWorkChain returns is a clean candidate.                    *)
LEMMA FoundFacts ==
  ASSUME Types, StoreInv, Active, abc.pc = "find", FindDone, Found # NoBlock
  PROVE  Found \in candidates /\ Clean(Found, linked, Failed)
<1>1. CASE abc.mostWork # NoBlock
  BY <1>1 DEF Found, Active, GoalInv
<1>2. CASE abc.mostWork = NoBlock
  <2>1. candidates # {} /\ Found = Best(candidates) /\ Unusable(Best(candidates)) = {}
    BY <1>2 DEF Found, FindDone
  <2>2. candidates \subseteq Block /\ IsFiniteSet(candidates)
    BY FS_Subset DEF StoreInv, Active, QueueInv
  <2>3. Found \in candidates
    BY <2>1, <2>2, BestOf DEF Types
  <2>4. Anc[Found] \cap Failed = {}
    BY <2>1 DEF Unusable, Path, Active, TipInv, Clean
  <2> QED BY <2>3, <2>4 DEF Active, QueueInv, Clean
<1> QED BY <1>1, <1>2

LEMMA ActiveUnlocks ==
  ASSUME Types, StoreInv, Active, NothingToDo \/ BeginStep \/ Stepped
  PROVE  Active'
<1>1. /\ UNCHANGED <<verdict, store, flags, candidates, tip, havePruned, inv>>
      /\ abc.pc # "idle"
  BY DEF NothingToDo, BeginStep, Stepped, queues
<1>2. inv.pc # "walk" /\ tip \in Block /\ tip # NoBlock
  BY <1>1, TreeTypes DEF Active, WalkInv, TipInv, Clean, StoreInv
<1>3. Failed' = Failed /\ linked' = linked
  BY <1>1 DEF Failed, flags, store
<1>4. ASSUME NothingToDo PROVE GoalInv'
  <2>1. Found \in {NoBlock, tip} /\ (abc' = Unlocked(Found) \/ abc' = IdleABC)
    BY <1>4 DEF NothingToDo
  <2>2. Unlocked(Found).mostWork = NoBlock /\ Unlocked(Found).pc \in {"idle", "unlocked"}
    BY <1>2, <2>1, UnlockedGoal
  <2>3. abc'.mostWork = NoBlock /\ abc'.pc \in {"idle", "unlocked"}
    BY <2>1, <2>2, IdleFacts
  <2> QED BY <2>3 DEF GoalInv
<1>5. ASSUME BeginStep PROVE GoalInv'
  <2>1. Found # NoBlock /\ abc.pc = "find" /\ FindDone
        /\ abc' = [abc EXCEPT !.pc = "disconnect", !.mostWork = Found, !.old = tip]
    BY <1>5 DEF BeginStep
  <2>2. abc'.pc = "disconnect" /\ abc'.mostWork = Found
    BY <2>1, SMT DEF Types, Locals
  <2>3. Found \in candidates /\ Clean(Found, linked, Failed)
    BY <2>1, FoundFacts
  <2> QED BY <1>1, <1>3, <2>1, <2>2, <2>3, SMT DEF GoalInv
<1>6. ASSUME Stepped PROVE GoalInv'
  <2>1. /\ abc.pc = "stepped"
        /\ \/ abc' = [abc EXCEPT !.pc = "find", !.moved = TRUE]
           \/ abc' = Unlocked(abc.mostWork)
    BY <1>6 DEF Stepped
  <2>2. \/ abc'.pc = "find" /\ abc'.mostWork = abc.mostWork
        \/ abc'.pc = "idle" /\ abc'.mostWork = NoBlock
        \/ abc'.pc = "unlocked" /\ abc'.mostWork = abc.mostWork /\ tip # abc.mostWork
    <3>1. CASE abc' = [abc EXCEPT !.pc = "find", !.moved = TRUE]
      BY <3>1, SMT DEF Types, Locals
    <3> QED BY <1>2, <2>1, <3>1, UnlockedGoal
  <2> QED BY <1>1, <1>3, <2>1, <2>2 DEF Active, GoalInv
<1> QED BY <1>1, <1>2, <1>4, <1>5, <1>6, ActiveThinks

(* One block less on the active chain, which is all that may be marked.    *)
LEMMA TipDown ==
  ASSUME StoreInv, TipInv, tip # Genesis, tip' = Parent[tip], Failed' \subseteq Failed \cup {tip},
         UNCHANGED <<verdict, linked, scriptsValid, haveUndo, havePruned>>
  PROVE  TipInv' /\ tip' \in linked /\ tip \notin Anc[tip']
<1>1. tip \in Block /\ tip \in linked /\ Anc[tip] \subseteq linked
  BY DEF TipInv, Clean, StoreInv
<1>2. /\ tip' \in Block /\ tip' \in Anc[tip] /\ tip \notin Anc[tip']
      /\ Anc[tip] = Anc[tip'] \cup {tip}
  BY <1>1, Ancestors
<1>3. Anc[tip'] \cap Failed' = {}
  <2>1. Anc[tip] \cap Failed = {}
    BY DEF TipInv, Clean
  <2> HIDE DEF Failed
  <2> SUFFICES ASSUME NEW a \in Anc[tip'], a \in Failed' PROVE FALSE
    OBVIOUS
  <2>2. a \in Anc[tip] /\ a # tip
    BY <1>2
  <2>3. a \in Failed
    BY <2>2
  <2> QED BY <2>1, <2>2, <2>3
<1> QED BY <1>1, <1>2, <1>3 DEF TipInv, Clean

LEMMA ActiveStops ==
  ASSUME Types, Active, UNCHANGED <<verdict, store, flags, candidates, tip, havePruned, inv>>,
         inv.pc # "walk", abc' = IdleABC
  PROVE  Active'
<1>1. abc'.pc = "idle" /\ abc'.mostWork = NoBlock
  BY IdleFacts
<1>2. GoalInv'
  BY <1>1 DEF GoalInv
<1> QED BY <1>2, ActiveThinks

LEMMA ActiveDisconnects ==
  ASSUME Types, StoreInv, Active, StepDisconnect
  PROVE  Active'
<1>1. /\ abc.pc = "disconnect" /\ tip \notin Anc[abc.mostWork]
      /\ UNCHANGED <<verdict, store, flags, candidates, havePruned, inv>>
      /\ \/ tip' = Parent[tip] /\ abc' = abc
         \/ abc' = IdleABC /\ tip' = tip
  BY DEF StepDisconnect, queues
<1>2. inv.pc # "walk"
  BY <1>1 DEF Active, WalkInv
<1>3. CASE abc' = IdleABC /\ tip' = tip
  BY <1>1, <1>2, <1>3, ActiveStops
<1>4. CASE tip' = Parent[tip] /\ abc' = abc
  <2>1. abc.mostWork # NoBlock /\ Clean(abc.mostWork, linked, Failed)
    BY <1>1 DEF Active, GoalInv
  <2>2. abc.mostWork \in Block
    BY <2>1 DEF Clean, StoreInv
  <2>8. Genesis \in Anc[abc.mostWork]
    BY <2>2, Ancestors
  <2>3. tip # Genesis
    BY <1>1, <2>8
  <2>4. Failed' = Failed /\ linked' = linked
    BY <1>1 DEF Failed, flags, store
  <2>5. TipInv'
    BY <1>1, <1>4, <2>3, <2>4, TipDown DEF Active, store
  <2>6. GoalInv'
    BY <1>1, <1>4, <2>4 DEF Active, GoalInv
  <2>7. QueueInv' /\ WalkInv'
    BY <1>1, <1>2, <2>4 DEF Active, QueueInv, WalkInv, store, flags
  <2> QED BY <2>5, <2>6, <2>7 DEF Active
<1> QED BY <1>1, <1>3, <1>4

LEMMA ActiveConnects ==
  ASSUME Types, StoreInv, Active, ConnectTip
  PROVE  Active'
<1> DEFINE new == NextToConnect
<1>1. /\ abc.pc = "connect" /\ tip # abc.mostWork /\ verdict[new] = "ok" /\ tip' = new
      /\ scriptsValid' = scriptsValid \cup ({new} \ Failed) /\ haveUndo' = haveUndo \cup {new}
      /\ candidates' = NotWorseThanTip(candidates, seqId, new)
      /\ abc' = [abc EXCEPT !.pc = "stepped"] \/ abc' = abc
      /\ UNCHANGED <<verdict, index, linked, flags, havePruned, inv>>
  BY DEF ConnectTip
<1>2. /\ new \in Anc[abc.mostWork] /\ abc.mostWork \in Block /\ new \in Block /\ new \in linked
      /\ Anc[new] = Anc[tip] \cup {new} /\ new \notin Failed
  BY <1>1, NextBlock DEF Active
<1> HIDE DEF new
<1>3. inv.pc # "walk"
  BY <1>1 DEF Active, WalkInv
<1>4. Failed' = Failed
  BY <1>1 DEF Failed, flags
<1>5. TipInv'
  BY <1>1, <1>2, <1>4 DEF Active, TipInv, Clean
<1>6. abc'.mostWork = abc.mostWork /\ abc'.pc \in {"connect", "stepped"}
  <2>1. CASE abc' = [abc EXCEPT !.pc = "stepped"]
    BY <2>1, SMT DEF Types, Locals
  <2> QED BY <1>1, <2>1
<1>7. Clean(abc.mostWork, linked, Failed) /\ abc.mostWork \in candidates /\ abc.mostWork # NoBlock
  BY <1>1 DEF Active, GoalInv
<1>8. abc.mostWork \in candidates'
  <2>1. ~WorseBy(seqId, abc.mostWork, new)
    BY <1>2, NotWorseThanAncestor DEF Types
  <2> QED BY <1>1, <1>7, <2>1 DEF NotWorseThanTip
<1>9. GoalInv'
  <2>1. Clean(abc'.mostWork, linked', Failed') /\ abc'.mostWork \in candidates'
    BY <1>1, <1>4, <1>6, <1>7, <1>8
  <2>2. tip' \in Anc[abc'.mostWork]
    BY <1>1, <1>2, <1>6
  <2> QED BY <1>6, <1>7, <2>1, <2>2 DEF GoalInv
<1>10. QueueInv'
  BY <1>1, <1>4 DEF Active, QueueInv, NotWorseThanTip, flags
<1>11. WalkInv'
  BY <1>1, <1>3 DEF WalkInv
<1> QED BY <1>5, <1>9, <1>10, <1>11 DEF Active

LEMMA ActiveFails ==
  ASSUME Types, StoreInv, Active, ConnectTipInvalid
  PROVE  Active'
<1> DEFINE new == NextToConnect
<1>1. /\ abc.pc = "connect" /\ tip # abc.mostWork
      /\ failedValid' = failedValid \cup {new} /\ failedBlocks' = failedBlocks \cup {new}
      /\ candidates' = candidates \ {new}
      /\ abc' = [abc EXCEPT !.pc = "stepped", !.mostWork = NoBlock]
      /\ UNCHANGED <<verdict, store, failedChild, tip, havePruned, inv>>
  BY DEF ConnectTipInvalid
<1>2. new \in linked /\ new \notin Anc[tip]
  BY <1>1, NextBlock DEF Active
<1> HIDE DEF new
<1>3. Failed' = Failed \cup {new}
  BY <1>1 DEF Failed
<1>4. TipInv'
  BY <1>1, <1>2, <1>3 DEF Active, TipInv, Clean, store
<1>5. abc'.mostWork = NoBlock /\ abc'.pc = "stepped"
  BY <1>1, SMT DEF Types, Locals
<1>6. GoalInv'
  BY <1>5 DEF GoalInv
<1>7. QueueInv'
  BY <1>1, <1>2 DEF Active, QueueInv, StoreInv, store
<1>8. WalkInv'
  BY <1>1 DEF Active, WalkInv
<1> QED BY <1>4, <1>6, <1>7, <1>8 DEF Active

LEMMA ActiveUnreadable ==
  ASSUME Types, Active, ConnectTipUnreadable
  PROVE  Active'
<1>1. /\ abc.pc = "connect" /\ abc' = IdleABC
      /\ UNCHANGED <<verdict, store, flags, candidates, tip, havePruned, inv>>
  BY DEF ConnectTipUnreadable, queues
<1>2. inv.pc # "walk"
  BY <1>1 DEF Active, WalkInv
<1> QED BY <1>1, <1>2, ActiveStops

(* The walk down unmarks nothing: no block of the active chain is marked.  *)
LEMMA Disconnected ==
  ASSUME StoreInv, Active, InvalidateDisconnect
  PROVE  /\ tip # Genesis /\ tip \in Block /\ tip \in linked /\ tip' = Parent[tip]
         /\ failedValid' = failedValid \cup {tip} /\ failedChild' = failedChild
<1> DEFINE undo == IF Parent[tip] = inv.mark /\ inv.mark \in failedValid \cup {tip}
                   THEN {inv.mark} ELSE {}
<1>1. /\ inv.pc = "walk" /\ inv.block \in Anc[tip] /\ tip' = Parent[tip]
      /\ failedValid' = (failedValid \cup {tip}) \ undo /\ failedChild' = failedChild \cup undo
  BY DEF InvalidateDisconnect
<1>2. tip # Genesis /\ tip \in Block /\ tip \in linked /\ Anc[tip] \cap Failed = {}
  BY <1>1, TreeAssumption DEF Active, WalkInv, TipInv, Clean, StoreInv
<1>3. Parent[tip] \in Anc[tip] /\ Parent[tip] # tip
  BY <1>2, Ancestors, TreeTypes
<1>4. undo = {}
  BY <1>2, <1>3 DEF Failed
<1> QED BY <1>1, <1>2, <1>4

(* InvalidateBlock.                                                        *)
LEMMA ActiveInvalidates ==
  ASSUME Types, StoreInv, Active, InvalidateBlock
  PROVE  Active'
<1>1. CASE \E b \in Block : InvalidateBegin(b)
  <2>1. PICK b \in Block : InvalidateBegin(b)
    BY <1>1
  <2>2. /\ abc.pc = "idle" /\ b \in index \ {Genesis}
        /\ inv' = [pc |-> "walk", block |-> b, mark |-> b,
                   byWork |-> {c \in index \ Anc[tip] : Usable(c) /\ ~Worse(c, Parent[b])}]
        /\ UNCHANGED <<verdict, store, flags, candidates, tip, havePruned, abc>>
    BY <2>1 DEF InvalidateBegin, ChainstateFree, queues
  <2>3. /\ inv'.block = b /\ inv'.mark = b
        /\ inv'.byWork = {c \in index \ Anc[tip] : Usable(c) /\ ~Worse(c, Parent[b])}
    BY <2>2
  <2>4. inv'.byWork \subseteq linked
    BY <2>3 DEF Usable
  <2>5. Failed' = Failed /\ linked' = linked /\ index' = index
    BY <2>2 DEF Failed, flags, store
  <2>6. TipInv' /\ QueueInv'
    BY <2>2, <2>5 DEF Active, TipInv, QueueInv, store, flags
  <2>7. GoalInv'
    BY <2>2, <2>5 DEF Active, GoalInv
  <2>8. WalkInv'
    BY <2>2, <2>3, <2>4, <2>5 DEF WalkInv
  <2> QED BY <2>6, <2>7, <2>8 DEF Active
<1>2. CASE InvalidateDisconnect
  <2>1. /\ inv.pc = "walk" /\ tip' = Parent[tip]
        /\ candidates' \subseteq candidates \cup {tip'} \cup inv.byWork
        /\ \E S : inv' = [inv EXCEPT !.mark = tip, !.byWork = @ \ S]
        /\ UNCHANGED <<verdict, store, failedBlocks, havePruned, abc>>
    BY <1>2 DEF InvalidateDisconnect
  <2>2. /\ abc.pc = "idle" /\ inv.block \in index \ {Genesis} /\ inv.byWork \subseteq linked
    BY <2>1 DEF Active, WalkInv
  <2>3. tip # Genesis /\ tip \in linked
    BY <1>2, Disconnected
  <2>6. failedValid' = failedValid \cup {tip} /\ failedChild' = failedChild
    BY <1>2, Disconnected
  <2>7. Failed' = Failed \cup {tip}
    BY <2>6 DEF Failed
  <2>8. TipInv' /\ tip' \in linked /\ tip \notin Anc[tip']
    BY <2>1, <2>3, <2>7, TipDown DEF Active, store
  <2>9. candidates' \subseteq linked
    BY <2>1, <2>2, <2>8 DEF Active, QueueInv
  <2>10. QueueInv'
    BY <2>1, <2>3, <2>6, <2>9 DEF Active, QueueInv, StoreInv, store
  <2>11. GoalInv'
    BY <2>1, <2>2 DEF Active, GoalInv
  <2>12. inv'.pc = "walk" /\ inv'.block = inv.block /\ inv'.mark = tip /\ inv'.byWork \subseteq inv.byWork
    BY <2>1, SMT DEF Types, Walks
  <2>13. WalkInv'
    BY <2>1, <2>2, <2>3, <2>8, <2>12 DEF WalkInv, store, StoreInv
  <2> QED BY <2>8, <2>10, <2>11, <2>13 DEF Active
<1>3. CASE InvalidateUnreadable
  <2>1. /\ inv' = IdleInv /\ inv.pc = "walk"
        /\ UNCHANGED <<verdict, store, flags, candidates, tip, havePruned, abc>>
    BY <1>3 DEF InvalidateUnreadable, queues
  <2>2. Failed' = Failed /\ inv'.pc = "idle"
    BY <2>1, IdleFacts DEF Failed, flags
  <2>3. TipInv' /\ QueueInv'
    BY <2>1, <2>2 DEF Active, TipInv, QueueInv, store, flags
  <2>4. GoalInv' /\ WalkInv'
    BY <2>1, <2>2 DEF Active, GoalInv, WalkInv
  <2> QED BY <2>3, <2>4 DEF Active
<1>4. CASE InvalidateMark
  <2>1. /\ inv.pc = "walk" /\ inv.block \notin Anc[tip]
        /\ failedValid' = failedValid \cup {inv.mark} /\ failedBlocks' = failedBlocks \cup {inv.mark}
        /\ candidates' = (candidates \ {inv.mark}) \cup
             {c \in index \ {inv.mark} : Usable(c) /\ ~Worse(c, tip)}
        /\ inv' = IdleInv
        /\ UNCHANGED <<verdict, store, failedChild, tip, havePruned, abc>>
    BY <1>4 DEF InvalidateMark
  <2>2. inv.mark \notin Anc[tip] /\ inv.mark \in index /\ abc.pc = "idle"
    BY <2>1 DEF Active, WalkInv
  <2>3. Failed' = Failed \cup {inv.mark} /\ inv'.pc = "idle"
    BY <2>1, IdleFacts DEF Failed
  <2>4. TipInv'
    BY <2>1, <2>2, <2>3 DEF Active, TipInv, Clean, store
  <2>5. candidates' \subseteq linked
    BY <2>1 DEF Active, QueueInv, Usable
  <2>6. QueueInv'
    BY <2>1, <2>2, <2>5 DEF Active, QueueInv, store
  <2>7. GoalInv' /\ WalkInv'
    BY <2>1, <2>2, <2>3 DEF Active, GoalInv, WalkInv
  <2> QED BY <2>4, <2>6, <2>7 DEF Active
<1> QED BY <1>1, <1>2, <1>3, <1>4 DEF InvalidateBlock

LEMMA ActiveStep ==
  ASSUME Basics, [Next]_vars
  PROVE  Active'
<1>1. StoreInv /\ Active /\ Types /\ seqId \in [Block -> Int]
  BY DEF Basics, Active, Types
<1>2. CASE UNCHANGED vars
  BY <1>1, <1>2
     DEF vars, store, flags, queues, control, Active, TipInv, QueueInv, GoalInv, WalkInv, Failed
<1>3. CASE ActivateBestChain
  <2>1. CASE Enter \/ Lock \/ BeginConnect
    BY <1>1, <2>1, ActiveEnters
  <2>2. CASE NothingToDo \/ BeginStep \/ Stepped
    BY <1>1, <2>2, ActiveUnlocks
  <2> QED BY <1>1, <1>3, <2>1, <2>2, ActiveDrops, ActiveDisconnects, ActiveConnects, ActiveFails,
             ActiveUnreadable
          DEF ActivateBestChain
<1>4. CASE InvalidateBlock
  BY <1>1, <1>4, ActiveInvalidates
<1>5. CASE Arrival
  BY <1>1, <1>5, ActiveHeader, ActiveRejects, ActiveAccepts DEF Arrival
<1>6. CASE Command
  BY <1>1, <1>6, ActiveResets, ActivePrefers, ActivePrunes DEF Command
<1> QED BY <1>2, <1>3, <1>4, <1>5, <1>6 DEF Next

-----------------------------------------------------------------------------
(* Types.                                                                  *)

LEMMA FoundType ==
  ASSUME Types, StoreInv, Active
  PROVE  Found \in Blocks /\ tip \in Block
<1>1. tip \in Block
  BY DEF Active, TipInv, Clean, StoreInv
<1>2. abc.mostWork \in Blocks
  BY SMT DEF Types, Locals
<1>3. ASSUME candidates # {} PROVE Best(candidates) \in Block
  <2>1. candidates \subseteq Block /\ IsFiniteSet(candidates)
    BY FS_Subset DEF StoreInv, Active, QueueInv
  <2> QED BY <1>3, <2>1, BestOf DEF Types
<1> QED BY <1>1, <1>2, <1>3 DEF Found, Blocks

LEMMA LocalsExcept ==
  ASSUME NEW r \in Locals
  PROVE  /\ \A x \in {"unlocked", "find", "disconnect", "connect", "stepped"} :
              [r EXCEPT !.pc = x] \in Locals
         /\ \A x \in Blocks : /\ [r EXCEPT !.mostWork = x] \in Locals
                             /\ [r EXCEPT !.start = x] \in Locals
                             /\ [r EXCEPT !.old = x] \in Locals
         /\ \A x \in BOOLEAN : [r EXCEPT !.moved = x] \in Locals
  BY SMT DEF Locals

LEMMA LocalsStep ==
  ASSUME Types, StoreInv, Active, ActivateBestChain
  PROVE  abc' \in Locals
<1>1. abc \in Locals
  BY DEF Types
<1>2. tip \in Blocks /\ Found \in Blocks /\ abc.mostWork \in Blocks /\ NoBlock \in Blocks
  BY <1>1, FoundType, SMT DEF Blocks, Locals
<1>3. IdleABC \in Locals
  BY <1>2, SMT DEF IdleABC, Locals
<1>4. ASSUME NEW goal \in Blocks PROVE Unlocked(goal) \in Locals
  <2>1. [abc EXCEPT !.pc = "unlocked", !.mostWork = goal] \in Locals
    BY <1>1, LocalsExcept
  <2> QED BY <1>3, <2>1 DEF Unlocked
<1>5. \A x \in {"unlocked", "connect", "stepped"} : [abc EXCEPT !.pc = x] \in Locals
  BY <1>1, LocalsExcept
<1>6. /\ [abc EXCEPT !.pc = "find", !.start = tip, !.moved = FALSE] \in Locals
      /\ [abc EXCEPT !.pc = "disconnect", !.mostWork = Found, !.old = tip] \in Locals
  BY <1>1, <1>2, LocalsExcept
<1>7. /\ [abc EXCEPT !.pc = "stepped", !.mostWork = NoBlock] \in Locals
      /\ [abc EXCEPT !.pc = "find", !.moved = TRUE] \in Locals
  BY <1>1, <1>2, LocalsExcept
<1>8. CASE Enter \/ Lock \/ DropCandidate \/ BeginStep \/ BeginConnect
  BY <1>1, <1>5, <1>6, <1>8 DEF Enter, Lock, DropCandidate, BeginStep, BeginConnect, control
<1>9. CASE NothingToDo \/ Stepped
  BY <1>2, <1>3, <1>4, <1>7, <1>9 DEF NothingToDo, Stepped
<1>10. CASE StepDisconnect \/ ConnectTip
  BY <1>1, <1>3, <1>5, <1>10 DEF StepDisconnect, ConnectTip
<1>11. CASE ConnectTipInvalid \/ ConnectTipUnreadable
  BY <1>3, <1>7, <1>11 DEF ConnectTipInvalid, ConnectTipUnreadable
<1> QED BY <1>8, <1>9, <1>10, <1>11 DEF ActivateBestChain

(* ReceivedBlockTransactions numbers the blocks it links from              *)
(* nBlockSequenceId on.                                                    *)
LEMMA Numbered ==
  ASSUME Types, StoreInv, NEW b \in Block \ {Genesis}, ReceivedBlockTransactions(b)
  PROVE  /\ seqId' \in [Block -> Int]
         /\ \A c \in Block \ Linkable(b) : seqId'[c] = seqId[c]
         /\ \A c \in Linkable(b) : seqId'[c] >= seq.next
         /\ candidates' = candidates \cup NotWorseThanTip(Linkable(b), seqId', tip)
         /\ seq'.next \in Nat /\ seq'.next >= seq.next
         /\ seq' \in [next : Nat, rev : Int, lastWork : Nat]
         /\ seq'.rev = seq.rev /\ seq'.lastWork = seq.lastWork
<1> DEFINE now == Linkable(b)
<1>1. /\ \E f \in LinkOrders(now) :
           LET sid == [c \in Block |-> IF c \in now THEN seq.next + f[c] ELSE seqId[c]]
           IN  seqId' = sid /\ candidates' = candidates \cup NotWorseThanTip(now, sid, tip)
      /\ seq' = [seq EXCEPT !.next = @ + Cardinality(now)]
  BY DEF ReceivedBlockTransactions
<1>2. now \subseteq index \cup {b}
  BY DEF Linkable, Extends
<1>3. IsFiniteSet(index \cup {b})
  BY FS_AddElement DEF StoreInv
<1>4. Cardinality(now) \in Nat
  BY <1>2, <1>3, FS_Subset, FS_CardinalityType
<1>5. seq \in [next : Nat, rev : Int, lastWork : Nat] /\ seqId \in [Block -> Int]
  BY DEF Types
<1>6. seq.next \in Nat /\ seq.rev \in Int /\ seq.lastWork \in Nat
  BY <1>5
<1>12. now \subseteq Block
  BY <1>2 DEF StoreInv
<1> HIDE DEF now
<1>7. PICK f \in LinkOrders(now) :
        /\ seqId' = [c \in Block |-> IF c \in now THEN seq.next + f[c] ELSE seqId[c]]
        /\ candidates' = candidates \cup NotWorseThanTip(now, seqId', tip)
  BY <1>1
<1>8. ASSUME NEW c \in now PROVE f[c] \in Nat
  <2>1. f[c] \in 0 .. Cardinality(now) - 1
    BY DEF LinkOrders
  <2> QED BY <1>4, <2>1, SMT
<1>9. ASSUME NEW c \in now PROVE seq.next + f[c] \in Int /\ seq.next + f[c] >= seq.next
  <2>1. f[c] \in Nat
    BY <1>8
  <2> QED BY <1>6, <2>1, SMT
<1>10. seqId' \in [Block -> Int]
  BY <1>5, <1>7, <1>9
<1>13. \A c \in Block \ now : seqId'[c] = seqId[c]
  BY <1>7
<1>14. \A c \in now : seqId'[c] >= seq.next
  BY <1>7, <1>9, <1>12
<1>11. /\ seq'.next = seq.next + Cardinality(now) /\ seq'.rev = seq.rev
       /\ seq'.lastWork = seq.lastWork
       /\ seq' = [next |-> seq.next + Cardinality(now), rev |-> seq.rev, lastWork |-> seq.lastWork]
  BY <1>1, <1>5, SMT
<1>15. seq.next + Cardinality(now) \in Nat /\ seq.next + Cardinality(now) >= seq.next
  BY <1>4, <1>6, SMT
<1>16. seq' \in [next : Nat, rev : Int, lastWork : Nat]
  BY <1>6, <1>11, <1>15
<1> QED BY <1>7, <1>10, <1>11, <1>13, <1>14, <1>15, <1>16 DEF now

LEMMA WalksExcept ==
  /\ IdleInv \in Walks
  /\ \A r \in Walks : /\ \A x \in Blocks : [r EXCEPT !.mark = x] \in Walks
                     /\ \A S \in SUBSET Block : [r EXCEPT !.byWork = S] \in Walks
<1>1. IdleInv \in Walks
  BY SMT DEF IdleInv, Walks, Blocks
<1>2. ASSUME NEW r \in Walks, NEW x \in Blocks PROVE [r EXCEPT !.mark = x] \in Walks
  BY SMT DEF Walks
<1>3. ASSUME NEW r \in Walks, NEW S \in SUBSET Block PROVE [r EXCEPT !.byWork = S] \in Walks
  BY DEF Walks
<1> QED BY <1>1, <1>2, <1>3

LEMMA TypesStep ==
  ASSUME Basics, [Next]_vars
  PROVE  Types'
<1>1. Types /\ StoreInv /\ Active /\ tip \in Block
  BY FoundType DEF Basics, Active
<1>2. /\ verdict \in [Block -> {"ok", "badBody", "badConnect"}]
      /\ seqId \in [Block -> Int] /\ seq \in [next : Nat, rev : Int, lastWork : Nat]
      /\ abc \in Locals
      /\ inv \in Walks
      /\ calls \in [invalidate : Nat, reconsider : Nat, precious : Nat, prune : Nat]
  BY <1>1 DEF Types
<1>3. CASE UNCHANGED vars
  BY <1>2, <1>3 DEF Types, vars, order, control
<1>4. CASE ActivateBestChain
  <2>1. UNCHANGED <<verdict, order, inv, calls>>
    BY <1>4
       DEF ActivateBestChain, Enter, Lock, DropCandidate, NothingToDo, BeginStep, StepDisconnect,
           BeginConnect, ConnectTip, ConnectTipInvalid, ConnectTipUnreadable, Stepped, control
  <2>2. abc' \in Locals
    BY <1>1, <1>4, LocalsStep
  <2> QED BY <1>2, <2>1, <2>2 DEF Types, order
<1>5. CASE InvalidateBlock
  <2>1. UNCHANGED <<verdict, order, abc>>
    BY <1>5 DEF InvalidateBlock, InvalidateBegin, InvalidateDisconnect, InvalidateUnreadable,
                InvalidateMark
  <2>2. calls' \in [invalidate : Nat, reconsider : Nat, precious : Nat, prune : Nat]
    <3>1. calls' = calls \/ calls' = [calls EXCEPT !.invalidate = @ + 1]
      BY <1>5 DEF InvalidateBlock, InvalidateBegin, InvalidateDisconnect, InvalidateUnreadable,
                  InvalidateMark
    <3> QED BY <1>2, <3>1, SMT
  <2>3. inv' \in Walks
    <3>1. CASE \E b \in Block : InvalidateBegin(b)
      <4>1. PICK b \in Block, S \in SUBSET index :
              inv' = [pc |-> "walk", block |-> b, mark |-> b, byWork |-> S]
        BY <3>1 DEF InvalidateBegin
      <4>2. S \in SUBSET Block /\ b \in Blocks
        BY <1>1, <4>1 DEF StoreInv, Blocks
      <4> QED BY <4>1, <4>2 DEF Walks
    <3>2. CASE InvalidateDisconnect
      <4>1. PICK S : inv' = [inv EXCEPT !.mark = tip, !.byWork = @ \ S]
        BY <3>2 DEF InvalidateDisconnect
      <4>2. tip \in Blocks
        BY <1>1 DEF Blocks
      <4>3. inv.byWork \ S \in SUBSET Block
        BY <1>2 DEF Walks
      <4> QED BY <1>2, <4>1, <4>2, <4>3, WalksExcept
    <3>3. CASE InvalidateUnreadable \/ InvalidateMark
      BY <3>3, WalksExcept DEF InvalidateUnreadable, InvalidateMark
    <3> QED BY <1>5, <3>1, <3>2, <3>3 DEF InvalidateBlock
  <2> QED BY <1>2, <2>1, <2>2, <2>3 DEF Types, order
<1>6. CASE Arrival
  <2>1. PICK b \in Block \ {Genesis} :
          \/ AcceptBlockHeader(b) \/ RejectDescendant(b)
          \/ \E requested \in BOOLEAN : AcceptBlock(b, requested)
    BY <1>6 DEF Arrival
  <2>2. UNCHANGED <<verdict, abc, inv, calls>>
    BY <2>1 DEF AcceptBlockHeader, RejectDescendant, AcceptBlock, control
  <2>3. UNCHANGED order \/ ReceivedBlockTransactions(b)
    BY <2>1 DEF AcceptBlockHeader, RejectDescendant, AcceptBlock
  <2>4. /\ seqId' \in [Block -> Int]
        /\ seq' \in [next : Nat, rev : Int, lastWork : Nat]
    <3>1. CASE UNCHANGED order
      BY <1>2, <3>1 DEF order
    <3> QED BY <1>1, <2>3, <3>1, Numbered
  <2> QED BY <1>2, <2>2, <2>4 DEF Types
<1>7. CASE Command
  <2>1. PICK b \in Block : ResetBlockFailureFlags(b) \/ PreciousBlock(b) \/ PruneOneBlockFile(b)
    BY <1>7 DEF Command
  <2>2. UNCHANGED <<verdict, abc, inv>>
    BY <2>1 DEF ResetBlockFailureFlags, PreciousBlock, PruneOneBlockFile
  <2>3. calls' \in [invalidate : Nat, reconsider : Nat, precious : Nat, prune : Nat]
    <3>1. \/ calls' = [calls EXCEPT !.reconsider = @ + 1]
          \/ calls' = [calls EXCEPT !.precious = @ + 1]
          \/ calls' = [calls EXCEPT !.prune = @ + 1]
      BY <2>1 DEF ResetBlockFailureFlags, PreciousBlock, PruneOneBlockFile
    <3> QED BY <1>2, <3>1, SMT
  <2>4. /\ seqId' \in [Block -> Int]
        /\ seq' \in [next : Nat, rev : Int, lastWork : Nat]
    <3> DEFINE rev == IF Work[tip] > seq.lastWork THEN -1 ELSE seq.rev
               next == IF rev > -SeqLimit THEN rev - 1 ELSE rev
    <3>1. \/ UNCHANGED order
          \/ /\ seqId' = [seqId EXCEPT ![b] = rev]
             /\ seq' = [seq EXCEPT !.rev = next, !.lastWork = Work[tip]]
      BY <2>1 DEF ResetBlockFailureFlags, PreciousBlock, PruneOneBlockFile
    <3>2. rev \in Int /\ [seqId EXCEPT ![b] = rev] \in [Block -> Int]
      BY <1>1, Renumbered
    <3> HIDE DEF rev
    <3>3. next \in Int
      BY <3>2, SMT
    <3> HIDE DEF next
    <3>4. [seq EXCEPT !.rev = next] \in [next : Nat, rev : Int, lastWork : Nat]
      BY <1>2, <3>3, SMT
    <3>5. Work[tip] \in Nat
      BY <1>1, TreeTypes
    <3>6. [seq EXCEPT !.rev = next, !.lastWork = Work[tip]]
            \in [next : Nat, rev : Int, lastWork : Nat]
      BY <3>4, <3>5
    <3> QED BY <1>2, <3>1, <3>2, <3>6 DEF order
  <2> QED BY <1>2, <2>2, <2>3, <2>4 DEF Types
<1> QED BY <1>3, <1>4, <1>5, <1>6, <1>7 DEF Next

LEMMA BasicsInit ==
  ASSUME Init
  PROVE  Basics
<1>1. Failed = {} /\ Anc[Genesis] = {Genesis} /\ Genesis \in Block
  BY TreeAssumption DEF Init, Failed
<1>2. Types
  <2>1. seqId \in [Block -> Int]
    BY SMT DEF Init
  <2>2. seq \in [next : Nat, rev : Int, lastWork : Nat]
    BY SMT DEF Init
  <2>3. abc \in Locals
    BY SMT DEF Init, IdleABC, Locals, Blocks
  <2>4. inv \in Walks
    BY WalksExcept DEF Init
  <2>5. calls \in [invalidate : Nat, reconsider : Nat, precious : Nat, prune : Nat]
    BY SMT DEF Init
  <2> QED BY <2>1, <2>2, <2>3, <2>4, <2>5 DEF Types, Init
<1>3. StoreInv
  <2>1. IsFiniteSet(index)
    BY FS_Singleton DEF Init
  <2>2. verdict[Genesis] # "badBody"
    BY DEF Init
  <2> QED BY <1>1, <2>1, <2>2 DEF StoreInv, Init
<1>4. TipInv /\ QueueInv
  BY <1>1 DEF TipInv, QueueInv, Clean, Init
<1>5. abc.pc = "idle" /\ abc.mostWork = NoBlock /\ inv.pc = "idle"
  BY <1>2, IdleFacts DEF Init
<1>6. GoalInv /\ WalkInv
  BY <1>5 DEF GoalInv, WalkInv
<1> QED BY <1>2, <1>3, <1>4, <1>6 DEF Basics

LEMMA BasicsStep ==
  ASSUME Basics, [Next]_vars
  PROVE  Basics'
  BY TypesStep, StoreStep, ActiveStep DEF Basics, Active

LEMMA BasicsHold == Spec => []Basics
  BY BasicsInit, BasicsStep, PTL DEF Spec

(* Whatever arrives and whatever the RPCs do to the flags, the active      *)
(* chain holds no block that is marked invalid and none whose ancestors    *)
(* were never stored.                                                      *)
THEOREM ActiveChainStaysUsable == Spec => []ActiveChainUsable
<1>1. Basics => ActiveChainUsable
  BY DEF Basics, TipInv, Clean, StoreInv, ActiveChainUsable, AllIn
<1> QED BY <1>1, BasicsHold, PTL

-----------------------------------------------------------------------------
(* Marks have a cause.                                                     *)

(* Until reconsiderblock is called no failure flag is cleared, and a block *)
(* marked BLOCK_FAILED_CHILD descends from one marked BLOCK_FAILED_VALID.  *)
CauseInv == calls.reconsider = 0 => \A b \in failedChild : ~NoInvalidAncestor(b)

LEMMA Marked ==
  ASSUME Basics, CauseInv, calls.reconsider = 0, NEW b \in Block, NoInvalidAncestor(b)
  PROVE  Anc[b] \cap Failed = {}
<1>1. \A a \in Anc[b] : Anc[a] \subseteq Anc[b]
  BY Ancestors
<1> QED BY <1>1 DEF CauseInv, NoInvalidAncestor, Failed

(* Every call of an RPC is counted.                                        *)
LEMMA Counted ==
  ASSUME Types, [Next]_vars
  PROVE  /\ calls.reconsider \in Nat /\ calls.precious \in Nat
         /\ \/ UNCHANGED calls
            \/ /\ \E b \in Block : InvalidateBegin(b) \/ PruneOneBlockFile(b)
               /\ calls'.reconsider = calls.reconsider /\ calls'.precious = calls.precious
            \/ /\ \E b \in Block : ResetBlockFailureFlags(b)
               /\ calls'.reconsider = calls.reconsider + 1
            \/ /\ \E b \in Block : PreciousBlock(b)
               /\ calls'.reconsider = calls.reconsider /\ calls'.precious = calls.precious + 1
<1>1. calls \in [invalidate : Nat, reconsider : Nat, precious : Nat, prune : Nat]
  BY DEF Types
<1>2. calls.reconsider \in Nat /\ calls.precious \in Nat
  BY <1>1
<1>3. CASE UNCHANGED vars \/ ActivateBestChain
  BY <1>2, <1>3
     DEF vars, control, ActivateBestChain, Enter, Lock, DropCandidate, NothingToDo, BeginStep,
         StepDisconnect, BeginConnect, ConnectTip, ConnectTipInvalid, ConnectTipUnreadable, Stepped
<1>4. CASE InvalidateBlock
  <2>1. CASE \E b \in Block : InvalidateBegin(b)
    <3>1. calls' = [calls EXCEPT !.invalidate = @ + 1]
      BY <2>1 DEF InvalidateBegin
    <3>2. calls'.reconsider = calls.reconsider /\ calls'.precious = calls.precious
      BY <1>1, <3>1
    <3> QED BY <1>2, <2>1, <3>2
  <2> QED BY <1>2, <1>4, <2>1
          DEF InvalidateBlock, InvalidateDisconnect, InvalidateUnreadable, InvalidateMark
<1>5. CASE Arrival
  BY <1>2, <1>5 DEF Arrival, AcceptBlockHeader, RejectDescendant, AcceptBlock, control
<1>6. CASE Command
  <2>1. PICK b \in Block : ResetBlockFailureFlags(b) \/ PreciousBlock(b) \/ PruneOneBlockFile(b)
    BY <1>6 DEF Command
  <2>2. CASE ResetBlockFailureFlags(b)
    <3>1. calls' = [calls EXCEPT !.reconsider = @ + 1]
      BY <2>2 DEF ResetBlockFailureFlags
    <3>2. calls'.reconsider = calls.reconsider + 1
      BY <1>1, <3>1
    <3> QED BY <1>2, <2>2, <3>2
  <2>3. CASE PreciousBlock(b)
    <3>1. calls' = [calls EXCEPT !.precious = @ + 1]
      BY <2>3 DEF PreciousBlock
    <3>2. calls'.reconsider = calls.reconsider /\ calls'.precious = calls.precious + 1
      BY <1>1, <3>1
    <3> QED BY <1>2, <2>3, <3>2
  <2>4. CASE PruneOneBlockFile(b)
    <3>1. calls' = [calls EXCEPT !.prune = @ + 1]
      BY <2>4 DEF PruneOneBlockFile
    <3>2. calls'.reconsider = calls.reconsider /\ calls'.precious = calls.precious
      BY <1>1, <3>1
    <3> QED BY <1>2, <2>4, <3>2
  <2> QED BY <2>1, <2>2, <2>3, <2>4
<1> QED BY <1>3, <1>4, <1>5, <1>6 DEF Next

(* Before reconsiderblock no flag is cleared, and only the two searches    *)
(* for an invalid ancestor mark a block BLOCK_FAILED_CHILD, each above a   *)
(* block that is marked already.                                           *)
LEMMA MarksGrow ==
  ASSUME Basics, [Next]_vars, calls'.reconsider = 0
  PROVE  /\ calls.reconsider = 0 /\ failedValid \subseteq failedValid'
         /\ \A b \in failedChild' \ failedChild : Anc[b] \cap Failed # {}
<1>1. Types /\ StoreInv /\ Active /\ tip \in Block /\ seqId \in [Block -> Int]
  BY FoundType DEF Basics, Active, Types
<1>2. calls.reconsider = 0 /\ ~\E b \in Block : ResetBlockFailureFlags(b)
  <2>1. calls.reconsider \in Nat => calls.reconsider + 1 # 0
    BY SMT
  <2>2. calls.reconsider = 0
    BY <1>1, <2>1, Counted
  <2>3. ASSUME NEW b \in Block, ResetBlockFailureFlags(b) PROVE FALSE
    <3>1. calls' = [calls EXCEPT !.reconsider = @ + 1]
      BY <2>3 DEF ResetBlockFailureFlags
    <3>2. calls'.reconsider = calls.reconsider + 1
      BY <1>1, <3>1 DEF Types
    <3> QED BY <2>2, <3>2, SMT
  <2> QED BY <2>2, <2>3
<1>3. CASE UNCHANGED <<failedValid, failedChild>>
  BY <1>2, <1>3
<1>4. CASE UNCHANGED vars
  BY <1>3, <1>4 DEF vars, flags
<1>5. CASE ActivateBestChain
  <2>1. CASE DropCandidate
    <3> DEFINE new == Best(candidates)
               test == Topmost(Unusable(new))
               above == Anc[new] \ Anc[test]
    <3>1. /\ candidates # {} /\ Unusable(new) # {} /\ failedValid' = failedValid
          /\ \/ UNCHANGED failedChild
             \/ test \in Failed /\ failedChild' = failedChild \cup above
      BY <2>1 DEF DropCandidate
    <3>2. \A d \in above : test \in Anc[d]
      BY <1>1, <3>1, Dropped DEF Active
    <3> HIDE DEF new, test, above
    <3> QED BY <1>2, <3>1, <3>2
  <2>2. CASE ConnectTipInvalid
    BY <1>2, <2>2 DEF ConnectTipInvalid
  <2> QED BY <1>3, <1>5, <2>1, <2>2
          DEF ActivateBestChain, Enter, Lock, NothingToDo, BeginStep, StepDisconnect,
              BeginConnect, ConnectTip, ConnectTipUnreadable, Stepped, flags
<1>6. CASE InvalidateBlock
  <2>1. CASE InvalidateDisconnect
    BY <1>1, <1>2, <2>1, Disconnected
  <2>2. CASE InvalidateMark
    BY <1>2, <2>2 DEF InvalidateMark
  <2> QED BY <1>3, <1>6, <2>1, <2>2 DEF InvalidateBlock, InvalidateBegin, InvalidateUnreadable, flags
<1>7. CASE Arrival
  <2>1. PICK b \in Block \ {Genesis} :
          \/ AcceptBlockHeader(b) \/ RejectDescendant(b)
          \/ \E requested \in BOOLEAN : AcceptBlock(b, requested)
    BY <1>7 DEF Arrival
  <2>2. CASE RejectDescendant(b)
    <3>1. PICK f \in FailedAncestors(b) : failedChild' = failedChild \cup Between(f, b)
      BY <2>2 DEF RejectDescendant
    <3>2. Parent[b] \in index /\ failedValid' = failedValid
      BY <2>2 DEF RejectDescendant, NewHeader
    <3>3. f \in Anc[Parent[b]] /\ f \in Failed /\ Parent[b] \in Block
      BY <1>1, <3>1, <3>2 DEF FailedAncestors, StoreInv, Active, QueueInv, Failed
    <3>4. \A d \in Between(f, b) : f \in Anc[d]
      BY <3>3, Above DEF Between
    <3> QED BY <1>2, <3>1, <3>2, <3>3, <3>4
  <2>3. CASE \E requested \in BOOLEAN : AcceptBlock(b, requested)
    BY <1>2, <2>3 DEF AcceptBlock, flags
  <2> QED BY <1>3, <2>1, <2>2, <2>3 DEF AcceptBlockHeader, flags
<1>8. CASE Command
  BY <1>2, <1>3, <1>8 DEF Command, PreciousBlock, PruneOneBlockFile, flags
<1> QED BY <1>4, <1>5, <1>6, <1>7, <1>8 DEF Next

LEMMA CauseStep ==
  ASSUME Basics, CauseInv, [Next]_vars
  PROVE  CauseInv'
<1> SUFFICES ASSUME calls'.reconsider = 0, NEW b \in failedChild'
             PROVE  Anc[b] \cap failedValid' # {}
  BY DEF CauseInv, NoInvalidAncestor
<1>1. /\ calls.reconsider = 0 /\ failedValid \subseteq failedValid'
      /\ \A c \in failedChild' \ failedChild : Anc[c] \cap Failed # {}
  BY MarksGrow
<1>2. CASE b \in failedChild
  BY <1>1, <1>2 DEF CauseInv, NoInvalidAncestor
<1>3. CASE b \notin failedChild
  <2>1. b \in Block
    BY BasicsStep DEF Basics, StoreInv, QueueInv
  <2>2. Anc[b] \cap Failed # {}
    BY <1>1, <1>3
  <2>3. ~NoInvalidAncestor(b)
    BY <1>1, <2>1, <2>2, Marked
  <2> QED BY <1>1, <2>3 DEF NoInvalidAncestor
<1> QED BY <1>2, <1>3

(* CheckBlockIndex finds no marked block without an invalid ancestor, and  *)
(* AcceptBlockHeader no member of m_failed_blocks that is not marked       *)
(* BLOCK_FAILED_VALID.                                                     *)
THEOREM MarksHaveCauses == Spec => []FailureHasCause
<1>1. Init => CauseInv
  BY DEF Init, CauseInv
<1>2. Basics /\ CauseInv => FailureHasCause
  <2> SUFFICES ASSUME Basics, CauseInv PROVE FailureHasCause
    OBVIOUS
  <2>1. ASSUME calls.reconsider = 0, NEW b \in index, NoInvalidAncestor(b) PROVE b \notin Failed
    <3>1. b \in Block
      BY DEF Basics, StoreInv
    <3>2. Anc[b] \cap Failed = {}
      BY <2>1, <3>1, Marked
    <3> QED BY <3>1, <3>2, Ancestors
  <2> QED BY <2>1 DEF FailureHasCause, Basics, QueueInv
<1> QED BY <1>1, <1>2, BasicsHold, CauseStep, PTL DEF Spec

-----------------------------------------------------------------------------
(* Stored blocks get linked.                                               *)

(* A block in m_blocks_unlinked that is not linked waits for a parent that *)
(* is not linked either, and until reconsiderblock is called every stored  *)
(* block that is not linked is there, unless its chain is invalid.         *)
LinkInv ==
  /\ \A b \in Block \ linked : <<Parent[b], b>> \in unlinked => Parent[b] \notin linked
  /\ calls.reconsider = 0 =>
       \A b \in haveData \ linked : NoInvalidAncestor(b) => <<Parent[b], b>> \in unlinked

(* A chain whose blocks are stored or linked is linked: its lowest block   *)
(* that is not would wait for a linked parent.                             *)
LEMMA LinkedWhole ==
  ASSUME Basics, LinkInv, calls.reconsider = 0, NEW b \in Block, AllIn(b, haveData \cup linked),
         NoInvalidAncestor(b)
  PROVE  b \in linked
<1> SUFFICES ASSUME b \notin linked PROVE FALSE
  OBVIOUS
<1> DEFINE Loose == {d \in Anc[b] : d \notin linked}
           Low == {Height[d] : d \in Loose}
<1>1. b \in Anc[b] /\ Anc[b] \subseteq Block /\ \A a \in Anc[b] : Anc[a] \subseteq Anc[b]
  BY Ancestors
<1>2. Low \subseteq Nat /\ Low # {}
  BY <1>1, TreeTypes
<1>3. PICK h \in Low : \A y \in Low : h <= y
  <2> HIDE DEF Low
  <2> QED BY <1>2, Least
<1>4. PICK d \in Loose : Height[d] = h
  BY <1>3
<1>5. d \in Block /\ d \in Anc[b] /\ d \notin linked /\ d # Genesis
  BY <1>1, <1>4 DEF Basics, StoreInv
<1>6. Parent[d] \in Anc[d] /\ Parent[d] \in Block /\ Height[d] = Height[Parent[d]] + 1
  BY <1>5, Ancestors, TreeAssumption
<1>7. Parent[d] \in Anc[b] /\ NoInvalidAncestor(d)
  BY <1>1, <1>5, <1>6 DEF NoInvalidAncestor
<1>8. Parent[d] \in linked
  <2> SUFFICES ASSUME Parent[d] \notin linked PROVE FALSE
    OBVIOUS
  <2>1. h <= Height[Parent[d]]
    BY <1>3, <1>7
  <2> QED BY <1>4, <1>6, <2>1, TreeTypes, SMT
<1>9. d \in haveData \ linked
  BY <1>5 DEF AllIn
<1>10. <<Parent[d], d>> \in unlinked
  BY <1>7, <1>9 DEF LinkInv
<1> QED BY <1>5, <1>8, <1>10 DEF LinkInv

(* The steps that change what is stored and linked.                        *)
LEMMA LinkReceives ==
  ASSUME Basics, CauseInv, LinkInv, NEW b \in Block \ {Genesis}, verdict[b] # "badBody",
         ReceivedBlockTransactions(b), UNCHANGED <<failedValid, calls>>
  PROVE  LinkInv'
<1> DEFINE now == Linkable(b)
           new == IF now = {} /\ Parent[b] \notin Failed THEN {<<Parent[b], b>>} ELSE {}
<1>1. /\ haveData' = haveData \cup {b} /\ linked' = (linked \ {b}) \cup now
      /\ unlinked' = {p \in unlinked : p[1] \notin now} \cup new
  BY DEF ReceivedBlockTransactions
<1>2. /\ (linked \ {b}) \cup now = linked \cup now
      /\ now = {} <=> Parent[b] \notin linked
      /\ now # {} => b \in now
      /\ \A c \in Block \ {Genesis} :
           <<Parent[c], c>> \in unlinked /\ Parent[c] \in now => c \in now
      /\ b \in Anc[b] /\ Parent[b] \in Anc[b]
  BY LinksGrow, Ancestors DEF Basics
<1>3. \A c : <<Parent[c], c>> \in new => c = b /\ now = {}
  OBVIOUS
<1>4. \A c : <<Parent[c], c>> \in unlinked' <=>
               \/ <<Parent[c], c>> \in unlinked /\ Parent[c] \notin now
               \/ <<Parent[c], c>> \in new
  BY <1>1
<1>5. now = {} /\ Parent[b] \notin Failed => <<Parent[b], b>> \in new
  OBVIOUS
<1> HIDE DEF now, new
<1>6. linked' = linked \cup now /\ Genesis \in linked
  BY <1>1, <1>2 DEF Basics, StoreInv
<1>7. ASSUME NEW c \in Block \ linked', <<Parent[c], c>> \in unlinked'
      PROVE  Parent[c] \notin linked'
  <2>1. CASE <<Parent[c], c>> \in new
    <3>1. c = b /\ now = {} /\ Parent[b] \notin linked
      BY <1>2, <1>3, <2>1
    <3> QED BY <1>6, <3>1
  <2>2. CASE <<Parent[c], c>> \in unlinked /\ Parent[c] \notin now
    BY <1>6, <1>7, <2>2 DEF LinkInv
  <2> QED BY <1>4, <1>7, <2>1, <2>2
<1>8. ASSUME calls.reconsider = 0, NEW c \in haveData' \ linked', NoInvalidAncestor(c)
      PROVE  <<Parent[c], c>> \in unlinked'
  <2>1. CASE c = b
    <3>1. now = {}
      BY <1>2, <1>6, <1>8, <2>1
    <3>2. Anc[b] \cap Failed = {}
      BY <1>8, <2>1, Marked
    <3> QED BY <1>2, <1>4, <1>5, <2>1, <3>1, <3>2
  <2>2. CASE c # b
    <3>1. c \in haveData \ linked /\ c \notin now
      BY <1>1, <1>6, <1>8, <2>2
    <3>2. <<Parent[c], c>> \in unlinked
      BY <1>8, <3>1 DEF LinkInv
    <3>3. c \in Block \ {Genesis}
      BY <1>6, <3>1 DEF Basics, StoreInv
    <3> QED BY <1>2, <1>4, <3>1, <3>2, <3>3
  <2> QED BY <2>1, <2>2
<1> QED BY <1>7, <1>8 DEF LinkInv, NoInvalidAncestor

LEMMA LinkPrunes ==
  ASSUME Basics, LinkInv, NEW b \in Block, PruneOneBlockFile(b), calls'.reconsider = calls.reconsider
  PROVE  LinkInv'
<1>1. /\ haveData' = haveData \ {b} /\ unlinked' = {p \in unlinked : p[2] # b}
      /\ UNCHANGED <<linked, failedValid>>
  BY DEF PruneOneBlockFile, UnlinkedWithout, flags
<1>2. \A c : <<Parent[c], c>> \in unlinked /\ c # b => <<Parent[c], c>> \in unlinked'
  BY <1>1, SMT
<1> QED BY <1>1, <1>2 DEF LinkInv, NoInvalidAncestor

LEMMA LinkDrops ==
  ASSUME Basics, LinkInv, DropCandidate
  PROVE  LinkInv'
<1> DEFINE new == Best(candidates)
           test == Topmost(Unusable(new))
           above == Anc[new] \ Anc[test]
<1>1. /\ candidates # {} /\ Unusable(new) # {}
      /\ UNCHANGED <<linked, haveData, failedValid, calls>>
      /\ unlinked' = unlinked \/ unlinked' = unlinked \cup {<<Parent[d], d>> : d \in above}
  BY DEF DropCandidate, store, control
<1>2. new \in linked
  BY <1>1, Dropped, FoundType DEF Basics, Active, Types
<1>3. above \subseteq linked
  BY <1>2 DEF Basics, StoreInv
<1> HIDE DEF new, test, above
<1>4. \A c \in Block \ linked : <<Parent[c], c>> \in unlinked' => <<Parent[c], c>> \in unlinked
  <2>1. \A c : <<Parent[c], c>> \in {<<Parent[d], d>> : d \in above} => c \in above
    BY SMT
  <2> QED BY <1>1, <1>3, <2>1
<1>5. unlinked \subseteq unlinked'
  BY <1>1
<1> QED BY <1>1, <1>4, <1>5 DEF LinkInv, NoInvalidAncestor

LEMMA LinkStep ==
  ASSUME Basics, CauseInv, LinkInv, [Next]_vars
  PROVE  LinkInv'
<1>1. ASSUME UNCHANGED <<linked, haveData, unlinked>> PROVE LinkInv'
  <2>1. ASSUME calls'.reconsider = 0, NEW b \in haveData' \ linked', NoInvalidAncestor(b)'
        PROVE  <<Parent[b], b>> \in unlinked'
    <3>1. calls.reconsider = 0 /\ failedValid \subseteq failedValid'
      BY <2>1, MarksGrow
    <3>2. NoInvalidAncestor(b)
      BY <2>1, <3>1 DEF NoInvalidAncestor
    <3> QED BY <1>1, <2>1, <3>1, <3>2 DEF LinkInv
  <2> QED BY <1>1, <2>1 DEF LinkInv
<1>2. CASE UNCHANGED vars
  BY <1>1, <1>2 DEF vars, store, queues
<1>3. CASE ActivateBestChain
  BY <1>1, <1>3, LinkDrops
     DEF ActivateBestChain, Enter, Lock, NothingToDo, BeginStep, StepDisconnect, BeginConnect,
         ConnectTip, ConnectTipInvalid, ConnectTipUnreadable, Stepped, store, queues
<1>4. CASE InvalidateBlock
  BY <1>1, <1>4 DEF InvalidateBlock, InvalidateBegin, InvalidateDisconnect, InvalidateUnreadable,
                    InvalidateMark, store, queues
<1>5. CASE Arrival
  <2>1. PICK b \in Block \ {Genesis} :
          \/ AcceptBlockHeader(b) \/ RejectDescendant(b)
          \/ \E requested \in BOOLEAN : AcceptBlock(b, requested)
    BY <1>5 DEF Arrival
  <2>2. CASE AcceptBlockHeader(b) \/ RejectDescendant(b)
    BY <1>1, <2>2 DEF AcceptBlockHeader, RejectDescendant, store, queues
  <2>3. CASE \E requested \in BOOLEAN : AcceptBlock(b, requested)
    <3>1. \/ UNCHANGED <<linked, haveData, unlinked>>
          \/ verdict[b] # "badBody" /\ ReceivedBlockTransactions(b) /\ UNCHANGED <<failedValid, calls>>
      BY <2>3 DEF AcceptBlock, queues, flags
    <3> QED BY <1>1, <3>1, LinkReceives
  <2> QED BY <2>1, <2>2, <2>3
<1>6. CASE Command
  <2>1. PICK b \in Block : ResetBlockFailureFlags(b) \/ PreciousBlock(b) \/ PruneOneBlockFile(b)
    BY <1>6 DEF Command
  <2>2. CASE ResetBlockFailureFlags(b) \/ PreciousBlock(b)
    BY <1>1, <2>2 DEF ResetBlockFailureFlags, PreciousBlock, store
  <2>3. CASE PruneOneBlockFile(b)
    <3>1. calls' = [calls EXCEPT !.prune = @ + 1]
      BY <2>3 DEF PruneOneBlockFile
    <3>2. calls'.reconsider = calls.reconsider
      BY <3>1 DEF Basics, Types
    <3> QED BY <2>3, <3>2, LinkPrunes
  <2> QED BY <2>1, <2>2, <2>3
<1> QED BY <1>2, <1>3, <1>4, <1>5, <1>6 DEF Next

(* The numbers preciousblock gives are negative, and only linked blocks    *)
(* have a positive one.                                                    *)
OrderInv == seq.rev < 0 /\ \A b \in Block \ linked : seqId[b] <= 0

LEMMA OrderStep ==
  ASSUME Basics, OrderInv, [Next]_vars
  PROVE  OrderInv'
<1>1. ASSUME UNCHANGED <<seq, seqId>>, linked' = linked PROVE OrderInv'
  BY <1>1 DEF OrderInv
<1>2. CASE UNCHANGED vars
  BY <1>1, <1>2 DEF vars, store, order
<1>3. CASE ActivateBestChain
  BY <1>1, <1>3
     DEF ActivateBestChain, Enter, Lock, DropCandidate, NothingToDo, BeginStep, StepDisconnect,
         BeginConnect, ConnectTip, ConnectTipInvalid, ConnectTipUnreadable, Stepped, store, order
<1>4. CASE InvalidateBlock
  BY <1>1, <1>4 DEF InvalidateBlock, InvalidateBegin, InvalidateDisconnect, InvalidateUnreadable,
                    InvalidateMark, store, order
<1>5. CASE Arrival
  <2>1. PICK b \in Block \ {Genesis} :
          \/ AcceptBlockHeader(b) \/ RejectDescendant(b)
          \/ \E requested \in BOOLEAN : AcceptBlock(b, requested)
    BY <1>5 DEF Arrival
  <2>2. CASE AcceptBlockHeader(b) \/ RejectDescendant(b)
    BY <1>1, <2>2 DEF AcceptBlockHeader, RejectDescendant, store, order
  <2>3. CASE \E requested \in BOOLEAN : AcceptBlock(b, requested)
    <3>1. \/ UNCHANGED <<seq, seqId>> /\ linked' = linked
          \/ verdict[b] # "badBody" /\ ReceivedBlockTransactions(b)
      BY <2>3 DEF AcceptBlock, order
    <3>2. ASSUME verdict[b] # "badBody", ReceivedBlockTransactions(b) PROVE OrderInv'
      <4>1. linked' = linked \cup Linkable(b)
        BY <3>2, LinksGrow DEF ReceivedBlockTransactions, Basics
      <4>2. seq'.rev = seq.rev /\ \A c \in Block \ Linkable(b) : seqId'[c] = seqId[c]
        BY <3>2, Numbered DEF Basics
      <4> QED BY <4>1, <4>2 DEF OrderInv
    <3> QED BY <1>1, <3>1, <3>2
  <2> QED BY <2>1, <2>2, <2>3
<1>6. CASE Command
  <2>1. PICK b \in Block : ResetBlockFailureFlags(b) \/ PreciousBlock(b) \/ PruneOneBlockFile(b)
    BY <1>6 DEF Command
  <2> DEFINE rev == IF Work[tip] > seq.lastWork THEN -1 ELSE seq.rev
             next == IF rev > -SeqLimit THEN rev - 1 ELSE rev
  <2>2. /\ linked' = linked
        /\ \/ UNCHANGED <<seq, seqId>>
           \/ /\ seqId' = [seqId EXCEPT ![b] = rev]
              /\ seq' = [seq EXCEPT !.rev = next, !.lastWork = Work[tip]]
    BY <2>1 DEF ResetBlockFailureFlags, PreciousBlock, PruneOneBlockFile, store, order
  <2>3. CASE /\ seqId' = [seqId EXCEPT ![b] = rev]
             /\ seq' = [seq EXCEPT !.rev = next, !.lastWork = Work[tip]]
    <3>1. rev \in Int /\ seq.rev \in Int /\ seqId \in [Block -> Int]
      BY Renumbered DEF Basics, Types
    <3>2. rev < 0
      BY <3>1, SMT DEF OrderInv
    <3> HIDE DEF rev
    <3>3. next < 0
      BY <3>1, <3>2, SMT
    <3> HIDE DEF next
    <3>4. seq'.rev = next
      BY <2>3 DEF Basics, Types
    <3>5. rev <= 0
      BY <3>1, <3>2, SMT
    <3>6. \A c \in Block \ linked : seqId'[c] <= 0
      BY <2>3, <3>1, <3>5 DEF OrderInv
    <3> QED BY <2>2, <3>3, <3>4, <3>6 DEF OrderInv
  <2> QED BY <1>1, <2>2, <2>3
<1> QED BY <1>2, <1>3, <1>4, <1>5, <1>6 DEF Next

(* Until reconsiderblock is called the counters, levels and flags that     *)
(* CheckBlockIndex compares agree for every block: a block with the data   *)
(* of its whole chain is linked unless that chain is invalid, whatever the *)
(* order in which headers and bodies arrived and whatever was pruned.      *)
THEOREM IndexTellsOneStory == Spec => [](calls.reconsider = 0 => DataConsistent)
<1>1. Init => CauseInv /\ LinkInv /\ OrderInv
  <2> SUFFICES ASSUME Init PROVE CauseInv /\ LinkInv /\ OrderInv
    OBVIOUS
  <2>1. CauseInv /\ LinkInv
    BY DEF Init, CauseInv, LinkInv
  <2>2. OrderInv
    BY SMT DEF Init, OrderInv
  <2> QED BY <2>1, <2>2
<1>2. Basics /\ CauseInv /\ LinkInv /\ OrderInv => (calls.reconsider = 0 => DataConsistent)
  <2> SUFFICES ASSUME Basics, CauseInv, LinkInv, OrderInv, calls.reconsider = 0,
                      NEW b \in index
               PROVE  /\ b \notin linked => seqId[b] <= 0
                      /\ b \in haveData => b \in received
                      /\ ~havePruned /\ b \in received => b \in haveData
                      /\ b \in haveUndo => b \in haveData
                      /\ b \in txValid <=> b \in received
                      /\ b \in linked => AllIn(b, received)
                      /\ AllIn(b, haveData) /\ NoInvalidAncestor(b) => b \in linked
                      /\ b \in scriptsValid => AllIn(b, scriptsValid \cup {Genesis})
                      /\ NoInvalidAncestor(b) => b \notin Failed
    BY DEF DataConsistent
  <2>1. b \in Block /\ b \in Anc[b]
    BY Ancestors DEF Basics, StoreInv
  <2>2. b \notin linked => seqId[b] <= 0
    BY <2>1 DEF OrderInv
  <2>3. /\ b \in haveData => b \in received
        /\ ~havePruned /\ b \in received => b \in haveData
        /\ b \in haveUndo => b \in haveData
        /\ b \in txValid <=> b \in received
    BY DEF Basics, StoreInv
  <2>4. /\ b \in linked => AllIn(b, received)
        /\ b \in scriptsValid => AllIn(b, scriptsValid \cup {Genesis})
    BY DEF Basics, StoreInv, AllIn
  <2>5. AllIn(b, haveData) /\ NoInvalidAncestor(b) => b \in linked
    <3>1. AllIn(b, haveData) => AllIn(b, haveData \cup linked)
      BY DEF AllIn
    <3> QED BY <2>1, <3>1, LinkedWhole
  <2>6. NoInvalidAncestor(b) => b \notin Failed
    BY <2>1, Marked
  <2> QED BY <2>2, <2>3, <2>4, <2>5, <2>6
<1> QED BY <1>1, <1>2, BasicsHold, CauseStep, LinkStep, OrderStep, PTL DEF Spec

-----------------------------------------------------------------------------
(* The candidates are no worse than the tip.                               *)

(* While nothing was pruned, AcceptBlock numbers only blocks that were not *)
(* linked before: the numbers of the tip and of the candidates stay.       *)
LEMMA FreshNumbers ==
  ASSUME Basics, ~havePruned, NEW b \in Block \ {Genesis}, b \notin haveData,
         verdict[b] # "badBody", ReceivedBlockTransactions(b)
  PROVE  /\ \A c \in linked : c \notin Linkable(b) /\ seqId'[c] = seqId[c]
         /\ linked' = linked \cup Linkable(b)
<1>1. Types /\ StoreInv
  BY DEF Basics
<1>2. b \notin linked
  BY <1>1 DEF StoreInv
<1>3. ASSUME NEW c \in Linkable(b) PROVE c \notin linked
  <2>1. CASE c = b
    BY <1>2, <2>1
  <2>2. CASE c # b
    <3>1. c \in Block /\ b \in Anc[c] /\ c # Genesis
      BY <1>1, <2>2, TreeAssumption DEF Linkable, Extends, StoreInv
    <3>2. c \in Anc[c] \ Anc[b]
      BY <2>2, <3>1, Ancestors, LessWork
    <3>3. <<Parent[c], c>> \in unlinked
      BY <3>2 DEF Linkable
    <3> QED BY <1>1, <3>1, <3>3 DEF StoreInv
  <2> QED BY <2>1, <2>2
<1>4. linked \subseteq Block
  BY <1>1 DEF StoreInv
<1>5. \A c \in Block \ Linkable(b) : seqId'[c] = seqId[c]
  BY <1>1, Numbered
<1>6. linked' = linked \cup Linkable(b)
  BY <1>1, LinksGrow DEF ReceivedBlockTransactions
<1> QED BY <1>3, <1>4, <1>5, <1>6

(* Two blocks that keep their numbers keep their order.                    *)
LEMMA SameOrder ==
  ASSUME NEW s, NEW t, NEW a, NEW b, s[a] = t[a], s[b] = t[b]
  PROVE  WorseBy(s, a, b) <=> WorseBy(t, a, b)
  BY DEF WorseBy

SoundInv == ~havePruned => \A b \in candidates : ~Worse(b, tip)

LEMMA SoundReceives ==
  ASSUME Basics, SoundInv, ~havePruned, NEW b \in Block \ {Genesis}, b \notin haveData,
         verdict[b] # "badBody", ReceivedBlockTransactions(b), tip' = tip
  PROVE  SoundInv'
<1>1. /\ \A c \in linked : seqId'[c] = seqId[c]
      /\ candidates' = candidates \cup NotWorseThanTip(Linkable(b), seqId', tip)
  BY FreshNumbers, Numbered DEF Basics
<1>2. ASSUME NEW c \in candidates' PROVE ~WorseBy(seqId', c, tip)
  <2>1. CASE c \in candidates
    <3>1. c \in linked /\ tip \in linked /\ ~WorseBy(seqId, c, tip)
      BY <2>1 DEF Basics, QueueInv, TipInv, Clean, SoundInv, Worse
    <3>2. seqId'[c] = seqId[c] /\ seqId'[tip] = seqId[tip]
      BY <1>1, <3>1
    <3> QED BY <3>1, <3>2, SameOrder
  <2>2. CASE c \in NotWorseThanTip(Linkable(b), seqId', tip)
    BY <2>2 DEF NotWorseThanTip
  <2> QED BY <1>1, <1>2, <2>1, <2>2
<1> QED BY <1>2 DEF SoundInv, Worse

(* The tip moves down to its parent, which no candidate is worse than.     *)
LEMMA SoundDown ==
  ASSUME Basics, SoundInv, ~havePruned, tip # Genesis
  PROVE  \A c \in candidates : ~Worse(c, Parent[tip])
<1>1. tip \in Block /\ candidates \subseteq Block /\ seqId \in [Block -> Int]
  BY DEF Basics, Types, StoreInv, TipInv, Clean, QueueInv
<1>2. Parent[tip] \in Anc[tip] /\ Parent[tip] \in Block
  BY <1>1, Ancestors
<1>3. ~Worse(tip, Parent[tip])
  BY <1>1, <1>2, NotWorseThanAncestor DEF Worse
<1> TAKE c \in candidates
<1>4. ~Worse(c, tip) /\ c \in Block
  BY <1>1 DEF SoundInv
<1> QED BY <1>1, <1>2, <1>3, <1>4, WorseTransitive DEF Worse

LEMMA SoundMoves ==
  ASSUME Basics, SoundInv, ~havePruned, ActivateBestChain \/ InvalidateBlock
  PROVE  SoundInv'
<1>1. ASSUME candidates' \subseteq candidates, UNCHANGED <<tip, seqId>> PROVE SoundInv'
  BY <1>1 DEF SoundInv, Worse
<1>2. seqId' = seqId
  BY DEF ActivateBestChain, Enter, Lock, DropCandidate, NothingToDo, BeginStep, StepDisconnect,
         BeginConnect, ConnectTip, ConnectTipInvalid, ConnectTipUnreadable, Stepped, order,
         InvalidateBlock, InvalidateBegin, InvalidateDisconnect, InvalidateUnreadable,
         InvalidateMark
<1>3. CASE StepDisconnect
  <2>1. /\ candidates' = candidates /\ tip' \in {tip, Parent[tip]}
        /\ abc.pc = "disconnect" /\ tip \notin Anc[abc.mostWork]
    BY <1>3 DEF StepDisconnect, queues
  <2>2. abc.mostWork \in Block
    BY <2>1 DEF Basics, GoalInv, Clean, StoreInv
  <2>3. Genesis \in Anc[abc.mostWork]
    BY <2>2, Ancestors
  <2>4. \A c \in candidates : ~Worse(c, Parent[tip])
    BY <2>1, <2>3, SoundDown
  <2> QED BY <1>2, <2>1, <2>4 DEF SoundInv, Worse
<1>4. CASE ConnectTip
  BY <1>2, <1>4 DEF ConnectTip, NotWorseThanTip, SoundInv, Worse
<1>5. CASE InvalidateDisconnect
  <2>1. tip # Genesis /\ tip' = Parent[tip] /\ tip' \in Block
    BY <1>5, Disconnected, TreeTypes DEF Basics, Active
  <2>2. \A c \in candidates : ~Worse(c, tip')
    BY <2>1, SoundDown
  <2>3. ~Worse(tip', tip')
    BY <2>1, WorseOrder DEF Worse, Basics, Types
  <2>4. \A c \in candidates' : c \in candidates \cup {tip'} \/ ~Worse(c, tip')
    BY <1>5 DEF InvalidateDisconnect
  <2>5. \A c \in candidates' : ~Worse(c, tip')
    BY <2>2, <2>3, <2>4
  <2> QED BY <1>2, <2>5 DEF SoundInv, Worse
<1>6. CASE InvalidateMark
  <2>1. tip' = tip /\ \A c \in candidates' : c \in candidates \/ ~Worse(c, tip)
    BY <1>6 DEF InvalidateMark
  <2> QED BY <1>2, <2>1 DEF SoundInv, Worse
<1>7. CASE DropCandidate \/ ConnectTipInvalid
  BY <1>1, <1>2, <1>7 DEF DropCandidate, ConnectTipInvalid
<1>8. CASE Enter \/ Lock \/ NothingToDo \/ BeginStep \/ BeginConnect
  BY <1>1, <1>2, <1>8 DEF Enter, Lock, NothingToDo, BeginStep, BeginConnect, queues
<1>9. CASE ConnectTipUnreadable \/ Stepped \/ InvalidateUnreadable
           \/ \E b \in Block : InvalidateBegin(b)
  BY <1>1, <1>2, <1>9 DEF ConnectTipUnreadable, Stepped, InvalidateBegin, InvalidateUnreadable, queues
<1> QED BY <1>3, <1>4, <1>5, <1>6, <1>7, <1>8, <1>9 DEF ActivateBestChain, InvalidateBlock

LEMMA SoundPrefers ==
  ASSUME Basics, SoundInv, ~havePruned, NEW b \in Block, PreciousBlock(b)
  PROVE  SoundInv'
<1> DEFINE rev == IF Work[tip] > seq.lastWork THEN -1 ELSE seq.rev
           sid == [seqId EXCEPT ![b] = rev]
<1>1. /\ tip' = tip
      /\ \/ UNCHANGED <<seqId, candidates>>
         \/ /\ seqId' = sid
            /\ \/ candidates' = NotWorseThanTip(candidates \cup {b}, sid, tip)
               \/ ~Usable(b) /\ candidates' = candidates \ {b}
  BY DEF PreciousBlock, order
<1>2. seqId \in [Block -> Int] /\ Usable(tip) /\ tip \in Block /\ candidates \subseteq Block
  BY Ancestors DEF Basics, Types, TipInv, Clean, StoreInv, QueueInv, Usable
<1>3. \A c \in Block \ {b} : sid[c] = seqId[c]
  BY <1>2
<1> HIDE DEF sid
<1>4. CASE UNCHANGED <<seqId, candidates>>
  BY <1>1, <1>4 DEF SoundInv, Worse
<1>5. CASE seqId' = sid /\ candidates' = NotWorseThanTip(candidates \cup {b}, sid, tip)
  BY <1>1, <1>5 DEF NotWorseThanTip, SoundInv, Worse
<1>6. CASE seqId' = sid /\ ~Usable(b) /\ candidates' = candidates \ {b}
  <2>1. sid[tip] = seqId[tip]
    BY <1>2, <1>3, <1>6
  <2>2. ASSUME NEW c \in candidates' PROVE ~WorseBy(sid, c, tip)
    <3>1. ~WorseBy(seqId, c, tip) /\ sid[c] = seqId[c]
      BY <1>2, <1>3, <1>6, <2>2 DEF SoundInv, Worse
    <3> QED BY <2>1, <3>1, SameOrder
  <2> QED BY <1>1, <1>6, <2>2 DEF SoundInv, Worse
<1> QED BY <1>1, <1>4, <1>5, <1>6

LEMMA PrunedStays ==
  ASSUME [Next]_vars
  PROVE  havePruned' = havePruned \/ \E b \in Block : havePruned' /\ PruneOneBlockFile(b)
<1>1. CASE UNCHANGED vars \/ ActivateBestChain
  BY <1>1 DEF vars, ActivateBestChain, Enter, Lock, DropCandidate, NothingToDo, BeginStep,
              StepDisconnect, BeginConnect, ConnectTip, ConnectTipInvalid, ConnectTipUnreadable,
              Stepped
<1>2. CASE InvalidateBlock
  BY <1>2 DEF InvalidateBlock, InvalidateBegin, InvalidateDisconnect, InvalidateUnreadable,
              InvalidateMark
<1>3. CASE Arrival
  BY <1>3 DEF Arrival, AcceptBlockHeader, RejectDescendant, AcceptBlock
<1>4. CASE Command
  BY <1>4 DEF Command, ResetBlockFailureFlags, PreciousBlock, PruneOneBlockFile
<1> QED BY <1>1, <1>2, <1>3, <1>4 DEF Next

LEMMA SoundStep ==
  ASSUME Basics, SoundInv, [Next]_vars
  PROVE  SoundInv'
<1> SUFFICES ASSUME ~havePruned' PROVE SoundInv'
  BY DEF SoundInv
<1>1. ~havePruned /\ ~\E b \in Block : PruneOneBlockFile(b)
  <2>1. ~\E b \in Block : PruneOneBlockFile(b)
    BY DEF PruneOneBlockFile
  <2>2. havePruned' = havePruned
    BY <2>1, PrunedStays
  <2> QED BY <2>1, <2>2
<1>2. ASSUME UNCHANGED <<candidates, tip, seqId>> PROVE SoundInv'
  BY <1>1, <1>2 DEF SoundInv, Worse
<1>3. CASE UNCHANGED vars
  BY <1>2, <1>3 DEF vars, order, queues
<1>4. CASE Arrival
  <2>1. PICK b \in Block \ {Genesis} :
          \/ AcceptBlockHeader(b) \/ RejectDescendant(b)
          \/ \E requested \in BOOLEAN : AcceptBlock(b, requested)
    BY <1>4 DEF Arrival
  <2>2. \/ UNCHANGED <<candidates, tip, seqId>>
        \/ /\ b \notin haveData /\ verdict[b] # "badBody" /\ ReceivedBlockTransactions(b)
           /\ tip' = tip
    BY <2>1 DEF AcceptBlockHeader, RejectDescendant, AcceptBlock, Wanted, order, queues
  <2> QED BY <1>1, <1>2, <2>2, SoundReceives
<1>5. CASE Command
  <2>1. PICK b \in Block : ResetBlockFailureFlags(b) \/ PreciousBlock(b)
    BY <1>1, <1>5 DEF Command
  <2>2. CASE ResetBlockFailureFlags(b)
    <3>1. /\ tip' = tip /\ seqId' = seqId
          /\ \A c \in candidates' : c \in candidates \/ (c \in index /\ Worse(tip, c))
      BY <2>2 DEF ResetBlockFailureFlags, FailedBelow, Extends, order
    <3>2. seqId \in [Block -> Int] /\ tip \in Block /\ index \subseteq Block
      BY FoundType DEF Basics, Active, Types, StoreInv
    <3>3. \A c \in candidates' : ~Worse(c, tip)
      BY <1>1, <3>1, <3>2, WorseOrder DEF SoundInv, Worse
    <3> QED BY <3>1, <3>3 DEF SoundInv, Worse
  <2> QED BY <1>1, <2>1, <2>2, SoundPrefers
<1> QED BY <1>1, <1>3, <1>4, <1>5, SoundMoves DEF Next

(* While nothing was pruned CheckBlockIndex finds no candidate that sorts  *)
(* before the tip or has an ancestor that was never linked, and after a    *)
(* step of ActivateBestChain the tip, or the block it works towards, is    *)
(* left among the candidates.                                              *)
THEOREM CandidatesStaySound == Spec => [](~havePruned => CandidatesSound)
<1>1. Init => SoundInv
  <2> SUFFICES ASSUME Init PROVE SoundInv
    OBVIOUS
  <2>1. Basics
    BY BasicsInit
  <2>2. candidates = {tip} /\ tip \in Block /\ seqId \in [Block -> Int]
    BY <2>1, TreeTypes DEF Init, Basics, Types
  <2>3. ~Worse(tip, tip)
    BY <2>2, WorseOrder DEF Worse
  <2> QED BY <2>2, <2>3 DEF SoundInv
<1>2. Basics /\ SoundInv => (~havePruned => CandidatesSound)
  <2> SUFFICES ASSUME Basics, SoundInv, ~havePruned PROVE CandidatesSound
    OBVIOUS
  <2>1. \A b \in candidates : ~Worse(b, tip) /\ AllIn(b, received \cap linked)
    BY DEF Basics, QueueInv, StoreInv, SoundInv, AllIn
  <2>2. abc.pc = "stepped" /\ abc.mostWork # NoBlock =>
          abc.mostWork \in candidates /\ tip \in Anc[abc.mostWork]
    BY DEF Basics, GoalInv
  <2> QED BY <2>1, <2>2 DEF CandidatesSound
<1> QED BY <1>1, <1>2, BasicsHold, SoundStep, PTL DEF Spec

(* A node that does not prune numbers a block only while it is out of      *)
(* setBlockIndexCandidates, preciousblock apart.                           *)
THEOREM KeysStayStable ==
  ASSUME MaxPrune = 0
  PROVE  Spec => KeysStable
<1> DEFINE Kept == \/ \A b \in candidates \cap candidates' : seqId'[b] = seqId[b]
                   \/ seq'.lastWork # seq.lastWork \/ seq'.rev # seq.rev
                   \/ calls'.precious # calls.precious
<1>1. Init => ~havePruned
  BY DEF Init
<1>2. ASSUME Basics, ~havePruned, [Next]_vars PROVE ~havePruned' /\ (UNCHANGED vars \/ Kept)
  <2>1. ~\E b \in Block : PruneOneBlockFile(b)
    <3> SUFFICES ASSUME calls.prune < MaxPrune PROVE FALSE
      BY DEF PruneOneBlockFile
    <3>1. calls.prune \in Nat
      BY <1>2 DEF Basics, Types
    <3> QED BY <3>1, SMT
  <2>7. havePruned' = havePruned
    BY <1>2, <2>1, PrunedStays
  <2>8. ~havePruned'
    BY <1>2, <2>7
  <2> SUFFICES ASSUME ~UNCHANGED vars PROVE Kept
    BY <2>8
  <2>9. ASSUME seqId' = seqId PROVE Kept
    BY <2>9
  <2>3. CASE ActivateBestChain
    BY <2>3, <2>9
       DEF ActivateBestChain, Enter, Lock, DropCandidate, NothingToDo, BeginStep,
           StepDisconnect, BeginConnect, ConnectTip, ConnectTipInvalid, ConnectTipUnreadable,
           Stepped, order
  <2>4. CASE InvalidateBlock
    BY <2>4, <2>9 DEF InvalidateBlock, InvalidateBegin, InvalidateDisconnect,
                      InvalidateUnreadable, InvalidateMark, order
  <2>5. CASE Arrival
    <3>1. PICK b \in Block \ {Genesis} :
            \/ AcceptBlockHeader(b) \/ RejectDescendant(b)
            \/ \E requested \in BOOLEAN : AcceptBlock(b, requested)
      BY <2>5 DEF Arrival
    <3>2. \/ seqId' = seqId
          \/ b \notin haveData /\ verdict[b] # "badBody" /\ ReceivedBlockTransactions(b)
      BY <3>1 DEF AcceptBlockHeader, RejectDescendant, AcceptBlock, Wanted, order
    <3>3. ASSUME b \notin haveData, verdict[b] # "badBody", ReceivedBlockTransactions(b)
          PROVE  \A c \in candidates : seqId'[c] = seqId[c]
      BY <1>2, <3>3, FreshNumbers DEF Basics, QueueInv
    <3> QED BY <2>9, <3>2, <3>3
  <2>6. CASE Command
    <3>1. PICK b \in Block : ResetBlockFailureFlags(b) \/ PreciousBlock(b)
      BY <2>1, <2>6 DEF Command
    <3>2. CASE ResetBlockFailureFlags(b)
      BY <2>9, <3>2 DEF ResetBlockFailureFlags, order
    <3>3. CASE PreciousBlock(b)
      <4>1. calls' = [calls EXCEPT !.precious = @ + 1]
        BY <3>3 DEF PreciousBlock
      <4>2. calls'.precious = calls.precious + 1 /\ calls.precious \in Nat
        BY <1>2, <4>1 DEF Basics, Types
      <4>3. calls'.precious # calls.precious
        BY <4>2, SMT
      <4> QED BY <4>3
    <3> QED BY <3>1, <3>2, <3>3
  <2> QED BY <1>2, <2>3, <2>4, <2>5, <2>6 DEF Next
<1>3. UNCHANGED vars \/ Kept => [\/ \A b \in candidates \cap candidates' : seqId'[b] = seqId[b]
                      \/ seq'.lastWork # seq.lastWork \/ seq'.rev # seq.rev
                      \/ calls'.precious # calls.precious]_vars
  OBVIOUS
<1> HIDE DEF Kept
<1> QED BY <1>1, <1>2, <1>3, BasicsHold, PTL DEF Spec, KeysStable

-----------------------------------------------------------------------------
(* The candidates are complete, and cs_main is released with progress.     *)

(* The tip that ActivateBestChain found when it took cs_main is on a clean *)
(* chain of valid blocks, and until a step has connected a block the tip   *)
(* is no better.                                                           *)
LockInv ==
  ~CsMainFree =>
    /\ abc.start \in linked /\ NoInvalidAncestor(abc.start)
    /\ \A a \in Anc[abc.start] : verdict[a] = "ok"
    /\ abc.pc \in {"find", "disconnect"} => ~Worse(abc.start, tip)
    /\ abc.pc = "find" /\ ~abc.moved => tip = abc.start

(* The steps of other threads find cs_main free, pruning apart.            *)
LEMMA OthersWait ==
  ASSUME Basics, Next, ~ActivateBestChain
  PROVE  abc' = abc /\ (CsMainFree \/ \E b \in Block : PruneOneBlockFile(b))
<1>1. CASE InvalidateBlock
  <2>1. CASE \E b \in Block : InvalidateBegin(b)
    BY <2>1 DEF InvalidateBegin, ChainstateFree, CsMainFree
  <2>2. CASE InvalidateDisconnect \/ InvalidateUnreadable \/ InvalidateMark
    BY <2>2 DEF InvalidateDisconnect, InvalidateUnreadable, InvalidateMark, Basics, WalkInv, CsMainFree
  <2> QED BY <1>1, <2>1, <2>2 DEF InvalidateBlock
<1>2. CASE Arrival
  BY <1>2 DEF Arrival, AcceptBlockHeader, RejectDescendant, AcceptBlock, control
<1>3. CASE Command
  <2>1. PICK b \in Block : ResetBlockFailureFlags(b) \/ PreciousBlock(b) \/ PruneOneBlockFile(b)
    BY <1>3 DEF Command
  <2> QED BY <2>1 DEF ResetBlockFailureFlags, PreciousBlock, PruneOneBlockFile
<1> QED BY <1>1, <1>2, <1>3 DEF Next

LEMMA LockStep ==
  ASSUME Basics, LockInv, [Next]_vars
  PROVE  LockInv'
<1> SUFFICES ASSUME ~CsMainFree' PROVE LockInv'
  BY DEF LockInv
<1>1. abc \in Locals /\ seqId \in [Block -> Int] /\ tip \in Block /\ StoreInv
  BY FoundType DEF Basics, Active, Types
<1>2. ASSUME UNCHANGED <<abc, tip, seqId, linked, verdict, failedValid>> PROVE LockInv'
  BY <1>2 DEF LockInv, CsMainFree, NoInvalidAncestor, Worse
<1>3. CASE UNCHANGED vars
  BY <1>2, <1>3 DEF vars, store, flags, order, control
<1>4. CASE Next /\ ~ActivateBestChain
  <2>1. \E b \in Block : PruneOneBlockFile(b)
    BY <1>4, OthersWait DEF CsMainFree
  <2> QED BY <1>2, <2>1 DEF PruneOneBlockFile, flags, order
<1>5. CASE ActivateBestChain
  <2>1. verdict' = verdict /\ linked' = linked /\ seqId' = seqId
    BY <1>5 DEF ActivateBestChain, Enter, Lock, DropCandidate, NothingToDo, BeginStep,
                StepDisconnect, BeginConnect, ConnectTip, ConnectTipInvalid, ConnectTipUnreadable,
                Stepped, store, order
  <2>2. ASSUME ~CsMainFree, abc'.start = abc.start, failedValid' = failedValid,
               abc'.pc \in {"find", "disconnect"} => ~Worse(abc.start, tip'),
               abc'.pc = "find" /\ ~abc'.moved => tip' = abc.start
        PROVE  LockInv'
    BY <2>1, <2>2 DEF LockInv, NoInvalidAncestor, Worse
  <2>3. CASE Enter
    <3>1. abc' = [abc EXCEPT !.pc = "unlocked"]
      BY <2>3 DEF Enter
    <3> QED BY <1>1, <3>1 DEF CsMainFree, Locals
  <2>4. CASE Lock
    <3>1. abc' = [abc EXCEPT !.pc = "find", !.start = tip, !.moved = FALSE]
          /\ tip' = tip /\ failedValid' = failedValid
      BY <2>4 DEF Lock, flags
    <3>2. abc'.start = tip
      BY <1>1, <3>1 DEF Locals
    <3>3. ~Worse(tip, tip)
      BY <1>1, WorseOrder DEF Worse
    <3>4. /\ tip \in linked /\ NoInvalidAncestor(tip) /\ \A a \in Anc[tip] : verdict[a] = "ok"
      BY DEF Basics, TipInv, Clean, NoInvalidAncestor, Failed
    <3>5. abc'.start \in linked' /\ NoInvalidAncestor(abc.start)'
      <4>1. failedValid' = failedValid
        BY <3>1
      <4> QED BY <2>1, <3>2, <3>4, <4>1 DEF NoInvalidAncestor
    <3>7. \A a \in Anc[abc'.start] : verdict'[a] = "ok"
      BY <2>1, <3>2, <3>4
    <3>6. ~Worse(abc.start, tip)' /\ tip' = abc'.start
      BY <2>1, <3>1, <3>2, <3>3 DEF Worse
    <3> QED BY <3>5, <3>6, <3>7 DEF LockInv
  <2>5. CASE DropCandidate
    BY <1>2, <2>1, <2>5 DEF DropCandidate, control
  <2>6. CASE NothingToDo
    <3>1. abc' = IdleABC \/ abc' = Unlocked(Found)
      BY <2>6 DEF NothingToDo
    <3>2. IdleABC.pc = "idle" /\ Unlocked(Found).pc \in {"idle", "unlocked"}
      BY <1>1, IdleFacts, UnlockedGoal, TreeTypes DEF Basics
    <3> QED BY <3>1, <3>2 DEF CsMainFree
  <2>7. CASE BeginStep
    <3>1. /\ abc.pc = "find" /\ tip' = tip /\ failedValid' = failedValid
          /\ abc' = [abc EXCEPT !.pc = "disconnect", !.mostWork = Found, !.old = tip]
      BY <2>7 DEF BeginStep, flags
    <3>2. abc'.start = abc.start /\ abc'.pc = "disconnect"
      BY <1>1, <3>1 DEF Locals
    <3>3. ~CsMainFree /\ ~Worse(abc.start, tip)
      BY <3>1 DEF CsMainFree, LockInv
    <3> QED BY <2>2, <3>1, <3>2, <3>3
  <2>8. CASE StepDisconnect
    <3>1. /\ abc.pc = "disconnect" /\ tip \notin Anc[abc.mostWork] /\ failedValid' = failedValid
          /\ (tip' = Parent[tip] /\ abc' = abc) \/ abc' = IdleABC
      BY <2>8 DEF StepDisconnect, flags
    <3>2. abc' # IdleABC
      BY IdleFacts DEF CsMainFree, Basics
    <3>3. ~CsMainFree /\ ~Worse(abc.start, tip) /\ abc.start \in linked
      BY <3>1 DEF CsMainFree, LockInv
    <3>4. abc.mostWork \in Block /\ abc.start \in Block
      BY <1>1, <3>1, <3>3 DEF Basics, GoalInv, Clean, StoreInv
    <3>5. Genesis \in Anc[abc.mostWork]
      BY <3>4, Ancestors
    <3>6. Parent[tip] \in Anc[tip] /\ Parent[tip] \in Block
      BY <1>1, <3>1, <3>5, Ancestors
    <3>7. ~Worse(tip, Parent[tip])
      BY <1>1, <3>6, NotWorseThanAncestor DEF Worse
    <3>8. ~Worse(abc.start, Parent[tip])
      BY <1>1, <3>3, <3>4, <3>6, <3>7, WorseTransitive DEF Worse
    <3> QED BY <2>2, <3>1, <3>2, <3>3, <3>8
  <2>9. CASE BeginConnect
    <3>1. /\ abc.pc = "disconnect" /\ failedValid' = failedValid
          /\ abc' = [abc EXCEPT !.pc = "connect"]
      BY <2>9 DEF BeginConnect, flags
    <3>2. abc'.start = abc.start /\ abc'.pc = "connect"
      BY <1>1, <3>1 DEF Locals
    <3> QED BY <2>2, <3>1, <3>2 DEF CsMainFree
  <2>10. CASE ConnectTip
    <3>1. /\ abc.pc = "connect" /\ failedValid' = failedValid
          /\ abc' = [abc EXCEPT !.pc = "stepped"] \/ abc' = abc
      BY <2>10 DEF ConnectTip, flags
    <3>2. abc'.start = abc.start /\ abc'.pc \in {"connect", "stepped"}
      BY <1>1, <3>1 DEF Locals
    <3> QED BY <2>2, <3>1, <3>2 DEF CsMainFree
  <2>11. CASE ConnectTipInvalid
    <3>1. /\ abc.pc = "connect" /\ failedValid' = failedValid \cup {NextToConnect}
          /\ verdict[NextToConnect] # "ok"
          /\ abc' = [abc EXCEPT !.pc = "stepped", !.mostWork = NoBlock]
      BY <2>11 DEF ConnectTipInvalid
    <3>2. abc'.start = abc.start /\ abc'.pc = "stepped"
      BY <1>1, <3>1 DEF Locals
    <3>3. /\ abc.start \in linked /\ NoInvalidAncestor(abc.start)
          /\ \A a \in Anc[abc.start] : verdict[a] = "ok"
      BY <3>1 DEF LockInv, CsMainFree
    <3>4. Anc[abc.start] \cap failedValid' = {}
      BY <3>1, <3>3 DEF NoInvalidAncestor
    <3> QED BY <2>1, <3>2, <3>3, <3>4 DEF LockInv, NoInvalidAncestor
  <2>12. CASE ConnectTipUnreadable
    BY <2>12, IdleFacts DEF ConnectTipUnreadable, CsMainFree, Basics
  <2>13. CASE Stepped
    <3>1. /\ abc.pc = "stepped" /\ tip' = tip /\ failedValid' = failedValid
          /\ \/ /\ Worse(tip, abc.start)
                /\ abc' = [abc EXCEPT !.pc = "find", !.moved = TRUE]
             \/ abc' = Unlocked(abc.mostWork)
      BY <2>13 DEF Stepped, WorseThanAtLock, flags
    <3>2. Unlocked(abc.mostWork).pc \in {"idle", "unlocked"}
      BY <1>1, UnlockedGoal, TreeTypes DEF Basics
    <3>3. Worse(tip, abc.start) /\ abc' = [abc EXCEPT !.pc = "find", !.moved = TRUE]
      BY <3>1, <3>2 DEF CsMainFree
    <3>4. abc'.start = abc.start /\ abc'.moved = TRUE
      BY <1>1, <3>3 DEF Locals
    <3>5. abc.start \in Block /\ ~CsMainFree
      BY <1>1, <3>1 DEF LockInv, CsMainFree, StoreInv
    <3>6. ~Worse(abc.start, tip)
      BY <1>1, <3>3, <3>5, WorseOrder DEF Worse
    <3> QED BY <2>2, <3>1, <3>4, <3>5, <3>6
  <2> QED BY <1>5, <2>3, <2>4, <2>5, <2>6, <2>7, <2>8, <2>9, <2>10, <2>11, <2>12, <2>13, ZenonT(30)
          DEF ActivateBestChain
<1> QED BY <1>3, <1>4, <1>5

(* Before the first preciousblock all sequence numbers come from           *)
(* nBlockSequenceId.                                                       *)
PlainOrder == calls.precious = 0 => seq.rev = -1 /\ \A b \in Block : seqId[b] >= 0

LEMMA PlainStep ==
  ASSUME Basics, PlainOrder, [Next]_vars
  PROVE  PlainOrder'
<1> SUFFICES ASSUME calls'.precious = 0 PROVE PlainOrder'
  BY DEF PlainOrder
<1>1. calls.precious = 0 /\ ~\E b \in Block : PreciousBlock(b)
  <2>1. calls.precious \in Nat
    BY Counted DEF Basics
  <2>2. ASSUME NEW b \in Block, PreciousBlock(b) PROVE FALSE
    <3>1. calls'.precious = calls.precious + 1
      BY <2>2 DEF PreciousBlock, Basics, Types
    <3> QED BY <2>1, <3>1, SMT
  <2>3. ASSUME NEW b \in Block, ResetBlockFailureFlags(b) PROVE calls'.precious = calls.precious
    BY <2>3 DEF ResetBlockFailureFlags, Basics, Types
  <2>4. calls'.precious = calls.precious
    BY <2>2, <2>3, Counted DEF Basics
  <2> QED BY <2>2, <2>4
<1>2. ASSUME UNCHANGED <<seq, seqId>> PROVE PlainOrder'
  BY <1>1, <1>2 DEF PlainOrder
<1>3. CASE UNCHANGED vars
  BY <1>2, <1>3 DEF vars, order
<1>4. CASE ActivateBestChain
  BY <1>2, <1>4
     DEF ActivateBestChain, Enter, Lock, DropCandidate, NothingToDo, BeginStep, StepDisconnect,
         BeginConnect, ConnectTip, ConnectTipInvalid, ConnectTipUnreadable, Stepped, order
<1>5. CASE InvalidateBlock
  BY <1>2, <1>5 DEF InvalidateBlock, InvalidateBegin, InvalidateDisconnect, InvalidateUnreadable,
                    InvalidateMark, order
<1>6. CASE Arrival
  <2>1. PICK b \in Block \ {Genesis} :
          \/ AcceptBlockHeader(b) \/ RejectDescendant(b)
          \/ \E requested \in BOOLEAN : AcceptBlock(b, requested)
    BY <1>6 DEF Arrival
  <2>2. UNCHANGED <<seq, seqId>> \/ ReceivedBlockTransactions(b)
    BY <2>1 DEF AcceptBlockHeader, RejectDescendant, AcceptBlock, order
  <2>3. ASSUME ReceivedBlockTransactions(b) PROVE PlainOrder'
    <3>1. /\ seq'.rev = seq.rev /\ seqId' \in [Block -> Int]
          /\ \A c \in Block \ Linkable(b) : seqId'[c] = seqId[c]
          /\ \A c \in Linkable(b) : seqId'[c] >= seq.next
      BY <2>3, Numbered DEF Basics
    <3>2. seq.next \in Nat
      BY DEF Basics, Types
    <3>3. ASSUME NEW c \in Block, seqId'[c] >= seq.next PROVE seqId'[c] >= 0
      <4>1. seqId'[c] \in Int
        BY <3>1
      <4> QED BY <3>2, <3>3, <4>1, SMT
    <3> QED BY <1>1, <3>1, <3>3 DEF PlainOrder
  <2> QED BY <1>2, <2>2, <2>3
<1>7. CASE Command
  <2>1. PICK b \in Block : ResetBlockFailureFlags(b) \/ PruneOneBlockFile(b)
    BY <1>1, <1>7 DEF Command
  <2> QED BY <1>2, <2>1 DEF ResetBlockFailureFlags, PruneOneBlockFile, order
<1> QED BY <1>3, <1>4, <1>5, <1>6, <1>7 DEF Next

(* reconsiderblock, a second preciousblock and pruning are the three that  *)
(* can lose candidates.                                                    *)
Untouched == calls.reconsider = 0 /\ calls.precious <= 1 /\ ~havePruned

LEMMA UntouchedBefore ==
  ASSUME Basics, [Next]_vars, Untouched'
  PROVE  /\ Untouched
         /\ \A b \in Block : ~PruneOneBlockFile(b) /\ ~ResetBlockFailureFlags(b)
         /\ \A b \in Block : PreciousBlock(b) => calls.precious = 0
<1>1. calls.reconsider \in Nat /\ calls.precious \in Nat
  BY Counted DEF Basics
<1>2. \A b \in Block : ~PruneOneBlockFile(b)
  BY DEF Untouched, PruneOneBlockFile
<1>3. havePruned' = havePruned
  BY <1>2, PrunedStays
<1>4. ASSUME NEW b \in Block, ResetBlockFailureFlags(b) PROVE FALSE
  <2>1. calls'.reconsider = calls.reconsider + 1 /\ calls'.reconsider = 0
    BY <1>4 DEF ResetBlockFailureFlags, Untouched, Basics, Types
  <2> QED BY <1>1, <2>1, SMT
<1>5. ASSUME NEW b \in Block, PreciousBlock(b)
      PROVE  calls.precious = 0 /\ calls'.reconsider = calls.reconsider
  <2>1. calls'.precious = calls.precious + 1 /\ calls'.reconsider = calls.reconsider
    BY <1>5 DEF PreciousBlock, Basics, Types
  <2>2. calls'.precious <= 1
    BY DEF Untouched
  <2> QED BY <1>1, <2>1, <2>2, SMT
<1>6. 0 <= 1
  BY SMT
<1>7. calls.reconsider = 0 /\ calls.precious <= 1
  BY <1>4, <1>5, <1>6, Counted DEF Untouched, Basics
<1> QED BY <1>2, <1>3, <1>4, <1>5, <1>7 DEF Untouched

(* What CheckBlockIndex asks of the candidates holds while cs_main is held *)
(* too, of the blocks no worse than the tip at the time it was taken:      *)
(* ConnectTip drops candidates that are worse than a tip which a failing   *)
(* step may leave again, but never one of these.                           *)
InPlay(b) ==
  /\ b \in linked /\ NoInvalidAncestor(b)
  /\ ~Worse(b, tip)
  /\ ~CsMainFree => ~Worse(b, abc.start)

CompleteInv ==
  Untouched /\ ~aborted =>
    /\ inv.pc = "idle" => \A b \in linked : InPlay(b) => b \in candidates
    /\ ~CsMainFree /\ abc.mostWork # NoBlock => ~Worse(abc.mostWork, abc.start)

(* What ActivateBestChain compares.                                        *)
LEMMA Compared ==
  ASSUME Basics
  PROVE  /\ seqId \in [Block -> Int] /\ tip \in Block /\ tip \in linked /\ linked \subseteq Block
         /\ candidates \subseteq Block /\ IsFiniteSet(candidates)
         /\ abc.pc # "idle" => inv.pc = "idle"
<1>1. seqId \in [Block -> Int] /\ inv \in Walks
  BY DEF Basics, Types
<1>2. tip \in Block /\ tip \in linked /\ linked \subseteq Block
  BY DEF Basics, TipInv, Clean, StoreInv
<1>3. candidates \subseteq Block /\ IsFiniteSet(candidates)
  BY FS_Subset DEF Basics, StoreInv, QueueInv
<1>4. abc.pc # "idle" => inv.pc = "idle"
  BY <1>1 DEF Basics, WalkInv, Walks
<1> QED BY <1>1, <1>2, <1>3, <1>4

LEMMA StartIsCandidate ==
  ASSUME Basics, LockInv, CompleteInv, Untouched, ~aborted, abc.pc = "find"
  PROVE  abc.start \in candidates /\ abc.start \in Block
<1>1. ~CsMainFree
  BY DEF CsMainFree
<1>2. abc.start \in linked /\ NoInvalidAncestor(abc.start) /\ ~Worse(abc.start, tip)
  BY <1>1 DEF LockInv
<1>3. abc.start \in Block
  BY <1>2, Compared
<1>4. ~Worse(abc.start, abc.start)
  BY <1>3, Compared, WorseOrder DEF Worse
<1>5. inv.pc = "idle"
  BY Compared
<1> QED BY <1>2, <1>3, <1>4, <1>5 DEF CompleteInv, InPlay

(* FindMostWorkChain finds a block no worse than the tip at the time       *)
(* cs_main was taken.                                                      *)
LEMMA FoundNotWorse ==
  ASSUME Basics, LockInv, CompleteInv, Untouched, ~aborted, abc.pc = "find", FindDone
  PROVE  Found # NoBlock /\ ~Worse(Found, abc.start)
<1>1. abc.start \in candidates /\ abc.start \in Block
  BY StartIsCandidate
<1>2. CASE abc.mostWork # NoBlock
  BY <1>2 DEF Found, CompleteInv, CsMainFree
<1>3. CASE abc.mostWork = NoBlock
  <2>1. Found = Best(candidates)
    BY <1>1, <1>3 DEF Found
  <2>2. Best(candidates) \in candidates /\ ~Worse(Best(candidates), abc.start)
    BY <1>1, Compared, BestOf
  <2>3. Best(candidates) \in Block
    BY <2>2, Compared
  <2> QED BY <2>1, <2>2, <2>3, TreeTypes
<1> QED BY <1>2, <1>3

(* So when cs_main is released the tip is no worse.                        *)
LEMMA ProgressMade ==
  ASSUME Basics, LockInv, CompleteInv, Untouched, ~aborted,
         NothingToDo \/ (Stepped /\ CsMainFree')
  PROVE  ~Worse(tip, abc.start)
<1>1. CASE NothingToDo
  <2>1. abc.pc = "find" /\ FindDone /\ Found \in {NoBlock, tip}
    BY <1>1 DEF NothingToDo
  <2> QED BY <2>1, FoundNotWorse
<1>2. CASE Stepped /\ CsMainFree'
  <2>1. Worse(tip, abc.start) => abc' = [abc EXCEPT !.pc = "find", !.moved = TRUE]
    BY <1>2 DEF Stepped, WorseThanAtLock
  <2>2. abc \in Locals
    BY DEF Basics, Types
  <2>3. Worse(tip, abc.start) => abc'.pc = "find"
    BY <2>1, <2>2 DEF Locals
  <2> QED BY <1>2, <2>3 DEF CsMainFree
<1> QED BY <1>1, <1>2

(* Steps of ActivateBestChain.                                             *)
LEMMA CompleteMoves ==
  ASSUME Basics, CauseInv, LockInv, CompleteInv, Untouched, ~aborted, ~aborted',
         ActivateBestChain
  PROVE  CompleteInv'
<1>1. abc \in Locals /\ seqId \in [Block -> Int] /\ tip \in Block /\ linked \subseteq Block
  BY Compared DEF Basics, Types
<1>2. seqId' = seqId /\ linked' = linked /\ inv' = inv
  BY DEF ActivateBestChain, Enter, Lock, DropCandidate, NothingToDo, BeginStep, StepDisconnect,
         BeginConnect, ConnectTip, ConnectTipInvalid, ConnectTipUnreadable, Stepped, store, order,
         control
<1>3. inv.pc = "idle"
  <2>1. inv.pc = "idle" \/ abc.pc # "idle"
    BY DEF ActivateBestChain, Enter, Lock, DropCandidate, NothingToDo, BeginStep, StepDisconnect,
           BeginConnect, ConnectTip, ConnectTipInvalid, ConnectTipUnreadable, Stepped,
           ChainstateFree
  <2> QED BY <2>1, Compared
<1>4. \A b \in linked : InPlay(b) => b \in candidates
  BY <1>3 DEF CompleteInv
<1> DEFINE Mine == \A b \in linked :
             /\ Anc[b] \cap failedValid' = {} /\ ~Worse(b, tip')
             /\ ~CsMainFree' => ~Worse(b, abc'.start)
             => b \in candidates'
           Goal == ~CsMainFree' /\ abc'.mostWork # NoBlock => ~Worse(abc'.mostWork, abc'.start)
<1>5. ASSUME Mine, Goal PROVE CompleteInv'
  BY <1>2, <1>5 DEF CompleteInv, InPlay, NoInvalidAncestor, Worse
<1>6. CASE Enter
  <2>1. /\ abc' = [abc EXCEPT !.pc = "unlocked"] /\ abc.pc = "idle"
        /\ UNCHANGED <<tip, failedValid, candidates>>
    BY <1>6 DEF Enter, ChainstateFree, flags, queues
  <2>2. CsMainFree /\ CsMainFree'
    BY <1>1, <2>1 DEF CsMainFree, Locals
  <2>3. Mine
    BY <1>4, <2>1, <2>2 DEF InPlay, NoInvalidAncestor
  <2> QED BY <1>5, <2>2, <2>3
<1>7. CASE Lock
  <2>1. /\ abc' = [abc EXCEPT !.pc = "find", !.start = tip, !.moved = FALSE] /\ abc.pc = "unlocked"
        /\ UNCHANGED <<tip, failedValid, candidates>>
    BY <1>7 DEF Lock, flags, queues
  <2>2. CsMainFree /\ abc'.start = tip /\ abc'.mostWork = abc.mostWork
    BY <1>1, <2>1 DEF CsMainFree, Locals
  <2>3. Mine
    BY <1>4, <2>1, <2>2 DEF InPlay, NoInvalidAncestor
  <2>4. ASSUME abc.mostWork # NoBlock PROVE ~Worse(abc.mostWork, tip)
    <3>1. abc.mostWork \in Block /\ tip \in Anc[abc.mostWork]
      BY <1>1, <2>1, <2>4 DEF Basics, GoalInv, Clean
    <3> QED BY <1>1, <3>1, NotWorseThanAncestor DEF Worse
  <2>5. Goal
    BY <2>2, <2>4
  <2> QED BY <1>5, <2>3, <2>5
<1>8. CASE DropCandidate
  <2> DEFINE new == Best(candidates)
             test == Topmost(Unusable(new))
             above == Anc[new] \ Anc[test]
  <2>1. /\ candidates # {} /\ Unusable(new) # {}
        /\ candidates' = candidates \ (above \cup {test})
        /\ UNCHANGED <<tip, failedValid, abc>>
    BY <1>8 DEF DropCandidate, control
  <2>2. /\ test \in Block /\ test \in linked /\ (test \in Failed \/ test \notin haveData)
        /\ \A d \in above : test \in Anc[d]
    BY <1>1, <2>1, Dropped DEF Basics
  <2>3. test \in Failed
    BY <2>2 DEF Untouched, Basics, StoreInv
  <2>4. test \in Anc[test]
    BY <2>2, Ancestors
  <2>5. \A d \in above \cup {test} : test \in Anc[d]
    BY <2>2, <2>4
  <2>6. \A b \in linked : NoInvalidAncestor(b) => Anc[b] \cap Failed = {}
    BY <1>1, Marked DEF Untouched
  <2> HIDE DEF test, above, new
  <2>7. ASSUME NEW b \in linked, NoInvalidAncestor(b) PROVE b \notin above \cup {test}
    BY <2>3, <2>5, <2>6, <2>7
  <2>8. Mine
    <3> SUFFICES ASSUME NEW b \in linked, Anc[b] \cap failedValid' = {}, ~Worse(b, tip'),
                        ~CsMainFree' => ~Worse(b, abc'.start)
                 PROVE  b \in candidates'
      OBVIOUS
    <3>1. NoInvalidAncestor(b) /\ InPlay(b)
      BY <2>1 DEF InPlay, NoInvalidAncestor, CsMainFree
    <3> QED BY <1>4, <2>1, <2>7, <3>1
  <2>9. Goal
    BY <2>1 DEF CompleteInv, CsMainFree
  <2> QED BY <1>5, <2>8, <2>9
<1>9. ASSUME CsMainFree', ~Worse(tip, abc.start), ~CsMainFree,
             UNCHANGED <<tip, failedValid, candidates>>
      PROVE  CompleteInv'
  <2>1. abc.start \in Block
    BY <1>1, <1>9 DEF LockInv
  <2>2. Mine
    <3> SUFFICES ASSUME NEW b \in linked, Anc[b] \cap failedValid' = {}, ~Worse(b, tip')
                 PROVE  b \in candidates'
      OBVIOUS
    <3>1. b \in Block /\ ~Worse(b, tip)
      BY <1>1, <1>9
    <3>2. ~Worse(b, abc.start)
      BY <1>1, <1>9, <2>1, <3>1, WorseTransitive DEF Worse
    <3>3. InPlay(b)
      BY <1>9, <3>1, <3>2 DEF InPlay, NoInvalidAncestor
    <3> QED BY <1>4, <1>9, <3>3
  <2> QED BY <1>5, <1>9, <2>2
<1>10. CASE NothingToDo
  <2>1. /\ abc.pc = "find" /\ (abc' = IdleABC \/ abc' = Unlocked(Found))
        /\ UNCHANGED <<tip, failedValid, candidates>>
    BY <1>10 DEF NothingToDo, flags, queues
  <2>2. IdleABC.pc = "idle" /\ Unlocked(Found).pc \in {"idle", "unlocked"}
    BY <1>1, IdleFacts, UnlockedGoal, TreeTypes DEF Basics
  <2>3. CsMainFree' /\ ~CsMainFree
    BY <2>1, <2>2 DEF CsMainFree
  <2>4. ~Worse(tip, abc.start)
    BY <1>10, ProgressMade
  <2> QED BY <1>9, <2>1, <2>3, <2>4
<1>11. CASE BeginStep
  <2>1. /\ abc.pc = "find" /\ FindDone
        /\ abc' = [abc EXCEPT !.pc = "disconnect", !.mostWork = Found, !.old = tip]
        /\ UNCHANGED <<tip, failedValid, candidates>>
    BY <1>11 DEF BeginStep, flags, queues
  <2>2. /\ abc'.pc = "disconnect" /\ abc'.mostWork = Found /\ abc'.start = abc.start
    BY <1>1, <2>1 DEF Locals
  <2>3. ~CsMainFree /\ ~CsMainFree'
    BY <2>1, <2>2 DEF CsMainFree
  <2>4. ~Worse(Found, abc.start)
    BY <2>1, FoundNotWorse
  <2>5. Mine
    BY <1>4, <2>1, <2>2, <2>3 DEF InPlay, NoInvalidAncestor
  <2>6. Goal
    BY <2>2, <2>4
  <2> QED BY <1>5, <2>5, <2>6
<1>12. CASE StepDisconnect
  <2>1. /\ abc.pc = "disconnect" /\ tip \notin Anc[abc.mostWork] /\ tip' = Parent[tip] /\ abc' = abc
        /\ UNCHANGED <<failedValid, candidates>>
    BY <1>12 DEF StepDisconnect, flags, queues
  <2>2. ~CsMainFree /\ CsMainFree' = CsMainFree
    BY <2>1 DEF CsMainFree
  <2>3. ~Worse(abc.start, tip) /\ abc.start \in Block
    BY <1>1, <2>1, <2>2 DEF LockInv
  <2>4. Mine
    <3> SUFFICES ASSUME NEW b \in linked, Anc[b] \cap failedValid' = {}, ~Worse(b, abc.start)
                 PROVE  b \in candidates'
      BY <2>1, <2>2
    <3>1. ~Worse(b, tip)
      BY <1>1, <2>3, WorseTransitive DEF Worse
    <3>2. InPlay(b)
      BY <2>1, <3>1 DEF InPlay, NoInvalidAncestor
    <3> QED BY <1>4, <2>1, <3>2
  <2>5. Goal
    BY <2>1, <2>2 DEF CompleteInv
  <2> QED BY <1>5, <2>4, <2>5
<1>13. CASE BeginConnect
  <2>1. /\ abc.pc = "disconnect" /\ abc' = [abc EXCEPT !.pc = "connect"]
        /\ UNCHANGED <<tip, failedValid, candidates>>
    BY <1>13 DEF BeginConnect, flags, queues
  <2>2. abc'.pc = "connect" /\ abc'.mostWork = abc.mostWork /\ abc'.start = abc.start
    BY <1>1, <2>1 DEF Locals
  <2>3. ~CsMainFree /\ ~CsMainFree'
    BY <2>1, <2>2 DEF CsMainFree
  <2>4. Mine
    BY <1>4, <2>1, <2>2, <2>3 DEF InPlay, NoInvalidAncestor
  <2>5. Goal
    BY <2>2, <2>3 DEF CompleteInv
  <2> QED BY <1>5, <2>4, <2>5
<1>14. CASE ConnectTip
  <2> DEFINE new == NextToConnect
  <2>1. /\ abc.pc = "connect" /\ tip # abc.mostWork /\ tip' = new
        /\ candidates' = NotWorseThanTip(candidates, seqId, new)
        /\ abc' = [abc EXCEPT !.pc = "stepped"] \/ abc' = abc
        /\ failedValid' = failedValid
    BY <1>14 DEF ConnectTip, flags
  <2>2. new \in Block /\ Anc[new] = Anc[tip] \cup {new}
    BY <2>1, NextBlock DEF Basics
  <2> HIDE DEF new
  <2>3. abc'.pc \in {"connect", "stepped"} /\ abc'.mostWork = abc.mostWork /\ abc'.start = abc.start
    BY <1>1, <2>1 DEF Locals
  <2>4. ~CsMainFree /\ ~CsMainFree'
    BY <2>1, <2>3 DEF CsMainFree
  <2>5. ~Worse(new, tip)
    <3>1. tip \in Anc[new]
      BY <1>1, <2>2, Ancestors
    <3> QED BY <1>1, <2>2, <3>1, NotWorseThanAncestor DEF Worse
  <2>6. Mine
    <3> SUFFICES ASSUME NEW b \in linked, Anc[b] \cap failedValid' = {}, ~Worse(b, new),
                        ~Worse(b, abc.start)
                 PROVE  b \in candidates'
      BY <2>1, <2>3, <2>4
    <3>1. ~Worse(b, tip)
      BY <1>1, <2>2, <2>5, WorseTransitive DEF Worse
    <3>2. InPlay(b)
      BY <2>1, <3>1 DEF InPlay, NoInvalidAncestor
    <3> QED BY <1>4, <2>1, <3>2 DEF NotWorseThanTip, Worse
  <2>7. Goal
    BY <2>3, <2>4 DEF CompleteInv
  <2> QED BY <1>5, <2>6, <2>7
<1>15. CASE ConnectTipInvalid
  <2> DEFINE new == NextToConnect
  <2>1. /\ abc.pc = "connect" /\ failedValid' = failedValid \cup {new}
        /\ candidates' = candidates \ {new} /\ tip' = tip
        /\ abc' = [abc EXCEPT !.pc = "stepped", !.mostWork = NoBlock]
    BY <1>15 DEF ConnectTipInvalid
  <2> HIDE DEF new
  <2>2. abc'.mostWork = NoBlock /\ abc'.start = abc.start /\ abc'.pc = "stepped"
    BY <1>1, <2>1 DEF Locals
  <2>3. ~CsMainFree /\ ~CsMainFree'
    BY <2>1, <2>2 DEF CsMainFree
  <2>4. Mine
    <3> SUFFICES ASSUME NEW b \in linked, Anc[b] \cap failedValid' = {}, ~Worse(b, tip),
                        ~Worse(b, abc.start)
                 PROVE  b \in candidates'
      BY <2>1, <2>2, <2>3
    <3>1. b \in Anc[b]
      BY <1>1, Ancestors
    <3>2. b # new /\ InPlay(b)
      BY <2>1, <3>1 DEF InPlay, NoInvalidAncestor
    <3> QED BY <1>4, <2>1, <3>2
  <2>5. Goal
    BY <2>2
  <2> QED BY <1>5, <2>4, <2>5
<1>16. CASE ConnectTipUnreadable
  BY <1>16 DEF ConnectTipUnreadable
<1>17. CASE Stepped
  <2>1. /\ abc.pc = "stepped" /\ UNCHANGED <<tip, failedValid, candidates>>
        /\ \/ abc' = [abc EXCEPT !.pc = "find", !.moved = TRUE]
           \/ abc' = Unlocked(abc.mostWork)
    BY <1>17 DEF Stepped, flags, queues
  <2>2. ~CsMainFree
    BY <2>1 DEF CsMainFree
  <2>3. CASE CsMainFree'
    <3>1. ~Worse(tip, abc.start)
      BY <1>17, <2>3, ProgressMade
    <3> QED BY <1>9, <2>1, <2>2, <2>3, <3>1
  <2>4. CASE ~CsMainFree'
    <3>1. Unlocked(abc.mostWork).pc \in {"idle", "unlocked"}
      BY <1>1, UnlockedGoal, TreeTypes DEF Basics
    <3>2. abc' = [abc EXCEPT !.pc = "find", !.moved = TRUE]
      BY <2>1, <2>4, <3>1 DEF CsMainFree
    <3>3. abc'.mostWork = abc.mostWork /\ abc'.start = abc.start
      BY <1>1, <3>2 DEF Locals
    <3>4. Mine
      BY <1>4, <2>1, <2>2, <2>4, <3>3 DEF InPlay, NoInvalidAncestor
    <3>5. Goal
      BY <2>2, <3>3 DEF CompleteInv
    <3> QED BY <1>5, <3>4, <3>5
  <2> QED BY <2>3, <2>4
<1> QED BY <1>6, <1>7, <1>8, <1>10, <1>11, <1>12, <1>13, <1>14, <1>15, <1>16, <1>17, ZenonT(30)
        DEF ActivateBestChain

(* Steps of others.                                                        *)
LEMMA CompleteReceives ==
  ASSUME Basics, CompleteInv, Untouched, ~aborted, CsMainFree, NEW b \in Block \ {Genesis},
         b \notin haveData, verdict[b] # "badBody", ReceivedBlockTransactions(b),
         UNCHANGED <<tip, failedValid, abc, inv>>
  PROVE  CompleteInv'
<1>1. /\ \A c \in linked : seqId'[c] = seqId[c]
      /\ linked' = linked \cup Linkable(b)
      /\ candidates' = candidates \cup NotWorseThanTip(Linkable(b), seqId', tip)
  BY FreshNumbers, Numbered DEF Basics, Untouched
<1>2. CsMainFree'
  BY DEF CsMainFree
<1>3. ASSUME inv.pc = "idle", NEW c \in linked', Anc[c] \cap failedValid = {},
             ~WorseBy(seqId', c, tip)
      PROVE  c \in candidates'
  <2>1. CASE c \in Linkable(b)
    BY <1>1, <1>3, <2>1 DEF NotWorseThanTip
  <2>2. CASE c \in linked
    <3>1. tip \in linked
      BY Compared
    <3>2. ~Worse(c, tip)
      BY <1>1, <1>3, <2>2, <3>1, SameOrder DEF Worse
    <3>3. InPlay(c)
      BY <1>3, <2>2, <3>2 DEF InPlay, NoInvalidAncestor
    <3> QED BY <1>1, <1>3, <2>2, <3>3 DEF CompleteInv
  <2> QED BY <1>1, <1>3, <2>1, <2>2
<1> QED BY <1>2, <1>3 DEF CompleteInv, InPlay, NoInvalidAncestor, Worse

(* The first preciousblock: the block sorts before all others of its work. *)
LEMMA CompletePrefers ==
  ASSUME Basics, CauseInv, PlainOrder, CompleteInv, Untouched, ~aborted, calls.precious = 0,
         NEW b \in Block, PreciousBlock(b)
  PROVE  CompleteInv'
<1> DEFINE rev == IF Work[tip] > seq.lastWork THEN -1 ELSE seq.rev
           sid == [seqId EXCEPT ![b] = rev]
<1>1. /\ CsMainFree /\ UNCHANGED <<tip, linked, failedValid, abc, inv>>
      /\ \/ UNCHANGED <<seqId, candidates>>
         \/ /\ seqId' = sid
            /\ \/ candidates' = NotWorseThanTip(candidates \cup {b}, sid, tip)
               \/ ~Usable(b) /\ candidates' = candidates \ {b}
  BY DEF PreciousBlock, order, store, flags
<1>2. seqId \in [Block -> Int] /\ tip \in Block /\ tip \in linked /\ linked \subseteq Block
  BY Compared
<1>3. rev = -1
  BY DEF PlainOrder
<1>4. sid[b] = -1 /\ \A c \in Block \ {b} : sid[c] = seqId[c]
  BY <1>2, <1>3
<1> HIDE DEF sid, rev
<1>5. CsMainFree'
  BY <1>1 DEF CsMainFree
<1>6. \A c \in linked : NoInvalidAncestor(c) => Usable(c)
  <2>1. \A c \in linked : NoInvalidAncestor(c) => Anc[c] \cap Failed = {}
    BY <1>2, Marked DEF Untouched
  <2>2. \A c \in linked : c \in Anc[c] /\ c \in txValid
    BY <1>2, Ancestors DEF Basics, StoreInv
  <2> QED BY <2>1, <2>2 DEF Usable
<1>7. ASSUME NEW c \in Block, c # b, ~WorseBy(sid, c, tip) PROVE ~WorseBy(seqId, c, tip)
  <2>1. CASE b # tip
    BY <1>2, <1>4, <1>7, <2>1, SameOrder
  <2>2. CASE b = tip
    <3>1. seqId[c] >= 0 /\ seqId[c] \in Int /\ Work[c] \in Nat /\ Work[tip] \in Nat
      BY <1>2, TreeTypes DEF PlainOrder
    <3>2. sid[c] = seqId[c] /\ sid[tip] = -1
      BY <1>4, <1>7, <2>2
    <3>3. Work[tip] < Work[c]
      BY <1>7, <3>1, <3>2, SMT DEF WorseBy
    <3> QED BY <1>2, <3>3, WorseOrder
  <2> QED BY <2>1, <2>2
<1>8. ASSUME inv.pc = "idle", NEW c \in linked, Anc[c] \cap failedValid = {},
             ~WorseBy(seqId', c, tip)
      PROVE  c \in candidates'
  <2>1. NoInvalidAncestor(c) /\ Usable(c) /\ c \in Block
    BY <1>2, <1>6, <1>8 DEF NoInvalidAncestor
  <2>2. ASSUME ~WorseBy(seqId, c, tip) PROVE c \in candidates
    <3>1. InPlay(c)
      BY <1>1, <1>8, <2>1, <2>2 DEF InPlay, Worse
    <3> QED BY <1>8, <3>1 DEF CompleteInv
  <2>3. CASE UNCHANGED <<seqId, candidates>>
    BY <1>8, <2>2, <2>3
  <2>4. CASE seqId' = sid /\ candidates' = NotWorseThanTip(candidates \cup {b}, sid, tip)
    BY <1>7, <1>8, <2>1, <2>2, <2>4 DEF NotWorseThanTip
  <2>5. CASE seqId' = sid /\ ~Usable(b) /\ candidates' = candidates \ {b}
    BY <1>7, <1>8, <2>1, <2>2, <2>5
  <2> QED BY <1>1, <2>3, <2>4, <2>5
<1> QED BY <1>1, <1>5, <1>8 DEF CompleteInv, InPlay, NoInvalidAncestor, Worse

(* InvalidateBlock looks for the candidates it owes when it ends; it       *)
(* always gets there, because without pruning every tip can be             *)
(* disconnected.                                                           *)
LEMMA CompleteInvalidates ==
  ASSUME Basics, CauseInv, Untouched, ~aborted, InvalidateBlock
  PROVE  CompleteInv'
<1>1. inv \in Walks /\ tip \in Block /\ linked \subseteq Block
  BY Compared DEF Basics, Types
<1>2. abc' = abc
  BY DEF InvalidateBlock, InvalidateBegin, InvalidateDisconnect, InvalidateUnreadable,
         InvalidateMark
<1>3. CsMainFree /\ CsMainFree'
  <2>1. CsMainFree
    BY DEF InvalidateBlock, InvalidateBegin, InvalidateDisconnect, InvalidateUnreadable,
           InvalidateMark, ChainstateFree, Basics, WalkInv, CsMainFree
  <2> QED BY <1>2, <2>1 DEF CsMainFree
<1>4. ASSUME inv'.pc = "walk" PROVE CompleteInv'
  BY <1>3, <1>4 DEF CompleteInv
<1>5. CASE \E b \in Block : InvalidateBegin(b)
  <2>1. PICK b, S : inv' = [pc |-> "walk", block |-> b, mark |-> b, byWork |-> S]
    BY <1>5 DEF InvalidateBegin
  <2>2. inv'.pc = "walk"
    BY <2>1, SMT
  <2> QED BY <1>4, <2>2
<1>6. CASE InvalidateDisconnect
  <2>1. inv.pc = "walk" /\ \E S : inv' = [inv EXCEPT !.mark = tip, !.byWork = @ \ S]
    BY <1>6 DEF InvalidateDisconnect
  <2>2. inv'.pc = "walk"
    BY <1>1, <2>1 DEF Walks
  <2> QED BY <1>4, <2>2
<1>7. ~InvalidateUnreadable
  <2> SUFFICES ASSUME InvalidateUnreadable PROVE FALSE
    OBVIOUS
  <2>1. inv.pc = "walk" /\ inv.block \in Anc[tip] /\ ~CanDisconnect
    BY DEF InvalidateUnreadable
  <2>2. inv.block # Genesis
    BY <2>1 DEF Basics, WalkInv
  <2>3. tip # Genesis
    BY <2>1, <2>2, TreeAssumption
  <2>4. tip \in Anc[tip] /\ Anc[tip] \subseteq haveUndo \cup {Genesis}
    BY <1>1, Ancestors DEF Basics, TipInv, Untouched
  <2> QED BY <2>1, <2>3, <2>4 DEF CanDisconnect, Basics, StoreInv
<1>8. CASE InvalidateMark
  <2>1. /\ failedValid' = failedValid \cup {inv.mark}
        /\ candidates' = (candidates \ {inv.mark}) \cup
             {c \in index \ {inv.mark} : Usable(c) /\ ~Worse(c, tip)}
        /\ UNCHANGED <<linked, seqId, tip>>
    BY <1>8 DEF InvalidateMark, store, order
  <2>2. ASSUME NEW c \in linked, Anc[c] \cap failedValid' = {}, ~Worse(c, tip)
        PROVE  c \in candidates'
    <3>1. c \in Block /\ c \in Anc[c] /\ c \in index /\ c \in txValid
      BY <1>1, <2>2, Ancestors DEF Basics, StoreInv
    <3>2. c # inv.mark /\ NoInvalidAncestor(c)
      BY <2>1, <2>2, <3>1 DEF NoInvalidAncestor
    <3>3. Anc[c] \cap Failed = {}
      BY <3>1, <3>2, Marked DEF Untouched
    <3>4. Usable(c)
      BY <2>2, <3>1, <3>3 DEF Usable
    <3> QED BY <2>1, <2>2, <3>1, <3>2, <3>4
  <2> QED BY <1>3, <2>1, <2>2 DEF CompleteInv, InPlay, NoInvalidAncestor, Worse
<1> QED BY <1>5, <1>6, <1>7, <1>8 DEF InvalidateBlock

LEMMA CompleteStep ==
  ASSUME Basics, CauseInv, LockInv, PlainOrder, CompleteInv, [Next]_vars
  PROVE  CompleteInv'
<1> SUFFICES ASSUME Untouched', ~aborted' PROVE CompleteInv'
  BY DEF CompleteInv
<1>1. /\ Untouched
      /\ \A b \in Block : ~PruneOneBlockFile(b) /\ ~ResetBlockFailureFlags(b)
      /\ \A b \in Block : PreciousBlock(b) => calls.precious = 0
  BY UntouchedBefore
<1>2. ~aborted
  <2>1. CASE UNCHANGED vars
    <3>1. aborted' = aborted
      BY <2>1 DEF vars, control
    <3> QED BY <3>1
  <2>2. CASE ActivateBestChain \/ InvalidateBlock
    BY <2>2 DEF ActivateBestChain, Enter, Lock, DropCandidate, NothingToDo, BeginStep,
                StepDisconnect, BeginConnect, ConnectTip, ConnectTipInvalid, ConnectTipUnreadable,
                Stepped, InvalidateBlock, InvalidateBegin, InvalidateDisconnect,
                InvalidateUnreadable, InvalidateMark, Running
  <2>3. CASE Arrival \/ Command
    BY <2>3 DEF Arrival, AcceptBlockHeader, RejectDescendant, AcceptBlock, Command,
                ResetBlockFailureFlags, PreciousBlock, PruneOneBlockFile, Running
  <2> QED BY <2>1, <2>2, <2>3 DEF Next
<1>3. ASSUME UNCHANGED <<linked, tip, seqId, candidates, abc, inv>>, failedValid \subseteq failedValid'
      PROVE  CompleteInv'
  <2>1. CsMainFree' = CsMainFree
    BY <1>3 DEF CsMainFree
  <2> QED BY <1>1, <1>2, <1>3, <2>1 DEF CompleteInv, InPlay, NoInvalidAncestor, Worse
<1>4. CASE UNCHANGED vars
  BY <1>3, <1>4 DEF vars, store, flags, order, queues, control
<1>5. CASE Arrival
  <2>1. PICK b \in Block \ {Genesis} :
          \/ AcceptBlockHeader(b) \/ RejectDescendant(b)
          \/ \E requested \in BOOLEAN : AcceptBlock(b, requested)
    BY <1>5 DEF Arrival
  <2>2. CASE AcceptBlockHeader(b) \/ RejectDescendant(b)
    BY <1>3, <2>2 DEF AcceptBlockHeader, RejectDescendant, store, flags, order, queues, control
  <2>3. CASE \E requested \in BOOLEAN : AcceptBlock(b, requested)
    <3>1. /\ CsMainFree /\ UNCHANGED <<tip, abc, inv>>
          /\ \/ UNCHANGED <<linked, seqId, candidates>> /\ failedValid \subseteq failedValid'
             \/ /\ b \notin haveData /\ verdict[b] # "badBody" /\ ReceivedBlockTransactions(b)
                /\ failedValid' = failedValid
      BY <2>3 DEF AcceptBlock, Wanted, flags, order, queues
    <3> QED BY <1>1, <1>2, <1>3, <3>1, CompleteReceives
  <2> QED BY <2>1, <2>2, <2>3
<1>6. CASE Command
  <2>1. PICK b \in Block : PreciousBlock(b)
    BY <1>1, <1>6 DEF Command
  <2> QED BY <1>1, <1>2, <2>1, CompletePrefers
<1> QED BY <1>1, <1>2, <1>4, <1>5, <1>6, CompleteMoves, CompleteInvalidates, ZenonT(30) DEF Next

LEMMA CompleteHolds == Spec => [](Basics /\ CauseInv /\ LinkInv /\ LockInv /\ CompleteInv)
<1> DEFINE All == Basics /\ CauseInv /\ LinkInv /\ LockInv /\ PlainOrder /\ CompleteInv
<1>1. Init => All
  <2> SUFFICES ASSUME Init PROVE All
    OBVIOUS
  <2>1. Basics
    BY BasicsInit
  <2>2. CauseInv /\ LinkInv
    BY DEF Init, CauseInv, LinkInv
  <2>3. CsMainFree
    BY <2>1, IdleFacts DEF Init, CsMainFree, Basics
  <2>4. PlainOrder
    <3>1. seq.rev = -1
      BY DEF Init
    <3>2. 1 >= 0 /\ 0 >= 0
      BY SMT
    <3> QED BY <3>1, <3>2 DEF Init, PlainOrder
  <2>5. CompleteInv
    BY <2>3 DEF Init, CompleteInv
  <2> QED BY <2>1, <2>2, <2>3, <2>4, <2>5 DEF LockInv
<1>2. All /\ [Next]_vars => All'
  BY BasicsStep, CauseStep, LinkStep, LockStep, PlainStep, CompleteStep
<1> QED BY <1>1, <1>2, PTL DEF Spec

(* Wherever in invalidateblock blocks arrive, and whatever a first         *)
(* preciousblock prefers, CheckBlockIndex finds every valid block with the *)
(* data of its whole chain that is no worse than the tip among the         *)
(* candidates.                                                             *)
THEOREM NoCandidateIsLost == Spec => []InvalidateKeepsCandidates
<1>1. Basics /\ CauseInv /\ LinkInv /\ LockInv /\ CompleteInv => InvalidateKeepsCandidates
  <2> SUFFICES ASSUME Basics, CauseInv, LinkInv, CompleteInv, Untouched, CsMainFree, ~aborted,
                      inv.pc = "idle", NEW b \in index, ~Worse(b, tip), NoInvalidAncestor(b),
                      AllIn(b, haveData) \/ b = tip
               PROVE  b \in candidates
    BY DEF InvalidateKeepsCandidates, CandidatesComplete, Quiet, Untouched
  <2>1. b \in Block
    BY DEF Basics, StoreInv
  <2>2. CASE AllIn(b, haveData)
    <3>1. AllIn(b, haveData \cup linked)
      BY <2>2 DEF AllIn
    <3>2. b \in linked
      BY <2>1, <3>1, LinkedWhole DEF Untouched
    <3> QED BY <3>2 DEF CompleteInv, InPlay
  <2>3. CASE b = tip
    BY <2>3, Compared DEF CompleteInv, InPlay
  <2> QED BY <2>2, <2>3
<1> QED BY <1>1, CompleteHolds, PTL

(* Without reconsiderblock, pruning and a second preciousblock,            *)
(* ActivateBestChain never lets go of cs_main with a tip worse than the    *)
(* one it found, however many blocks of the chains it tried were invalid.  *)
THEOREM ProgressBeforeUnlock ==
  ASSUME MaxReconsider = 0, MaxPrecious <= 1, MaxPrune = 0
  PROVE  Spec => UnlockedWithProgress
<1> DEFINE Made == ~CsMainFree /\ CsMainFree' /\ ~aborted' => ~Worse(tip, abc.start)
<1>1. Init => Untouched
  <2> SUFFICES ASSUME Init PROVE Untouched
    OBVIOUS
  <2>1. calls.reconsider = 0 /\ calls.precious = 0 /\ 0 <= 1
    BY SMT DEF Init
  <2>2. ~havePruned
    BY DEF Init
  <2> QED BY <2>1, <2>2 DEF Untouched
<1>2. ASSUME Basics, Untouched, [Next]_vars PROVE Untouched'
  <2>1. calls.reconsider \in Nat /\ calls.precious \in Nat /\ calls.prune \in Nat
    BY <1>2 DEF Basics, Types
  <2>2. ASSUME NEW b \in Block PROVE ~PruneOneBlockFile(b) /\ ~ResetBlockFailureFlags(b)
    <3>1. ~(calls.prune < MaxPrune) /\ ~(calls.reconsider < MaxReconsider)
      BY <2>1, SMT
    <3> QED BY <3>1 DEF PruneOneBlockFile, ResetBlockFailureFlags
  <2>3. havePruned' = havePruned
    BY <1>2, <2>2, PrunedStays
  <2>4. ASSUME NEW b \in Block, PreciousBlock(b), calls'.precious = calls.precious + 1
        PROVE  calls'.precious <= 1
    <3>1. calls.precious < MaxPrecious /\ MaxPrecious \in Nat
      BY <2>4, BoundsAssumption DEF PreciousBlock
    <3> QED BY <2>1, <2>4, <3>1, SMT
  <2>5. calls'.reconsider = 0 /\ calls'.precious <= 1
    BY <1>2, <2>2, <2>4, Counted DEF Basics, Untouched
  <2> QED BY <1>2, <2>3, <2>5 DEF Untouched
<1>3. ASSUME Basics, LockInv, CompleteInv, Untouched, [Next]_vars PROVE UNCHANGED vars \/ Made
  <2> SUFFICES ASSUME Next, ~CsMainFree, CsMainFree', ~aborted' PROVE ~Worse(tip, abc.start)
    BY <1>3
  <2>1. ActivateBestChain
    BY <1>3, OthersWait DEF CsMainFree
  <2>2. abc \in Locals
    BY <1>3 DEF Basics, Types
  <2>3. ~aborted
    BY <2>1 DEF ActivateBestChain, Enter, Lock, DropCandidate, NothingToDo, BeginStep,
                StepDisconnect, BeginConnect, ConnectTip, ConnectTipInvalid, ConnectTipUnreadable,
                Stepped, Running
  <2>4. ASSUME abc' = abc PROVE FALSE
    BY <2>4 DEF CsMainFree
  <2>5. ASSUME abc'.pc \in {"find", "disconnect", "connect", "stepped"} PROVE FALSE
    BY <2>5 DEF CsMainFree
  <2>6. ~Enter /\ ~Lock
    BY DEF Enter, Lock, ChainstateFree, CsMainFree
  <2>7. ~DropCandidate
    BY <2>4 DEF DropCandidate, control
  <2>8. ~BeginStep
    <3> SUFFICES ASSUME BeginStep PROVE FALSE
      OBVIOUS
    <3>1. abc' = [abc EXCEPT !.pc = "disconnect", !.mostWork = Found, !.old = tip]
      BY DEF BeginStep
    <3>2. abc'.pc = "disconnect"
      BY <2>2, <3>1 DEF Locals
    <3> QED BY <2>5, <3>2
  <2>9. ~StepDisconnect
    BY <2>4 DEF StepDisconnect
  <2>10. ~BeginConnect
    <3> SUFFICES ASSUME BeginConnect PROVE FALSE
      OBVIOUS
    <3>1. abc' = [abc EXCEPT !.pc = "connect"]
      BY DEF BeginConnect
    <3>2. abc'.pc = "connect"
      BY <2>2, <3>1 DEF Locals
    <3> QED BY <2>5, <3>2
  <2>11. ~ConnectTip
    <3> SUFFICES ASSUME ConnectTip PROVE FALSE
      OBVIOUS
    <3>1. abc' = [abc EXCEPT !.pc = "stepped"] \/ abc' = abc
      BY DEF ConnectTip
    <3>2. [abc EXCEPT !.pc = "stepped"].pc = "stepped"
      BY <2>2 DEF Locals
    <3> QED BY <2>4, <2>5, <3>1, <3>2
  <2>12. ~ConnectTipInvalid
    <3> SUFFICES ASSUME ConnectTipInvalid PROVE FALSE
      OBVIOUS
    <3>1. abc' = [abc EXCEPT !.pc = "stepped", !.mostWork = NoBlock]
      BY DEF ConnectTipInvalid
    <3>2. abc'.pc = "stepped"
      BY <2>2, <3>1 DEF Locals
    <3> QED BY <2>5, <3>2
  <2>13. ~ConnectTipUnreadable
    BY DEF ConnectTipUnreadable
  <2>14. NothingToDo \/ Stepped
    BY <2>1, <2>6, <2>7, <2>8, <2>9, <2>10, <2>11, <2>12, <2>13, ZenonT(30) DEF ActivateBestChain
  <2> QED BY <1>3, <2>3, <2>14, ProgressMade
<1>4. Spec => []Untouched
  BY <1>1, <1>2, BasicsHold, PTL DEF Spec
<1> QED BY <1>3, <1>4, CompleteHolds, PTL DEF Spec, UnlockedWithProgress
=============================================================================
