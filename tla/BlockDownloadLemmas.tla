------------------------ MODULE BlockDownloadLemmas -------------------------
(***************************************************************************)
(* The functions that keep the books of block download, one by one.        *)
(*                                                                         *)
(* Exact says that mapBlocksInFlight, the lists of the peers and the       *)
(* counters agree; Tree says what the block index and the active chain     *)
(* have to do with each other.  Both are predicates on values, not on      *)
(* variables: a handler is a chain of operators, and each operator is      *)
(* shown to keep them.                                                     *)
(***************************************************************************)
EXTENDS BlockDownload, FiniteSetTheorems, WellFoundedInduction, TLAPS

(* Zenon is the prover of every step that does not name another.           *)
USE Zenon

Blocks == Block \cup {NoBlock}

Node ==
    [life : {"new", "up", "closing", "gone"}, best : Blocks, unknown : Blocks,
     common : Blocks, flight : SUBSET Block, nFlight : Nat, stalling : BOOLEAN,
     sync : BOOLEAN, protect : BOOLEAN, evict : {"off", "armed", "sent"}, work : Blocks]

Net ==
    [node : [Peer -> Node], inFlight : [Block -> Peer \cup {NoPeer}],
     partial : SUBSET Block, downloads : Int, syncs : Int, preferred : Int,
     protected : Int]

Chain ==
    [index : SUBSET Block, header : Block, data : SUBSET Block, valid : SUBSET Block,
     tip : Block]

Connected(x) == x.life \in {"up", "closing"}

\* What a peer's own entry says of it.
ExactEntry(x, flying) ==
    /\ x.flight = flying
    /\ x.nFlight = Cardinality(x.flight)
    /\ x.nFlight <= MaxInTransit
    /\ ~Connected(x) => x = [CNodeState EXCEPT !.life = x.life]
    /\ x.stalling => x.flight # {}

Flying(n, p) == {b \in Block : n.inFlight[b] = p}

ExactNode(n, p) == ExactEntry(n.node[p], Flying(n, p))

Counters(n) ==
    /\ n.downloads = Cardinality({p \in Peer : n.node[p].flight # {}})
    /\ n.syncs = Cardinality({p \in Peer : n.node[p].sync})
    /\ n.protected = Cardinality({p \in Peer : n.node[p].protect})
    /\ n.preferred = Cardinality({p \in Peer : Connected(n.node[p])})

Exact(n) ==
    /\ n \in Net
    /\ \A p \in Peer : ExactNode(n, p)
    /\ n.partial \subseteq {b \in Block : n.inFlight[b] # NoPeer}
    /\ Counters(n)

\* Everything known is linked to genesis, everything on the chain is stored.
Tree(c) ==
    /\ c \in Chain
    /\ {c.header, c.tip, Genesis} \subseteq c.index /\ c.data \subseteq c.index
    /\ \A b \in c.index : Anc[b] \subseteq c.index
    /\ Genesis \in c.data /\ Anc[c.tip] \subseteq c.data

-----------------------------------------------------------------------------
(* Sets of blocks. *)

\* A set of natural numbers has a least one.
LEMMA Least ==
    ASSUME NEW S, S \subseteq Nat, S # {}
    PROVE  \E x \in S : \A y \in S : x <= y
<1>1. PICK x \in S : \A y \in S : ~(<<y, x>> \in OpToRel(<, Nat))
    BY NatLessThanWellFounded, WFMin
<1>2. \A y \in S : ~(y < x)
    BY <1>1 DEF OpToRel
<1> QED BY <1>2, SMT

LEMMA MinOf ==
    ASSUME NEW S, S \subseteq Nat, S # {}
    PROVE  Min(S) \in S /\ \A y \in S : Min(S) <= y
    BY Least DEF Min

LEMMA InBranch ==
    /\ \A b \in Block : b \in Anc[b] /\ Genesis \in Anc[b]
    /\ \A b \in Block : Parent[b] \in Block => Anc[Parent[b]] \subseteq Anc[b]
    /\ \A b \in Block \ {Genesis} : Parent[b] \in Anc[b]
<1>1. \A b \in Block : b \in Anc[b]
    BY BlockTree
<1>2. ASSUME NEW b \in Block PROVE Genesis \in Anc[b]
    <2>1. PICK c \in Anc[b] : Height[c] = 0
        BY Branches, SMT
    <2>2. c \in Block /\ (c # Genesis => Height[c] = Height[Parent[c]] + 1 /\ Height[Parent[c]] \in Nat)
        BY BlockTree, Branches
    <2> QED BY <2>1, <2>2, SMT
<1> QED BY <1>1, <1>2, BlockTree

\* A finite set of blocks has a highest block: the one with the fewest above it.
LEMMA HighestOf ==
    ASSUME NEW S, S \subseteq Block, S # {}
    PROVE  Highest(S) \in S /\ \A x \in S : Height[x] <= Height[Highest(S)]
<1> DEFINE Higher(b) == {x \in S : Height[x] > Height[b]}
           N == {Cardinality(Higher(b)) : b \in S}
<1>1. \A b \in S : IsFiniteSet(Higher(b)) /\ Cardinality(Higher(b)) \in Nat
    <2> TAKE b \in S
    <2>1. Higher(b) \in SUBSET Block
        OBVIOUS
    <2> QED BY <2>1, BlockTree, FS_Subset, FS_CardinalityType
<1>2. PICK k \in N : \A y \in N : k <= y
    <2> HIDE DEF Higher
    <2> QED BY <1>1, Least
<1>3. PICK b \in S : \A c \in S : Cardinality(Higher(b)) <= Cardinality(Higher(c))
    <2> HIDE DEF Higher
    <2> QED BY <1>2
<1>4. ASSUME NEW c \in S, Height[c] > Height[b] PROVE FALSE
    <2>1. Height[b] \in Nat /\ Height[c] \in Nat /\ \A x \in S : Height[x] \in Nat
        BY Branches
    <2>2. Higher(c) \in SUBSET Higher(b) /\ c \in Higher(b) /\ c \notin Higher(c)
        BY <1>4, <2>1, SMT
    <2> HIDE DEF Higher
    <2>3. Cardinality(Higher(c)) < Cardinality(Higher(b))
        BY <1>1, <2>2, FS_Subset, SMT
    <2> QED BY <1>1, <1>3, <2>3, SMT
<1>5. \A c \in S : Height[c] <= Height[b]
    BY <1>4, Branches, SMT
<1> QED BY <1>5 DEF Highest

LEMMA CommonAncestor ==
    ASSUME NEW a \in Block, NEW b \in Block
    PROVE  LastCommonAncestor(a, b) \in Anc[a] \cap Anc[b]
<1>1. Anc[a] \cap Anc[b] # {} /\ Anc[a] \cap Anc[b] \subseteq Block
    BY InBranch, Branches
<1> QED BY <1>1, HighestOf DEF LastCommonAncestor

\* Of the blocks of one branch, Bottom takes no more than it is told to: the
\* number of blocks below tells them apart.
LEMMA BottomOf ==
    ASSUME NEW a \in Block, NEW S, S \subseteq Anc[a], NEW k \in Nat
    PROVE  /\ Bottom(S, k) \subseteq S
           /\ IsFiniteSet(Bottom(S, k)) /\ Cardinality(Bottom(S, k)) \in 0..k
<1> DEFINE Lower(b) == {x \in S : Height[x] < Height[b]}
           f == [b \in Bottom(S, k) |-> Cardinality(Lower(b))]
<1>1. S \subseteq Block /\ \A b \in S : Height[b] \in Nat
    BY Branches
<1>2. \A b \in S : IsFiniteSet(Lower(b)) /\ Cardinality(Lower(b)) \in Nat
    <2> TAKE b \in S
    <2>1. Lower(b) \in SUBSET Block
        BY <1>1
    <2> QED BY <2>1, BlockTree, FS_Subset, FS_CardinalityType
<1>3. Bottom(S, k) = {b \in S : Cardinality(Lower(b)) < k}
    BY DEF Bottom
<1>4. ASSUME NEW b \in S, NEW c \in S, Height[b] < Height[c]
      PROVE  Cardinality(Lower(b)) < Cardinality(Lower(c))
    <2>1. Lower(b) \in SUBSET Lower(c) /\ b \in Lower(c) /\ b \notin Lower(b)
        BY <1>1, <1>4, SMT
    <2> HIDE DEF Lower
    <2> QED BY <1>2, <2>1, FS_Subset, SMT
<1>5. \A b, c \in S : Cardinality(Lower(b)) = Cardinality(Lower(c)) => b = c
    <2> HIDE DEF Lower
    <2> TAKE b, c \in S
    <2>1. Height[b] = Height[c] => b = c
        BY Branches
    <2> QED BY <1>1, <1>2, <1>4, <2>1, SMT
<1>6. f \in Injection(Bottom(S, k), 0..k-1)
    <2> HIDE DEF Lower
    <2>1. f \in [Bottom(S, k) -> 0..k-1]
        BY <1>2, <1>3, SMT
    <2>2. \A b, c \in Bottom(S, k) : f[b] = f[c] => b = c
        BY <1>3, <1>5
    <2> HIDE DEF f
    <2> QED BY <2>1, <2>2 DEF Injection, IsInjective
<1>7. IsFiniteSet(0..k-1) /\ Cardinality(0..k-1) = k
    BY FS_Interval, SMT
<1>8. IsFiniteSet(Bottom(S, k)) /\ Cardinality(Bottom(S, k)) <= k
    BY <1>6, <1>7, FS_Injection, SMT
<1> QED BY <1>3, <1>8, FS_CardinalityType, SMT

-----------------------------------------------------------------------------
(* Counting peers. *)

LEMMA CountOne ==
    ASSUME NEW S, S \subseteq Peer, NEW T, T \subseteq Peer, NEW p \in Peer,
           \A q \in Peer \ {p} : q \in S <=> q \in T
    PROVE  Cardinality(T) = Cardinality(S) + One(p \in T) - One(p \in S)
<1>1. IsFiniteSet(S) /\ Cardinality(S) \in Nat /\ IsFiniteSet(T) /\ Cardinality(T) \in Nat
    BY PeerAssumption, FS_Subset, FS_CardinalityType
<1>2. CASE p \in T /\ p \notin S
    <2>1. T = S \cup {p}
        BY <1>2
    <2> QED BY <1>1, <1>2, <2>1, FS_AddElement, SMT DEF One
<1>3. CASE p \notin T /\ p \in S
    <2>1. T = S \ {p}
        BY <1>3
    <2> QED BY <1>1, <1>3, <2>1, FS_RemoveElement, SMT DEF One
<1>4. CASE p \in T <=> p \in S
    <2>1. T = S
        BY <1>4, SMT
    <2> QED BY <1>1, <1>4, <2>1, SMT DEF One
<1> QED BY <1>2, <1>3, <1>4

\* One peer's entry has changed, and the counters with it.
LEMMA Recounted ==
    ASSUME NEW n \in Net, NEW m \in Net, NEW p \in Peer, Counters(n),
           \A q \in Peer \ {p} : m.node[q] = n.node[q],
           m.downloads = n.downloads + One(m.node[p].flight # {}) - One(n.node[p].flight # {}),
           m.syncs = n.syncs + One(m.node[p].sync) - One(n.node[p].sync),
           m.protected = n.protected + One(m.node[p].protect) - One(n.node[p].protect),
           m.preferred = n.preferred + One(Connected(m.node[p])) - One(Connected(n.node[p]))
    PROVE  Counters(m)
<1>1. m.downloads = Cardinality({q \in Peer : m.node[q].flight # {}})
    <2> DEFINE S == {q \in Peer : n.node[q].flight # {}}
               T == {q \in Peer : m.node[q].flight # {}}
    <2>1. S \subseteq Peer /\ T \subseteq Peer /\ \A q \in Peer \ {p} : q \in S <=> q \in T
        OBVIOUS
    <2>2. (p \in S <=> n.node[p].flight # {}) /\ (p \in T <=> m.node[p].flight # {})
        OBVIOUS
    <2>3. n.downloads = Cardinality(S)
        BY DEF Counters
    <2> HIDE DEF S, T
    <2>4. Cardinality(T) = Cardinality(S) + One(p \in T) - One(p \in S)
        BY <2>1, CountOne
    <2>5. m.downloads = Cardinality(T)
        BY <2>2, <2>3, <2>4 DEF One
    <2> QED BY <2>5 DEF T
<1>2. m.syncs = Cardinality({q \in Peer : m.node[q].sync})
    <2> DEFINE S == {q \in Peer : n.node[q].sync}
               T == {q \in Peer : m.node[q].sync}
    <2>1. S \subseteq Peer /\ T \subseteq Peer /\ \A q \in Peer \ {p} : q \in S <=> q \in T
        OBVIOUS
    <2>2. (p \in S <=> n.node[p].sync) /\ (p \in T <=> m.node[p].sync)
        OBVIOUS
    <2>3. n.syncs = Cardinality(S)
        BY DEF Counters
    <2> HIDE DEF S, T
    <2>4. Cardinality(T) = Cardinality(S) + One(p \in T) - One(p \in S)
        BY <2>1, CountOne
    <2>5. m.syncs = Cardinality(T)
        BY <2>2, <2>3, <2>4 DEF One
    <2> QED BY <2>5 DEF T
<1>3. m.protected = Cardinality({q \in Peer : m.node[q].protect})
    <2> DEFINE S == {q \in Peer : n.node[q].protect}
               T == {q \in Peer : m.node[q].protect}
    <2>1. S \subseteq Peer /\ T \subseteq Peer /\ \A q \in Peer \ {p} : q \in S <=> q \in T
        OBVIOUS
    <2>2. (p \in S <=> n.node[p].protect) /\ (p \in T <=> m.node[p].protect)
        OBVIOUS
    <2>3. n.protected = Cardinality(S)
        BY DEF Counters
    <2> HIDE DEF S, T
    <2>4. Cardinality(T) = Cardinality(S) + One(p \in T) - One(p \in S)
        BY <2>1, CountOne
    <2>5. m.protected = Cardinality(T)
        BY <2>2, <2>3, <2>4 DEF One
    <2> QED BY <2>5 DEF T
<1>4. m.preferred = Cardinality({q \in Peer : Connected(m.node[q])})
    <2> DEFINE S == {q \in Peer : Connected(n.node[q])}
               T == {q \in Peer : Connected(m.node[q])}
    <2>1. S \subseteq Peer /\ T \subseteq Peer /\ \A q \in Peer \ {p} : q \in S <=> q \in T
        OBVIOUS
    <2>2. (p \in S <=> Connected(n.node[p])) /\ (p \in T <=> Connected(m.node[p]))
        OBVIOUS
    <2>3. n.preferred = Cardinality(S)
        BY DEF Counters
    <2> HIDE DEF S, T
    <2>4. Cardinality(T) = Cardinality(S) + One(p \in T) - One(p \in S)
        BY <2>1, CountOne
    <2>5. m.preferred = Cardinality(T)
        BY <2>2, <2>3, <2>4 DEF One
    <2> QED BY <2>5 DEF T
<1> QED BY <1>1, <1>2, <1>3, <1>4 DEF Counters

\* Changes that no counter sees.
Touches(n, m) ==
    /\ m \in Net
    /\ m.inFlight = n.inFlight /\ m.partial = n.partial
    /\ m.downloads = n.downloads /\ m.syncs = n.syncs
    /\ m.preferred = n.preferred /\ m.protected = n.protected
    /\ \A q \in Peer :
          LET x == n.node[q]
              y == m.node[q]
          IN  /\ y.flight = x.flight /\ y.nFlight = x.nFlight
              /\ y.sync = x.sync /\ y.protect = x.protect
              /\ Connected(y) <=> Connected(x)
              /\ ~Connected(x) => y = x
              /\ y.stalling => x.stalling \/ x.flight # {}

LEMMA Touched ==
    ASSUME NEW n, NEW m, Exact(n), Touches(n, m)
    PROVE  Exact(m)
<1>1. ASSUME NEW p \in Peer PROVE ExactNode(m, p)
    <2> DEFINE x == n.node[p]
               y == m.node[p]
    <2>1. /\ y.flight = x.flight /\ y.nFlight = x.nFlight /\ Flying(m, p) = Flying(n, p)
          /\ (~Connected(x) => y = x) /\ (Connected(y) <=> Connected(x))
          /\ (y.stalling => x.stalling \/ x.flight # {})
        BY DEF Touches, Flying
    <2>2. ExactEntry(x, Flying(n, p))
        BY DEF Exact, ExactNode
    <2> HIDE DEF x, y
    <2>3. ~Connected(y) => y = [CNodeState EXCEPT !.life = y.life]
        BY <2>1, <2>2 DEF ExactEntry
    <2>4. ExactEntry(y, Flying(m, p))
        BY <2>1, <2>2, <2>3 DEF ExactEntry
    <2> QED BY <2>4 DEF ExactNode, y
<1>2. Counters(m)
    BY DEF Exact, Counters, Touches
<1> QED BY <1>1, <1>2 DEF Exact, Touches

-----------------------------------------------------------------------------
(* The operators on the peers' state. *)

\* What the best known block of a peer does while the peer stays.
Grows(x, y) ==
    x.best # NoBlock => y.best # NoBlock /\ Height[y.best] >= Height[x.best]

StepOf(x, y, I) ==
    /\ y.common = x.common /\ y.evict = x.evict /\ y.work = x.work
    /\ y.life = "up" => x.life = "up"
    /\ Grows(x, y) /\ y.best \in {x.best} \cup I

Steps(n, m, I) == \A q \in Peer : StepOf(n.node[q], m.node[q], I)

LEMMA StepsChain ==
    ASSUME NEW k \in Net, NEW n \in Net, NEW m \in Net, NEW I, NEW J, NEW L,
           Steps(k, n, I), Steps(n, m, J), I \subseteq L, J \subseteq L
    PROVE  Steps(k, m, L)
<1> SUFFICES ASSUME NEW q \in Peer PROVE StepOf(k.node[q], m.node[q], L)
    BY DEF Steps
<1>1. \A x \in Node : x.best # NoBlock => Height[x.best] \in Nat
    BY Branches DEF Node, Blocks
<1>2. k.node[q] \in Node /\ n.node[q] \in Node /\ m.node[q] \in Node
    BY DEF Net
<1> QED BY <1>1, <1>2, SMT DEF Steps, StepOf, Grows

\* A node that holds a block in flight has a CNodeState.
LEMMA Holder ==
    ASSUME NEW n, Exact(n), NEW p \in Peer
    PROVE  /\ n \in Net /\ n.node[p] \in Node /\ n.node[p].flight \subseteq Block
           /\ \A b \in Block : b \in n.node[p].flight <=> n.inFlight[b] = p
           /\ n.node[p].nFlight = Cardinality(n.node[p].flight)
           /\ n.node[p].nFlight \in 0..MaxInTransit
           /\ IsFiniteSet(n.node[p].flight)
           /\ n.node[p].nFlight = 0 <=> n.node[p].flight = {}
           /\ n.node[p].flight # {} => Connected(n.node[p])
<1>1. n \in Net /\ n.node[p] \in Node /\ ExactNode(n, p)
    BY DEF Exact, Net
<1>2. n.node[p].flight \in SUBSET Block /\ n.node[p].nFlight \in Nat
    BY <1>1 DEF Node
<1>3. IsFiniteSet(n.node[p].flight)
    BY <1>2, BlockTree, FS_Subset
<1>4. n.node[p].nFlight = 0 <=> n.node[p].flight = {}
    BY <1>1, <1>3, FS_EmptySet DEF ExactNode, ExactEntry
<1>5. ~Connected(n.node[p]) => n.node[p].flight = {}
    BY <1>1 DEF ExactNode, ExactEntry, CNodeState
<1> QED BY <1>1, <1>2, <1>3, <1>4, <1>5, LimitAssumption, SMT DEF ExactNode, ExactEntry, Flying

LEMMA StepsSame ==
    ASSUME NEW n \in Net, NEW I
    PROVE  Steps(n, n, I)
    BY Branches, SMT DEF Steps, StepOf, Grows, Net, Node, Blocks

\* A record with the fields of a Net.
LEMMA NetRecord ==
    ASSUME NEW m,
           m = [node |-> m.node, inFlight |-> m.inFlight, partial |-> m.partial,
                downloads |-> m.downloads, syncs |-> m.syncs, preferred |-> m.preferred,
                protected |-> m.protected],
           m.node \in [Peer -> Node], m.inFlight \in [Block -> Peer \cup {NoPeer}],
           m.partial \in SUBSET Block, m.downloads \in Int, m.syncs \in Int,
           m.preferred \in Int, m.protected \in Int
    PROVE  m \in Net
    BY DEF Net

\* One peer's entry is replaced by y, and what others have in flight is left alone.
Replaces(n, m, p, x, y) ==
    /\ m \in Net /\ y \in Node /\ x = n.node[p]
    /\ m.node = [n.node EXCEPT ![p] = y] /\ ExactEntry(y, Flying(m, p))
    /\ \A b \in Block : \A q \in Peer \ {p} : m.inFlight[b] = q <=> n.inFlight[b] = q
    /\ m.partial \subseteq {b \in Block : m.inFlight[b] # NoPeer}
    /\ m.downloads = n.downloads + One(y.flight # {}) - One(x.flight # {})
    /\ m.syncs = n.syncs + One(y.sync) - One(x.sync)
    /\ m.protected = n.protected + One(y.protect) - One(x.protect)
    /\ m.preferred = n.preferred + One(Connected(y)) - One(Connected(x))

LEMMA Replaced ==
    ASSUME NEW n, Exact(n), NEW m, NEW p \in Peer, NEW x, NEW y, Replaces(n, m, p, x, y)
    PROVE  Exact(m)
<1>1. n \in Net /\ Counters(n) /\ n.node \in [Peer -> Node] /\ m \in Net
    BY DEF Exact, Net, Replaces
<1>2. m.node[p] = y /\ \A q \in Peer \ {p} : m.node[q] = n.node[q]
    BY <1>1 DEF Replaces
<1>3. Counters(m)
    BY <1>1, <1>2, Recounted DEF Replaces
<1>4. ASSUME NEW q \in Peer \ {p} PROVE ExactNode(m, q)
    <2>1. ExactNode(n, q)
        BY DEF Exact
    <2>2. Flying(n, q) = Flying(m, q)
        BY DEF Flying, Replaces
    <2> QED BY <1>2, <2>1, <2>2 DEF ExactNode
<1>5. ExactNode(m, p)
    BY <1>2 DEF ExactNode, Replaces
<1> QED BY <1>1, <1>3, <1>4, <1>5 DEF Exact, Replaces

\* MarkBlockAsReceived, for the peer p that has b in flight.
EntryWithout(x, b) == [x EXCEPT !.flight = @ \ {b}, !.nFlight = @ - 1, !.stalling = FALSE]

NetWithout(n, p, b) ==
    [n EXCEPT !.node[p].flight = @ \ {b},
              !.node[p].nFlight = @ - 1,
              !.node[p].stalling = FALSE,
              !.downloads = @ - One(n.node[p].nFlight = 1),
              !.inFlight[b] = NoPeer,
              !.partial = @ \ {b}]

LEMMA EntryWithoutFields ==
    ASSUME NEW x \in Node, NEW b \in Block, x.nFlight > 0
    PROVE  LET y == EntryWithout(x, b)
           IN  /\ y \in Node
               /\ y.flight = x.flight \ {b} /\ y.nFlight = x.nFlight - 1 /\ ~y.stalling
               /\ y.common = x.common /\ y.evict = x.evict /\ y.work = x.work /\ y.life = x.life
               /\ y.best = x.best /\ y.sync = x.sync /\ y.protect = x.protect
<1>1. x.nFlight - 1 \in Nat /\ x.flight \ {b} \in SUBSET Block
    BY SMT DEF Node
<1> QED BY <1>1 DEF Node, EntryWithout

LEMMA NetWithoutFields ==
    ASSUME NEW n \in Net, NEW b \in Block, NEW p \in Peer, n.node[p].nFlight > 0,
           NEW m, m = NetWithout(n, p, b)
    PROVE  /\ m \in Net /\ m.node = [n.node EXCEPT ![p] = EntryWithout(n.node[p], b)]
           /\ m.downloads = n.downloads - One(n.node[p].nFlight = 1)
           /\ m.inFlight = [n.inFlight EXCEPT ![b] = NoPeer]
           /\ m.partial = n.partial \ {b}
           /\ m.syncs = n.syncs /\ m.preferred = n.preferred /\ m.protected = n.protected
<1>1. m.node = [n.node EXCEPT ![p] = EntryWithout(n.node[p], b)]
    BY DEF Net, NetWithout, EntryWithout
<1>2. /\ m.downloads = n.downloads - One(n.node[p].nFlight = 1)
      /\ m.inFlight = [n.inFlight EXCEPT ![b] = NoPeer]
      /\ m.partial = n.partial \ {b}
      /\ m.syncs = n.syncs /\ m.preferred = n.preferred /\ m.protected = n.protected
    BY DEF Net, NetWithout
<1>3. m = [node |-> m.node, inFlight |-> m.inFlight, partial |-> m.partial,
           downloads |-> m.downloads, syncs |-> m.syncs, preferred |-> m.preferred,
           protected |-> m.protected]
    BY DEF Net, NetWithout
<1>4. n.node[p] \in Node
    BY DEF Net
<1>5. EntryWithout(n.node[p], b) \in Node
    BY <1>4, EntryWithoutFields
<1>6. /\ m.node \in [Peer -> Node] /\ m.inFlight \in [Block -> Peer \cup {NoPeer}]
      /\ m.partial \in SUBSET Block /\ m.downloads \in Int /\ m.syncs \in Int
      /\ m.preferred \in Int /\ m.protected \in Int
    BY <1>1, <1>2, <1>5, SMT DEF Net, One
<1>7. m \in Net
    BY <1>3, <1>6, NetRecord
<1> QED BY <1>1, <1>2, <1>7

LEMMA ReceivedFrom ==
    ASSUME NEW n, Exact(n), NEW b \in Block, NEW p \in Peer, n.inFlight[b] = p,
           NEW m, m = NetWithout(n, p, b)
    PROVE  /\ Exact(m) /\ Steps(n, m, {}) /\ m.partial = n.partial \ {b}
           /\ \A q \in Peer : m.node[q].flight = n.node[q].flight \ {b}
           /\ \A q \in Peer : m.node[q].life = n.node[q].life
<1> DEFINE x == n.node[p]
           y == EntryWithout(x, b)
<1> HIDE DEF x, y
<1>1. /\ n \in Net /\ n.node \in [Peer -> Node] /\ n.inFlight \in [Block -> Peer \cup {NoPeer}]
      /\ n.downloads \in Int /\ n.syncs \in Int /\ n.preferred \in Int /\ n.protected \in Int
      /\ n.partial \subseteq {c \in Block : n.inFlight[c] # NoPeer}
    BY DEF Exact, Net
<1>2. /\ x \in Node /\ b \in x.flight /\ x.nFlight = Cardinality(x.flight)
      /\ IsFiniteSet(x.flight) /\ x.nFlight \in 0..MaxInTransit /\ x.nFlight > 0 /\ Connected(x)
      /\ x.flight = {c \in Block : n.inFlight[c] = p}
    BY Holder, SMT DEF x
<1>3. /\ Cardinality(x.flight \ {b}) = x.nFlight - 1 /\ x.nFlight - 1 \in Nat
      /\ x.nFlight = 1 <=> x.flight \ {b} = {}
    <2>1. IsFiniteSet(x.flight \ {b}) /\ Cardinality(x.flight \ {b}) = x.nFlight - 1
        BY <1>2, FS_RemoveElement
    <2>2. x.nFlight - 1 \in Nat
        BY <2>1, FS_CardinalityType
    <2> QED BY <1>2, <2>1, <2>2, FS_EmptySet, SMT
<1>4. /\ y.flight = x.flight \ {b} /\ y.nFlight = x.nFlight - 1 /\ ~y.stalling
      /\ y.common = x.common /\ y.evict = x.evict /\ y.work = x.work /\ y.life = x.life
      /\ y.best = x.best /\ y.sync = x.sync /\ y.protect = x.protect /\ y \in Node
    BY <1>2, EntryWithoutFields DEF y
<1>5. /\ m \in Net /\ m.node = [n.node EXCEPT ![p] = y]
      /\ m.downloads = n.downloads - One(x.nFlight = 1)
      /\ m.inFlight = [n.inFlight EXCEPT ![b] = NoPeer]
      /\ m.partial = n.partial \ {b}
      /\ m.syncs = n.syncs /\ m.preferred = n.preferred /\ m.protected = n.protected
    BY <1>1, <1>2, NetWithoutFields, SMT DEF x, y
<1>6. m.node[p] = y /\ \A q \in Peer \ {p} : m.node[q] = n.node[q]
    BY <1>1, <1>5
<1>7. ExactEntry(y, Flying(m, p))
    <2>1. y.flight = Flying(m, p)
        BY <1>1, <1>2, <1>4, <1>5, PeerAssumption, SMT DEF Flying
    <2>2. Connected(y)
        BY <1>2, <1>4 DEF Connected
    <2>3. y.nFlight <= MaxInTransit
        <3>1. x.nFlight \in 0..MaxInTransit /\ y.nFlight = x.nFlight - 1
            BY <1>2, <1>4
        <3> QED BY <3>1, LimitAssumption, SMT
    <2> QED BY <1>3, <1>4, <2>1, <2>2, <2>3 DEF ExactEntry
<1>8. /\ m.partial \subseteq {c \in Block : m.inFlight[c] # NoPeer}
      /\ \A c \in Block : \A q \in Peer \ {p} : m.inFlight[c] = q <=> n.inFlight[c] = q
    BY <1>1, <1>5, PeerAssumption
<1>9. /\ m.downloads = n.downloads + One(y.flight # {}) - One(x.flight # {})
      /\ m.syncs = n.syncs + One(y.sync) - One(x.sync)
      /\ m.protected = n.protected + One(y.protect) - One(x.protect)
      /\ m.preferred = n.preferred + One(Connected(y)) - One(Connected(x))
    <2>1. One(x.flight # {}) = 1 /\ One(x.nFlight = 1) = 1 - One(y.flight # {})
          /\ One(y.flight # {}) \in Int
        BY <1>2, <1>3, <1>4, SMT DEF One
    <2>2. One(x.sync) \in Int /\ One(x.protect) \in Int /\ One(Connected(x)) \in Int
        BY SMT DEF One
    <2>3. One(Connected(y)) = One(Connected(x)) /\ One(y.sync) = One(x.sync)
          /\ One(y.protect) = One(x.protect)
        BY <1>4 DEF Connected
    <2> QED BY <1>1, <1>5, <2>1, <2>2, <2>3, SMT
<1>10. Exact(m)
    <2>1. x = n.node[p] /\ y \in Node
        BY <1>4 DEF x
    <2>2. Replaces(n, m, p, x, y)
        BY <1>5, <1>7, <1>8, <1>9, <2>1 DEF Replaces
    <2> QED BY <2>2, Replaced
<1>11. \A q \in Peer : m.node[q].flight = n.node[q].flight \ {b} /\ m.node[q].life = n.node[q].life
    <2>1. \A q \in Peer \ {p} : b \notin n.node[q].flight
        BY Holder
    <2> QED BY <1>4, <1>6, <2>1, SMT DEF x
<1>12. Steps(n, m, {})
    BY <1>1, <1>4, <1>6, StepsSame, SMT DEF Steps, StepOf, Grows, x
<1> QED BY <1>5, <1>10, <1>11, <1>12

LEMMA Received ==
    ASSUME NEW n, Exact(n), NEW b \in Block, NEW m, m = MarkBlockAsReceived(n, b)
    PROVE  /\ Exact(m) /\ Steps(n, m, {}) /\ m.partial = n.partial \ {b}
           /\ \A q \in Peer : m.node[q].flight = n.node[q].flight \ {b}
           /\ \A q \in Peer : m.node[q].life = n.node[q].life
<1>1. n \in Net /\ n.inFlight[b] \in Peer \cup {NoPeer}
    BY DEF Exact, Net
<1>2. CASE n.inFlight[b] = NoPeer
    <2>1. m = n
        BY <1>2 DEF MarkBlockAsReceived
    <2>2. b \notin n.partial /\ \A q \in Peer : b \notin n.node[q].flight
        BY <1>2, Holder, PeerAssumption, SMT DEF Exact
    <2>3. Steps(n, n, {})
        BY <1>1, StepsSame
    <2> QED BY <2>1, <2>2, <2>3
<1>3. CASE n.inFlight[b] # NoPeer
    <2>1. n.inFlight[b] \in Peer
        BY <1>1, <1>3
    <2>2. m = NetWithout(n, n.inFlight[b], b)
        BY <1>3 DEF MarkBlockAsReceived, NetWithout
    <2> QED BY <2>1, <2>2, ReceivedFrom, SMT
<1> QED BY <1>2, <1>3

\* MarkBlockAsInFlight, for blocks N that were not in flight.
EntryWith(x, N) == [x EXCEPT !.flight = @ \cup N, !.nFlight = @ + Cardinality(N)]

NetWith(n, p, N) ==
    [n EXCEPT !.node[p].flight = @ \cup N,
              !.node[p].nFlight = @ + Cardinality(N),
              !.downloads = @ + One(n.node[p].nFlight = 0 /\ N # {}),
              !.inFlight = [b \in Block |-> IF b \in N THEN p ELSE @[b]]]

LEMMA EntryWithFields ==
    ASSUME NEW x \in Node, NEW N, N \subseteq Block, Cardinality(N) \in Nat
    PROVE  LET y == EntryWith(x, N)
           IN  /\ y \in Node
               /\ y.flight = x.flight \cup N /\ y.nFlight = x.nFlight + Cardinality(N)
               /\ y.common = x.common /\ y.evict = x.evict /\ y.work = x.work /\ y.life = x.life
               /\ y.best = x.best /\ y.sync = x.sync /\ y.protect = x.protect
               /\ y.stalling = x.stalling
<1>1. x.nFlight + Cardinality(N) \in Nat /\ x.flight \cup N \in SUBSET Block
    BY SMT DEF Node
<1> QED BY <1>1 DEF Node, EntryWith

LEMMA NetWithFields ==
    ASSUME NEW n \in Net, NEW p \in Peer, NEW N, N \subseteq Block, Cardinality(N) \in Nat,
           NEW m, m = NetWith(n, p, N)
    PROVE  /\ m \in Net /\ m.node = [n.node EXCEPT ![p] = EntryWith(n.node[p], N)]
           /\ m.downloads = n.downloads + One(n.node[p].nFlight = 0 /\ N # {})
           /\ m.inFlight = [b \in Block |-> IF b \in N THEN p ELSE n.inFlight[b]]
           /\ m.partial = n.partial
           /\ m.syncs = n.syncs /\ m.preferred = n.preferred /\ m.protected = n.protected
<1>1. m.node = [n.node EXCEPT ![p] = EntryWith(n.node[p], N)]
    BY DEF Net, NetWith, EntryWith
<1>2. /\ m.downloads = n.downloads + One(n.node[p].nFlight = 0 /\ N # {})
      /\ m.inFlight = [b \in Block |-> IF b \in N THEN p ELSE n.inFlight[b]]
      /\ m.partial = n.partial
      /\ m.syncs = n.syncs /\ m.preferred = n.preferred /\ m.protected = n.protected
    BY DEF Net, NetWith
<1>3. m = [node |-> m.node, inFlight |-> m.inFlight, partial |-> m.partial,
           downloads |-> m.downloads, syncs |-> m.syncs, preferred |-> m.preferred,
           protected |-> m.protected]
    BY DEF Net, NetWith
<1>4. n.node[p] \in Node
    BY DEF Net
<1>5. EntryWith(n.node[p], N) \in Node
    BY <1>4, EntryWithFields
<1>6. /\ m.node \in [Peer -> Node] /\ m.inFlight \in [Block -> Peer \cup {NoPeer}]
      /\ m.partial \in SUBSET Block /\ m.downloads \in Int /\ m.syncs \in Int
      /\ m.preferred \in Int /\ m.protected \in Int
    BY <1>1, <1>2, <1>5, SMT DEF Net, One
<1>7. m \in Net
    BY <1>3, <1>6, NetRecord
<1> QED BY <1>1, <1>2, <1>7

LEMMA InFlightNew ==
    ASSUME NEW n, Exact(n), NEW p \in Peer, Connected(n.node[p]), NEW N, N \subseteq Block,
           \A b \in N : n.inFlight[b] = NoPeer,
           n.node[p].nFlight + Cardinality(N) <= MaxInTransit,
           NEW m, m = NetWith(n, p, N)
    PROVE  /\ Exact(m) /\ Steps(n, m, {}) /\ m.partial = n.partial
           /\ m.node[p].flight = n.node[p].flight \cup N
           /\ \A q \in Peer \ {p} : m.node[q] = n.node[q]
           /\ \A q \in Peer : m.node[q].life = n.node[q].life
<1> DEFINE x == n.node[p]
           y == EntryWith(x, N)
<1> HIDE DEF x, y
<1>1. /\ n \in Net /\ n.node \in [Peer -> Node] /\ n.inFlight \in [Block -> Peer \cup {NoPeer}]
      /\ n.downloads \in Int /\ n.syncs \in Int /\ n.preferred \in Int /\ n.protected \in Int
      /\ n.partial \subseteq {c \in Block : n.inFlight[c] # NoPeer}
    BY DEF Exact, Net
<1>2. /\ x \in Node /\ x.nFlight = Cardinality(x.flight) /\ IsFiniteSet(x.flight)
      /\ x.nFlight \in 0..MaxInTransit /\ Connected(x)
      /\ x.flight = {c \in Block : n.inFlight[c] = p}
      /\ x.nFlight = 0 <=> x.flight = {}
      /\ x.stalling => x.flight # {}
    BY Holder DEF x, Exact, ExactNode, ExactEntry, Flying
<1>3. IsFiniteSet(N) /\ Cardinality(N) \in Nat
    BY BlockTree, FS_Subset, FS_CardinalityType
<1>4. Cardinality(x.flight \cup N) = x.nFlight + Cardinality(N)
    <2>1. x.flight \cap N = {}
        BY <1>2, PeerAssumption
    <2>2. Cardinality(x.flight \cup N) = Cardinality(x.flight) + Cardinality(N) - Cardinality({})
        BY <1>2, <1>3, <2>1, FS_Union
    <2>3. Cardinality({}) = 0 /\ x.nFlight \in Nat
        BY <1>2, FS_EmptySet, LimitAssumption, SMT
    <2> QED BY <1>2, <1>3, <2>2, <2>3, SMT
<1>5. /\ y.flight = x.flight \cup N /\ y.nFlight = x.nFlight + Cardinality(N)
      /\ y.stalling = x.stalling
      /\ y.common = x.common /\ y.evict = x.evict /\ y.work = x.work /\ y.life = x.life
      /\ y.best = x.best /\ y.sync = x.sync /\ y.protect = x.protect /\ y \in Node
    BY <1>2, <1>3, EntryWithFields DEF y
<1>6. /\ m \in Net /\ m.node = [n.node EXCEPT ![p] = y]
      /\ m.downloads = n.downloads + One(x.nFlight = 0 /\ N # {})
      /\ m.inFlight = [b \in Block |-> IF b \in N THEN p ELSE n.inFlight[b]]
      /\ m.partial = n.partial
      /\ m.syncs = n.syncs /\ m.preferred = n.preferred /\ m.protected = n.protected
    BY <1>1, <1>3, NetWithFields, SMT DEF x, y
<1>7. m.node[p] = y /\ \A q \in Peer \ {p} : m.node[q] = n.node[q]
    BY <1>1, <1>6
<1>8. ExactEntry(y, Flying(m, p))
    <2>1. y.flight = Flying(m, p)
        BY <1>2, <1>5, <1>6 DEF Flying
    <2>2. Connected(y)
        BY <1>2, <1>5 DEF Connected
    <2>3. y.nFlight <= MaxInTransit
        BY <1>5 DEF x
    <2> QED BY <1>2, <1>4, <1>5, <2>1, <2>2, <2>3 DEF ExactEntry
<1>9. /\ m.partial \subseteq {c \in Block : m.inFlight[c] # NoPeer}
      /\ \A c \in Block : \A q \in Peer \ {p} : m.inFlight[c] = q <=> n.inFlight[c] = q
    BY <1>1, <1>6, PeerAssumption, SMT
<1>10. /\ m.downloads = n.downloads + One(y.flight # {}) - One(x.flight # {})
       /\ m.syncs = n.syncs + One(y.sync) - One(x.sync)
       /\ m.protected = n.protected + One(y.protect) - One(x.protect)
       /\ m.preferred = n.preferred + One(Connected(y)) - One(Connected(x))
    <2>1. One(x.nFlight = 0 /\ N # {}) = One(y.flight # {}) - One(x.flight # {})
          /\ One(y.flight # {}) \in Int /\ One(x.flight # {}) \in Int
        BY <1>2, <1>5, SMT DEF One
    <2>2. One(x.sync) \in Int /\ One(x.protect) \in Int /\ One(Connected(x)) \in Int
        BY SMT DEF One
    <2>3. One(Connected(y)) = One(Connected(x)) /\ One(y.sync) = One(x.sync)
          /\ One(y.protect) = One(x.protect)
        BY <1>5 DEF Connected
    <2> QED BY <1>1, <1>6, <2>1, <2>2, <2>3, SMT
<1>11. Exact(m)
    <2>1. x = n.node[p] /\ y \in Node
        BY <1>5 DEF x
    <2>2. Replaces(n, m, p, x, y)
        BY <1>6, <1>8, <1>9, <1>10, <2>1 DEF Replaces
    <2> QED BY <2>2, Replaced
<1>12. Steps(n, m, {}) /\ \A q \in Peer : m.node[q].life = n.node[q].life
    BY <1>1, <1>5, <1>7, StepsSame, SMT DEF Steps, StepOf, Grows, x
<1> QED BY <1>5, <1>6, <1>7, <1>11, <1>12 DEF x

LEMMA InFlight ==
    ASSUME NEW n, Exact(n), NEW p \in Peer, Connected(n.node[p]), NEW S, S \subseteq Block,
           \A b \in S : n.inFlight[b] \in {p, NoPeer},
           n.node[p].nFlight + Cardinality({b \in S : n.inFlight[b] # p}) <= MaxInTransit,
           NEW m, m = MarkBlocksAsInFlight(n, p, S)
    PROVE  /\ Exact(m) /\ Steps(n, m, {}) /\ m.partial = n.partial
           /\ m.node[p].flight = n.node[p].flight \cup S
           /\ \A q \in Peer \ {p} : m.node[q] = n.node[q]
           /\ \A q \in Peer : m.node[q].life = n.node[q].life
<1> DEFINE N == {b \in S : n.inFlight[b] # p}
<1>1. m = NetWith(n, p, N)
    BY DEF MarkBlocksAsInFlight, NetWith
<1>2. N \subseteq Block /\ \A b \in N : n.inFlight[b] = NoPeer
    OBVIOUS
<1>3. n.node[p].flight \cup N = n.node[p].flight \cup S
    BY Holder, SMT
<1>4. n.node[p].nFlight + Cardinality(N) <= MaxInTransit
    OBVIOUS
<1> HIDE DEF N
<1> QED BY <1>1, <1>2, <1>3, <1>4, InFlightNew, SMT

\* One peer's entry is replaced, nothing else.
Put(n, p, y) == [n EXCEPT !.node[p] = y]

LEMMA PutFields ==
    ASSUME NEW n \in Net, NEW p \in Peer, NEW y \in Node, NEW m, m = Put(n, p, y)
    PROVE  /\ m \in Net /\ m.node[p] = y /\ \A q \in Peer \ {p} : m.node[q] = n.node[q]
           /\ m.inFlight = n.inFlight /\ m.partial = n.partial /\ m.downloads = n.downloads
           /\ m.syncs = n.syncs /\ m.preferred = n.preferred /\ m.protected = n.protected
<1>1. m.node = [n.node EXCEPT ![p] = y] /\ n.node \in [Peer -> Node]
    BY DEF Net, Put
<1>2. /\ m.inFlight = n.inFlight /\ m.partial = n.partial /\ m.downloads = n.downloads
      /\ m.syncs = n.syncs /\ m.preferred = n.preferred /\ m.protected = n.protected
    BY DEF Net, Put
<1>3. m \in Net
    BY DEF Net, Put
<1> QED BY <1>1, <1>2, <1>3

\* A change of x to y that no counter sees.
Tweaks(x, y) ==
    /\ y \in Node
    /\ y.flight = x.flight /\ y.nFlight = x.nFlight /\ y.stalling = x.stalling
    /\ y.sync = x.sync /\ y.protect = x.protect
    /\ Connected(x) /\ Connected(y)

LEMMA Tweaked ==
    ASSUME NEW n, Exact(n), NEW p \in Peer, NEW y, Tweaks(n.node[p], y), NEW m, m = Put(n, p, y)
    PROVE  /\ Exact(m) /\ m.partial = n.partial /\ m.inFlight = n.inFlight
           /\ m.node[p] = y /\ \A q \in Peer \ {p} : m.node[q] = n.node[q]
           /\ \A q \in Peer : m.node[q].flight = n.node[q].flight
<1>1. n \in Net /\ y \in Node
    BY DEF Exact, Tweaks
<1>2. /\ m \in Net /\ m.node[p] = y /\ \A q \in Peer \ {p} : m.node[q] = n.node[q]
      /\ m.inFlight = n.inFlight /\ m.partial = n.partial /\ m.downloads = n.downloads
      /\ m.syncs = n.syncs /\ m.preferred = n.preferred /\ m.protected = n.protected
    BY <1>1, PutFields, SMT
<1>3. Touches(n, m)
    BY <1>2 DEF Touches, Tweaks
<1> QED BY <1>2, <1>3, Touched DEF Tweaks

LEMMA BetterBlock ==
    ASSUME NEW old \in Blocks, NEW b \in Block
    PROVE  /\ Better(old, b) \in Block /\ Better(old, b) # NoBlock /\ Better(old, b) \in {old, b}
           /\ Height[Better(old, b)] >= Height[b]
           /\ old # NoBlock => Height[Better(old, b)] >= Height[old]
    BY BlockTree, Branches, SMT DEF Better, Blocks

Indexed(index) == index \subseteq Block

LEMMA Available ==
    ASSUME NEW n, Exact(n), NEW index, Indexed(index), NEW p \in Peer, Connected(n.node[p]),
           NEW m, m = ProcessBlockAvailability(n, index, p)
    PROVE  /\ Exact(m) /\ Steps(n, m, index) /\ m.partial = n.partial /\ m.inFlight = n.inFlight
           /\ m.node[p].life = n.node[p].life
           /\ \A q \in Peer \ {p} : m.node[q] = n.node[q]
           /\ \A q \in Peer : m.node[q].flight = n.node[q].flight
<1> DEFINE x == n.node[p]
           y == [x EXCEPT !.best = Better(@, x.unknown), !.unknown = NoBlock]
<1>1. n \in Net /\ x \in Node
    BY DEF Exact, Net
<1>2. CASE x.unknown \notin index
    <2>1. m = n
        BY <1>2 DEF ProcessBlockAvailability
    <2> QED BY <1>1, <2>1, StepsSame
<1>3. CASE x.unknown \in index
    <2>1. m = Put(n, p, y)
        BY <1>1, <1>3 DEF ProcessBlockAvailability, Put, Net
    <2> HIDE DEF x
    <2>2. /\ x.best \in Blocks /\ Better(x.best, x.unknown) \in Block
          /\ Better(x.best, x.unknown) # NoBlock /\ Better(x.best, x.unknown) \in {x.best} \cup index
          /\ x.best # NoBlock => Height[Better(x.best, x.unknown)] >= Height[x.best]
        BY <1>1, <1>3, BetterBlock DEF Node, Indexed
    <2>3. /\ y \in Node /\ y.best = Better(x.best, x.unknown)
          /\ y.flight = x.flight /\ y.nFlight = x.nFlight /\ y.stalling = x.stalling
          /\ y.sync = x.sync /\ y.protect = x.protect /\ y.life = x.life
          /\ y.common = x.common /\ y.evict = x.evict /\ y.work = x.work
        BY <1>1, <2>2 DEF Node, Blocks
    <2> HIDE DEF y
    <2>4. Tweaks(x, y)
        BY <2>3 DEF Tweaks, Connected, x
    <2>5. /\ Exact(m) /\ m.partial = n.partial /\ m.inFlight = n.inFlight
          /\ m.node[p] = y /\ \A q \in Peer \ {p} : m.node[q] = n.node[q]
          /\ \A q \in Peer : m.node[q].flight = n.node[q].flight
        BY <2>1, <2>4, Tweaked, SMT DEF x
    <2>6. Steps(n, m, index)
        BY <1>1, <2>2, <2>3, <2>5, StepsSame, SMT DEF Steps, StepOf, Grows, x
    <2> QED BY <2>3, <2>5, <2>6 DEF x
<1> QED BY <1>2, <1>3

LEMMA Updated ==
    ASSUME NEW n, Exact(n), NEW index, Indexed(index), NEW p \in Peer, Connected(n.node[p]),
           NEW b \in Block, NEW m, m = UpdateBlockAvailability(n, index, p, b)
    PROVE  /\ Exact(m) /\ Steps(n, m, index) /\ m.partial = n.partial /\ m.inFlight = n.inFlight
           /\ m.node[p].life = n.node[p].life
           /\ \A q \in Peer \ {p} : m.node[q] = n.node[q]
           /\ \A q \in Peer : m.node[q].flight = n.node[q].flight
           /\ b \in index => m.node[p].best # NoBlock /\ Height[m.node[p].best] >= Height[b]
<1> DEFINE k == ProcessBlockAvailability(n, index, p)
           x == k.node[p]
           y == IF b \in index THEN [x EXCEPT !.best = Better(@, b)] ELSE [x EXCEPT !.unknown = b]
<1> HIDE DEF k
<1>1. /\ Exact(k) /\ Steps(n, k, index) /\ k.partial = n.partial /\ k.inFlight = n.inFlight
      /\ x.life = n.node[p].life
      /\ \A q \in Peer \ {p} : k.node[q] = n.node[q]
      /\ \A q \in Peer : k.node[q].flight = n.node[q].flight
    BY Available, SMT DEF k
<1>2. k \in Net /\ n \in Net /\ x \in Node
    BY <1>1 DEF Exact, Net
<1>3. m = Put(k, p, y)
    BY <1>2 DEF UpdateBlockAvailability, Put, Net, k
<1> HIDE DEF x
<1>4. /\ x.best \in Blocks /\ Better(x.best, b) \in Block
      /\ Better(x.best, b) # NoBlock /\ Better(x.best, b) \in {x.best, b} /\ Height[Better(x.best, b)] >= Height[b]
      /\ x.best # NoBlock => Height[Better(x.best, b)] >= Height[x.best]
    BY <1>2, BetterBlock DEF Node
<1>5. /\ y \in Node /\ y.best = IF b \in index THEN Better(x.best, b) ELSE x.best
      /\ y.flight = x.flight /\ y.nFlight = x.nFlight /\ y.stalling = x.stalling
      /\ y.sync = x.sync /\ y.protect = x.protect /\ y.life = x.life
      /\ y.common = x.common /\ y.evict = x.evict /\ y.work = x.work
    BY <1>2, <1>4 DEF Node, Blocks
<1> HIDE DEF y
<1>6. Tweaks(x, y)
    BY <1>1, <1>5 DEF Tweaks, Connected
<1>7. /\ Exact(m) /\ m.partial = k.partial /\ m.inFlight = k.inFlight
      /\ m.node[p] = y /\ \A q \in Peer \ {p} : m.node[q] = k.node[q]
      /\ \A q \in Peer : m.node[q].flight = k.node[q].flight
    BY <1>1, <1>3, <1>6, Tweaked, SMT DEF x
<1>8. Steps(k, m, index)
    BY <1>2, <1>4, <1>5, <1>7, StepsSame, SMT DEF Steps, StepOf, Grows, x
<1>9. Steps(n, m, index)
    BY <1>1, <1>2, <1>7, <1>8, StepsChain DEF Exact
<1> QED BY <1>1, <1>4, <1>5, <1>7, <1>9

\* A change of one peer's entry that a counter sees, the blocks in flight apart.
Recounts(n, m, p, y) ==
    /\ m \in Net /\ y \in Node /\ m.node = [n.node EXCEPT ![p] = y]
    /\ m.inFlight = n.inFlight /\ m.partial = n.partial /\ m.downloads = n.downloads
    /\ y.flight = n.node[p].flight /\ y.nFlight = n.node[p].nFlight
    /\ y.stalling = n.node[p].stalling /\ Connected(y)
    /\ m.syncs = n.syncs + One(y.sync) - One(n.node[p].sync)
    /\ m.protected = n.protected + One(y.protect) - One(n.node[p].protect)
    /\ m.preferred = n.preferred + One(Connected(y)) - One(Connected(n.node[p]))

LEMMA Counted ==
    ASSUME NEW n, Exact(n), NEW p \in Peer, NEW y, NEW m, Recounts(n, m, p, y)
    PROVE  /\ Exact(m) /\ m.partial = n.partial /\ m.inFlight = n.inFlight
           /\ m.node[p] = y /\ \A q \in Peer \ {p} : m.node[q] = n.node[q]
           /\ \A q \in Peer : m.node[q].flight = n.node[q].flight
<1> DEFINE x == n.node[p]
<1>1. /\ n \in Net /\ n.node \in [Peer -> Node] /\ ExactEntry(x, Flying(n, p)) /\ n.downloads \in Int
      /\ n.partial \subseteq {b \in Block : n.inFlight[b] # NoPeer}
    BY DEF Exact, Net, ExactNode
<1>2. m.node[p] = y /\ \A q \in Peer \ {p} : m.node[q] = n.node[q]
    BY <1>1 DEF Recounts
<1>3. Flying(m, p) = Flying(n, p)
    BY DEF Recounts, Flying
<1>4. /\ y.flight = x.flight /\ y.nFlight = x.nFlight /\ y.stalling = x.stalling /\ Connected(y)
      /\ m.downloads = n.downloads
    BY DEF Recounts
<1> HIDE DEF x
<1>5. ExactEntry(y, Flying(m, p))
    BY <1>1, <1>3, <1>4 DEF ExactEntry
<1>6. m.downloads = n.downloads + One(y.flight # {}) - One(x.flight # {})
    BY <1>1, <1>4, SMT DEF One
<1>7. Replaces(n, m, p, x, y)
    BY <1>1, <1>5, <1>6 DEF Recounts, Replaces, x
<1> QED BY <1>2, <1>4, <1>7, Replaced DEF Recounts, x

LEMMA StartsSync ==
    ASSUME NEW n, Exact(n), NEW c, NEW p \in Peer, Connected(n.node[p]), NEW m, m = StartSync(n, c, p)
    PROVE  /\ Exact(m) /\ Steps(n, m, {}) /\ m.partial = n.partial /\ m.inFlight = n.inFlight
           /\ m.node[p].life = n.node[p].life
           /\ \A q \in Peer \ {p} : m.node[q] = n.node[q]
           /\ \A q \in Peer : m.node[q].flight = n.node[q].flight
<1> DEFINE x == n.node[p]
           y == [x EXCEPT !.sync = TRUE]
           k == [n EXCEPT !.node[p].sync = TRUE, !.syncs = @ + 1]
<1>1. n \in Net /\ x \in Node /\ n.node \in [Peer -> Node]
    BY DEF Exact, Net
<1>2. CASE m = n
    BY <1>1, <1>2, StepsSame
<1>3. CASE ~x.sync /\ m = k
    <2>1. m.node = [n.node EXCEPT ![p] = y]
        BY <1>1, <1>3 DEF Net
    <2>2. /\ m.inFlight = n.inFlight /\ m.partial = n.partial /\ m.downloads = n.downloads
          /\ m.syncs = n.syncs + 1 /\ m.preferred = n.preferred /\ m.protected = n.protected
        BY <1>1, <1>3 DEF Net
    <2>3. m = [node |-> m.node, inFlight |-> m.inFlight, partial |-> m.partial,
               downloads |-> m.downloads, syncs |-> m.syncs, preferred |-> m.preferred,
               protected |-> m.protected]
        BY <1>1, <1>3 DEF Net
    <2> HIDE DEF x, k
    <2>4. /\ y \in Node /\ y.flight = x.flight /\ y.nFlight = x.nFlight /\ y.stalling = x.stalling
          /\ y.sync /\ y.protect = x.protect /\ y.life = x.life /\ y.best = x.best
          /\ y.common = x.common /\ y.evict = x.evict /\ y.work = x.work
        BY <1>1 DEF Node
    <2> HIDE DEF y
    <2>5. m \in Net
        BY <1>1, <2>1, <2>2, <2>3, <2>4, NetRecord, SMT DEF Net
    <2>6. Connected(x) /\ Connected(y)
        BY <2>4 DEF Connected, x
    <2>7. /\ m.syncs = n.syncs + One(y.sync) - One(x.sync)
          /\ m.protected = n.protected + One(y.protect) - One(x.protect)
          /\ m.preferred = n.preferred + One(Connected(y)) - One(Connected(x))
        BY <1>1, <1>3, <2>2, <2>4, <2>6, SMT DEF One, Net
    <2>8. Recounts(n, m, p, y)
        BY <2>1, <2>2, <2>4, <2>5, <2>6, <2>7 DEF Recounts, x
    <2>9. /\ Exact(m) /\ m.partial = n.partial /\ m.inFlight = n.inFlight
          /\ m.node[p] = y /\ \A q \in Peer \ {p} : m.node[q] = n.node[q]
          /\ \A q \in Peer : m.node[q].flight = n.node[q].flight
        BY <2>8, Counted, SMT
    <2>10. Steps(n, m, {})
        BY <1>1, <2>4, <2>9, StepsSame, SMT DEF Steps, StepOf, Grows, x
    <2> QED BY <2>4, <2>9, <2>10 DEF x
<1> QED BY <1>2, <1>3 DEF StartSync

LEMMA Protects ==
    ASSUME NEW n, Exact(n), NEW c, NEW p \in Peer, Connected(n.node[p]), NEW m, m = Protect(n, c, p)
    PROVE  /\ Exact(m) /\ Steps(n, m, {}) /\ m.partial = n.partial /\ m.inFlight = n.inFlight
           /\ m.node[p].life = n.node[p].life
           /\ \A q \in Peer \ {p} : m.node[q] = n.node[q]
           /\ \A q \in Peer : m.node[q].flight = n.node[q].flight
<1> DEFINE x == n.node[p]
           y == [x EXCEPT !.protect = TRUE]
           k == [n EXCEPT !.node[p].protect = TRUE, !.protected = @ + 1]
<1>1. n \in Net /\ x \in Node /\ n.node \in [Peer -> Node]
    BY DEF Exact, Net
<1>2. CASE m = n
    BY <1>1, <1>2, StepsSame
<1>3. CASE ~x.protect /\ m = k
    <2>1. m.node = [n.node EXCEPT ![p] = y]
        BY <1>1, <1>3 DEF Net
    <2>2. /\ m.inFlight = n.inFlight /\ m.partial = n.partial /\ m.downloads = n.downloads
          /\ m.syncs = n.syncs /\ m.preferred = n.preferred /\ m.protected = n.protected + 1
        BY <1>1, <1>3 DEF Net
    <2>3. m = [node |-> m.node, inFlight |-> m.inFlight, partial |-> m.partial,
               downloads |-> m.downloads, syncs |-> m.syncs, preferred |-> m.preferred,
               protected |-> m.protected]
        BY <1>1, <1>3 DEF Net
    <2> HIDE DEF x, k
    <2>4. /\ y \in Node /\ y.flight = x.flight /\ y.nFlight = x.nFlight /\ y.stalling = x.stalling
          /\ y.sync = x.sync /\ y.protect /\ y.life = x.life /\ y.best = x.best
          /\ y.common = x.common /\ y.evict = x.evict /\ y.work = x.work
        BY <1>1 DEF Node
    <2> HIDE DEF y
    <2>5. m \in Net
        BY <1>1, <2>1, <2>2, <2>3, <2>4, NetRecord, SMT DEF Net
    <2>6. Connected(x) /\ Connected(y)
        BY <2>4 DEF Connected, x
    <2>7. /\ m.syncs = n.syncs + One(y.sync) - One(x.sync)
          /\ m.protected = n.protected + One(y.protect) - One(x.protect)
          /\ m.preferred = n.preferred + One(Connected(y)) - One(Connected(x))
        BY <1>1, <1>3, <2>2, <2>4, <2>6, SMT DEF One, Net
    <2>8. Recounts(n, m, p, y)
        BY <2>1, <2>2, <2>4, <2>5, <2>6, <2>7 DEF Recounts, x
    <2>9. /\ Exact(m) /\ m.partial = n.partial /\ m.inFlight = n.inFlight
          /\ m.node[p] = y /\ \A q \in Peer \ {p} : m.node[q] = n.node[q]
          /\ \A q \in Peer : m.node[q].flight = n.node[q].flight
        BY <2>8, Counted, SMT
    <2>10. Steps(n, m, {})
        BY <1>1, <2>4, <2>9, StepsSame, SMT DEF Steps, StepOf, Grows, x
    <2> QED BY <2>4, <2>9, <2>10 DEF x
<1> QED BY <1>2, <1>3 DEF Protect

\* fDisconnect is set.
Closing(n, p) == [n EXCEPT !.node[p].life = "closing"]

LEMMA Closes ==
    ASSUME NEW n, Exact(n), NEW p \in Peer, Connected(n.node[p]), NEW m, m = Closing(n, p)
    PROVE  /\ Exact(m) /\ Steps(n, m, {}) /\ m.partial = n.partial /\ m.inFlight = n.inFlight
           /\ m.node[p].life = "closing"
           /\ \A q \in Peer \ {p} : m.node[q] = n.node[q]
           /\ \A q \in Peer : m.node[q].flight = n.node[q].flight
<1> DEFINE x == n.node[p]
           y == [x EXCEPT !.life = "closing"]
<1>1. n \in Net /\ x \in Node
    BY DEF Exact, Net
<1>2. m = Put(n, p, y)
    BY <1>1 DEF Closing, Put, Net
<1> HIDE DEF x
<1>3. /\ y \in Node /\ y.best = x.best /\ y.life = "closing"
      /\ y.flight = x.flight /\ y.nFlight = x.nFlight /\ y.stalling = x.stalling
      /\ y.sync = x.sync /\ y.protect = x.protect
      /\ y.common = x.common /\ y.evict = x.evict /\ y.work = x.work
    BY <1>1 DEF Node
<1> HIDE DEF y
<1>4. Tweaks(x, y)
    BY <1>3 DEF Tweaks, Connected, x
<1>5. /\ Exact(m) /\ m.partial = n.partial /\ m.inFlight = n.inFlight
      /\ m.node[p] = y /\ \A q \in Peer \ {p} : m.node[q] = n.node[q]
      /\ \A q \in Peer : m.node[q].flight = n.node[q].flight
    BY <1>2, <1>4, Tweaked, SMT DEF x
<1>6. Steps(n, m, {})
    BY <1>1, <1>3, <1>5, StepsSame, SMT DEF Steps, StepOf, Grows, x
<1> QED BY <1>3, <1>5, <1>6

Initialized(n, p) == [n EXCEPT !.node[p].life = "up", !.preferred = @ + 1]

LEMMA Initializes ==
    ASSUME NEW n, Exact(n), NEW p \in Peer, n.node[p].life = "new", NEW m, m = Initialized(n, p)
    PROVE  /\ Exact(m) /\ m.partial = n.partial
           /\ m.node[p].common = NoBlock /\ m.node[p].evict = "off" /\ m.node[p].flight = {}
           /\ m.node[p].best = NoBlock
           /\ \A q \in Peer \ {p} : m.node[q] = n.node[q]
<1> DEFINE x == n.node[p]
           y == [x EXCEPT !.life = "up"]
<1>1. n \in Net /\ x \in Node /\ n.node \in [Peer -> Node] /\ ExactEntry(x, Flying(n, p))
    BY DEF Exact, Net, ExactNode
<1>2. m.node = [n.node EXCEPT ![p] = y]
    BY <1>1 DEF Initialized, Net
<1>3. /\ m.inFlight = n.inFlight /\ m.partial = n.partial /\ m.downloads = n.downloads
      /\ m.syncs = n.syncs /\ m.preferred = n.preferred + 1 /\ m.protected = n.protected
    BY <1>1 DEF Initialized, Net
<1>4. m = [node |-> m.node, inFlight |-> m.inFlight, partial |-> m.partial,
           downloads |-> m.downloads, syncs |-> m.syncs, preferred |-> m.preferred,
           protected |-> m.protected]
    BY <1>1 DEF Initialized, Net
<1> HIDE DEF x
<1>5. /\ y \in Node /\ y.flight = x.flight /\ y.nFlight = x.nFlight /\ y.stalling = x.stalling
      /\ y.sync = x.sync /\ y.protect = x.protect /\ y.life = "up"
      /\ y.common = x.common /\ y.evict = x.evict /\ y.best = x.best
    BY <1>1 DEF Node
<1>6. ~Connected(x) /\ x.common = NoBlock /\ x.evict = "off" /\ x.flight = {} /\ x.best = NoBlock
    BY <1>1 DEF ExactEntry, Connected, CNodeState, x
<1> HIDE DEF y
<1>7. m \in Net
    BY <1>1, <1>2, <1>3, <1>4, <1>5, NetRecord, SMT DEF Net
<1>8. Connected(y)
    BY <1>5 DEF Connected
<1>9. /\ m.syncs = n.syncs + One(y.sync) - One(x.sync)
      /\ m.protected = n.protected + One(y.protect) - One(x.protect)
      /\ m.preferred = n.preferred + One(Connected(y)) - One(Connected(x))
    BY <1>1, <1>3, <1>5, <1>6, <1>8, SMT DEF One, Net
<1>10. Recounts(n, m, p, y)
    BY <1>2, <1>3, <1>5, <1>7, <1>8, <1>9 DEF Recounts, x
<1> QED BY <1>5, <1>6, <1>10, Counted, SMT

\* What FinalizeNode leaves of the peer p.
Gone == [CNodeState EXCEPT !.life = "gone"]

Finalized(n, p) ==
    [node |-> [n.node EXCEPT ![p] = Gone],
     inFlight |-> [b \in Block |-> IF b \in n.node[p].flight THEN NoPeer ELSE n.inFlight[b]],
     partial |-> n.partial \ n.node[p].flight,
     downloads |-> n.downloads - One(n.node[p].nFlight # 0),
     syncs |-> n.syncs - One(n.node[p].sync),
     preferred |-> n.preferred - 1,
     protected |-> n.protected - One(n.node[p].protect)]

LEMMA Finalizes ==
    ASSUME NEW n, Exact(n), NEW p \in Peer, n.node[p].life = "closing", NEW m, m = Finalized(n, p)
    PROVE  /\ Exact(m) /\ m.partial = n.partial \ n.node[p].flight
           /\ m.node[p] = Gone
           /\ \A q \in Peer \ {p} : m.node[q] = n.node[q] /\ n.node[p].flight \cap n.node[q].flight = {}
<1> DEFINE x == n.node[p]
<1>1. n \in Net /\ x \in Node /\ n.node \in [Peer -> Node] /\ ExactEntry(x, Flying(n, p)) /\ Connected(x)
    BY DEF Exact, Net, ExactNode, Connected
<1>2. /\ m.node = [n.node EXCEPT ![p] = Gone]
      /\ m.inFlight = [b \in Block |-> IF b \in x.flight THEN NoPeer ELSE n.inFlight[b]]
      /\ m.partial = n.partial \ x.flight /\ m.downloads = n.downloads - One(x.nFlight # 0)
      /\ m.syncs = n.syncs - One(x.sync) /\ m.preferred = n.preferred - 1
      /\ m.protected = n.protected - One(x.protect)
    BY DEF Finalized
<1>3. m = [node |-> m.node, inFlight |-> m.inFlight, partial |-> m.partial,
           downloads |-> m.downloads, syncs |-> m.syncs, preferred |-> m.preferred,
           protected |-> m.protected]
    BY DEF Finalized
<1> HIDE DEF x
<1>4. Gone \in Node /\ Gone.flight = {} /\ Gone.nFlight = 0 /\ ~Gone.stalling /\ ~Gone.sync /\ ~Gone.protect
      /\ Gone.life = "gone" /\ ~Connected(Gone)
    BY DEF Gone, CNodeState, Node, Blocks, Connected
<1>5. /\ n.inFlight \in [Block -> Peer \cup {NoPeer}] /\ n.partial \in SUBSET Block
      /\ n.downloads \in Int /\ n.syncs \in Int /\ n.preferred \in Int /\ n.protected \in Int
      /\ One(x.nFlight # 0) \in Int /\ One(x.sync) \in Int /\ One(x.protect) \in Int
    BY <1>1, SMT DEF Net, One
<1>6. m.inFlight \in [Block -> Peer \cup {NoPeer}]
    BY <1>2, <1>5, SMT
<1>7. m \in Net
    BY <1>1, <1>2, <1>3, <1>4, <1>5, <1>6, NetRecord, SMT
<1>8. x.flight = Flying(n, p) /\ (x.nFlight # 0 <=> x.flight # {})
    BY <1>1, Holder, SMT DEF ExactEntry, x
<1>9. Flying(m, p) = {}
    BY <1>2, <1>8, PeerAssumption, SMT DEF Flying
<1>10. \A b \in Block : \A q \in Peer \ {p} : m.inFlight[b] = q <=> n.inFlight[b] = q
    BY <1>2, <1>8, PeerAssumption, SMT DEF Flying
<1>11. m.partial \subseteq {b \in Block : m.inFlight[b] # NoPeer}
    BY <1>2 DEF Exact
<1>12. ExactEntry(Gone, Flying(m, p))
    <2>1. Gone = [CNodeState EXCEPT !.life = Gone.life]
        BY <1>4 DEF Gone
    <2>2. 0 <= MaxInTransit /\ Cardinality({}) = 0
        BY FS_EmptySet, LimitAssumption, SMT
    <2> QED BY <1>4, <1>9, <2>1, <2>2 DEF ExactEntry
<1>13. /\ m.downloads = n.downloads + One(Gone.flight # {}) - One(x.flight # {})
       /\ m.syncs = n.syncs + One(Gone.sync) - One(x.sync)
       /\ m.protected = n.protected + One(Gone.protect) - One(x.protect)
       /\ m.preferred = n.preferred + One(Connected(Gone)) - One(Connected(x))
    BY <1>1, <1>2, <1>4, <1>5, <1>8, SMT DEF One
<1>14. Replaces(n, m, p, x, Gone)
    BY <1>2, <1>4, <1>7, <1>10, <1>11, <1>12, <1>13 DEF Replaces, x
<1>15. \A q \in Peer \ {p} : x.flight \cap n.node[q].flight = {}
    BY Holder, SMT DEF x
<1> QED BY <1>1, <1>2, <1>14, <1>15, Replaced DEF x

\* What ConsiderEviction makes of a peer's entry x.
Evicted(x, y, c, late) ==
    /\ Tweaks(x, y) /\ y.best = x.best /\ y.common = x.common
    /\ y.evict # "off" => y.work \in c.index /\ Height[y.work] <= Height[c.tip]
    /\ y.evict = "sent" => x.evict # "off" /\ y.work = x.work
    /\ y.life = "up" => x.life = "up"
    /\ x.life = "up" /\ y.life # "up" =>
          late /\ x.evict = "sent" /\ (x.best = NoBlock \/ Height[x.best] < Height[c.tip])

LEMMA Evicts ==
    ASSUME NEW n, Exact(n), NEW p \in Peer, Connected(n.node[p]), NEW c, c.tip \in Block, c.tip \in c.index,
           n.node[p].evict # "off" => /\ n.node[p].work \in c.index
                                      /\ Height[n.node[p].work] <= Height[c.tip],
           NEW late \in BOOLEAN, NEW m, m = ConsiderEviction(n, c, p, late)
    PROVE  /\ Exact(m) /\ m.partial = n.partial /\ m.inFlight = n.inFlight
           /\ Evicted(n.node[p], m.node[p], c, late)
           /\ \A q \in Peer \ {p} : m.node[q] = n.node[q]
           /\ \A q \in Peer : m.node[q].flight = n.node[q].flight
<1> DEFINE x == n.node[p]
           yOff == [x EXCEPT !.evict = "off", !.work = NoBlock]
           yArmed == [x EXCEPT !.evict = "armed", !.work = c.tip]
           yClosing == [x EXCEPT !.life = "closing"]
           ySent == [x EXCEPT !.evict = "sent"]
           behind == x.best = NoBlock \/ Height[x.best] < Height[c.tip]
<1>1. n \in Net /\ x \in Node
    BY DEF Exact, Net
<1>2. \/ m = n
      \/ m = Put(n, p, yOff)
      \/ m = Put(n, p, yArmed)
      \/ m = Put(n, p, yClosing) /\ late /\ x.evict = "sent" /\ behind
      \/ m = Put(n, p, ySent) /\ x.evict # "off"
    BY <1>1 DEF ConsiderEviction, Put, Net
<1>3. (x.evict # "off" => x.work \in c.index /\ Height[x.work] <= Height[c.tip]) /\ Connected(x)
    OBVIOUS
<1> HIDE DEF x
<1>4. ASSUME NEW y, Evicted(x, y, c, late), m = Put(n, p, y)
      PROVE  /\ Exact(m) /\ m.partial = n.partial /\ m.inFlight = n.inFlight /\ Evicted(x, m.node[p], c, late)
             /\ \A q \in Peer \ {p} : m.node[q] = n.node[q]
             /\ \A q \in Peer : m.node[q].flight = n.node[q].flight
    <2>1. Tweaks(n.node[p], y)
        BY <1>4 DEF Evicted, x
    <2> QED BY <1>4, <2>1, Tweaked, SMT
<1>5. Evicted(x, x, c, late)
    BY <1>1, <1>3 DEF Evicted, Tweaks
<1>6. Evicted(x, yOff, c, late)
    <2>1. /\ yOff \in Node /\ yOff.best = x.best /\ yOff.life = x.life /\ yOff.common = x.common
          /\ yOff.flight = x.flight /\ yOff.nFlight = x.nFlight /\ yOff.stalling = x.stalling
          /\ yOff.sync = x.sync /\ yOff.protect = x.protect /\ yOff.evict = "off"
        BY <1>1 DEF Node, Blocks
    <2> HIDE DEF yOff
    <2> QED BY <1>3, <2>1 DEF Evicted, Tweaks, Connected
<1>7. Evicted(x, yArmed, c, late)
    <2>1. /\ yArmed \in Node /\ yArmed.best = x.best /\ yArmed.life = x.life /\ yArmed.common = x.common
          /\ yArmed.flight = x.flight /\ yArmed.nFlight = x.nFlight /\ yArmed.stalling = x.stalling
          /\ yArmed.sync = x.sync /\ yArmed.protect = x.protect /\ yArmed.evict = "armed"
          /\ yArmed.work = c.tip
        BY <1>1 DEF Node, Blocks
    <2>2. Height[c.tip] \in Nat
        BY Branches
    <2> HIDE DEF yArmed
    <2> QED BY <1>3, <2>1, <2>2, SMT DEF Evicted, Tweaks, Connected
<1>8. ASSUME late, x.evict = "sent", behind PROVE Evicted(x, yClosing, c, late)
    <2>1. /\ yClosing \in Node /\ yClosing.best = x.best /\ yClosing.life = "closing"
          /\ yClosing.flight = x.flight /\ yClosing.nFlight = x.nFlight /\ yClosing.stalling = x.stalling
          /\ yClosing.sync = x.sync /\ yClosing.protect = x.protect /\ yClosing.evict = x.evict
          /\ yClosing.work = x.work /\ yClosing.common = x.common
        BY <1>1 DEF Node
    <2> HIDE DEF yClosing
    <2> QED BY <1>3, <1>8, <2>1 DEF Evicted, Tweaks, Connected
<1>9. ASSUME x.evict # "off" PROVE Evicted(x, ySent, c, late)
    <2>1. /\ ySent \in Node /\ ySent.best = x.best /\ ySent.life = x.life /\ ySent.common = x.common
          /\ ySent.flight = x.flight /\ ySent.nFlight = x.nFlight /\ ySent.stalling = x.stalling
          /\ ySent.sync = x.sync /\ ySent.protect = x.protect /\ ySent.evict = "sent"
          /\ ySent.work = x.work
        BY <1>1 DEF Node
    <2> HIDE DEF ySent
    <2> QED BY <1>3, <1>9, <2>1 DEF Evicted, Tweaks, Connected
<1> HIDE DEF yOff, yArmed, yClosing, ySent
<1>10. CASE m = n
    BY <1>5, <1>10 DEF x
<1> QED BY <1>2, <1>4, <1>6, <1>7, <1>8, <1>9, <1>10 DEF x

\* The peers that hold up the window are marked.
Stalled(n, S) ==
    [n EXCEPT !.node = [q \in Peer |->
        IF q \in S THEN [@[q] EXCEPT !.stalling = TRUE] ELSE @[q]]]

Delaying(n, S) == \A q \in S \cap Peer : n.node[q].flight # {}

LEMMA Stalls ==
    ASSUME NEW n, Exact(n), NEW S, Delaying(n, S),
           NEW m, m = Stalled(n, S)
    PROVE  /\ Exact(m) /\ Steps(n, m, {}) /\ m.partial = n.partial /\ m.inFlight = n.inFlight
           /\ \A q \in Peer : m.node[q].life = n.node[q].life /\ m.node[q].flight = n.node[q].flight
<1>1. n \in Net /\ n.node \in [Peer -> Node]
    BY DEF Exact, Net
<1>2. /\ \A q \in Peer \cap S : m.node[q] = [n.node[q] EXCEPT !.stalling = TRUE]
      /\ \A q \in Peer \ S : m.node[q] = n.node[q]
      /\ DOMAIN m.node = Peer /\ m.node = [q \in Peer |-> m.node[q]]
    BY <1>1 DEF Stalled, Net
<1>3. /\ m.inFlight = n.inFlight /\ m.partial = n.partial /\ m.downloads = n.downloads
      /\ m.syncs = n.syncs /\ m.preferred = n.preferred /\ m.protected = n.protected
      /\ m = [node |-> m.node, inFlight |-> m.inFlight, partial |-> m.partial,
              downloads |-> m.downloads, syncs |-> m.syncs, preferred |-> m.preferred,
              protected |-> m.protected]
    BY <1>1 DEF Stalled, Net
<1>5. ASSUME NEW q \in Peer
      PROVE  /\ m.node[q] \in Node /\ m.node[q].flight = n.node[q].flight
             /\ m.node[q].nFlight = n.node[q].nFlight /\ m.node[q].sync = n.node[q].sync
             /\ m.node[q].protect = n.node[q].protect /\ m.node[q].life = n.node[q].life
             /\ m.node[q].best = n.node[q].best /\ m.node[q].common = n.node[q].common
             /\ m.node[q].evict = n.node[q].evict /\ m.node[q].work = n.node[q].work
             /\ q \notin S => m.node[q] = n.node[q]
    <2>1. n.node[q] \in Node
        BY <1>1
    <2>2. CASE q \in S
        <3> DEFINE x == n.node[q]
                   y == [x EXCEPT !.stalling = TRUE]
        <3>1. m.node[q] = y
            BY <1>2, <2>2
        <3> HIDE DEF x
        <3>2. /\ y \in Node /\ y.flight = x.flight /\ y.nFlight = x.nFlight /\ y.sync = x.sync
              /\ y.protect = x.protect /\ y.life = x.life /\ y.best = x.best
              /\ y.common = x.common /\ y.evict = x.evict /\ y.work = x.work
            BY <2>1 DEF Node, x
        <3> HIDE DEF y
        <3> QED BY <2>2, <3>1, <3>2 DEF x
    <2>3. CASE q \notin S
        BY <1>2, <2>1, <2>3
    <2> QED BY <2>2, <2>3
<1>6. m.node \in [Peer -> Node]
    BY <1>2, <1>5
<1>7. m \in Net
    BY <1>1, <1>3, <1>6, NetRecord DEF Net
<1>8. \A q \in Peer : n.node[q].flight # {} => Connected(n.node[q])
    BY Holder
<1>9. Touches(n, m)
    BY <1>3, <1>5, <1>7, <1>8 DEF Touches, Connected, Delaying
<1>10. Exact(m)
    BY <1>9, Touched
<1>11. Steps(n, n, {})
    BY <1>1, StepsSame
<1>12. Steps(n, m, {})
    BY <1>5, <1>11 DEF Steps, StepOf, Grows
<1> QED BY <1>3, <1>5, <1>10, <1>12

\* What may be asked of p, and who may be marked.
Permitted(n, p, find) ==
    /\ find.get \subseteq Block /\ \A b \in find.get : n.inFlight[b] = NoPeer
    /\ n.node[p].nFlight + Cardinality(find.get) <= MaxInTransit
    /\ find.common \in Blocks
    /\ Delaying(n, find.stallers)

\* FindNextBlocksToDownload asks for blocks of the index that nobody has been asked
\* for, no more than the peer may have in flight, and moves pindexLastCommonBlock
\* to a block whose ancestors are all stored.
LEMMA Finds ==
    ASSUME NEW n, Exact(n), NEW c, Tree(c), NEW p \in Peer,
           n.node[p].best # NoBlock => n.node[p].best \in c.index,
           n.node[p].common # NoBlock => Anc[n.node[p].common] \subseteq c.data,
           NEW walk, walk = DownloadWalk(n, c, p),
           NEW find, find = FindNextBlocksToDownload(n, p, walk)
    PROVE  /\ Permitted(n, p, find) /\ find.get \subseteq c.index
           /\ find.common # NoBlock => Anc[find.common] \subseteq c.data
<1> DEFINE x == n.node[p]
           k == MaxInTransit - x.nFlight
           start == IF x.common = NoBlock THEN c.tip ELSE x.common
           fork == LastCommonAncestor(start, x.best)
           Free == {b \in walk.missing : n.inFlight[b] = NoPeer}
           InFly == walk.missing \ Free
           Inside == {b \in Free : Height[b] <= walk.end}
<1>1. /\ x \in Node /\ x.nFlight \in 0..MaxInTransit /\ x.best \in Blocks /\ x.common \in Blocks
      /\ n.inFlight \in [Block -> Peer \cup {NoPeer}]
    BY Holder, SMT DEF Node, Net
<1>2. k \in Nat /\ x.nFlight + k = MaxInTransit
    BY <1>1, LimitAssumption, SMT
<1>3. /\ find.get = Bottom(Inside, k)
      /\ find.common = IF walk.linked = {} THEN walk.common ELSE Highest(walk.linked)
      /\ find.stallers \subseteq {n.inFlight[b] : b \in Bottom(InFly, 1)}
    BY DEF FindNextBlocksToDownload
<1>4. /\ c.tip \in Block /\ c.index \subseteq Block /\ c.data \subseteq Block
      /\ Anc[c.tip] \subseteq c.data /\ \A b \in c.index : Anc[b] \subseteq c.index
    BY DEF Tree, Chain
<1>5. \E a \in Block : walk.missing \subseteq Anc[a] /\ Anc[a] \subseteq c.index
    <2>1. CASE walk.missing = {}
        BY <2>1, BlockTree DEF Tree
    <2>2. CASE walk.missing # {}
        <3>1. x.best \in Block /\ walk.missing \subseteq Anc[x.best]
            BY <1>1, <2>2 DEF DownloadWalk, Blocks
        <3> QED BY <1>4, <3>1, BlockTree
    <2> QED BY <2>1, <2>2
<1>6. PICK a \in Block : walk.missing \subseteq Anc[a] /\ Anc[a] \subseteq c.index
    BY <1>5
<1>7. Inside \subseteq Anc[a] /\ InFly \subseteq Anc[a] /\ Inside \subseteq c.index
    BY <1>6
<1>8. /\ find.get \subseteq Inside /\ Cardinality(find.get) \in 0..k
      /\ Bottom(InFly, 1) \subseteq InFly
    <2> HIDE DEF Inside, InFly, k
    <2>1. Bottom(Inside, k) \subseteq Inside /\ Cardinality(Bottom(Inside, k)) \in 0..k
        BY <1>2, <1>7, BottomOf
    <2>2. Bottom(InFly, 1) \subseteq InFly
        BY <1>7, BottomOf
    <2> QED BY <1>3, <2>1, <2>2
<1>9. /\ find.get \subseteq c.index /\ find.get \subseteq Block
      /\ \A b \in find.get : n.inFlight[b] = NoPeer
    BY <1>4, <1>7, <1>8
<1>10. x.nFlight + Cardinality(find.get) <= MaxInTransit
    <2> HIDE DEF x, k
    <2>1. x.nFlight \in Nat
        BY <1>1, SMT
    <2> QED BY <1>2, <1>8, <2>1, LimitAssumption, SMT
<1>11. ASSUME NEW q \in find.stallers \cap Peer PROVE n.node[q].flight # {}
    <2>1. PICK b \in InFly : q = n.inFlight[b]
        BY <1>3, <1>8
    <2>2. b \in Block
        BY <1>4, <1>6, <2>1
    <2> QED BY <2>1, <2>2, Holder, SMT
<1>12. find.common \in Blocks /\ (find.common # NoBlock => Anc[find.common] \subseteq c.data)
    <2>1. CASE walk.linked = {}
        <3>1. walk.common = x.common \/ (walk.common = fork /\ x.best \in Block)
            BY <1>1 DEF DownloadWalk, Blocks
        <3>2. start \in Block /\ Anc[start] \subseteq c.data
            BY <1>1, <1>4 DEF Blocks
        <3>3. CASE walk.common = fork /\ x.best \in Block
            <4> HIDE DEF start, x
            <4>1. fork \in Anc[start]
                BY <3>2, <3>3, CommonAncestor
            <4>2. fork \in Block /\ Anc[fork] \subseteq Anc[start]
                BY <3>2, <4>1, Branches
            <4> QED BY <1>3, <2>1, <3>2, <3>3, <4>2 DEF Blocks
        <3> QED BY <1>1, <1>3, <2>1, <3>1, <3>3
    <2>2. CASE walk.linked # {}
        <3>1. walk.linked \subseteq Linked(c.data)
            BY DEF DownloadWalk
        <3>2. Linked(c.data) \subseteq Block
            BY <1>4 DEF Linked
        <3>3. Highest(walk.linked) \in walk.linked
            BY <2>2, <3>1, <3>2, HighestOf
        <3> QED BY <1>3, <2>2, <3>1, <3>2, <3>3 DEF Linked, Blocks
    <2> QED BY <2>1, <2>2
<1> QED BY <1>9, <1>10, <1>11, <1>12 DEF Permitted, Delaying

WithCommon(n, p, b) == [n EXCEPT !.node[p].common = b]

LEMMA Commons ==
    ASSUME NEW n, Exact(n), NEW p \in Peer, Connected(n.node[p]), NEW b \in Blocks,
           NEW m, m = WithCommon(n, p, b)
    PROVE  /\ Exact(m) /\ m.partial = n.partial /\ m.inFlight = n.inFlight
           /\ m.node[p].common = b /\ m.node[p].life = n.node[p].life
           /\ m.node[p].best = n.node[p].best /\ m.node[p].nFlight = n.node[p].nFlight
           /\ m.node[p].evict = n.node[p].evict /\ m.node[p].work = n.node[p].work
           /\ \A q \in Peer \ {p} : m.node[q] = n.node[q]
           /\ \A q \in Peer : m.node[q].flight = n.node[q].flight
<1> DEFINE x == n.node[p]
           y == [x EXCEPT !.common = b]
<1>1. n \in Net /\ x \in Node
    BY DEF Exact, Net
<1>2. m = Put(n, p, y)
    BY <1>1 DEF WithCommon, Put, Net
<1> HIDE DEF x
<1>3. /\ y \in Node /\ y.best = x.best /\ y.life = x.life
      /\ y.flight = x.flight /\ y.nFlight = x.nFlight /\ y.stalling = x.stalling
      /\ y.sync = x.sync /\ y.protect = x.protect
      /\ y.common = b /\ y.evict = x.evict /\ y.work = x.work
    BY <1>1 DEF Node
<1> HIDE DEF y
<1>4. Tweaks(x, y)
    BY <1>3 DEF Tweaks, Connected, x
<1>5. /\ Exact(m) /\ m.partial = n.partial /\ m.inFlight = n.inFlight
      /\ m.node[p] = y /\ \A q \in Peer \ {p} : m.node[q] = n.node[q]
      /\ \A q \in Peer : m.node[q].flight = n.node[q].flight
    BY <1>2, <1>4, Tweaked, SMT DEF x
<1> QED BY <1>3, <1>5 DEF x

LEMMA Downloads ==
    ASSUME NEW n, Exact(n), NEW p \in Peer, Connected(n.node[p]), NEW find, Permitted(n, p, find),
           NEW m, m = DownloadBlocks(n, p, find)
    PROVE  /\ Exact(m) /\ m.partial = n.partial
           /\ m.node[p].common = find.common /\ m.node[p].life = n.node[p].life
           /\ m.node[p].evict = n.node[p].evict /\ m.node[p].work = n.node[p].work
           /\ m.node[p].best = n.node[p].best
           /\ m.node[p].flight = n.node[p].flight \cup find.get
           /\ \A q \in Peer \ {p} : /\ StepOf(n.node[q], m.node[q], {})
                                    /\ m.node[q].flight = n.node[q].flight
<1> DEFINE k == WithCommon(n, p, find.common)
           l == MarkBlocksAsInFlight(k, p, find.get)
           S == {q \in find.stallers : l.node[p].nFlight = 0}
<1>1. m = Stalled(l, S)
    BY DEF DownloadBlocks, WithCommon, Stalled
<1> HIDE DEF k
<1>2. /\ Exact(k) /\ k.partial = n.partial /\ k.inFlight = n.inFlight
      /\ k.node[p].common = find.common /\ k.node[p].life = n.node[p].life
      /\ k.node[p].best = n.node[p].best /\ k.node[p].nFlight = n.node[p].nFlight
      /\ k.node[p].evict = n.node[p].evict /\ k.node[p].work = n.node[p].work
      /\ \A q \in Peer \ {p} : k.node[q] = n.node[q]
      /\ \A q \in Peer : k.node[q].flight = n.node[q].flight
    BY Commons, SMT DEF k, Permitted
<1>3. Connected(k.node[p])
    BY <1>2 DEF Connected
<1>4. \A b \in find.get : k.inFlight[b] \in {p, NoPeer}
    BY <1>2 DEF Permitted
<1>5. {b \in find.get : k.inFlight[b] # p} = find.get
    BY <1>2, PeerAssumption DEF Permitted
<1> HIDE DEF l
<1>6. /\ Exact(l) /\ Steps(k, l, {}) /\ l.partial = k.partial
      /\ l.node[p].flight = k.node[p].flight \cup find.get
      /\ \A q \in Peer \ {p} : l.node[q] = k.node[q]
      /\ \A q \in Peer : l.node[q].life = k.node[q].life
    BY <1>2, <1>3, <1>4, <1>5, InFlight, SMT DEF l, Permitted
<1>7. Delaying(l, S)
    BY <1>2, <1>6 DEF Delaying, Permitted
<1> HIDE DEF S
<1>8. /\ Exact(m) /\ Steps(l, m, {}) /\ m.partial = l.partial /\ m.inFlight = l.inFlight
      /\ \A q \in Peer : m.node[q].life = l.node[q].life /\ m.node[q].flight = l.node[q].flight
    BY <1>1, <1>6, <1>7, Stalls, SMT
<1>9. k \in Net /\ l \in Net /\ m \in Net /\ Steps(k, m, {})
    BY <1>2, <1>6, <1>8, StepsChain, SMT DEF Exact
<1>10. \A q \in Peer : StepOf(k.node[q], m.node[q], {})
    BY <1>9 DEF Steps
<1>11. \A q \in Peer \ {p} : /\ StepOf(n.node[q], m.node[q], {})
                             /\ m.node[q].flight = n.node[q].flight
    BY <1>2, <1>6, <1>8, <1>10, SMT
<1>12. /\ m.node[p].common = find.common /\ m.node[p].evict = n.node[p].evict
       /\ m.node[p].work = n.node[p].work /\ m.node[p].best = n.node[p].best
    BY <1>2, <1>10 DEF StepOf
<1> QED BY <1>2, <1>6, <1>8, <1>11, <1>12

-----------------------------------------------------------------------------
(* The operators on the chain. *)

Extends(c, d) ==
    Tree(d) /\ c.index \subseteq d.index /\ c.data \subseteq d.data /\ Height[d.tip] >= Height[c.tip]

LEMMA ExtendsSame ==
    ASSUME NEW c, Tree(c)
    PROVE  Extends(c, c) /\ Height[c.tip] \in Nat /\ c \in Chain
<1>1. c \in Chain /\ c.tip \in Block
    BY DEF Tree, Chain
<1>2. Height[c.tip] \in Nat
    BY <1>1, Branches
<1> QED BY <1>1, <1>2, SMT DEF Extends

LEMMA ExtendsChain ==
    ASSUME NEW c, NEW d, NEW e, Tree(c), Extends(c, d), Extends(d, e)
    PROVE  Extends(c, e)
<1>1. Height[c.tip] \in Nat /\ Height[d.tip] \in Nat /\ Height[e.tip] \in Nat
    BY ExtendsSame DEF Extends
<1> QED BY <1>1, SMT DEF Extends

LEMMA ChainRecord ==
    ASSUME NEW d,
           d = [index |-> d.index, header |-> d.header, data |-> d.data, valid |-> d.valid,
                tip |-> d.tip],
           d.index \in SUBSET Block, d.header \in Block, d.data \in SUBSET Block,
           d.valid \in SUBSET Block, d.tip \in Block
    PROVE  d \in Chain
    BY DEF Chain

LEMMA AcceptsHeaders ==
    ASSUME NEW c, Tree(c), NEW S, S \subseteq Block, NEW last \in S,
           \A b \in S : Anc[b] \subseteq c.index \cup S,
           NEW d, d = AcceptHeaders(c, last, S)
    PROVE  /\ Extends(c, d) /\ d.index = c.index \cup S /\ d.data = c.data
           /\ d.tip = c.tip /\ d.valid = c.valid
<1>1. c \in Chain
    BY DEF Tree
<1>2. /\ d.index = c.index \cup S /\ d.data = c.data /\ d.valid = c.valid /\ d.tip = c.tip
      /\ d.header \in {c.header, last}
      /\ d = [index |-> d.index, header |-> d.header, data |-> d.data, valid |-> d.valid,
              tip |-> d.tip]
    BY <1>1 DEF AcceptHeaders, Chain
<1>3. d.index \in SUBSET Block /\ d.header \in Block
    BY <1>1, <1>2 DEF Chain
<1>4. d \in Chain
    BY <1>1, <1>2, <1>3, ChainRecord DEF Chain
<1>5. Tree(d)
    BY <1>2, <1>4 DEF Tree
<1> QED BY <1>2, <1>5, ExtendsSame DEF Extends

LEMMA AcceptsHeader ==
    ASSUME NEW c, Tree(c), NEW b \in Block, Parent[b] \in c.index,
           NEW d, d = AcceptHeaders(c, b, {b})
    PROVE  /\ Extends(c, d) /\ d.index = c.index \cup {b} /\ d.data = c.data
           /\ d.tip = c.tip /\ d.valid = c.valid
<1>1. Anc[b] \subseteq c.index \cup {b}
    BY BlockTree DEF Tree
<1> QED BY <1>1, AcceptsHeaders, SMT

LEMMA Accepts ==
    ASSUME NEW c, Tree(c), NEW b \in c.index, NEW requested, NEW d, d = AcceptBlock(c, b, requested)
    PROVE  /\ Extends(c, d) /\ d.index = c.index /\ d.tip = c.tip
           /\ requested => b \in d.data
<1>1. c \in Chain /\ b \in Block
    BY DEF Tree, Chain
<1>2. CASE d = c
    BY <1>1, <1>2, ExtendsSame DEF AcceptBlock, Chain
<1>3. CASE d = [c EXCEPT !.data = @ \cup {b}]
    <2>1. /\ d.index = c.index /\ d.data = c.data \cup {b} /\ d.valid = c.valid /\ d.tip = c.tip
          /\ d.header = c.header
          /\ d = [index |-> d.index, header |-> d.header, data |-> d.data, valid |-> d.valid,
                  tip |-> d.tip]
        BY <1>1, <1>3 DEF Chain
    <2>2. d \in Chain
        BY <1>1, <2>1, ChainRecord DEF Chain
    <2>3. Tree(d)
        BY <2>1, <2>2 DEF Tree
    <2> QED BY <2>1, <2>3, ExtendsSame DEF Extends
<1> QED BY <1>2, <1>3 DEF AcceptBlock

LEMMA Activates ==
    ASSUME NEW c, Tree(c), NEW d, d = ActivateBestChain(c)
    PROVE  Extends(c, d) /\ d.index = c.index /\ d.data = c.data
<1> DEFINE b == Highest(Linked(c.data))
<1>1. c \in Chain
    BY DEF Tree
<1>2. b \in Linked(c.data)
    <2>1. Genesis \in Linked(c.data) /\ Linked(c.data) \subseteq Block
        BY <1>1, BlockTree DEF Tree, Linked, Chain
    <2> QED BY <2>1, HighestOf
<1>3. b \in Block /\ b \in c.data /\ Anc[b] \subseteq c.data
    BY <1>1, <1>2 DEF Linked, Chain
<1>4. CASE d = c
    BY <1>4, ExtendsSame
<1>5. CASE Height[b] > Height[c.tip] /\ d = [c EXCEPT !.tip = b, !.valid = @ \cup Anc[b]]
    <2> HIDE DEF b
    <2>1. /\ d.index = c.index /\ d.data = c.data /\ d.valid = c.valid \cup Anc[b] /\ d.tip = b
          /\ d.header = c.header
          /\ d = [index |-> d.index, header |-> d.header, data |-> d.data, valid |-> d.valid,
                  tip |-> d.tip]
        BY <1>1, <1>5 DEF Chain
    <2>2. d.valid \in SUBSET Block
        BY <1>1, <1>3, <2>1 DEF Chain
    <2>3. d \in Chain
        BY <1>1, <1>3, <2>1, <2>2, ChainRecord DEF Chain
    <2>4. Tree(d)
        BY <1>3, <2>1, <2>3 DEF Tree
    <2>5. Height[b] \in Nat /\ Height[c.tip] \in Nat
        BY <1>3, Branches, ExtendsSame
    <2> QED BY <1>5, <2>1, <2>4, <2>5, SMT DEF Extends
<1> QED BY <1>4, <1>5 DEF ActivateBestChain

\* ProcessNewBlock stores a block that was asked for, if it is linked to the index.
LEMMA ProcessesBlock ==
    ASSUME NEW c, Tree(c), NEW b \in Block, NEW requested, NEW d, d = ProcessNetBlock(c, b, requested)
    PROVE  /\ Extends(c, d)
           /\ requested /\ Parent[b] \in c.index => b \in d.data
<1>1. CASE Parent[b] \notin c.index
    BY <1>1, ExtendsSame DEF ProcessNetBlock
<1>2. CASE Parent[b] \in c.index
    <2> DEFINE h == AcceptHeaders(c, b, {b})
               a == AcceptBlock(h, b, requested)
    <2>1. d = ActivateBestChain(a)
        BY <1>2 DEF ProcessNetBlock
    <2> HIDE DEF h
    <2>2. Extends(c, h) /\ b \in h.index
        BY <1>2, AcceptsHeader, SMT DEF h
    <2> HIDE DEF a
    <2>3. Extends(h, a) /\ (requested => b \in a.data)
        BY <2>2, Accepts DEF a, Extends
    <2>4. Extends(a, d) /\ d.data = a.data
        BY <2>1, <2>3, Activates DEF Extends
    <2>5. Extends(c, a)
        BY <2>2, <2>3, ExtendsChain
    <2>6. Extends(c, d)
        BY <2>4, <2>5, ExtendsChain
    <2> QED BY <2>3, <2>4, <2>6
<1> QED BY <1>1, <1>2

LEMMA Fetches ==
    ASSUME NEW n, Exact(n), NEW c, Tree(c), NEW p \in Peer, NEW last \in Block,
           Anc[last] \subseteq c.index, NEW get, get = DirectFetch(n, c, p, last)
    PROVE  /\ get \subseteq c.index /\ get \subseteq Block
           /\ \A b \in get : n.inFlight[b] = NoPeer
           /\ n.node[p].nFlight + Cardinality(get) <= MaxInTransit
<1> DEFINE k == MaxInTransit - n.node[p].nFlight
           Free == {b \in (Anc[last] \ Anc[c.tip]) \ c.data : n.inFlight[b] = NoPeer}
           ToFetch == Top(Free, MaxInTransit + 1)
<1>1. n.node[p].nFlight \in Nat /\ k \in Nat /\ n.node[p].nFlight + k = MaxInTransit
    BY Holder, LimitAssumption, SMT
<1>2. ToFetch \subseteq Free
    BY DEF Top
<1>3. get = Bottom(ToFetch, k) \/ get = {}
    BY DEF DirectFetch
<1>4. ToFetch \subseteq Anc[last] /\ \A b \in ToFetch : n.inFlight[b] = NoPeer
    BY <1>2
<1> HIDE DEF ToFetch, k
<1>5. get \subseteq ToFetch /\ Cardinality(get) \in 0..k
    <2>1. Bottom(ToFetch, k) \subseteq ToFetch /\ Cardinality(Bottom(ToFetch, k)) \in 0..k
        BY <1>1, <1>4, BottomOf
    <2> QED BY <1>1, <1>3, <2>1, FS_EmptySet, SMT
<1>6. c.index \subseteq Block
    BY DEF Tree, Chain
<1> QED BY <1>1, <1>4, <1>5, <1>6, LimitAssumption, SMT
=============================================================================
