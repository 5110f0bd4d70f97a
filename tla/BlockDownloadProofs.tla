------------------------ MODULE BlockDownloadProofs -------------------------
(***************************************************************************)
(* The bookkeeping of block download is right for any tree of blocks, any  *)
(* peers and any limits, however the peers behave.                         *)
(*                                                                         *)
(* The invariant has a part for each of the variables and for what ties    *)
(* them together: Exact for mapBlocksInFlight and the counters, Tree for   *)
(* the block index, Skips for pindexLastCommonBlock, Owed for the blocks   *)
(* in flight and the requests they stand for, Chases for the peers that    *)
(* ConsiderEviction has asked for headers.                                 *)
(***************************************************************************)
EXTENDS BlockDownloadLemmas

(* Zenon is the prover of every step that does not name another.           *)
USE Zenon

Requests ==
    [headers : SUBSET (Block \X Blocks), blocks : SUBSET Block, cmpct : SUBSET Block,
     txs : SUBSET Block]

Asked(a, c) ==
    /\ a \in [Peer -> Requests]
    /\ \A p \in Peer : \A q \in a[p].headers : q[1] \in c.index

Skips(n, c) ==
    \A p \in Peer :
        /\ n.node[p].best # NoBlock => n.node[p].best \in c.index
        /\ n.node[p].common # NoBlock => Anc[n.node[p].common] \subseteq c.data

\* A block in flight is in the index.  Until it is stored, the peer owes it to
\* us, as a block, or as a compact block or the transactions missing from it.
OwedBy(n, c, r, p) ==
    \A b \in n.node[p].flight \ c.data :
        \/ b \in r.blocks
        \/ b \in n.partial /\ b \in r.txs
        \/ b \notin n.partial /\ b \in r.cmpct

Owed(n, c, a) ==
    \A p \in Peer : n.node[p].flight \subseteq c.index /\ OwedBy(n, c, a[p], p)

\* We know that the peer's chain has no more work than ours, or know all of it.
Caught(x, c, p) ==
    \/ Height[c.tip] >= Height[Best[p]]
    \/ x.best # NoBlock /\ Height[x.best] >= Height[Best[p]]

\* The answers to this request will tell us.
Telling(x, c, p, q) == q[2] = NoBlock /\ (Best[p] \in Anc[q[1]] => Caught(x, c, p))

ChasesPeer(x, c, r, p) ==
    /\ x.evict # "off" => x.work \in c.index /\ Height[x.work] <= Height[c.tip]
    /\ x.life = "up" /\ x.evict = "sent" =>
          Caught(x, c, p) \/ \E q \in r.headers : Telling(x, c, p, q)

Chases(n, c, a) == \A p \in Peer : ChasesPeer(n.node[p], c, a[p], p)

Sound(n, c, a) ==
    /\ Exact(n) /\ Tree(c) /\ Asked(a, c)
    /\ Skips(n, c) /\ Owed(n, c, a) /\ Chases(n, c, a)

IInv == Sound(net, chain, asked)

-----------------------------------------------------------------------------
(* What a step of one peer has to show. *)

\* The other peers may lose blocks in flight, and blocks may become stored.
Beside(n, m, d, p) ==
    \A q \in Peer \ {p} :
        /\ StepOf(n.node[q], m.node[q], d.index)
        /\ m.node[q].flight \subseteq n.node[q].flight
        /\ \A b \in m.node[q].flight \ d.data : b \in m.partial <=> b \in n.partial

\* The invariant for p, with its new requests r.
Serves(m, d, r, p) ==
    /\ r \in Requests /\ \A q \in r.headers : q[1] \in d.index
    /\ m.node[p].best # NoBlock => m.node[p].best \in d.index
    /\ m.node[p].common # NoBlock => Anc[m.node[p].common] \subseteq d.data
    /\ m.node[p].flight \subseteq d.index /\ OwedBy(m, d, r, p)
    /\ ChasesPeer(m.node[p], d, r, p)

\* What is known of a peer stays known.
LEMMA CaughtKept ==
    ASSUME NEW p \in Peer, NEW c, Tree(c), NEW d, Extends(c, d), NEW x \in Node, NEW y \in Node,
           Grows(x, y), Caught(x, c, p)
    PROVE  Caught(y, d, p)
<1>1. Height[c.tip] \in Nat /\ Height[d.tip] \in Nat /\ Height[Best[p]] \in Nat
    BY ExtendsSame, PeerAssumption, Branches DEF Extends
<1>2. (x.best # NoBlock => Height[x.best] \in Nat) /\ (y.best # NoBlock => Height[y.best] \in Nat)
    BY Branches DEF Node, Blocks
<1> QED BY <1>1, <1>2, SMT DEF Caught, Grows, Extends

\* A peer that is asked for more, and not forgotten, stays chased.
LEMMA ChasesKept ==
    ASSUME NEW p \in Peer, NEW c, Tree(c), NEW d, Extends(c, d), NEW x \in Node, NEW y \in Node,
           NEW I, StepOf(x, y, I), NEW r, NEW s, r.headers \subseteq s.headers, ChasesPeer(x, c, r, p)
    PROVE  ChasesPeer(y, d, s, p)
<1>1. Caught(x, c, p) => Caught(y, d, p)
    BY CaughtKept DEF StepOf
<1>2. \A q : Telling(x, c, p, q) => Telling(y, d, p, q)
    BY <1>1 DEF Telling
<1>3. y.evict = x.evict /\ y.work = x.work /\ (y.life = "up" => x.life = "up")
    BY DEF StepOf
<1>4. /\ Height[c.tip] \in Nat /\ Height[d.tip] \in Nat /\ Height[c.tip] <= Height[d.tip]
      /\ c.index \subseteq d.index
    BY ExtendsSame DEF Extends
<1>5. x.work \in c.index => Height[x.work] \in Nat
    BY Branches DEF Tree, Chain
<1>6. y.evict # "off" => y.work \in d.index /\ Height[y.work] <= Height[d.tip]
    BY <1>3, <1>4, <1>5, SMT DEF ChasesPeer
<1>7. y.life = "up" /\ y.evict = "sent" =>
          Caught(y, d, p) \/ \E q \in s.headers : Telling(y, d, p, q)
    BY <1>1, <1>2, <1>3 DEF ChasesPeer
<1> QED BY <1>6, <1>7 DEF ChasesPeer

LEMMA Settled ==
    ASSUME NEW n, NEW c, NEW a, Sound(n, c, a), NEW p \in Peer, NEW m, Exact(m), NEW d, Extends(c, d),
           Beside(n, m, d, p), NEW r, Serves(m, d, r, p), NEW e, e = [a EXCEPT ![p] = r]
    PROVE  Sound(m, d, e)
<1>1. /\ n \in Net /\ m \in Net /\ Tree(c) /\ Tree(d) /\ a \in [Peer -> Requests]
      /\ r \in Requests /\ c.index \subseteq d.index /\ c.data \subseteq d.data
    BY DEF Sound, Exact, Asked, Serves, Extends
<1>2. e \in [Peer -> Requests] /\ e[p] = r /\ \A q \in Peer \ {p} : e[q] = a[q]
    BY <1>1
<1>3. Asked(e, d)
    <2>1. \A q \in Peer \ {p} : \A h \in a[q].headers : h[1] \in d.index
        BY <1>1 DEF Sound, Asked
    <2>2. \A h \in r.headers : h[1] \in d.index
        BY DEF Serves
    <2> QED BY <1>2, <2>1, <2>2 DEF Asked
<1>4. Skips(m, d)
    <2> SUFFICES ASSUME NEW q \in Peer
                 PROVE  /\ m.node[q].best # NoBlock => m.node[q].best \in d.index
                        /\ m.node[q].common # NoBlock => Anc[m.node[q].common] \subseteq d.data
        BY DEF Skips
    <2>1. CASE q = p
        BY <2>1 DEF Serves
    <2>2. CASE q # p
        <3>1. StepOf(n.node[q], m.node[q], d.index)
            BY <2>2 DEF Beside
        <3>2. /\ n.node[q].best # NoBlock => n.node[q].best \in d.index
              /\ n.node[q].common # NoBlock => Anc[n.node[q].common] \subseteq d.data
            BY <1>1 DEF Sound, Skips
        <3> QED BY <3>1, <3>2 DEF StepOf
    <2> QED BY <2>1, <2>2
<1>5. Owed(m, d, e)
    <2> SUFFICES ASSUME NEW q \in Peer
                 PROVE  m.node[q].flight \subseteq d.index /\ OwedBy(m, d, e[q], q)
        BY DEF Owed
    <2>1. CASE q = p
        BY <1>2, <2>1 DEF Serves
    <2>2. CASE q # p
        <3>1. n.node[q].flight \subseteq d.index /\ OwedBy(n, c, a[q], q)
            BY <1>1 DEF Sound, Owed
        <3>2. /\ m.node[q].flight \subseteq n.node[q].flight
              /\ \A b \in m.node[q].flight \ d.data : b \in m.partial <=> b \in n.partial
            BY <2>2 DEF Beside
        <3>3. OwedBy(m, d, a[q], q)
            BY <1>1, <3>1, <3>2 DEF OwedBy
        <3> QED BY <1>2, <2>2, <3>1, <3>2, <3>3
    <2> QED BY <2>1, <2>2
<1>6. Chases(m, d, e)
    <2> SUFFICES ASSUME NEW q \in Peer PROVE ChasesPeer(m.node[q], d, e[q], q)
        BY DEF Chases
    <2>1. CASE q = p
        BY <1>2, <2>1 DEF Serves
    <2>2. CASE q # p
        <3>1. StepOf(n.node[q], m.node[q], d.index) /\ e[q] = a[q]
            BY <1>2, <2>2 DEF Beside
        <3>2. ChasesPeer(n.node[q], c, a[q], q) /\ n.node[q] \in Node /\ m.node[q] \in Node
            BY <1>1 DEF Sound, Chases, Net
        <3> DEFINE x == n.node[q]
                   y == m.node[q]
                   s == a[q]
        <3>3. /\ x \in Node /\ y \in Node /\ Tree(c) /\ Extends(c, d) /\ StepOf(x, y, d.index)
              /\ s.headers \subseteq s.headers /\ ChasesPeer(x, c, s, q)
            BY <1>1, <3>1, <3>2
        <3> HIDE DEF x, y, s
        <3>4. ChasesPeer(y, d, s, q)
            BY <3>3, ChasesKept
        <3> QED BY <3>1, <3>4 DEF y, s
    <2> QED BY <2>1, <2>2
<1> QED BY <1>1, <1>3, <1>4, <1>5, <1>6 DEF Sound

LEMMA Facts ==
    ASSUME NEW n, NEW c, NEW a, Sound(n, c, a), NEW p \in Peer
    PROVE  /\ Exact(n) /\ n \in Net /\ n.node[p] \in Node
           /\ Tree(c) /\ Extends(c, c) /\ c.index \subseteq Block /\ c.tip \in Block /\ c.header \in c.index
           /\ a \in [Peer -> Requests] /\ a[p] \in Requests /\ Serves(n, c, a[p], p)
<1>1. Exact(n) /\ n \in Net /\ n.node[p] \in Node
    BY DEF Sound, Exact, Net
<1>2. Tree(c) /\ Extends(c, c) /\ c.index \subseteq Block /\ c.tip \in Block /\ c.header \in c.index
    BY ExtendsSame DEF Sound, Tree, Chain
<1>3. a \in [Peer -> Requests] /\ a[p] \in Requests /\ \A q \in a[p].headers : q[1] \in c.index
    BY DEF Sound, Asked
<1>4. Serves(n, c, a[p], p)
    BY <1>3 DEF Serves, Sound, Skips, Owed, Chases
<1> QED BY <1>1, <1>2, <1>3, <1>4

\* The invariant for p after operators that keep what is known of it.
LEMMA Serving ==
    ASSUME NEW p \in Peer, NEW n \in Net, NEW m \in Net, NEW c, Tree(c), NEW d, Extends(c, d),
           NEW r, Serves(n, c, r, p), Steps(n, m, d.index),
           NEW s \in Requests, r.headers \subseteq s.headers, \A q \in s.headers : q[1] \in d.index,
           m.node[p].flight \subseteq d.index, OwedBy(m, d, s, p)
    PROVE  Serves(m, d, s, p)
<1> DEFINE x == n.node[p]
           y == m.node[p]
<1>1. x \in Node /\ y \in Node /\ StepOf(x, y, d.index) /\ ChasesPeer(x, c, r, p)
    BY DEF Net, Steps, Serves
<1>2. c.index \subseteq d.index /\ c.data \subseteq d.data
    BY DEF Extends
<1>3. /\ x.best # NoBlock => x.best \in c.index
      /\ x.common # NoBlock => Anc[x.common] \subseteq c.data
    BY DEF Serves
<1> HIDE DEF x, y
<1>4. ChasesPeer(y, d, s, p)
    BY <1>1, ChasesKept
<1>5. /\ y.best # NoBlock => y.best \in d.index
      /\ y.common # NoBlock => Anc[y.common] \subseteq d.data
    BY <1>1, <1>2, <1>3 DEF StepOf
<1> QED BY <1>4, <1>5 DEF Serves, y

LEMMA Besides ==
    ASSUME NEW p \in Peer, NEW n, NEW m, NEW d, NEW I, I \subseteq d.index, Steps(n, m, I),
           \A q \in Peer \ {p} : m.node[q].flight \subseteq n.node[q].flight,
           \A q \in Peer \ {p} : \A b \in m.node[q].flight \ d.data : b \in m.partial <=> b \in n.partial
    PROVE  Beside(n, m, d, p) /\ Steps(n, m, d.index)
    BY DEF Beside, Steps, StepOf

\* What PromptKept says of p.
Warranted(p) ==
    Up(p) /\ ~Up(p)' => \/ Height[chain.tip] >= Height[Best[p]]
                       \/ Height[chain.header] < NearToday
                       \/ net.node[p].flight \cap chain.data # {}

-----------------------------------------------------------------------------
(* The actions. *)

LEMMA InitializeNodeKeeps ==
    ASSUME IInv, NEW p \in Peer, InitializeNode(p)
    PROVE  IInv'
<1>1. /\ net.node[p].life = "new" /\ net' = Initialized(net, p)
      /\ chain' = chain /\ asked' = asked
    BY DEF InitializeNode, Initialized
<1>2. /\ Exact(net) /\ net \in Net /\ Tree(chain) /\ Extends(chain, chain)
      /\ asked \in [Peer -> Requests] /\ Serves(net, chain, asked[p], p)
    BY Facts DEF IInv
<1>3. /\ Exact(net') /\ net'.partial = net.partial
      /\ net'.node[p].common = NoBlock /\ net'.node[p].evict = "off" /\ net'.node[p].flight = {}
      /\ net'.node[p].best = NoBlock
      /\ \A q \in Peer \ {p} : net'.node[q] = net.node[q]
    BY <1>1, <1>2, Initializes, SMT
<1>4. \A q \in Peer : StepOf(net.node[q], net.node[q], chain.index)
    BY <1>2, StepsSame DEF Steps
<1>5. Beside(net, net', chain, p)
    BY <1>3, <1>4 DEF Beside
<1>6. Serves(net', chain, asked[p], p)
    BY <1>2, <1>3 DEF Serves, OwedBy, ChasesPeer
<1>7. asked = [asked EXCEPT ![p] = asked[p]]
    BY <1>2
<1> QED BY <1>1, <1>2, <1>3, <1>5, <1>6, <1>7, Settled, SMT DEF IInv

LEMMA FinalizeNodeKeeps ==
    ASSUME IInv, NEW p \in Peer, FinalizeNode(p)
    PROVE  IInv'
<1>1. /\ net.node[p].life = "closing" /\ net' = Finalized(net, p)
      /\ chain' = chain /\ asked' = [asked EXCEPT ![p] = Nothing]
    BY DEF FinalizeNode, Finalized, Gone
<1>2. Exact(net) /\ net \in Net /\ Tree(chain) /\ Extends(chain, chain)
    BY Facts DEF IInv
<1>3. /\ Exact(net') /\ net'.partial = net.partial \ net.node[p].flight
      /\ net'.node[p] = Gone
      /\ \A q \in Peer \ {p} : /\ net'.node[q] = net.node[q]
                               /\ net.node[p].flight \cap net.node[q].flight = {}
    BY <1>1, <1>2, Finalizes, SMT
<1>4. \A q \in Peer : StepOf(net.node[q], net.node[q], chain.index)
    BY <1>2, StepsSame DEF Steps
<1>5. Beside(net, net', chain, p)
    BY <1>3, <1>4 DEF Beside
<1>6. Gone.common = NoBlock /\ Gone.best = NoBlock /\ Gone.flight = {} /\ Gone.evict = "off"
    BY DEF Gone, CNodeState
<1>7. Nothing \in Requests /\ Nothing.headers = {}
    BY DEF Nothing, Requests
<1>8. Serves(net', chain, Nothing, p)
    BY <1>3, <1>6, <1>7 DEF Serves, OwedBy, ChasesPeer
<1> QED BY <1>1, <1>2, <1>3, <1>5, <1>8, Settled DEF IInv

LEMMA ConnectionLostKeeps ==
    ASSUME IInv, NEW p \in Peer, ConnectionLost(p)
    PROVE  IInv'
<1>1. Connected(net.node[p]) /\ net' = Closing(net, p) /\ chain' = chain /\ asked' = asked
    BY DEF ConnectionLost, Closing, Connected, Up
<1>2. /\ Exact(net) /\ net \in Net /\ Tree(chain) /\ Extends(chain, chain)
      /\ asked \in [Peer -> Requests] /\ asked[p] \in Requests /\ Serves(net, chain, asked[p], p)
    BY Facts DEF IInv
<1>3. /\ Exact(net') /\ Steps(net, net', {}) /\ net'.partial = net.partial
      /\ \A q \in Peer : net'.node[q].flight = net.node[q].flight
    BY <1>1, <1>2, Closes, SMT
<1>4. Beside(net, net', chain, p) /\ Steps(net, net', chain.index)
    BY <1>3, Besides
<1>5. OwedBy(net', chain, asked[p], p) /\ net'.node[p].flight \subseteq chain.index
    BY <1>2, <1>3 DEF Serves, OwedBy
<1>6. net' \in Net /\ \A q \in asked[p].headers : q[1] \in chain.index
    BY <1>2, <1>3 DEF Exact, Serves
<1>7. Serves(net', chain, asked[p], p)
    BY <1>2, <1>4, <1>5, <1>6, Serving
<1>8. asked = [asked EXCEPT ![p] = asked[p]]
    BY <1>2
<1> QED BY <1>1, <1>2, <1>3, <1>4, <1>7, <1>8, Settled, SMT DEF IInv

LEMMA OwnBlockKeeps ==
    ASSUME IInv, NEW b \in Block, OwnBlock(b)
    PROVE  IInv'
<1>1. chain' = ProcessNetBlock(chain, b, TRUE) /\ net' = net /\ asked' = asked
    BY DEF OwnBlock
<1>2. Tree(chain) /\ Exact(net) /\ net \in Net /\ asked \in [Peer -> Requests]
    BY DEF IInv, Sound, Exact, Asked
<1>3. Extends(chain, chain')
    BY <1>1, <1>2, ProcessesBlock
<1>4. CASE Peer = {}
    BY <1>1, <1>2, <1>3, <1>4 DEF IInv, Sound, Asked, Skips, Owed, Chases, Extends
<1>5. ASSUME NEW p \in Peer PROVE IInv'
    <2>1. asked[p] \in Requests /\ Serves(net, chain, asked[p], p)
        BY Facts DEF IInv
    <2>2. Steps(net, net, {}) /\ {} \subseteq chain'.index
        BY <1>2, StepsSame
    <2>3. Beside(net, net, chain', p) /\ Steps(net, net, chain'.index)
        BY <2>2, Besides
    <2>4. /\ OwedBy(net, chain', asked[p], p) /\ net.node[p].flight \subseteq chain'.index
          /\ \A q \in asked[p].headers : q[1] \in chain'.index
        BY <1>3, <2>1 DEF Serves, OwedBy, Extends
    <2>5. Serves(net, chain', asked[p], p)
        BY <1>2, <1>3, <2>1, <2>3, <2>4, Serving
    <2>6. asked = [asked EXCEPT ![p] = asked[p]]
        BY <1>2
    <2> QED BY <1>1, <1>2, <1>3, <2>3, <2>5, <2>6, Settled DEF IInv
<1> QED BY <1>4, <1>5

LEMMA BlockMessageKeeps ==
    ASSUME IInv, NEW p \in Peer, NEW b \in Block, BlockMessage(p, b)
    PROVE  IInv'
<1> DEFINE r == [asked[p] EXCEPT !.blocks = @ \ {b}, !.cmpct = @ \ {b}]
<1>1. /\ Exact(net) /\ net \in Net /\ Tree(chain) /\ asked \in [Peer -> Requests]
      /\ asked[p] \in Requests /\ Serves(net, chain, asked[p], p)
    BY Facts DEF IInv
<1>2. /\ net' = MarkBlockAsReceived(net, b)
      /\ chain' = ProcessNetBlock(chain, b, net.inFlight[b] # NoPeer)
      /\ asked' = [asked EXCEPT ![p] = r]
    BY <1>1 DEF BlockMessage, Requests
<1>3. /\ Exact(net') /\ Steps(net, net', {}) /\ net'.partial = net.partial \ {b}
      /\ \A q \in Peer : net'.node[q].flight = net.node[q].flight \ {b}
    BY <1>1, <1>2, Received, SMT
<1>4. Extends(chain, chain')
    BY <1>1, <1>2, ProcessesBlock
<1>5. /\ r \in Requests /\ r.headers = asked[p].headers /\ r.txs = asked[p].txs
      /\ r.blocks = asked[p].blocks \ {b} /\ r.cmpct = asked[p].cmpct \ {b}
    BY <1>1 DEF Requests
<1> HIDE DEF r
<1>6. Beside(net, net', chain', p) /\ Steps(net, net', chain'.index)
    BY <1>3, Besides, SMT
<1>7. OwedBy(net', chain', r, p) /\ net'.node[p].flight \subseteq chain'.index
    BY <1>1, <1>3, <1>4, <1>5 DEF Serves, OwedBy, Extends
<1>8. net' \in Net /\ \A q \in r.headers : q[1] \in chain'.index
    BY <1>1, <1>3, <1>4, <1>5 DEF Exact, Serves, Extends
<1>9. Serves(net', chain', r, p)
    BY <1>1, <1>4, <1>5, <1>6, <1>7, <1>8, Serving
<1> QED BY <1>2, <1>3, <1>4, <1>6, <1>9, Settled DEF IInv

LEMMA InvKeeps ==
    ASSUME IInv, NEW p \in Peer, NEW b \in Block, Inv(p, b)
    PROVE  IInv'
<1> DEFINE r == IF b \notin chain.index /\ net.inFlight[b] = NoPeer
                THEN [asked[p] EXCEPT !.headers = @ \cup {<<chain.header, b>>}] ELSE asked[p]
<1>1. /\ Exact(net) /\ net \in Net /\ Tree(chain) /\ Extends(chain, chain)
      /\ Indexed(chain.index) /\ chain.header \in chain.index
      /\ asked \in [Peer -> Requests] /\ asked[p] \in Requests /\ Serves(net, chain, asked[p], p)
    BY Facts DEF IInv, Indexed
<1>2. /\ Connected(net.node[p]) /\ net' = UpdateBlockAvailability(net, chain.index, p, b)
      /\ chain' = chain /\ asked' = [asked EXCEPT ![p] = r]
    BY <1>1 DEF Inv, Up, Connected, Requests
<1>3. /\ r \in Requests /\ asked[p].headers \subseteq r.headers /\ r.txs = asked[p].txs
      /\ r.blocks = asked[p].blocks /\ r.cmpct = asked[p].cmpct
      /\ r.headers \subseteq asked[p].headers \cup {<<chain.header, b>>}
    BY <1>1, SMT DEF Requests, Blocks, Indexed
<1> HIDE DEF r
<1>4. /\ Exact(net') /\ Steps(net, net', chain.index) /\ net'.partial = net.partial
      /\ \A q \in Peer : net'.node[q].flight = net.node[q].flight
    BY <1>1, <1>2, Updated, SMT
<1>5. Beside(net, net', chain, p)
    BY <1>4, Besides
<1>6. OwedBy(net', chain, r, p) /\ net'.node[p].flight \subseteq chain.index
    BY <1>1, <1>3, <1>4 DEF Serves, OwedBy
<1>7. net' \in Net /\ \A q \in r.headers : q[1] \in chain.index
    BY <1>1, <1>3, <1>4, SMT DEF Exact, Serves
<1>8. Serves(net', chain, r, p)
    BY <1>1, <1>3, <1>4, <1>6, <1>7, Serving
<1> QED BY <1>1, <1>2, <1>4, <1>5, <1>8, Settled DEF IInv

\* What SendMessages does first.
LEMMA Begins ==
    ASSUME IInv, NEW p \in Peer, Connected(net.node[p]),
           NEW n, n = ProcessBlockAvailability(StartSync(net, chain, p), chain.index, p)
    PROVE  /\ Exact(n) /\ Steps(net, n, chain.index)
           /\ n.partial = net.partial /\ n.inFlight = net.inFlight
           /\ n.node[p].life = net.node[p].life
           /\ \A q \in Peer \ {p} : n.node[q] = net.node[q]
           /\ \A q \in Peer : n.node[q].flight = net.node[q].flight
<1> DEFINE k == StartSync(net, chain, p)
           I == chain.index
<1>1. Exact(net) /\ net \in Net /\ Indexed(I)
    BY Facts DEF IInv, Indexed
<1>2. n = ProcessBlockAvailability(k, I, p)
    OBVIOUS
<1> HIDE DEF k, I
<1>3. /\ Exact(k) /\ Steps(net, k, {}) /\ k.partial = net.partial /\ k.inFlight = net.inFlight
      /\ k.node[p].life = net.node[p].life
      /\ \A q \in Peer \ {p} : k.node[q] = net.node[q]
      /\ \A q \in Peer : k.node[q].flight = net.node[q].flight
    BY <1>1, StartsSync, SMT DEF k
<1>4. Connected(k.node[p])
    BY <1>3 DEF Connected
<1>5. /\ Exact(n) /\ Steps(k, n, I) /\ n.partial = k.partial /\ n.inFlight = k.inFlight
      /\ n.node[p].life = k.node[p].life
      /\ \A q \in Peer \ {p} : n.node[q] = k.node[q]
      /\ \A q \in Peer : n.node[q].flight = k.node[q].flight
    BY <1>1, <1>3, <1>2, <1>4, Available, SMT
<1>6. Steps(net, n, I)
    BY <1>1, <1>3, <1>5, StepsChain, SMT DEF Exact
<1> QED BY <1>3, <1>5, <1>6 DEF I

\* The locators of the getheaders that SendMessages sends are in the index.
LEMMA FirstHeadersKnown ==
    ASSUME Tree(chain), NEW n, NEW p
    PROVE  FirstHeaders(n, p) \subseteq chain.index \X {NoBlock}
<1>1. chain.header \in chain.index /\ chain.header \in Block /\ Anc[chain.header] \subseteq chain.index
    BY DEF Tree, Chain
<1>2. Before(chain.header) \in chain.index
    BY <1>1, BlockTree, InBranch DEF Before
<1> QED BY <1>2, SMT DEF FirstHeaders

LEMMA SendMessagesTimeoutKeeps ==
    ASSUME IInv, NEW p \in Peer, SendMessagesTimeout(p)
    PROVE  IInv' /\ (p \in Prompt => Warranted(p))
<1>1. /\ Exact(net) /\ net \in Net /\ Tree(chain) /\ Extends(chain, chain)
      /\ chain.index \subseteq Block /\ asked \in [Peer -> Requests] /\ asked[p] \in Requests
      /\ Serves(net, chain, asked[p], p)
    BY Facts DEF IInv
<1> DEFINE n == ProcessBlockAvailability(StartSync(net, chain, p), chain.index, p)
           r == [asked[p] EXCEPT !.headers = @ \cup FirstHeaders(n, p)]
<1> HIDE DEF n
<1>2. /\ Connected(net.node[p]) /\ net' = Closing(n, p) /\ chain' = chain
      /\ asked' = [asked EXCEPT ![p] = r]
    BY <1>1 DEF SendMessagesTimeout, Up, Connected, Closing, n
<1>3. /\ Exact(n) /\ n \in Net /\ Steps(net, n, chain.index) /\ n.partial = net.partial
      /\ n.node[p].life = net.node[p].life
      /\ \A q \in Peer : n.node[q].flight = net.node[q].flight
    <2>1. n = ProcessBlockAvailability(StartSync(net, chain, p), chain.index, p)
        BY DEF n
    <2>2. /\ Exact(n) /\ Steps(net, n, chain.index) /\ n.partial = net.partial
          /\ n.node[p].life = net.node[p].life
          /\ \A q \in Peer \ {p} : n.node[q] = net.node[q]
          /\ \A q \in Peer : n.node[q].flight = net.node[q].flight
        BY <1>2, <2>1, Begins
    <2> QED BY <2>2 DEF Exact
<1>4. Connected(n.node[p])
    BY <1>2, <1>3 DEF Connected
<1>5. /\ Exact(net') /\ net' \in Net /\ Steps(n, net', {}) /\ net'.partial = n.partial
      /\ \A q \in Peer : net'.node[q].flight = n.node[q].flight
    BY <1>2, <1>3, <1>4, Closes, SMT DEF Exact
<1>6. Steps(net, net', chain.index)
    BY <1>1, <1>3, <1>5, StepsChain
<1>7. FirstHeaders(n, p) \subseteq chain.index \X {NoBlock}
    BY <1>1, FirstHeadersKnown
<1>8. /\ r \in Requests /\ asked[p].headers \subseteq r.headers /\ r.txs = asked[p].txs
      /\ r.blocks = asked[p].blocks /\ r.cmpct = asked[p].cmpct
      /\ r.headers = asked[p].headers \cup FirstHeaders(n, p)
    BY <1>1, <1>7 DEF Requests, Blocks
<1> HIDE DEF r
<1>9. Beside(net, net', chain, p)
    BY <1>3, <1>5, <1>6, Besides
<1>10. OwedBy(net', chain, r, p) /\ net'.node[p].flight \subseteq chain.index
    BY <1>1, <1>3, <1>5, <1>8 DEF Serves, OwedBy
<1>11. \A q \in r.headers : q[1] \in chain.index
    BY <1>1, <1>7, <1>8 DEF Serves
<1>12. Serves(net', chain, r, p)
    BY <1>1, <1>5, <1>6, <1>8, <1>10, <1>11, Serving
<1>13. ASSUME p \in Prompt
       PROVE  \/ Height[chain.header] < NearToday
              \/ net.node[p].flight \cap chain.data # {}
    <2>1. /\ asked[p] = Nothing
          /\ net.node[p].stalling \/ net.node[p].flight # {} \/ Height[chain.header] < NearToday
        BY <1>13 DEF SendMessagesTimeout, MayExpire
    <2>2. net.node[p].stalling => net.node[p].flight # {}
        BY <1>1 DEF Exact, ExactNode, ExactEntry
    <2>3. net.node[p].flight \subseteq chain.data
        BY <1>1, <2>1, SMT DEF Serves, OwedBy, Nothing
    <2> QED BY <2>1, <2>2, <2>3
<1> QED BY <1>1, <1>2, <1>5, <1>9, <1>12, <1>13, Settled DEF IInv, Warranted

\* The headers asked for before a peer is dropped tell whether its chain is better
\* than ours.
LEMMA CheckTells ==
    ASSUME NEW c, Tree(c), NEW p \in Peer, NEW y, NEW work \in c.index, Height[work] <= Height[c.tip],
           NEW loc, loc = IF Parent[work] = NoBlock THEN c.tip ELSE Parent[work]
    PROVE  loc \in c.index /\ Telling(y, c, p, <<loc, NoBlock>>)
<1>1. work \in Block /\ c.tip \in Block /\ c.tip \in c.index /\ Anc[work] \subseteq c.index
    BY DEF Tree, Chain
<1>2. loc \in c.index /\ loc \in Block /\ Height[loc] \in Nat /\ Height[loc] <= Height[c.tip]
    <2>1. CASE work = Genesis
        BY <1>1, <2>1, BlockTree, Branches, SMT
    <2>2. CASE work # Genesis
        <3>1. /\ loc = Parent[work] /\ Parent[work] \in Block /\ Parent[work] \in Anc[work]
              /\ Height[work] = Height[Parent[work]] + 1
            BY <1>1, <2>2, BlockTree, InBranch
        <3>2. Height[Parent[work]] \in Nat /\ Height[c.tip] \in Nat
            BY <1>1, <3>1, Branches
        <3> QED BY <1>1, <3>1, <3>2, SMT
    <2> QED BY <2>1, <2>2
<1>3. ASSUME Best[p] \in Anc[loc] PROVE Height[c.tip] >= Height[Best[p]]
    <2>1. Best[p] = loc \/ Height[Best[p]] < Height[loc]
        BY <1>2, <1>3, Branches
    <2>2. Height[Best[p]] \in Nat /\ Height[c.tip] \in Nat
        BY <1>1, PeerAssumption, Branches
    <2> QED BY <1>2, <2>1, <2>2, SMT
<1> QED BY <1>2, <1>3 DEF Telling, Caught

LEMMA SendMessagesKeeps ==
    ASSUME IInv, NEW p \in Peer, NEW late \in BOOLEAN, SendMessages(p, late)
    PROVE  IInv' /\ (p \in Prompt => Warranted(p))
<1>1. /\ Exact(net) /\ net \in Net /\ Tree(chain) /\ Extends(chain, chain)
      /\ chain.index \subseteq Block /\ chain.tip \in Block /\ chain.tip \in chain.index
      /\ asked \in [Peer -> Requests] /\ asked[p] \in Requests /\ Serves(net, chain, asked[p], p)
    BY Facts DEF IInv, Tree
<1> DEFINE n == ProcessBlockAvailability(StartSync(net, chain, p), chain.index, p)
           e == ConsiderEviction(n, chain, p, late)
           walk == DownloadWalk(e, chain, p)
           find == FindNextBlocksToDownload(e, p, walk)
           x == n.node[p]
           loc == IF Parent[x.work] = NoBlock THEN chain.tip ELSE Parent[x.work]
           check == IF e.node[p].evict = "sent" /\ x.evict # "sent" THEN {<<loc, NoBlock>>} ELSE {}
           r == [asked[p] EXCEPT !.headers = @ \cup FirstHeaders(n, p) \cup check,
                                 !.blocks = @ \cup find.get]
<1>2. /\ Connected(net.node[p]) /\ net' = DownloadBlocks(e, p, find) /\ chain' = chain
      /\ asked' = [asked EXCEPT ![p] = r]
    <2>1. /\ Up(p) /\ net' = DownloadBlocks(e, p, find) /\ chain' = chain
          /\ asked' = [asked EXCEPT ![p].headers = @ \cup FirstHeaders(n, p) \cup check,
                                    ![p].blocks = @ \cup find.get]
        BY ZenonT(30) DEF SendMessages
    <2> HIDE DEF n, find, check
    <2>2. asked' = [asked EXCEPT ![p] = r]
        BY <1>1, <2>1 DEF Requests
    <2> QED BY <2>1, <2>2 DEF Up, Connected
<1> HIDE DEF n
<1>3. /\ Exact(n) /\ n \in Net /\ Steps(net, n, chain.index) /\ n.partial = net.partial
      /\ n.node[p].life = net.node[p].life
      /\ \A q \in Peer \ {p} : n.node[q] = net.node[q]
      /\ \A q \in Peer : n.node[q].flight = net.node[q].flight
    <2>1. n = ProcessBlockAvailability(StartSync(net, chain, p), chain.index, p)
        BY DEF n
    <2>2. /\ Exact(n) /\ Steps(net, n, chain.index) /\ n.partial = net.partial
          /\ n.node[p].life = net.node[p].life
          /\ \A q \in Peer \ {p} : n.node[q] = net.node[q]
          /\ \A q \in Peer : n.node[q].flight = net.node[q].flight
        BY <1>2, <2>1, Begins
    <2> QED BY <2>2 DEF Exact
<1>4. Connected(n.node[p])
    BY <1>2, <1>3 DEF Connected
<1>5. Serves(n, chain, asked[p], p)
    <2>1. n.node[p].flight \subseteq chain.index /\ OwedBy(n, chain, asked[p], p)
        BY <1>1, <1>3 DEF Serves, OwedBy
    <2>2. \A q \in asked[p].headers : q[1] \in chain.index
        BY <1>1 DEF Serves
    <2> QED BY <1>1, <1>3, <2>1, <2>2, Serving
<1> HIDE DEF e
<1>6. /\ Exact(e) /\ e.partial = n.partial /\ e.inFlight = n.inFlight
      /\ Evicted(x, e.node[p], chain, late)
      /\ \A q \in Peer \ {p} : e.node[q] = n.node[q]
      /\ \A q \in Peer : e.node[q].flight = n.node[q].flight
    <2>1. x.evict # "off" => x.work \in chain.index /\ Height[x.work] <= Height[chain.tip]
        BY <1>5 DEF Serves, ChasesPeer
    <2>2. e = ConsiderEviction(n, chain, p, late)
        BY DEF e
    <2>3. Exact(n) /\ chain.tip \in Block /\ chain.tip \in chain.index
        BY <1>1, <1>3
    <2> QED BY <1>4, <2>1, <2>2, <2>3, Evicts, SMT
<1>7. /\ Connected(e.node[p]) /\ e.node[p].best = x.best /\ e.node[p].common = x.common
    BY <1>6 DEF Evicted, Tweaks
<1> HIDE DEF walk, find
<1>8. /\ Permitted(e, p, find) /\ find.get \subseteq chain.index
      /\ find.common # NoBlock => Anc[find.common] \subseteq chain.data
    BY <1>1, <1>5, <1>6, <1>7, Finds DEF walk, find, Serves
<1>9. /\ Exact(net') /\ net'.partial = e.partial
      /\ net'.node[p].common = find.common /\ net'.node[p].life = e.node[p].life
      /\ net'.node[p].evict = e.node[p].evict /\ net'.node[p].work = e.node[p].work
      /\ net'.node[p].best = e.node[p].best
      /\ net'.node[p].flight = e.node[p].flight \cup find.get
      /\ \A q \in Peer \ {p} : /\ StepOf(e.node[q], net'.node[q], {})
                               /\ net'.node[q].flight = e.node[q].flight
    BY <1>2, <1>6, <1>7, <1>8, Downloads, SMT
<1>10. /\ FirstHeaders(n, p) \subseteq chain.index \X {NoBlock}
       /\ check \subseteq chain.index \X {NoBlock}
       /\ check # {} => \A y : Telling(y, chain, p, <<loc, NoBlock>>)
    <2>1. FirstHeaders(n, p) \subseteq chain.index \X {NoBlock}
        BY <1>1, FirstHeadersKnown
    <2>2. CASE e.node[p].evict = "sent" /\ x.evict # "sent"
        <3>1. x.evict # "off"
            BY <1>6, <2>2 DEF Evicted
        <3>2. x.work \in chain.index /\ Height[x.work] <= Height[chain.tip]
            BY <1>5, <3>1 DEF Serves, ChasesPeer
        <3> HIDE DEF x
        <3>3. loc \in chain.index /\ \A y : Telling(y, chain, p, <<loc, NoBlock>>)
            BY <1>1, <3>2, CheckTells
        <3> QED BY <2>1, <3>3, SMT
    <2> QED BY <2>1, <2>2
<1>11. /\ r \in Requests /\ r.txs = asked[p].txs /\ r.cmpct = asked[p].cmpct
       /\ r.blocks = asked[p].blocks \cup find.get
       /\ r.headers = asked[p].headers \cup FirstHeaders(n, p) \cup check
    <2>1. FirstHeaders(n, p) \cup check \subseteq Block \X Blocks /\ find.get \subseteq Block
        BY <1>1, <1>8, <1>10 DEF Blocks
    <2> DEFINE h == FirstHeaders(n, p)
               g == find.get
    <2> HIDE DEF check, h, g
    <2>2. /\ r = [asked[p] EXCEPT !.headers = @ \cup h \cup check, !.blocks = @ \cup g]
          /\ h \cup check \subseteq Block \X Blocks /\ g \subseteq Block
        BY <2>1 DEF h, g
    <2> HIDE DEF r
    <2>3. /\ r \in Requests /\ r.txs = asked[p].txs /\ r.cmpct = asked[p].cmpct
          /\ r.blocks = asked[p].blocks \cup g /\ r.headers = asked[p].headers \cup h \cup check
        BY <1>1, <2>2 DEF Requests
    <2> QED BY <2>3 DEF h, g
<1> HIDE DEF r
<1>12. ChasesPeer(net'.node[p], chain, r, p)
    <2> DEFINE y == net'.node[p]
               z == e.node[p]
    <2>1. y.evict # "off" => y.work \in chain.index /\ Height[y.work] <= Height[chain.tip]
        BY <1>6, <1>9 DEF Evicted
    <2>2. ASSUME y.life = "up", y.evict = "sent"
          PROVE  Caught(y, chain, p) \/ \E q \in r.headers : Telling(y, chain, p, q)
        <3>1. x.life = "up" /\ y.best = x.best /\ z.evict = "sent"
            BY <1>6, <1>7, <1>9, <2>2 DEF Evicted
        <3>2. CASE x.evict = "sent"
            <4>1. Caught(x, chain, p) \/ \E q \in asked[p].headers : Telling(x, chain, p, q)
                BY <1>5, <3>1, <3>2 DEF Serves, ChasesPeer
            <4>2. Caught(x, chain, p) <=> Caught(y, chain, p)
                BY <3>1 DEF Caught
            <4> QED BY <1>11, <4>1, <4>2 DEF Telling
        <3>3. CASE x.evict # "sent"
            <4>1. check = {<<loc, NoBlock>>}
                BY <3>1, <3>3
            <4> QED BY <1>10, <1>11, <4>1
        <3> QED BY <3>2, <3>3
    <2> QED BY <2>1, <2>2 DEF ChasesPeer
<1> HIDE DEF check, x, loc
<1>13. OwedBy(net', chain, r, p) /\ net'.node[p].flight \subseteq chain.index
    BY <1>5, <1>6, <1>8, <1>9, <1>11 DEF Serves, OwedBy
<1>14. \A q \in r.headers : q[1] \in chain.index
    BY <1>5, <1>10, <1>11 DEF Serves
<1>15. Serves(net', chain, r, p)
    BY <1>5, <1>7, <1>8, <1>9, <1>11, <1>12, <1>13, <1>14 DEF Serves, x
<1>16. Beside(net, net', chain, p)
    <2>1. ASSUME NEW q \in Peer \ {p}
          PROVE  /\ StepOf(net.node[q], net'.node[q], chain.index)
                 /\ net'.node[q].flight = net.node[q].flight
        BY <1>3, <1>6, <1>9, SMT DEF StepOf
    <2> QED BY <1>3, <1>6, <1>9, <2>1 DEF Beside
<1>17. ASSUME p \in Prompt, Up(p), ~Up(p)' PROVE Height[chain.tip] >= Height[Best[p]]
    <2>1. x.life = "up" /\ e.node[p].life # "up"
        BY <1>3, <1>9, <1>17 DEF Up, x
    <2>2. late /\ x.evict = "sent" /\ (x.best = NoBlock \/ Height[x.best] < Height[chain.tip])
        BY <1>6, <2>1 DEF Evicted
    <2>3. asked[p].headers = {}
        <3>1. MayExpire(p)
            BY <2>2 DEF SendMessages
        <3> QED BY <1>17, <3>1, SMT DEF MayExpire, Nothing
    <2>4. Caught(x, chain, p)
        BY <1>5, <2>1, <2>2, <2>3 DEF Serves, ChasesPeer, x
    <2>5. /\ Height[Best[p]] \in Nat /\ Height[chain.tip] \in Nat
          /\ x.best # NoBlock => Height[x.best] \in Nat
        BY <1>1, <1>5, PeerAssumption, Branches, SMT DEF Serves, x
    <2> QED BY <2>2, <2>4, <2>5, SMT DEF Caught
<1> QED BY <1>1, <1>2, <1>9, <1>15, <1>16, <1>17, Settled DEF IInv, Warranted

\* What is left of the requests to p when a headers message is taken off: it may
\* be the one that was to tell, and then it tells or asks for more.
Remains(owes, p, first, last) ==
    /\ owes \in Requests /\ \A q \in owes.headers : q[1] \in chain.index
    /\ OwedBy(net, chain, owes, p)
    /\ \/ ChasesPeer(net.node[p], chain, owes, p)
       \/ /\ Parent[first] \in chain.index
          /\ \/ Height[last] >= Height[Best[p]]
             \/ Height[last] - Height[first] + 1 = MaxHeaders

\* Headers that are not linked to the index.
LEMMA StrangeHeaders ==
    ASSUME IInv, NEW p \in Peer, Connected(net.node[p]), NEW first \in Block, NEW last \in Block,
           NEW owes, Remains(owes, p, first, last), Parent[first] \notin chain.index,
           ProcessHeadersMessage(p, owes, first, last)
    PROVE  IInv'
<1>1. /\ Exact(net) /\ net \in Net /\ Tree(chain) /\ Extends(chain, chain)
      /\ Indexed(chain.index) /\ chain.header \in chain.index
      /\ asked \in [Peer -> Requests] /\ Serves(net, chain, asked[p], p)
    BY Facts DEF IInv, Indexed
<1> DEFINE r == [owes EXCEPT !.headers = @ \cup {<<chain.header, NoBlock>>}]
<1>2. /\ net' = UpdateBlockAvailability(net, chain.index, p, last) /\ chain' = chain
      /\ asked' = [asked EXCEPT ![p] = r]
    BY DEF ProcessHeadersMessage
<1>3. Serves(net, chain, owes, p)
    BY <1>1 DEF Serves, Remains
<1>4. /\ r \in Requests /\ owes.headers \subseteq r.headers /\ r.txs = owes.txs
      /\ r.blocks = owes.blocks /\ r.cmpct = owes.cmpct
      /\ r.headers = owes.headers \cup {<<chain.header, NoBlock>>}
    BY <1>1, <1>3, SMT DEF Requests, Blocks, Indexed, Serves
<1> HIDE DEF r
<1>5. /\ Exact(net') /\ net' \in Net /\ Steps(net, net', chain.index) /\ net'.partial = net.partial
      /\ \A q \in Peer : net'.node[q].flight = net.node[q].flight
    BY <1>1, <1>2, Updated, SMT DEF Exact
<1>6. Beside(net, net', chain, p)
    BY <1>5, Besides
<1>7. /\ OwedBy(net', chain, r, p) /\ net'.node[p].flight \subseteq chain.index
      /\ \A q \in r.headers : q[1] \in chain.index
    BY <1>1, <1>3, <1>4, <1>5, SMT DEF Serves, OwedBy
<1>8. Serves(net', chain, r, p)
    BY <1>1, <1>3, <1>4, <1>5, <1>7, Serving
<1> QED BY <1>1, <1>2, <1>5, <1>6, <1>8, Settled DEF IInv

LEMMA LinkedHeaders ==
    ASSUME IInv, NEW p \in Peer, Connected(net.node[p]), NEW first \in Block, NEW last \in Block,
           NEW owes, Remains(owes, p, first, last), Parent[first] \in chain.index,
           ProcessHeadersMessage(p, owes, first, last)
    PROVE  IInv'
<1>1. /\ Exact(net) /\ net \in Net /\ net.node[p] \in Node /\ Tree(chain)
      /\ asked \in [Peer -> Requests] /\ Serves(net, chain, asked[p], p)
    BY Facts DEF IInv
<1> DEFINE c == AcceptHeaders(chain, last, Anc[last])
           n == UpdateBlockAvailability(net, c.index, p, last)
           get == DirectFetch(n, c, p, last)
           m == MarkBlocksAsInFlight(n, p, get)
           more == IF Height[last] - Height[first] + 1 = MaxHeaders THEN {<<last, NoBlock>>} ELSE {}
           compact == /\ Cardinality(get) = 1
                      /\ Cardinality({b \in Block : m.inFlight[b] # NoPeer}) = 1
                      /\ Parent[last] \in c.valid
           r == [owes EXCEPT !.headers = @ \cup more,
                             !.blocks = IF compact THEN @ ELSE @ \cup get,
                             !.cmpct = IF compact THEN @ \cup get ELSE @]
<1>2. /\ chain' = c /\ net' = Protect(m, c, p) /\ asked' = [asked EXCEPT ![p] = r]
    BY SMT DEF ProcessHeadersMessage
<1> HIDE DEF c
<1>3. Extends(chain, c) /\ Tree(c) /\ Anc[last] \subseteq c.index /\ last \in c.index
      /\ Indexed(c.index) /\ c.data = chain.data /\ c.tip = chain.tip
    <2>1. /\ Anc[last] \subseteq Block /\ last \in Anc[last]
          /\ \A b \in Anc[last] : Anc[b] \subseteq chain.index \cup Anc[last]
        BY Branches, InBranch
    <2>2. /\ Extends(chain, c) /\ c.index = chain.index \cup Anc[last] /\ c.data = chain.data
          /\ c.tip = chain.tip
        BY <1>1, <2>1, AcceptsHeaders, SMT DEF c
    <2> QED BY <2>1, <2>2 DEF Extends, Indexed, Tree, Chain
<1> HIDE DEF n
<1>4. /\ Exact(n) /\ n \in Net /\ Steps(net, n, c.index) /\ n.partial = net.partial
      /\ n.node[p].life = net.node[p].life
      /\ \A q \in Peer \ {p} : n.node[q] = net.node[q]
      /\ \A q \in Peer : n.node[q].flight = net.node[q].flight
      /\ n.node[p].best # NoBlock /\ Height[n.node[p].best] >= Height[last]
    BY <1>1, <1>3, Updated, SMT DEF n, Exact
<1>5. Connected(n.node[p])
    BY <1>4 DEF Connected
<1> HIDE DEF get
<1>6. /\ get \subseteq c.index /\ get \subseteq Block /\ \A b \in get : n.inFlight[b] = NoPeer
      /\ n.node[p].nFlight + Cardinality(get) <= MaxInTransit
    BY <1>3, <1>4, Fetches, SMT DEF get
<1>7. {b \in get : n.inFlight[b] # p} = get /\ \A b \in get : n.inFlight[b] \in {p, NoPeer}
    BY <1>6, PeerAssumption
<1> HIDE DEF m
<1>8. /\ Exact(m) /\ m \in Net /\ Steps(n, m, {}) /\ m.partial = n.partial
      /\ m.node[p].flight = n.node[p].flight \cup get
      /\ \A q \in Peer \ {p} : m.node[q] = n.node[q]
      /\ \A q \in Peer : m.node[q].life = n.node[q].life
    BY <1>4, <1>5, <1>6, <1>7, InFlight, SMT DEF m, Exact
<1>9. Connected(m.node[p])
    BY <1>5, <1>8 DEF Connected
<1>10. /\ Exact(net') /\ net' \in Net /\ Steps(m, net', {}) /\ net'.partial = m.partial
       /\ \A q \in Peer \ {p} : net'.node[q] = m.node[q]
       /\ \A q \in Peer : net'.node[q].flight = m.node[q].flight
    BY <1>2, <1>8, <1>9, Protects, SMT DEF Exact
<1>11. Steps(n, net', {}) /\ Steps(net, net', c.index)
    <2>1. Steps(n, net', {})
        BY <1>4, <1>8, <1>10, StepsChain, SMT
    <2> QED BY <1>1, <1>4, <1>10, <2>1, StepsChain
<1>12. /\ owes \in Requests /\ r \in Requests /\ r.txs = owes.txs
       /\ r.headers = owes.headers \cup more
       /\ owes.blocks \subseteq r.blocks /\ owes.cmpct \subseteq r.cmpct
       /\ get \subseteq r.blocks \/ get \subseteq r.cmpct
    <2>1. more \subseteq Block \X Blocks
        BY SMT DEF Blocks
    <2>2. owes \in Requests
        BY DEF Remains
    <2> HIDE DEF compact, more
    <2>3. CASE compact
        BY <1>6, <2>1, <2>2, <2>3 DEF Requests
    <2>4. CASE ~compact
        BY <1>6, <2>1, <2>2, <2>4 DEF Requests
    <2> QED BY <2>3, <2>4
<1> HIDE DEF r
<1>13. Beside(net, net', c, p)
    BY <1>4, <1>8, <1>10, <1>11, Besides, SMT
<1>14. /\ OwedBy(net', c, r, p) /\ net'.node[p].flight \subseteq c.index
    <2>1. get \cap net.partial = {}
        BY <1>4, <1>6 DEF Exact
    <2>2. net.node[p].flight \subseteq c.index
        BY <1>1, <1>3 DEF Serves, Extends
    <2>3. net'.node[p].flight = net.node[p].flight \cup get /\ net'.partial = net.partial
        BY <1>4, <1>8, <1>10
    <2>4. OwedBy(net, chain, owes, p)
        BY DEF Remains
    <2> QED BY <1>3, <1>6, <1>12, <2>1, <2>2, <2>3, <2>4 DEF OwedBy
<1>15. \A q \in r.headers : q[1] \in c.index
    BY <1>3, <1>12, SMT DEF Remains, Extends
<1>16. ChasesPeer(net'.node[p], c, r, p)
    <2> DEFINE x == net.node[p]
               y == net'.node[p]
    <2>1. y.best # NoBlock /\ Height[y.best] >= Height[last] /\ y \in Node /\ StepOf(x, y, c.index)
        <3>1. StepOf(n.node[p], y, {}) /\ StepOf(x, y, c.index) /\ y \in Node /\ n.node[p] \in Node
            BY <1>4, <1>10, <1>11 DEF Steps, Net
        <3>2. y.best = n.node[p].best
            BY <3>1 DEF StepOf
        <3> QED BY <1>4, <3>1, <3>2
    <2>2. CASE ChasesPeer(x, chain, owes, p)
        <3>1. owes.headers \subseteq r.headers
            BY <1>12
        <3> HIDE DEF x, y
        <3>2. x \in Node
            BY <1>1 DEF x
        <3>3. ChasesPeer(y, c, r, p)
            BY <1>1, <1>3, <2>1, <2>2, <3>1, <3>2, ChasesKept
        <3> QED BY <3>3 DEF y
    <2>3. CASE Height[last] >= Height[Best[p]] \/ Height[last] - Height[first] + 1 = MaxHeaders
        <3>1. /\ Height[last] \in Nat /\ Height[Best[p]] \in Nat /\ Height[y.best] \in Nat
              /\ Best[p] \in Anc[last] => Height[Best[p]] <= Height[last]
            BY <2>1, PeerAssumption, Branches, SMT DEF Node, Blocks
        <3>2. Height[last] >= Height[Best[p]] => Caught(y, c, p)
            BY <2>1, <3>1, SMT DEF Caught
        <3>3. Telling(y, c, p, <<last, NoBlock>>)
            BY <3>1, <3>2 DEF Telling
        <3>4. Caught(y, c, p) \/ \E q \in r.headers : Telling(y, c, p, q)
            BY <1>12, <2>3, <3>2, <3>3
        <3>5. x.evict # "off" => x.work \in c.index /\ Height[x.work] <= Height[c.tip]
            BY <1>1, <1>3 DEF Serves, ChasesPeer, Extends
        <3> QED BY <2>1, <3>4, <3>5 DEF ChasesPeer, StepOf
    <2> QED BY <2>2, <2>3 DEF Remains
<1>17. Serves(net', c, r, p)
    <2>1. StepOf(net.node[p], net'.node[p], c.index) /\ chain.index \subseteq c.index
        BY <1>3, <1>11 DEF Steps, Extends
    <2>2. /\ net'.node[p].best # NoBlock => net'.node[p].best \in c.index
          /\ net'.node[p].common # NoBlock => Anc[net'.node[p].common] \subseteq c.data
        BY <1>1, <1>3, <2>1 DEF Serves, StepOf
    <2> QED BY <1>12, <1>14, <1>15, <1>16, <2>2 DEF Serves
<1> QED BY <1>2, <1>3, <1>10, <1>13, <1>17, Settled DEF IInv

LEMMA AtHeightOf ==
    ASSUME NEW b \in Block, NEW h \in 0..Height[b]
    PROVE  AtHeight(b, h) \in Anc[b] /\ Height[AtHeight(b, h)] = h
<1>1. \E x \in Anc[b] : Height[x] = h
    BY Branches
<1> QED BY <1>1 DEF AtHeight

UpTo(p, stop, fork) ==
    Min({Height[fork] + MaxHeaders, Height[Best[p]]}
        \cup {Height[b] : b \in {stop} \cap (Anc[Best[p]] \ Anc[fork])})

\* The headers of a reply start above the fork with the locator, and go up to the
\* peer's best block or are as many as fit into a message, if no stop was given.
LEMMA ReplyHeaders ==
    ASSUME NEW p \in Peer, NEW loc \in Block, NEW stop \in Blocks,
           NEW fork, fork = LastCommonAncestor(loc, Best[p]), fork # Best[p],
           NEW first, first = AtHeight(Best[p], Height[fork] + 1),
           NEW last, last = AtHeight(Best[p], UpTo(p, stop, fork))
    PROVE  /\ first \in Block /\ last \in Block /\ Parent[first] = fork
           /\ stop = NoBlock => \/ Height[last] >= Height[Best[p]]
                                \/ Height[last] - Height[first] + 1 = MaxHeaders
<1>1. /\ Best[p] \in Block /\ fork \in Anc[Best[p]] /\ fork \in Block
      /\ Anc[Best[p]] \subseteq Block /\ NoBlock \notin Block
    BY CommonAncestor, PeerAssumption, Branches, BlockTree
<1>2. Height[fork] \in Nat /\ Height[Best[p]] \in Nat /\ Height[fork] < Height[Best[p]]
    BY <1>1, Branches
<1>3. Height[fork] + 1 \in 0..Height[Best[p]]
    BY <1>2, SMT
<1>4. first \in Anc[Best[p]] /\ Height[first] = Height[fork] + 1
    BY <1>1, <1>3, AtHeightOf
<1>5. Parent[first] = fork
    <2>1. first \in Block /\ first # Genesis
        BY <1>1, <1>2, <1>4, BlockTree, SMT
    <2>2. Parent[first] \in Anc[Best[p]]
        BY <1>1, <1>4, <2>1, InBranch, Branches, SMT
    <2>3. Height[first] = Height[Parent[first]] + 1 /\ Height[Parent[first]] \in Nat
        BY <2>1, BlockTree, Branches, SMT
    <2>4. Height[Parent[first]] = Height[fork]
        BY <1>2, <1>4, <2>3, SMT
    <2> QED BY <1>1, <2>2, <2>4, Branches, SMT
<1> DEFINE Stop == {Height[b] : b \in {stop} \cap (Anc[Best[p]] \ Anc[fork])}
           S == {Height[fork] + MaxHeaders, Height[Best[p]]} \cup Stop
           upTo == UpTo(p, stop, fork)
<1>6. S \subseteq Nat /\ Height[Best[p]] \in S
    <2>1. Stop \subseteq Nat
        BY <1>1, Branches, SMT
    <2> QED BY <1>2, <2>1, LimitAssumption, SMT
<1>7. upTo = Min(S)
    BY DEF UpTo
<1> HIDE DEF S, upTo
<1>8. upTo \in S /\ upTo \in Nat /\ upTo <= Height[Best[p]]
    BY <1>6, <1>7, MinOf
<1>9. last \in Anc[Best[p]] /\ Height[last] = upTo
    <2>1. upTo \in 0..Height[Best[p]]
        BY <1>2, <1>8, SMT
    <2> QED BY <1>1, <2>1, AtHeightOf DEF upTo
<1>10. ASSUME stop = NoBlock
       PROVE  Height[last] >= Height[Best[p]] \/ Height[last] - Height[first] + 1 = MaxHeaders
    <2>1. Stop = {}
        BY <1>1, <1>10
    <2>2. upTo = Height[fork] + MaxHeaders \/ upTo = Height[Best[p]]
        BY <1>8, <2>1 DEF S
    <2> QED BY <1>2, <1>4, <1>9, <2>2, LimitAssumption, SMT
<1> QED BY <1>1, <1>4, <1>5, <1>9, <1>10

LEMMA HeadersReplyKeeps ==
    ASSUME IInv, NEW p \in Peer, NEW q \in asked[p].headers, HeadersReply(p, q)
    PROVE  IInv'
<1>1. /\ Exact(net) /\ net \in Net /\ Tree(chain) /\ Extends(chain, chain)
      /\ chain.index \subseteq Block /\ asked \in [Peer -> Requests] /\ asked[p] \in Requests
      /\ Serves(net, chain, asked[p], p)
    BY Facts DEF IInv
<1>2. /\ q[1] \in Block /\ q[2] \in Blocks /\ q[1] \in chain.index
      /\ Anc[q[1]] \subseteq chain.index /\ Best[p] \in Block
    BY <1>1, PeerAssumption DEF Requests, Serves, Tree
<1> DEFINE fork == LastCommonAncestor(q[1], Best[p])
           Stop == {Height[b] : b \in {q[2]} \cap (Anc[Best[p]] \ Anc[fork])}
           upTo == Min({Height[fork] + MaxHeaders, Height[Best[p]]} \cup Stop)
           first == AtHeight(Best[p], Height[fork] + 1)
           last == AtHeight(Best[p], upTo)
           owes == [asked[p] EXCEPT !.headers = @ \ {q}]
<1>3. /\ owes \in Requests /\ owes.headers = asked[p].headers \ {q} /\ owes.txs = asked[p].txs
      /\ owes.blocks = asked[p].blocks /\ owes.cmpct = asked[p].cmpct
    BY <1>1 DEF Requests
<1>4. fork \in Anc[q[1]]
    BY <1>2, CommonAncestor
<1>5. /\ Connected(net.node[p])
      /\ IF fork = Best[p]
         THEN asked' = [asked EXCEPT ![p] = owes] /\ UNCHANGED <<chain, net>>
         ELSE ProcessHeadersMessage(p, owes, first, last)
    BY DEF HeadersReply, Up, Connected
<1>5a. /\ fork = LastCommonAncestor(q[1], Best[p])
       /\ first = AtHeight(Best[p], Height[fork] + 1)
       /\ last = AtHeight(Best[p], UpTo(p, q[2], fork))
    BY DEF UpTo
<1> HIDE DEF fork, first, last, owes
<1>6. ChasesPeer(net.node[p], chain, owes, p) \/ Telling(net.node[p], chain, p, q)
    BY <1>1, <1>3 DEF Serves, ChasesPeer
<1>7. /\ OwedBy(net, chain, owes, p) /\ \A h \in owes.headers : h[1] \in chain.index
      /\ net.node[p].flight \subseteq chain.index
    BY <1>1, <1>3 DEF Serves, OwedBy
<1>8. CASE fork = Best[p]
    <2>1. Telling(net.node[p], chain, p, q) => Caught(net.node[p], chain, p)
        BY <1>4, <1>8 DEF Telling
    <2>2. ChasesPeer(net.node[p], chain, owes, p)
        BY <1>1, <1>6, <2>1 DEF Serves, ChasesPeer
    <2>3. Serves(net, chain, owes, p)
        BY <1>1, <1>3, <1>7, <2>2 DEF Serves
    <2>4. Steps(net, net, {}) /\ {} \subseteq chain.index
        BY <1>1, StepsSame
    <2>5. Beside(net, net, chain, p)
        BY <2>4, Besides
    <2> QED BY <1>1, <1>5, <1>8, <2>3, <2>5, Settled, SMT DEF IInv
<1>9. CASE fork # Best[p]
    <2>1. /\ first \in Block /\ last \in Block /\ Parent[first] = fork
          /\ q[2] = NoBlock => \/ Height[last] >= Height[Best[p]]
                               \/ Height[last] - Height[first] + 1 = MaxHeaders
        BY <1>2, <1>9, <1>5a, ReplyHeaders, SMT
    <2>2. Parent[first] \in chain.index
        BY <1>2, <1>4, <2>1
    <2>3. Remains(owes, p, first, last)
        BY <1>3, <1>6, <1>7, <2>1, <2>2 DEF Remains, Telling
    <2> QED BY <1>5, <1>9, <2>1, <2>2, <2>3, LinkedHeaders
<1> QED BY <1>8, <1>9

LEMMA HeaderAnnouncedKeeps ==
    ASSUME IInv, NEW p \in Peer, NEW b \in Block, HeaderAnnounced(p, b)
    PROVE  IInv'
<1>1. Connected(net.node[p]) /\ ProcessHeadersMessage(p, asked[p], b, b)
    BY DEF HeaderAnnounced, Up, Connected
<1>2. Remains(asked[p], p, b, b)
    BY Facts DEF IInv, Remains, Serves
<1> QED BY <1>1, <1>2, LinkedHeaders, StrangeHeaders

\* What ProcessBlockTxn starts from: the block b is in flight from p and partly
\* there, and everything else that p has in flight is owed.
Filling(n, c, p, b, owes) ==
    /\ Exact(n) /\ Extends(chain, c) /\ Steps(net, n, c.index) /\ Connected(n.node[p])
    /\ b \in n.node[p].flight /\ b \in n.partial /\ n.node[p].flight \subseteq c.index
    /\ \A q \in Peer \ {p} : n.node[q].flight = net.node[q].flight
    /\ \A x \in Block \ {b} : x \in n.partial <=> x \in net.partial
    /\ owes \in Requests /\ owes.headers = asked[p].headers
    /\ \A x \in n.node[p].flight \ (c.data \cup {b}) :
          \/ x \in owes.blocks
          \/ x \in n.partial /\ x \in owes.txs
          \/ x \notin n.partial /\ x \in owes.cmpct

\* The block, or the transactions still missing from it, are asked for.
LEMMA AsksMore ==
    ASSUME IInv, NEW p \in Peer, NEW b \in Block, NEW n, NEW c, NEW owes, Filling(n, c, p, b, owes),
           NEW r \in Requests, r.headers = owes.headers, r.cmpct = owes.cmpct,
           owes.blocks \subseteq r.blocks, owes.txs \subseteq r.txs, b \in r.blocks \cup r.txs,
           NEW e, e = [asked EXCEPT ![p] = r]
    PROVE  Sound(n, c, e)
<1>1. /\ net \in Net /\ Tree(chain) /\ Serves(net, chain, asked[p], p)
    BY Facts DEF IInv
<1>2. /\ Exact(n) /\ n \in Net /\ Extends(chain, c) /\ Steps(net, n, c.index)
      /\ n.node[p].flight \subseteq c.index /\ asked[p].headers \subseteq r.headers
    BY DEF Filling, Exact
<1>3. \A q \in Peer \ {p} : b \notin n.node[q].flight /\ n.node[q].flight \subseteq Block
    <2>1. n.inFlight[b] = p
        <3>1. b \in n.node[p].flight
            BY DEF Filling
        <3>2. Exact(n)
            BY <1>2
        <3> QED BY <3>1, <3>2, Holder, ZenonT(30)
    <2> QED BY <1>2, <2>1, Holder, ZenonT(30)
<1>4. Beside(net, n, c, p)
    BY <1>2, <1>3 DEF Filling, Beside, Steps
<1>5. OwedBy(n, c, r, p)
    BY DEF Filling, OwedBy
<1>6. \A q \in r.headers : q[1] \in c.index
    BY <1>1 DEF Filling, Serves, Extends
<1>7. Serves(n, c, r, p)
    BY <1>1, <1>2, <1>5, <1>6, Serving
<1> QED BY <1>2, <1>4, <1>7, Settled DEF IInv

Without(n, m, b) ==
    /\ Exact(m) /\ Steps(n, m, {}) /\ m.partial = n.partial \ {b}
    /\ \A q \in Peer : m.node[q].flight = n.node[q].flight \ {b}

\* The block is there, or is no longer waited for.
LEMMA Fills ==
    ASSUME IInv, NEW p \in Peer, NEW b \in Block, NEW n, NEW c, NEW owes, Filling(n, c, p, b, owes),
           NEW d, Extends(c, d), NEW m, Without(n, m, b), NEW e, e = [asked EXCEPT ![p] = owes]
    PROVE  Sound(m, d, e)
<1>1. /\ net \in Net /\ Tree(chain) /\ Serves(net, chain, asked[p], p)
    BY Facts DEF IInv
<1>2. /\ n \in Net /\ m \in Net /\ Extends(chain, c) /\ Steps(net, n, c.index)
      /\ owes \in Requests /\ asked[p].headers \subseteq owes.headers
      /\ Exact(m) /\ Steps(n, m, {})
    BY DEF Filling, Exact, Without
<1>3. Extends(chain, d) /\ c.index \subseteq d.index /\ {} \subseteq d.index /\ c.data \subseteq d.data
    BY <1>1, <1>2, ExtendsChain DEF Extends
<1>4. Steps(net, m, d.index)
    BY <1>1, <1>2, <1>3, StepsChain
<1>5. \A q \in Peer \ {p} : n.node[q].flight \subseteq Block
    BY Holder DEF Filling
<1>6. Beside(net, m, d, p)
    BY <1>4, <1>5 DEF Filling, Beside, Steps, Without
<1>7. OwedBy(m, d, owes, p) /\ m.node[p].flight \subseteq d.index
    BY <1>3 DEF Filling, OwedBy, Without
<1>8. \A q \in owes.headers : q[1] \in d.index
    BY <1>1, <1>3 DEF Filling, Serves, Extends
<1>9. Serves(m, d, owes, p)
    BY <1>1, <1>2, <1>3, <1>4, <1>7, <1>8, Serving
<1> QED BY <1>2, <1>3, <1>6, <1>9, Settled DEF IInv

LEMMA ProcessBlockTxnKeeps ==
    ASSUME IInv, NEW p \in Peer, NEW b \in Block, NEW n, NEW c, NEW owes, Filling(n, c, p, b, owes),
           NEW status \in {"complete", "missing", "failed", "invalid"},
           ProcessBlockTxn(n, c, p, b, status, owes)
    PROVE  IInv'
<1>1. Exact(n) /\ Connected(n.node[p]) /\ owes \in Requests /\ Tree(c)
    BY DEF Filling, Extends
<1> DEFINE k == MarkBlockAsReceived(n, b)
           r == [owes EXCEPT !.blocks = IF status = "failed" THEN @ \cup {b} ELSE @,
                             !.txs = IF status = "missing" THEN @ \cup {b} ELSE @]
<1>2. asked' = [asked EXCEPT ![p] = r]
    BY DEF ProcessBlockTxn
<1> HIDE DEF k
<1>3. /\ Exact(k) /\ Steps(n, k, {}) /\ k.partial = n.partial \ {b} /\ k \in Net /\ n \in Net
      /\ \A q \in Peer : k.node[q].flight = n.node[q].flight \ {b}
      /\ \A q \in Peer : k.node[q].life = n.node[q].life
    BY <1>1, Received, SMT DEF k, Exact
<1>4. CASE status \in {"failed", "missing"}
    <2>1. net' = n /\ chain' = c
        BY <1>4 DEF ProcessBlockTxn
    <2>2. /\ r \in Requests /\ r.headers = owes.headers /\ r.cmpct = owes.cmpct
          /\ owes.blocks \subseteq r.blocks /\ owes.txs \subseteq r.txs /\ b \in r.blocks \cup r.txs
        BY <1>1, <1>4 DEF Requests
    <2> HIDE DEF r
    <2>3. Sound(n, c, asked')
        BY <1>2, <2>2, AsksMore
    <2> QED BY <2>1, <2>3 DEF IInv
<1>5. CASE status = "complete"
    <2>1. r = owes /\ net' = k /\ chain' = ProcessNetBlock(c, b, TRUE)
        BY <1>1, <1>5 DEF ProcessBlockTxn, Requests, k
    <2>2. Extends(c, chain')
        BY <1>1, <2>1, ProcessesBlock
    <2>3. Sound(k, chain', asked')
        <3>1. Without(n, k, b)
            BY <1>3 DEF Without
        <3> QED BY <1>2, <2>1, <2>2, <3>1, Fills
    <2> QED BY <2>1, <2>3 DEF IInv
<1>6. CASE status = "invalid"
    <2>1. r = owes /\ net' = Closing(k, p) /\ chain' = c
        BY <1>1, <1>6 DEF ProcessBlockTxn, Requests, k, Closing
    <2>2. Connected(k.node[p])
        BY <1>1, <1>3 DEF Connected
    <2>3. /\ Exact(net') /\ net' \in Net /\ Steps(k, net', {}) /\ net'.partial = k.partial
          /\ \A q \in Peer : net'.node[q].flight = k.node[q].flight
        BY <1>3, <2>1, <2>2, Closes, SMT DEF Exact
    <2>4. Steps(n, net', {})
        BY <1>3, <2>3, StepsChain, SMT
    <2>5. Extends(c, c)
        BY <1>1, ExtendsSame
    <2>6. Without(n, net', b)
        BY <1>3, <2>3, <2>4 DEF Without
    <2>7. Sound(net', c, asked')
        BY <1>2, <2>1, <2>5, <2>6, Fills
    <2> QED BY <2>1, <2>7 DEF IInv
<1> QED BY <1>4, <1>5, <1>6

LEMMA BlockTxnKeeps ==
    ASSUME IInv, NEW p \in Peer, NEW b \in Block, NEW status \in Statuses(p), BlockTxn(p, b, status)
    PROVE  IInv'
<1>1. /\ Exact(net) /\ net \in Net /\ Tree(chain) /\ Extends(chain, chain)
      /\ asked \in [Peer -> Requests] /\ asked[p] \in Requests /\ Serves(net, chain, asked[p], p)
    BY Facts DEF IInv
<1> DEFINE owes == [asked[p] EXCEPT !.txs = @ \ {b}]
<1>2. /\ owes \in Requests /\ owes.headers = asked[p].headers /\ owes.blocks = asked[p].blocks
      /\ owes.cmpct = asked[p].cmpct /\ owes.txs = asked[p].txs \ {b}
    BY <1>1 DEF Requests
<1>3. /\ Connected(net.node[p])
      /\ IF net.inFlight[b] = p /\ b \in net.partial
         THEN ProcessBlockTxn(net, chain, p, b, status, owes)
         ELSE asked' = [asked EXCEPT ![p] = owes] /\ UNCHANGED <<chain, net>>
    BY DEF BlockTxn, Up, Connected
<1> HIDE DEF owes
<1>4. Steps(net, net, {}) /\ Steps(net, net, chain.index)
    BY <1>1, StepsSame
<1>5. CASE net.inFlight[b] = p /\ b \in net.partial
    <2>1. b \in net.node[p].flight
        BY <1>1, <1>5, Holder, SMT
    <2>2. Filling(net, chain, p, b, owes)
        BY <1>1, <1>2, <1>3, <1>4, <1>5, <2>1 DEF Filling, Serves, OwedBy
    <2>3. status \in {"complete", "missing", "failed", "invalid"}
        BY DEF Statuses
    <2> QED BY <1>3, <1>5, <2>2, <2>3, ProcessBlockTxnKeeps
<1>6. CASE ~(net.inFlight[b] = p /\ b \in net.partial)
    <2>1. b \in net.node[p].flight => b \notin net.partial
        BY <1>1, <1>6, Holder
    <2>2. Beside(net, net, chain, p)
        BY <1>4, Besides
    <2>3. OwedBy(net, chain, owes, p)
        BY <1>1, <1>2, <2>1 DEF Serves, OwedBy
    <2>4. Serves(net, chain, owes, p)
        BY <1>1, <1>2, <2>3 DEF Serves, ChasesPeer
    <2> QED BY <1>1, <1>3, <1>6, <2>2, <2>4, Settled, SMT DEF IInv
<1> QED BY <1>5, <1>6

\* A compact block that is being filled.
WithPartial(n, b) == [n EXCEPT !.partial = @ \cup {b}]

Flies(n, b) == n.inFlight[b] # NoPeer

LEMMA StartsFilling ==
    ASSUME NEW n, Exact(n), NEW b \in Block, Flies(n, b), NEW m, m = WithPartial(n, b)
    PROVE  Exact(m) /\ m.node = n.node /\ m.partial = n.partial \cup {b}
<1>1. n \in Net
    BY DEF Exact
<1>2. /\ m.node = n.node /\ m.inFlight = n.inFlight /\ m.partial = n.partial \cup {b}
      /\ m.downloads = n.downloads /\ m.syncs = n.syncs /\ m.preferred = n.preferred
      /\ m.protected = n.protected
      /\ m = [node |-> m.node, inFlight |-> m.inFlight, partial |-> m.partial,
              downloads |-> m.downloads, syncs |-> m.syncs, preferred |-> m.preferred,
              protected |-> m.protected]
    BY <1>1 DEF WithPartial, Net
<1>3. m \in Net
    BY <1>1, <1>2, NetRecord DEF Net
<1>4. \A p \in Peer : ExactNode(m, p)
    BY <1>2 DEF Exact, ExactNode, Flying
<1>5. Counters(m)
    BY <1>2 DEF Exact, Counters
<1>6. m.partial \subseteq {x \in Block : m.inFlight[x] # NoPeer}
    BY <1>2 DEF Exact, Flies
<1> QED BY <1>2, <1>3, <1>4, <1>5, <1>6 DEF Exact

\* What a compact block that is linked to the index starts from.
Announced(p, b, owes, c, n) ==
    /\ Extends(chain, c) /\ c.data = chain.data /\ b \in c.index
    /\ Exact(n) /\ Steps(net, n, c.index) /\ Connected(n.node[p])
    /\ n.partial = net.partial /\ n.inFlight = net.inFlight
    /\ \A q \in Peer : n.node[q].flight = net.node[q].flight
    /\ owes \in Requests /\ owes.headers = asked[p].headers /\ owes.blocks = asked[p].blocks
    /\ owes.txs = asked[p].txs /\ owes.cmpct = asked[p].cmpct \ {b}

\* Nothing is filled: the whole block is asked for if that is needed.
LEMMA OnlyKeeps ==
    ASSUME IInv, NEW p \in Peer, NEW b \in Block, NEW owes, NEW c, NEW n, Announced(p, b, owes, c, n),
           NEW get, get \subseteq {b},
           b \in chain.data \/ b \in get \/ b \notin net.node[p].flight \/ b \in net.partial,
           NEW e, e = [asked EXCEPT ![p] = [owes EXCEPT !.blocks = @ \cup get]]
    PROVE  Sound(n, c, e)
<1>1. /\ net \in Net /\ Tree(chain) /\ Serves(net, chain, asked[p], p)
    BY Facts DEF IInv
<1>2. /\ Exact(n) /\ n \in Net /\ Extends(chain, c) /\ Steps(net, n, c.index)
    BY DEF Announced, Exact
<1> DEFINE r == [owes EXCEPT !.blocks = @ \cup get]
<1>3. /\ r \in Requests /\ r.headers = asked[p].headers /\ r.blocks = asked[p].blocks \cup get
      /\ r.txs = asked[p].txs /\ r.cmpct = asked[p].cmpct \ {b}
    BY DEF Announced, Requests
<1>4. e = [asked EXCEPT ![p] = r]
    OBVIOUS
<1> HIDE DEF r
<1>5. Beside(net, n, c, p)
    BY <1>2, Besides DEF Announced
<1>6. OwedBy(n, c, r, p) /\ n.node[p].flight \subseteq c.index
    BY <1>1, <1>3 DEF Announced, Serves, OwedBy, Extends
<1>7. asked[p].headers \subseteq r.headers /\ \A q \in r.headers : q[1] \in c.index
    BY <1>1, <1>3 DEF Announced, Serves, Extends
<1>8. Serves(n, c, r, p)
    BY <1>1, <1>2, <1>3, <1>6, <1>7, Serving
<1> QED BY <1>2, <1>4, <1>5, <1>8, Settled DEF IInv

\* The block is in flight from p or will be, and is filled from what is there.
LEMMA FillKeeps ==
    ASSUME IInv, NEW p \in Peer, NEW b \in Block, NEW owes, NEW c, NEW n, Announced(p, b, owes, c, n),
           n.inFlight[b] = p \/ (n.inFlight[b] = NoPeer /\ n.node[p].nFlight < MaxInTransit),
           NEW status \in {"complete", "missing", "failed", "invalid"},
           NEW m, m = MarkBlocksAsInFlight(n, p, {b}), NEW k, k = WithPartial(m, b),
           ProcessBlockTxn(k, c, p, b, status, owes)
    PROVE  IInv'
<1>1. /\ net \in Net /\ Tree(chain) /\ Serves(net, chain, asked[p], p)
    BY Facts DEF IInv
<1>2. /\ Exact(n) /\ n \in Net /\ Connected(n.node[p]) /\ n.node[p].nFlight \in 0..MaxInTransit
      /\ \A q \in Peer : n.node[q].flight = net.node[q].flight
    BY Holder DEF Announced, Exact
<1>3. n.node[p].nFlight + Cardinality({x \in {b} : n.inFlight[x] # p}) <= MaxInTransit
    <2>1. CASE n.inFlight[b] = p
        <3>1. {x \in {b} : n.inFlight[x] # p} = {}
            BY <2>1
        <3>2. Cardinality({x \in {b} : n.inFlight[x] # p}) = 0
            BY <3>1, FS_EmptySet
        <3> QED BY <1>2, <3>2, LimitAssumption, SMT
    <2>2. CASE n.inFlight[b] = NoPeer /\ n.node[p].nFlight < MaxInTransit
        <3>1. {x \in {b} : n.inFlight[x] # p} = {b}
            BY <2>2, PeerAssumption
        <3> QED BY <1>2, <2>2, <3>1, FS_Singleton, LimitAssumption, SMT
    <2> QED BY <2>1, <2>2
<1>4. {b} \subseteq Block /\ \A x \in {b} : n.inFlight[x] \in {p, NoPeer}
    OBVIOUS
<1>5. /\ Exact(m) /\ m \in Net /\ Steps(n, m, {}) /\ m.partial = n.partial
      /\ m.node[p].flight = n.node[p].flight \cup {b}
      /\ \A q \in Peer \ {p} : m.node[q] = n.node[q]
      /\ \A q \in Peer : m.node[q].life = n.node[q].life
    BY <1>2, <1>3, <1>4, InFlight, SMT DEF Exact
<1>6. Flies(m, b)
    <2>1. b \in m.node[p].flight
        BY <1>5
    <2>2. b \in m.node[p].flight <=> m.inFlight[b] = p
        BY <1>5, Holder
    <2> QED BY <2>1, <2>2, PeerAssumption DEF Flies
<1>7. Exact(k) /\ k \in Net /\ k.node = m.node /\ k.partial = n.partial \cup {b}
    <2>1. Exact(m)
        BY <1>5
    <2>2. Exact(k) /\ k.node = m.node /\ k.partial = m.partial \cup {b}
        BY <1>6, <2>1, StartsFilling, SMT
    <2> QED BY <1>5, <2>2 DEF Exact
<1>8. Steps(net, k, c.index)
    <2>1. Steps(net, n, c.index) /\ {} \subseteq c.index
        BY DEF Announced
    <2>2. Steps(net, m, c.index)
        BY <1>1, <1>2, <1>5, <2>1, StepsChain
    <2> QED BY <1>7, <2>2 DEF Steps
<1>9. Connected(k.node[p])
    BY <1>2, <1>5, <1>7 DEF Connected
<1>10. k.node[p].flight = net.node[p].flight \cup {b} /\ k.node[p].flight \subseteq c.index
    BY <1>1, <1>5, <1>7 DEF Announced, Serves, Extends
<1>11. \A q \in Peer \ {p} : k.node[q].flight = net.node[q].flight
    <2> TAKE q \in Peer \ {p}
    <2>1. k.node[q] = n.node[q]
        BY <1>5, <1>7
    <2> QED BY <1>2, <2>1
<1>12. \A x \in k.node[p].flight \ (c.data \cup {b}) :
          \/ x \in owes.blocks
          \/ x \in k.partial /\ x \in owes.txs
          \/ x \notin k.partial /\ x \in owes.cmpct
    BY <1>1, <1>7, <1>10 DEF Announced, Serves, OwedBy
<1>13. Filling(k, c, p, b, owes)
    BY <1>7, <1>8, <1>9, <1>10, <1>11, <1>12 DEF Filling, Announced
<1> QED BY <1>13, ProcessBlockTxnKeeps

\* The block is complete, and it was somebody else who was asked for it.
LEMMA TakesKeeps ==
    ASSUME IInv, NEW p \in Peer, NEW b \in Block, NEW owes, NEW c, NEW n, Announced(p, b, owes, c, n),
           NEW d, d = ProcessNetBlock(c, b, TRUE), NEW m, m = MarkBlockAsReceived(n, b),
           NEW e, e = [asked EXCEPT ![p] = owes]
    PROVE  Sound(m, d, e)
<1>1. /\ net \in Net /\ Tree(chain) /\ Serves(net, chain, asked[p], p)
    BY Facts DEF IInv
<1>2. /\ Exact(n) /\ n \in Net /\ Extends(chain, c) /\ Tree(c) /\ Steps(net, n, c.index)
      /\ owes \in Requests /\ owes.headers = asked[p].headers
    BY DEF Announced, Exact, Extends
<1>3. /\ Exact(m) /\ m \in Net /\ Steps(n, m, {}) /\ m.partial = n.partial \ {b}
      /\ \A q \in Peer : m.node[q].flight = n.node[q].flight \ {b}
    BY <1>2, Received, SMT DEF Exact
<1>4. Extends(c, d) /\ Extends(chain, d) /\ c.index \subseteq d.index /\ {} \subseteq d.index
    <2>1. Extends(c, d)
        BY <1>2, ProcessesBlock
    <2> QED BY <1>1, <1>2, <2>1, ExtendsChain DEF Extends
<1>5. Steps(net, m, d.index)
    BY <1>1, <1>2, <1>3, <1>4, StepsChain
<1>6. /\ \A q \in Peer : m.node[q].flight = net.node[q].flight \ {b}
      /\ m.partial = net.partial \ {b}
    BY <1>3 DEF Announced
<1>7. Beside(net, m, d, p)
    BY <1>5, <1>6 DEF Beside, Steps
<1>8. OwedBy(m, d, owes, p) /\ m.node[p].flight \subseteq d.index
    BY <1>1, <1>4, <1>6 DEF Announced, Serves, OwedBy, Extends
<1>9. asked[p].headers \subseteq owes.headers /\ \A q \in owes.headers : q[1] \in d.index
    BY <1>1, <1>2, <1>4 DEF Serves, Extends
<1>10. Serves(m, d, owes, p)
    BY <1>1, <1>2, <1>3, <1>4, <1>5, <1>8, <1>9, Serving
<1> QED BY <1>3, <1>4, <1>7, <1>10, Settled DEF IInv

LEMMA CmpctBlockKeeps ==
    ASSUME IInv, NEW p \in Peer, NEW b \in Block, NEW status \in Statuses(p),
           CmpctBlock(p, b, status)
    PROVE  IInv'
<1>1. /\ Exact(net) /\ net \in Net /\ Tree(chain) /\ Extends(chain, chain)
      /\ Indexed(chain.index) /\ chain.header \in chain.index
      /\ asked \in [Peer -> Requests] /\ asked[p] \in Requests /\ Serves(net, chain, asked[p], p)
    BY Facts DEF IInv, Indexed
<1> DEFINE owes == [asked[p] EXCEPT !.cmpct = @ \ {b}]
           c == AcceptHeaders(chain, b, {b})
           n == UpdateBlockAvailability(net, c.index, p, b)
           holder == n.inFlight[b]
           mine == holder = p \/ (holder = NoPeer /\ n.node[p].nFlight < MaxInTransit)
           ask == [owes EXCEPT !.headers = IF IsInitialBlockDownload(chain) THEN @
                                           ELSE @ \cup {<<chain.header, NoBlock>>}]
           only(get) == /\ chain' = c /\ net' = n
                        /\ asked' = [asked EXCEPT ![p] = [owes EXCEPT !.blocks = @ \cup get]]
           k == WithPartial(MarkBlocksAsInFlight(n, p, {b}), b)
<1>2. Connected(net.node[p])
    BY DEF CmpctBlock, Delivers, Up, Connected
<1>3. /\ Parent[b] \notin chain.index =>
            asked' = [asked EXCEPT ![p] = ask] /\ chain' = chain /\ net' = net
      /\ Parent[b] \in chain.index => CompactBlock(p, b, status, owes, c, n)
    BY DEF CmpctBlock
<1>4. /\ owes \in Requests /\ owes.headers = asked[p].headers /\ owes.blocks = asked[p].blocks
      /\ owes.txs = asked[p].txs /\ owes.cmpct = asked[p].cmpct \ {b}
    BY <1>1 DEF Requests
<1> HIDE DEF owes, c, n
<1>5. CASE Parent[b] \notin chain.index
    <2>1. /\ ask \in Requests /\ asked[p].headers \subseteq ask.headers /\ ask.blocks = asked[p].blocks
          /\ ask.txs = asked[p].txs /\ ask.cmpct = asked[p].cmpct \ {b}
          /\ ask.headers \subseteq asked[p].headers \cup {<<chain.header, NoBlock>>}
        BY <1>1, <1>4, SMT DEF Requests, Blocks, Indexed
    <2> HIDE DEF ask
    <2>2. b \notin net.node[p].flight \ chain.data
        <3>1. net.node[p].flight \subseteq chain.index /\ Genesis \in chain.data
            BY <1>1 DEF Serves, Tree
        <3>2. b \in chain.index /\ b # Genesis => Parent[b] \in chain.index
            BY <1>1, InBranch DEF Tree
        <3> QED BY <1>5, <3>1, <3>2
    <2>3. OwedBy(net, chain, ask, p)
        BY <1>1, <2>1, <2>2 DEF Serves, OwedBy
    <2>4. Steps(net, net, chain.index)
        BY <1>1, StepsSame
    <2>5. Beside(net, net, chain, p)
        BY <2>4, Besides
    <2>6. /\ net.node[p].flight \subseteq chain.index
          /\ \A q \in ask.headers : q[1] \in chain.index
        BY <1>1, <2>1, SMT DEF Serves
    <2>7. Serves(net, chain, ask, p)
        BY <1>1, <2>1, <2>3, <2>4, <2>6, Serving
    <2> QED BY <1>1, <1>3, <1>5, <2>5, <2>7, Settled, SMT DEF IInv
<1>6. CASE Parent[b] \in chain.index
    <2>0. \/ (b \in c.data \/ holder # p \/ b \in n.partial) /\ only({})
          \/ only({b})
          \/ holder = NoPeer /\ ProcessHeadersMessage(p, owes, b, b)
          \/ mine /\ ProcessBlockTxn(k, c, p, b, status, owes)
          \/ /\ chain' = ProcessNetBlock(c, b, TRUE) /\ net' = MarkBlockAsReceived(n, b)
             /\ asked' = [asked EXCEPT ![p] = owes]
        BY <1>3, <1>6, PeerAssumption DEF CompactBlock, WithPartial
    <2> HIDE DEF k
    <2>1. /\ Extends(chain, c) /\ Indexed(c.index) /\ c.data = chain.data /\ b \in c.index
        BY <1>1, <1>6, AcceptsHeader, SMT DEF c, Indexed
    <2>2. /\ Exact(n) /\ Steps(net, n, c.index) /\ n.partial = net.partial
          /\ n.inFlight = net.inFlight /\ n.node[p].life = net.node[p].life
          /\ \A q \in Peer : n.node[q].flight = net.node[q].flight
        BY <1>1, <1>2, <2>1, Updated, SMT DEF n
    <2>3. Announced(p, b, owes, c, n)
        BY <1>2, <1>4, <2>1, <2>2 DEF Announced, Connected
    <2>4. b \in net.node[p].flight <=> holder = p
        BY <1>1, <2>2, Holder, SMT
    <2>5. status \in {"complete", "missing", "failed", "invalid"}
        BY DEF Statuses
    <2>6. CASE (b \in c.data \/ holder # p \/ b \in n.partial) /\ only({})
        <3>1. b \in chain.data \/ b \notin net.node[p].flight \/ b \in net.partial
            BY <2>1, <2>2, <2>4, <2>6
        <3>2. Sound(n, c, asked')
            BY <2>3, <2>6, <3>1, OnlyKeeps
        <3> QED BY <2>6, <3>2 DEF IInv
    <2>7. CASE only({b})
        <3>1. Sound(n, c, asked')
            BY <2>3, <2>7, OnlyKeeps
        <3> QED BY <2>7, <3>1 DEF IInv
    <2>8. CASE holder = NoPeer /\ ProcessHeadersMessage(p, owes, b, b)
        <3>1. b \notin net.node[p].flight
            BY <2>4, <2>8, PeerAssumption
        <3>2. OwedBy(net, chain, owes, p)
            BY <1>1, <1>4, <3>1 DEF Serves, OwedBy
        <3>3. Remains(owes, p, b, b)
            BY <1>1, <1>4, <3>2 DEF Remains, Serves, ChasesPeer
        <3> QED BY <1>2, <1>6, <2>8, <3>3, LinkedHeaders
    <2>9. CASE mine /\ ProcessBlockTxn(k, c, p, b, status, owes)
        BY <2>3, <2>5, <2>9, FillKeeps DEF k
    <2>10. CASE /\ chain' = ProcessNetBlock(c, b, TRUE) /\ net' = MarkBlockAsReceived(n, b)
                /\ asked' = [asked EXCEPT ![p] = owes]
        BY <2>3, <2>10, TakesKeeps DEF IInv
    <2> QED BY <2>0, <2>6, <2>7, <2>8, <2>9, <2>10
<1> QED BY <1>5, <1>6

-----------------------------------------------------------------------------
(* Nothing but closing a connection ends it. *)

\* What the operators need to leave the fields alone that they do not change.
Lived(n) ==
    /\ "node" \in DOMAIN n /\ DOMAIN n.node = Peer
    /\ \A q \in Peer : "life" \in DOMAIN n.node[q]

SameLife(n, m) == Lived(m) /\ \A q \in Peer : m.node[q].life = n.node[q].life

LEMMA LivedNet ==
    ASSUME NEW n \in Net
    PROVE  Lived(n)
    BY SMT DEF Net, Node, Lived

LEMMA LifeReceived ==
    ASSUME NEW n, Lived(n), NEW b
    PROVE  SameLife(n, MarkBlockAsReceived(n, b))
<1>1. CASE n.inFlight[b] = NoPeer
    BY <1>1 DEF MarkBlockAsReceived, SameLife
<1>2. CASE n.inFlight[b] # NoPeer
    <2> DEFINE m == MarkBlockAsReceived(n, b)
               p == n.inFlight[b]
    <2>1. /\ "node" \in DOMAIN m
          /\ m.node = [[[n.node EXCEPT ![p].flight = @ \ {b}] EXCEPT ![p].nFlight = @ - 1]
                               EXCEPT ![p].stalling = FALSE]
        BY <1>2, SMT DEF MarkBlockAsReceived, Lived
    <2> HIDE DEF m, p
    <2>2. DOMAIN m.node = Peer
        BY <2>1 DEF Lived
    <2>3. \A q \in Peer : "life" \in DOMAIN m.node[q] /\ m.node[q].life = n.node[q].life
        <3> TAKE q \in Peer
        <3>1. CASE q # p
            BY <2>1, <3>1 DEF Lived
        <3>2. CASE q = p
            BY <2>1, <3>2, SMT DEF Lived
        <3> QED BY <3>1, <3>2
    <2> QED BY <2>1, <2>2, <2>3 DEF SameLife, Lived, m
<1> QED BY <1>1, <1>2

LEMMA LifeInFlight ==
    ASSUME NEW n, Lived(n), NEW p, NEW S
    PROVE  SameLife(n, MarkBlocksAsInFlight(n, p, S))
    BY DEF MarkBlocksAsInFlight, Lived, SameLife

LEMMA LifeAvailable ==
    ASSUME NEW n, Lived(n), NEW p, NEW I
    PROVE  SameLife(n, ProcessBlockAvailability(n, I, p))
    BY DEF ProcessBlockAvailability, Lived, SameLife

LEMMA LifeUpdated ==
    ASSUME NEW n, Lived(n), NEW p, NEW b, NEW I
    PROVE  SameLife(n, UpdateBlockAvailability(n, I, p, b))
<1> DEFINE m == ProcessBlockAvailability(n, I, p)
<1>1. SameLife(n, m)
    BY LifeAvailable
<1>2. UpdateBlockAvailability(n, I, p, b) \in
          {[m EXCEPT !.node[p].best = Better(@, b)], [m EXCEPT !.node[p].unknown = b]}
    BY DEF UpdateBlockAvailability
<1> HIDE DEF m
<1> QED BY <1>1, <1>2, SMT DEF Lived, SameLife

LEMMA LifeProtected ==
    ASSUME NEW n, Lived(n), NEW p, NEW c
    PROVE  SameLife(n, Protect(n, c, p))
    BY DEF Protect, Lived, SameLife

LEMMA LifeStarted ==
    ASSUME NEW n, Lived(n), NEW p, NEW c
    PROVE  SameLife(n, StartSync(n, c, p))
    BY DEF StartSync, Lived, SameLife

LEMMA LifeChain ==
    ASSUME NEW n, NEW m, NEW k, SameLife(n, m), SameLife(m, k)
    PROVE  SameLife(n, k)
    BY DEF SameLife

LEMMA LifeHeaders ==
    ASSUME Lived(net), NEW p, NEW owes, NEW first, NEW last, ProcessHeadersMessage(p, owes, first, last)
    PROVE  SameLife(net, net')
<1>1. CASE Parent[first] \notin chain.index
    <2>1. net' = UpdateBlockAvailability(net, chain.index, p, last)
        BY <1>1 DEF ProcessHeadersMessage
    <2> QED BY <2>1, LifeUpdated
<1>2. CASE Parent[first] \in chain.index
    <2> DEFINE c == AcceptHeaders(chain, last, Anc[last])
               n == UpdateBlockAvailability(net, c.index, p, last)
               m == MarkBlocksAsInFlight(n, p, DirectFetch(n, c, p, last))
    <2>1. net' = Protect(m, c, p)
        BY <1>2 DEF ProcessHeadersMessage
    <2> HIDE DEF c
    <2>2. SameLife(net, n) /\ Lived(n)
        BY LifeUpdated, SMT DEF SameLife
    <2> HIDE DEF n
    <2>3. SameLife(n, m) /\ Lived(m)
        BY <2>2, LifeInFlight, SMT DEF SameLife
    <2> HIDE DEF m
    <2>4. SameLife(m, net')
        BY <2>1, <2>3, LifeProtected
    <2> QED BY <2>2, <2>3, <2>4, LifeChain
<1> QED BY <1>1, <1>2

\* Only an invalid block ends the connection here, and no prompt peer sends one.
Behaves(p) ==
    /\ \A q \in Peer \ {p} : net'.node[q].life = net.node[q].life
    /\ p \in Prompt => net'.node[p].life = net.node[p].life

LEMMA LifeBehaves ==
    ASSUME NEW p \in Peer, SameLife(net, net')
    PROVE  Behaves(p)
    BY DEF SameLife, Behaves

LEMMA LifeFilled ==
    ASSUME NEW n, SameLife(net, n), NEW c, NEW p \in Peer, NEW b, NEW status \in Statuses(p), NEW owes,
           ProcessBlockTxn(n, c, p, b, status, owes)
    PROVE  Behaves(p)
<1> DEFINE m == MarkBlockAsReceived(n, b)
<1>1. \/ net' = m
      \/ net' = [m EXCEPT !.node[p].life = "closing"] /\ status = "invalid"
      \/ net' = n
    BY DEF ProcessBlockTxn, Statuses
<1>2. SameLife(n, m)
    BY LifeReceived DEF SameLife
<1> HIDE DEF m
<1>3. SameLife(net, m)
    BY <1>2, LifeChain
<1>4. CASE net' = m \/ net' = n
    BY <1>3, <1>4, LifeBehaves
<1>5. CASE net' = [m EXCEPT !.node[p].life = "closing"] /\ status = "invalid"
    <2>1. p \notin Prompt
        BY <1>5 DEF Statuses
    <2> QED BY <1>3, <1>5, <2>1 DEF Behaves, SameLife, Lived
<1> QED BY <1>1, <1>4, <1>5

LEMMA LifeCompact ==
    ASSUME Lived(net), NEW p \in Peer, NEW b, NEW status \in Statuses(p), CmpctBlock(p, b, status)
    PROVE  Behaves(p)
<1> DEFINE owes == [asked[p] EXCEPT !.cmpct = @ \ {b}]
           c == AcceptHeaders(chain, b, {b})
           n == UpdateBlockAvailability(net, c.index, p, b)
           m == MarkBlocksAsInFlight(n, p, {b})
           k == [m EXCEPT !.partial = @ \cup {b}]
<1>1. \/ net' = net
      \/ CompactBlock(p, b, status, owes, c, n)
    BY DEF CmpctBlock
<1> HIDE DEF owes, c
<1>2. SameLife(net, n) /\ Lived(n)
    BY LifeUpdated, SMT DEF SameLife
<1> HIDE DEF n
<1>3. CASE net' = net
    BY <1>3 DEF Behaves
<1>4. CASE CompactBlock(p, b, status, owes, c, n)
    <2>1. \/ net' = n
          \/ ProcessHeadersMessage(p, owes, b, b)
          \/ ProcessBlockTxn(k, c, p, b, status, owes)
          \/ net' = MarkBlockAsReceived(n, b)
        BY <1>4 DEF CompactBlock
    <2>2. CASE net' = n
        BY <1>2, <2>2, LifeBehaves
    <2>3. CASE ProcessHeadersMessage(p, owes, b, b)
        BY <2>3, LifeHeaders, LifeBehaves
    <2>4. CASE ProcessBlockTxn(k, c, p, b, status, owes)
        <3>1. SameLife(n, m)
            BY <1>2, LifeInFlight
        <3> HIDE DEF m
        <3>2. SameLife(m, k)
            BY <3>1 DEF SameLife, Lived
        <3>3. SameLife(net, k)
            BY <1>2, <3>1, <3>2, LifeChain
        <3> HIDE DEF k
        <3> QED BY <2>4, <3>3, LifeFilled
    <2>5. CASE net' = MarkBlockAsReceived(n, b)
        BY <1>2, <2>5, LifeReceived, LifeChain, LifeBehaves
    <2> QED BY <2>1, <2>2, <2>3, <2>4, <2>5
<1> QED BY <1>1, <1>3, <1>4

LEMMA LifeDownloads ==
    ASSUME NEW n, Lived(n), NEW p, NEW find
    PROVE  SameLife(n, DownloadBlocks(n, p, find))
<1> DEFINE k == [n EXCEPT !.node[p].common = find.common]
           m == MarkBlocksAsInFlight(k, p, find.get)
           d == [m EXCEPT !.node = [q \in Peer |->
                     IF q \in find.stallers /\ m.node[p].nFlight = 0
                     THEN [@[q] EXCEPT !.stalling = TRUE] ELSE @[q]]]
<1>1. DownloadBlocks(n, p, find) = d
    BY DEF DownloadBlocks
<1>2. SameLife(n, k) /\ Lived(k)
    BY DEF SameLife, Lived
<1> HIDE DEF k
<1>3. SameLife(k, m) /\ Lived(m)
    BY <1>2, LifeInFlight, SMT DEF SameLife
<1> HIDE DEF m
<1>4. SameLife(m, d)
    BY <1>3 DEF SameLife, Lived
<1> HIDE DEF d
<1> QED BY <1>1, <1>2, <1>3, <1>4, LifeChain

\* SendMessages to p may end the connection to p, and no other.
LEMMA LifeSends ==
    ASSUME Lived(net), NEW p \in Peer,
           SendMessagesTimeout(p) \/ \E late \in BOOLEAN : SendMessages(p, late)
    PROVE  \A q \in Peer \ {p} : net'.node[q].life = net.node[q].life
<1> DEFINE k == StartSync(net, chain, p)
           n == ProcessBlockAvailability(k, chain.index, p)
<1>1. \/ net' = [n EXCEPT !.node[p].life = "closing"]
      \/ \E late, find : net' = DownloadBlocks(ConsiderEviction(n, chain, p, late), p, find)
    <2>1. CASE SendMessagesTimeout(p)
        BY <2>1 DEF SendMessagesTimeout
    <2>2. CASE \E late \in BOOLEAN : SendMessages(p, late)
        <3>1. PICK late \in BOOLEAN : SendMessages(p, late)
            BY <2>2
        <3> DEFINE e == ConsiderEviction(n, chain, p, late)
                   find == FindNextBlocksToDownload(e, p, DownloadWalk(e, chain, p))
        <3>2. net' = DownloadBlocks(e, p, find)
            BY <3>1 DEF SendMessages
        <3> HIDE DEF find, n
        <3> QED BY <3>2
    <2> QED BY <2>1, <2>2
<1>2. SameLife(net, k) /\ Lived(k)
    BY LifeStarted DEF SameLife
<1> HIDE DEF k
<1>3. SameLife(net, n) /\ Lived(n)
    BY <1>2, LifeAvailable, LifeChain, SMT DEF SameLife
<1> HIDE DEF n
<1>4. CASE net' = [n EXCEPT !.node[p].life = "closing"]
    BY <1>3, <1>4 DEF SameLife, Lived
<1>5. ASSUME NEW late, NEW find, net' = DownloadBlocks(ConsiderEviction(n, chain, p, late), p, find)
      PROVE  \A q \in Peer \ {p} : net'.node[q].life = net.node[q].life
    <2> DEFINE e == ConsiderEviction(n, chain, p, late)
    <2>1. Lived(e) /\ \A q \in Peer \ {p} : e.node[q].life = n.node[q].life
        BY <1>3 DEF ConsiderEviction, Lived
    <2> HIDE DEF e
    <2>2. SameLife(e, net')
        BY <1>5, <2>1, LifeDownloads DEF e
    <2> QED BY <1>3, <2>1, <2>2 DEF SameLife
<1> QED BY <1>1, <1>4, <1>5

-----------------------------------------------------------------------------
(* The theorems. *)

LEMMA InitSound == Init => IInv
<1> SUFFICES ASSUME Init PROVE Sound(net, chain, asked)
    BY DEF IInv
<1>1. CNodeState \in Node /\ [CNodeState EXCEPT !.life = CNodeState.life] = CNodeState
    BY DEF CNodeState, Node, Blocks
<1>2. net \in Net /\ \A p \in Peer : net.node[p] = CNodeState
    BY <1>1, SMT DEF Init, Net
<1>3. net.partial = {} /\ \A b \in Block : net.inFlight[b] = NoPeer
    BY DEF Init
<1>4. ASSUME NEW p \in Peer PROVE ExactNode(net, p)
    <2>1. Flying(net, p) = {}
        BY <1>3, PeerAssumption DEF Flying
    <2>2. ExactEntry(CNodeState, {})
        BY <1>1, FS_EmptySet, LimitAssumption, SMT DEF ExactEntry, CNodeState, Connected
    <2> QED BY <1>2, <2>1, <2>2 DEF ExactNode
<1>5. Counters(net)
    <2>1. /\ {p \in Peer : net.node[p].flight # {}} = {} /\ {p \in Peer : net.node[p].sync} = {}
          /\ {p \in Peer : net.node[p].protect} = {} /\ {p \in Peer : Connected(net.node[p])} = {}
        BY <1>2, SMT DEF CNodeState, Connected
    <2>2. net.downloads = 0 /\ net.syncs = 0 /\ net.protected = 0 /\ net.preferred = 0
        BY DEF Init
    <2> QED BY <2>1, <2>2, FS_EmptySet DEF Counters
<1>6. Exact(net)
    BY <1>2, <1>3, <1>4, <1>5 DEF Exact
<1>7. Tree(chain)
    BY BlockTree DEF Init, Tree, Chain
<1>8. Asked(asked, chain)
    BY DEF Init, Asked, Nothing, Requests
<1>9. Skips(net, chain) /\ Owed(net, chain, asked) /\ Chases(net, chain, asked)
    BY <1>2, SMT DEF Skips, Owed, OwedBy, Chases, ChasesPeer, CNodeState
<1> QED BY <1>6, <1>7, <1>8, <1>9 DEF Sound

\* A step keeps the invariant, and drops no prompt peer without a reason.
LEMMA StepSound ==
    ASSUME IInv, Next
    PROVE  IInv' /\ \A p \in Prompt : Warranted(p)
<1>1. net \in Net /\ Lived(net) /\ Prompt \subseteq Peer
    BY LivedNet, PeerAssumption DEF IInv, Sound, Exact
<1>2. ASSUME NEW b \in Block \ {Genesis}, OwnBlock(b)
      PROVE  IInv' /\ \A p \in Prompt : Warranted(p)
    BY <1>2, OwnBlockKeeps DEF OwnBlock, Warranted, Up
<1>3. ASSUME NEW p \in Peer, Behaves(p)
      PROVE  \A q \in Prompt : Warranted(q)
    BY <1>1, <1>3 DEF Behaves, Warranted, Up
<1>4. ASSUME NEW p \in Peer, InitializeNode(p)
      PROVE  IInv' /\ \A q \in Prompt : Warranted(q)
    <2>1. \A q \in Peer \ {p} : net'.node[q].life = net.node[q].life
        BY <1>1, <1>4 DEF InitializeNode, Lived
    <2>2. ~Up(p)
        BY <1>4 DEF InitializeNode, Up
    <2> QED BY <1>1, <1>4, <2>1, <2>2, InitializeNodeKeeps DEF Warranted, Up
<1>5. ASSUME NEW p \in Peer, FinalizeNode(p)
      PROVE  IInv' /\ \A q \in Prompt : Warranted(q)
    <2>1. \A q \in Peer \ {p} : net'.node[q].life = net.node[q].life
        BY <1>1, <1>5 DEF FinalizeNode, Lived
    <2>2. ~Up(p)
        BY <1>5 DEF FinalizeNode, Up
    <2> QED BY <1>1, <1>5, <2>1, <2>2, FinalizeNodeKeeps DEF Warranted, Up
<1>6. ASSUME NEW p \in Peer, ConnectionLost(p)
      PROVE  IInv' /\ \A q \in Prompt : Warranted(q)
    <2>1. p \notin Prompt /\ \A q \in Peer \ {p} : net'.node[q].life = net.node[q].life
        BY <1>1, <1>6 DEF ConnectionLost, Lived
    <2> QED BY <1>1, <1>6, <2>1, ConnectionLostKeeps DEF Warranted, Up
<1>7. ASSUME NEW p \in Peer, SendMessagesTimeout(p) \/ \E late \in BOOLEAN : SendMessages(p, late)
      PROVE  IInv' /\ \A q \in Prompt : Warranted(q)
    <2>1. IInv' /\ (p \in Prompt => Warranted(p))
        BY <1>7, SendMessagesTimeoutKeeps, SendMessagesKeeps
    <2>2. \A q \in Peer \ {p} : Warranted(q)
        BY <1>1, <1>7, LifeSends DEF Warranted, Up
    <2> QED BY <1>1, <2>1, <2>2
<1>8. ASSUME NEW p \in Peer, NEW b \in Block, BlockMessage(p, b)
      PROVE  IInv' /\ \A q \in Prompt : Warranted(q)
    <2>1. SameLife(net, net')
        BY <1>1, <1>8, LifeReceived DEF BlockMessage
    <2> QED BY <1>3, <1>8, <2>1, LifeBehaves, BlockMessageKeeps
<1>9. ASSUME NEW p \in Peer, NEW b \in Block, NEW s \in Statuses(p), CmpctBlock(p, b, s)
      PROVE  IInv' /\ \A q \in Prompt : Warranted(q)
    BY <1>1, <1>3, <1>9, LifeCompact, CmpctBlockKeeps
<1>10. ASSUME NEW p \in Peer, NEW b \in Block, NEW s \in Statuses(p), BlockTxn(p, b, s)
       PROVE  IInv' /\ \A q \in Prompt : Warranted(q)
    <2> DEFINE owes == [asked[p] EXCEPT !.txs = @ \ {b}]
    <2>1. net' = net \/ ProcessBlockTxn(net, chain, p, b, s, owes)
        BY <1>10 DEF BlockTxn
    <2>2. SameLife(net, net)
        BY <1>1 DEF SameLife
    <2> HIDE DEF owes
    <2>3. Behaves(p)
        BY <2>1, <2>2, LifeFilled, LifeBehaves
    <2> QED BY <1>3, <1>10, <2>3, BlockTxnKeeps
<1>11. ASSUME NEW p \in Peer, NEW q \in asked[p].headers, HeadersReply(p, q)
       PROVE  IInv' /\ \A r \in Prompt : Warranted(r)
    <2>1. net' = net \/ \E owes, first, last : ProcessHeadersMessage(p, owes, first, last)
        BY <1>11 DEF HeadersReply
    <2>2. SameLife(net, net')
        BY <1>1, <2>1, LifeHeaders DEF SameLife
    <2> QED BY <1>3, <1>11, <2>2, LifeBehaves, HeadersReplyKeeps
<1>12. ASSUME NEW p \in Peer, NEW b \in Block, HeaderAnnounced(p, b) \/ Inv(p, b)
       PROVE  IInv' /\ \A r \in Prompt : Warranted(r)
    <2>1. SameLife(net, net')
        BY <1>1, <1>12, LifeHeaders, LifeUpdated DEF HeaderAnnounced, Inv
    <2> QED BY <1>3, <1>12, <2>1, LifeBehaves, HeaderAnnouncedKeeps, InvKeeps
<1>13. ASSUME NEW p \in Peer, Reply(p)
       PROVE  IInv' /\ \A r \in Prompt : Warranted(r)
    <2>1. asked[p] \in Requests
        BY Facts DEF IInv
    <2>2. asked[p].blocks \subseteq Block /\ asked[p].cmpct \subseteq Block /\ asked[p].txs \subseteq Block
        BY <2>1 DEF Requests
    <2> QED BY <1>8, <1>9, <1>10, <1>11, <1>13, <2>2 DEF Reply
<1>14. ASSUME NEW p \in Peer, Announce(p)
       PROVE  IInv' /\ \A r \in Prompt : Warranted(r)
    BY <1>8, <1>9, <1>12, <1>14, PeerAssumption DEF Announce
<1> QED BY <1>2, <1>4, <1>5, <1>6, <1>7, <1>13, <1>14 DEF Next

LEMMA StutterSound ==
    ASSUME IInv, UNCHANGED vars
    PROVE  IInv' /\ \A p \in Prompt : Warranted(p)
    BY DEF vars, IInv, Warranted, Up

\* The invariant holds whatever the peers do.
THEOREM Invariance == Spec => []IInv
<1>1. IInv /\ [Next]_vars => IInv'
    BY StepSound, StutterSound
<1> QED BY <1>1, InitSound, PTL DEF Spec

\* mapBlocksInFlight, the peers' lists and the global counters always agree, for
\* any number of peers and blocks: the assertions of FinalizeNode and
\* MarkBlockAsReceived hold.
THEOREM InFlightIsExact == Spec => []InFlightExact
<1>1. IInv => InFlightExact
    <2> SUFFICES ASSUME Exact(net) PROVE InFlightExact
        BY DEF IInv, Sound
    <2>1. ASSUME NEW p \in Peer, NEW x, x = net.node[p]
          PROVE  /\ x.flight = {b \in Block : net.inFlight[b] = p}
                 /\ x.nFlight = Cardinality(x.flight)
                 /\ x.nFlight <= MaxInTransit
                 /\ x.life \in {"new", "gone"} => x = [CNodeState EXCEPT !.life = x.life]
        <3>1. ExactEntry(x, Flying(net, p))
            BY <2>1 DEF Exact, ExactNode
        <3> QED BY <3>1 DEF ExactEntry, Flying, Connected
    <2>2. {p \in Peer : Connected(net.node[p])} = {p \in Peer : net.node[p].life \in {"up", "closing"}}
        BY DEF Connected
    <2> QED BY <2>1, <2>2 DEF InFlightExact, Exact, Counters
<1> QED BY <1>1, Invariance, PTL

\* Nothing below pindexLastCommonBlock of any peer is ever missing.
THEOREM NothingIsSkipped == Spec => []NothingSkipped
<1>1. IInv => NothingSkipped
    BY DEF IInv, Sound, Skips, NothingSkipped
<1> QED BY <1>1, Invariance, PTL

\* A peer that answers in time is disconnected only for the reasons PromptKept
\* names, for every number of peers, limit and tree.
THEOREM PromptIsKept == Spec => PromptKept
<1>1. IInv /\ [Next]_vars =>
          [\A p \in Prompt :
              Up(p) /\ ~Up(p)' => \/ Height[chain.tip] >= Height[Best[p]]
                                 \/ Height[chain.header] < NearToday
                                 \/ net.node[p].flight \cap chain.data # {}]_vars
    BY StepSound, StutterSound DEF Warranted
<1> QED BY <1>1, Invariance, PTL DEF Spec, PromptKept
=============================================================================
