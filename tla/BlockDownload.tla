---------------------------- MODULE BlockDownload ----------------------------
(***************************************************************************)
(* Fetching headers and blocks from peers (net_processing.cpp): what a     *)
(* peer is known to have, which blocks are in flight from whom, and the    *)
(* timers that get rid of a peer that does not deliver.                    *)
(*                                                                         *)
(* ThreadMessageHandler is one thread, so the handlers of messages and     *)
(* SendMessages never overlap.  What runs beside it - FinalizeNode on the  *)
(* socket thread, ProcessNewBlock of the staker or of an RPC - takes       *)
(* cs_main, and commutes with what a handler does between two of its own   *)
(* cs_main sections; each handler is one action.                           *)
(*                                                                         *)
(* Peers are outbound, witness-capable, full nodes without special         *)
(* permissions; they send block transactions only when asked.  The blocks  *)
(* are valid, no branch is longer than nCheckpointSpan, and                *)
(* nMinimumChainWork is zero.  Height stands for chain work.               *)
(***************************************************************************)
EXTENDS Integers, FiniteSets, FiniteSetsExt

CONSTANTS
    Peer, NoPeer,
    Block, Genesis, NoBlock,
    Parent, Anc, Height,  \* the tree: parent, ancestors including itself, height
    Best, Has,            \* per peer: the tip of its chain, the blocks it may announce
    Prompt,               \* the peers that answer before a timer of ours expires
                          \* (and have finished their own initial download)
    NearToday,            \* from this height on blocks are less than a day old
    Fresh,                \* from this height on, less than 20 block intervals old
    MaxInTransit,         \* MAX_BLOCKS_IN_TRANSIT_PER_PEER
    Window,               \* BLOCK_DOWNLOAD_WINDOW
    MaxHeaders,           \* MAX_HEADERS_RESULTS
    MaxProtect,           \* MAX_OUTBOUND_PEERS_TO_PROTECT_FROM_DISCONNECT
    KeepBlocks,           \* MIN_BLOCKS_TO_KEEP
    MaxUnasked            \* bound on announcements, unasked blocks and own blocks

ASSUME BlockTree ==
    /\ IsFiniteSet(Block) /\ Genesis \in Block /\ NoBlock \notin Block
    /\ Parent[Genesis] = NoBlock /\ Anc[Genesis] = {Genesis} /\ Height[Genesis] = 0
    /\ \A b \in Block \ {Genesis} :
          /\ Parent[b] \in Block
          /\ Anc[b] = Anc[Parent[b]] \cup {b}
          /\ Height[b] = Height[Parent[b]] + 1

\* A branch has one block at each height, and the branch of a block on it is the
\* part up to there.
ASSUME Branches ==
    \A b \in Block :
        /\ Height[b] \in Nat /\ Anc[b] \subseteq Block
        /\ \A c \in Anc[b] : Anc[c] \subseteq Anc[b] /\ (c = b \/ Height[c] < Height[b])
        /\ \A c, d \in Anc[b] : Height[c] = Height[d] => c = d
        /\ \A k \in 0..Height[b] : \E c \in Anc[b] : Height[c] = k

ASSUME PeerAssumption ==
    /\ IsFiniteSet(Peer) /\ NoPeer \notin Peer
    /\ Prompt \subseteq Peer
    /\ \A p \in Peer : Best[p] \in Block /\ Has[p] \subseteq Block \ {Genesis}

ASSUME LimitAssumption ==
    /\ NearToday \in Nat /\ Fresh \in Nat /\ MaxInTransit \in Nat /\ Window \in Nat
    /\ MaxHeaders \in Nat \ {0} /\ MaxProtect \in Nat /\ KeepBlocks \in Nat /\ MaxUnasked \in Nat

VARIABLES
    chain,    \* block index, pindexBestHeader, stored and once connected blocks, tip
    net,      \* CNodeState per peer, mapBlocksInFlight and the global counters
    asked,    \* per peer: the headers <<locator, stop>>, blocks, compact blocks and
              \* block transactions it owes us
    unasked   \* number of messages no request of ours caused, for the bound

vars == <<chain, net, asked, unasked>>

Nothing == [headers |-> {}, blocks |-> {}, cmpct |-> {}, txs |-> {}]

Highest(S) == CHOOSE b \in S : \A x \in S : Height[x] <= Height[b]

LastCommonAncestor(a, b) == Highest(Anc[a] \cap Anc[b])

AtHeight(b, h) == CHOOSE x \in Anc[b] : Height[x] = h

\* The k highest and the k lowest blocks of a set of blocks of one branch.
Top(S, k) == {b \in S : Cardinality({x \in S : Height[x] > Height[b]}) < k}

Bottom(S, k) == {b \in S : Cardinality({x \in S : Height[x] < Height[b]}) < k}

CNodeState ==
    [life |-> "new", best |-> NoBlock, unknown |-> NoBlock, common |-> NoBlock,
     flight |-> {}, nFlight |-> 0, stalling |-> FALSE, sync |-> FALSE,
     protect |-> FALSE, evict |-> "off", work |-> NoBlock]

Init ==
    /\ chain = [index |-> {Genesis}, header |-> Genesis, data |-> {Genesis},
                valid |-> {Genesis}, tip |-> Genesis]
    /\ net = [node |-> [p \in Peer |-> CNodeState],
              inFlight |-> [b \in Block |-> NoPeer], partial |-> {},
              downloads |-> 0, syncs |-> 0, preferred |-> 0, protected |-> 0]
    /\ asked = [p \in Peer |-> Nothing]
    /\ unasked = 0

Up(p) == net.node[p].life = "up"

One(condition) == IF condition THEN 1 ELSE 0

-----------------------------------------------------------------------------
(* The block index and the chain, as far as downloading sees them. *)

AcceptHeaders(c, last, S) ==
    [c EXCEPT !.index = @ \cup S,
              !.header = IF Height[last] > Height[@] THEN last ELSE @]

Linked(data) == {b \in data : Anc[b] \subseteq data}

ActivateBestChain(c) ==
    LET b == Highest(Linked(c.data))
    IN  IF Height[b] > Height[c.tip]
        THEN [c EXCEPT !.tip = b, !.valid = @ \cup Anc[b]] ELSE c

AcceptBlock(c, b, requested) ==
    LET Wanted == requested \/ (Height[b] \in Height[c.tip] + 1 .. Height[c.tip] + KeepBlocks)
    IN  IF b \in c.data \/ ~Wanted THEN c ELSE [c EXCEPT !.data = @ \cup {b}]

ProcessNetBlock(c, b, requested) ==
    IF Parent[b] \notin c.index THEN c
    ELSE ActivateBestChain(AcceptBlock(AcceptHeaders(c, b, {b}), b, requested))

-----------------------------------------------------------------------------
(* Blocks in flight and what a peer has. *)

ReceivedStillStalling(n, b) ==
    LET p == n.inFlight[b]
    IN  IF p = NoPeer THEN n
        ELSE [n EXCEPT !.node[p].flight = @ \ {b},
                       !.node[p].nFlight = @ - 1,
                       !.downloads = @ - One(n.node[p].nFlight = 1),
                       !.inFlight[b] = NoPeer,
                       !.partial = @ \ {b}]

MarkBlockAsReceived(n, b) ==
    LET p == n.inFlight[b]
    IN  IF p = NoPeer THEN n
        ELSE [n EXCEPT !.node[p].flight = @ \ {b},
                       !.node[p].nFlight = @ - 1,
                       !.node[p].stalling = FALSE,
                       !.downloads = @ - One(n.node[p].nFlight = 1),
                       !.inFlight[b] = NoPeer,
                       !.partial = @ \ {b}]

\* MarkBlockAsInFlight for each block of S.  Its callers have made sure that no
\* block of S is in flight from another peer.
MarkBlocksAsInFlight(n, p, S) ==
    LET New == {b \in S : n.inFlight[b] # p}
    IN  [n EXCEPT !.node[p].flight = @ \cup New,
                  !.node[p].nFlight = @ + Cardinality(New),
                  !.downloads = @ + One(n.node[p].nFlight = 0 /\ New # {}),
                  !.inFlight = [b \in Block |-> IF b \in New THEN p ELSE @[b]]]

Better(old, b) ==
    IF old = NoBlock THEN b ELSE IF Height[b] >= Height[old] THEN b ELSE old

ProcessBlockAvailability(n, index, p) ==
    IF n.node[p].unknown \notin index THEN n
    ELSE [n EXCEPT !.node[p].best = Better(@, n.node[p].unknown),
                   !.node[p].unknown = NoBlock]

UpdateBlockAvailability(n, index, p, b) ==
    LET m == ProcessBlockAvailability(n, index, p)
    IN  IF b \in index THEN [m EXCEPT !.node[p].best = Better(@, b)]
        ELSE [m EXCEPT !.node[p].unknown = b]

-----------------------------------------------------------------------------
(* Headers. *)

IsInitialBlockDownload(c) == Height[c.tip] < NearToday

CanDirectFetch(c) == Height[c.tip] >= Fresh

\* The blocks to ask for at once when a peer announces a chain as good as ours.
DirectFetch(n, c, p, last) ==
    LET Branch == Anc[last] \ Anc[c.tip]
        ToFetch == Top({b \in Branch \ c.data : n.inFlight[b] = NoPeer}, MaxInTransit + 1)
        LargeReorg == /\ Cardinality(ToFetch) > MaxInTransit
                      /\ \A b \in ToFetch : Parent[b] \notin Anc[c.tip]
    IN  IF CanDirectFetch(c) /\ Height[c.tip] <= Height[last] /\ ~LargeReorg
        THEN Bottom(ToFetch, MaxInTransit - n.node[p].nFlight) ELSE {}

Protect(n, c, p) ==
    IF /\ n.protected < MaxProtect
       /\ ~n.node[p].protect
       /\ Height[n.node[p].best] >= Height[c.tip]
    THEN [n EXCEPT !.node[p].protect = TRUE, !.protected = @ + 1] ELSE n

\* owes: what p still owes us once this message is taken off.
ProcessHeadersMessage(p, owes, first, last) ==
    IF Parent[first] \notin chain.index
    THEN /\ net' = UpdateBlockAvailability(net, chain.index, p, last)
         /\ asked' = [asked EXCEPT ![p] =
                        [owes EXCEPT !.headers = @ \cup {<<chain.header, NoBlock>>}]]
         /\ UNCHANGED chain
    ELSE \E c \in {AcceptHeaders(chain, last, Anc[last])} :
         \E n \in {UpdateBlockAvailability(net, c.index, p, last)} :
         \E get \in {DirectFetch(n, c, p, last)} :
         \E m \in {MarkBlocksAsInFlight(n, p, get)} :
            LET more == IF Height[last] - Height[first] + 1 = MaxHeaders
                        THEN {<<last, NoBlock>>} ELSE {}
                compact == /\ Cardinality(get) = 1
                           /\ Cardinality({b \in Block : m.inFlight[b] # NoPeer}) = 1
                           /\ Parent[last] \in c.valid
            IN  /\ chain' = c
                /\ net' = Protect(m, c, p)
                /\ asked' = [asked EXCEPT ![p] =
                               [owes EXCEPT !.headers = @ \cup more,
                                            !.blocks = IF compact THEN @ ELSE @ \cup get,
                                            !.cmpct = IF compact THEN @ \cup get ELSE @]]

\* The answer to getheaders: the peer's chain above the fork with the locator.
HeadersReply(p, q) ==
    LET fork == LastCommonAncestor(q[1], Best[p])
        Stop == {Height[b] : b \in {q[2]} \cap (Anc[Best[p]] \ Anc[fork])}
        upTo == Min({Height[fork] + MaxHeaders, Height[Best[p]]} \cup Stop)
        owes == [asked[p] EXCEPT !.headers = @ \ {q}]
    IN  /\ Up(p)
        /\ q \in asked[p].headers
        /\ UNCHANGED unasked
        /\ IF fork = Best[p]
           THEN asked' = [asked EXCEPT ![p] = owes] /\ UNCHANGED <<chain, net>>
           ELSE ProcessHeadersMessage(p, owes, AtHeight(Best[p], Height[fork] + 1),
                                      AtHeight(Best[p], upTo))

Unasked == unasked < MaxUnasked /\ unasked' = unasked + 1

HeaderAnnounced(p, b) ==
    /\ Up(p)
    /\ Unasked
    /\ ProcessHeadersMessage(p, asked[p], b, b)

Inv(p, b) ==
    LET new == b \notin chain.index /\ net.inFlight[b] = NoPeer
    IN  /\ Up(p)
        /\ Unasked
        /\ net' = UpdateBlockAvailability(net, chain.index, p, b)
        /\ asked' = IF new THEN [asked EXCEPT ![p].headers = @ \cup {<<chain.header, b>>}]
                    ELSE asked
        /\ UNCHANGED chain

-----------------------------------------------------------------------------
(* Blocks. *)

\* The message is an answer to a request of ours, or one we did not ask for.
Delivers(p, kinds, b) ==
    /\ Up(p)
    /\ IF \E k \in kinds : b \in asked[p][k] THEN UNCHANGED unasked ELSE Unasked

BlockMessage(p, b) ==
    /\ Delivers(p, {"blocks", "cmpct"}, b)
    /\ net' = MarkBlockAsReceived(net, b)
    /\ chain' = ProcessNetBlock(chain, b, net.inFlight[b] # NoPeer)
    /\ asked' = [asked EXCEPT ![p].blocks = @ \ {b}, ![p].cmpct = @ \ {b}]

\* status: what InitData and FillBlock make of the compact block, or of the
\* transactions sent for it.
Statuses(p) == {"complete", "missing", "failed"} \cup (IF p \in Prompt THEN {} ELSE {"invalid"})

ProcessBlockTxn(n, c, p, b, status, owes) ==
    /\ asked' = [asked EXCEPT ![p] =
                   [owes EXCEPT !.blocks = IF status = "failed" THEN @ \cup {b} ELSE @,
                                !.txs = IF status = "missing" THEN @ \cup {b} ELSE @]]
    /\ chain' = IF status = "complete" THEN ProcessNetBlock(c, b, TRUE) ELSE c
    /\ net' = CASE status = "complete" -> MarkBlockAsReceived(n, b)
                [] status = "invalid" ->
                     [MarkBlockAsReceived(n, b) EXCEPT !.node[p].life = "closing"]
                [] status \in {"failed", "missing"} -> n

\* A compact block whose header is in the index: c and n have it, and what p owes
\* us is without it.
CompactBlock(p, b, status, owes, c, n) ==
    LET holder == n.inFlight[b]
        mine == \/ holder = p
                \/ holder = NoPeer /\ n.node[p].nFlight < MaxInTransit
        Only(get) == /\ chain' = c
                     /\ net' = n
                     /\ asked' = [asked EXCEPT ![p] = [owes EXCEPT !.blocks = @ \cup get]]
    IN  IF b \in c.data THEN Only({})
        ELSE IF Height[b] <= Height[c.tip]
        THEN Only(IF holder = NoPeer THEN {} ELSE {b})
        ELSE IF holder = NoPeer /\ ~CanDirectFetch(c) THEN Only({})
        ELSE IF Height[b] > Height[c.tip] + 2
        THEN IF holder # NoPeer THEN Only({b}) ELSE ProcessHeadersMessage(p, owes, b, b)
        ELSE IF mine
        THEN IF b \in n.partial THEN Only({})
             ELSE \E m \in {MarkBlocksAsInFlight(n, p, {b})} :
                    ProcessBlockTxn([m EXCEPT !.partial = @ \cup {b}], c, p, b, status, owes)
        ELSE IF status # "complete" THEN Only({})
        ELSE /\ chain' = ProcessNetBlock(c, b, TRUE)
             /\ net' = MarkBlockAsReceived(n, b)
             /\ asked' = [asked EXCEPT ![p] = owes]

CmpctBlock(p, b, status) ==
    /\ Delivers(p, {"cmpct"}, b)
    /\ \E owes \in {[asked[p] EXCEPT !.cmpct = @ \ {b}]} :
          IF Parent[b] \notin chain.index
          THEN /\ asked' = [asked EXCEPT ![p] =
                     [owes EXCEPT !.headers = IF IsInitialBlockDownload(chain) THEN @
                                              ELSE @ \cup {<<chain.header, NoBlock>>}]]
               /\ UNCHANGED <<chain, net>>
          ELSE \E c \in {AcceptHeaders(chain, b, {b})} :
               \E n \in {UpdateBlockAvailability(net, c.index, p, b)} :
                  CompactBlock(p, b, status, owes, c, n)

BlockTxn(p, b, status) ==
    LET owes == [asked[p] EXCEPT !.txs = @ \ {b}]
    IN  /\ status # "missing"
        /\ Up(p)
        /\ b \in asked[p].txs
        /\ UNCHANGED unasked
        /\ IF net.inFlight[b] = p /\ b \in net.partial
           THEN ProcessBlockTxn(net, chain, p, b, status, owes)
           ELSE asked' = [asked EXCEPT ![p] = owes] /\ UNCHANGED <<chain, net>>

\* A block of our own staker, or of an RPC, on top of the tip.
OwnBlock(b) ==
    /\ Unasked
    /\ Parent[b] = chain.tip
    /\ chain' = ProcessNetBlock(chain, b, TRUE)
    /\ UNCHANGED <<net, asked>>

-----------------------------------------------------------------------------
(* SendMessages, connecting and disconnecting. *)

WalkUnlinked(n, c, p) ==
    LET x == n.node[p]
        fork == LastCommonAncestor(IF x.common = NoBlock THEN c.tip ELSE x.common, x.best)
        end == Height[fork] + Window
    IN  IF \/ x.nFlight >= MaxInTransit
           \/ x.best \in {NoBlock} \cup {b \in Block : Height[b] <= Height[c.tip]}
        THEN [common |-> x.common, missing |-> {}, linked |-> {}, end |-> 0]
        ELSE [common |-> fork, end |-> end,
              missing |-> {b \in Anc[x.best] \ c.data :
                             Height[b] \in Height[fork] + 1 .. end + 1},
              linked |-> {b \in Anc[x.best] \cap c.data :
                             Height[b] \in Height[fork] + 1 .. end + 1}]

\* The blocks of p's chain above the last one we have in common, one more than
\* the window holds; none when p has nothing better or has its share in flight.
DownloadWalk(n, c, p) ==
    LET x == n.node[p]
        \* x.best is above the tip here, so the guess at the fork is the tip
        fork == LastCommonAncestor(IF x.common = NoBlock THEN c.tip ELSE x.common, x.best)
        end == Height[fork] + Window
    IN  IF \/ x.nFlight >= MaxInTransit
           \/ x.best \in {NoBlock} \cup {b \in Block : Height[b] <= Height[c.tip]}
        THEN [common |-> x.common, missing |-> {}, linked |-> {}, end |-> 0]
        ELSE [common |-> fork, end |-> end,
              missing |-> {b \in Anc[x.best] \ c.data :
                             Height[b] \in Height[fork] + 1 .. end + 1},
              linked |-> {b \in Anc[x.best] \cap Linked(c.data) :
                             Height[b] \in Height[fork] + 1 .. end + 1}]

\* Which blocks to ask p for, up to where its chain is linked to ours, and who
\* holds up the window.
FindNextBlocksToDownload(n, p, walk) ==
    LET Free == {b \in walk.missing : n.inFlight[b] = NoPeer}
        Flying == walk.missing \ Free
        Inside == {b \in Free : Height[b] <= walk.end}
    IN  [get |-> Bottom(Inside, MaxInTransit - n.node[p].nFlight),
         common |-> IF walk.linked = {} THEN walk.common ELSE Highest(walk.linked),
         stallers |-> IF Inside # {} \/ Free = {} THEN {}
                      ELSE {n.inFlight[b] : b \in Bottom(Flying, 1)} \ {p}]

DownloadBlocks(n, p, find) ==
    LET m == MarkBlocksAsInFlight([n EXCEPT !.node[p].common = find.common], p, find.get)
    IN  [m EXCEPT !.node = [q \in Peer |->
            IF q \in find.stallers /\ m.node[p].nFlight = 0
            THEN [@[q] EXCEPT !.stalling = TRUE] ELSE @[q]]]

StartSync(n, c, p) ==
    IF ~n.node[p].sync /\ (n.syncs = 0 \/ Height[c.header] >= NearToday)
    THEN [n EXCEPT !.node[p].sync = TRUE, !.syncs = @ + 1] ELSE n

\* An outbound peer whose chain stays behind our tip is asked once more for
\* headers, then dropped.
ConsiderEviction(n, c, p, expired) ==
    LET x == n.node[p]
        Behind(b) == x.best = NoBlock \/ Height[IF x.best = NoBlock THEN b ELSE x.best] < Height[b]
    IN  IF x.protect \/ ~x.sync THEN n
        ELSE IF ~Behind(c.tip) THEN [n EXCEPT !.node[p].evict = "off", !.node[p].work = NoBlock]
        ELSE IF \/ x.evict = "off"
                \/ x.best # NoBlock /\ ~Behind(x.work)
        THEN [n EXCEPT !.node[p].evict = "armed", !.node[p].work = c.tip]
        ELSE IF ~expired THEN n
        ELSE IF x.evict = "sent" THEN [n EXCEPT !.node[p].life = "closing"]
        ELSE [n EXCEPT !.node[p].evict = "sent"]

\* A timer on p may have expired: a prompt peer answers before that happens.
MayExpire(p) == p \notin Prompt \/ asked[p] = Nothing

Before(b) == IF Parent[b] = NoBlock THEN b ELSE Parent[b]

\* The getheaders sent when p becomes a peer to sync headers from.
FirstHeaders(n, p) ==
    IF n.node[p].sync = net.node[p].sync THEN {} ELSE {<<Before(chain.header), NoBlock>>}

\* late: the timer of ConsiderEviction has expired.  (A choice from a singleton
\* is a LET that TLC evaluates once.)
SendMessages(p, late) ==
    /\ Up(p)
    /\ IF late THEN MayExpire(p) /\ net.node[p].evict # "off" ELSE TRUE
    /\ UNCHANGED <<chain, unasked>>
    /\ \E n \in {ProcessBlockAvailability(StartSync(net, chain, p), chain.index, p)} :
       \E e \in {ConsiderEviction(n, chain, p, late)} :
       \E walk \in {DownloadWalk(e, chain, p)} :
       \E find \in {FindNextBlocksToDownload(e, p, walk)} :
       \E m \in {DownloadBlocks(e, p, find)} :
          LET x == n.node[p]
              \* GetLocator of no block is the locator of the tip
              check == IF e.node[p].evict = "sent" /\ x.evict # "sent"
                       THEN {<<IF Parent[x.work] = NoBlock THEN chain.tip
                               ELSE Parent[x.work], NoBlock>>}
                       ELSE {}
          IN  /\ net' = m
              /\ asked' = [asked EXCEPT ![p].headers = @ \cup FirstHeaders(n, p) \cup check,
                                       ![p].blocks = @ \cup find.get]

\* SendMessages when one of the three timers it looks at first has expired:
\* stalling the window, a block in flight, the initial headers.
SendMessagesTimeout(p) ==
    LET x == net.node[p]
    IN  /\ Up(p)
        /\ MayExpire(p)
        /\ UNCHANGED <<chain, unasked>>
        /\ \E n \in {ProcessBlockAvailability(StartSync(net, chain, p), chain.index, p)} :
              /\ \/ x.stalling
                 \/ x.flight # {}
                 \/ /\ x.sync
                    /\ Height[chain.header] < NearToday
                    /\ n.syncs = 1
                    /\ n.preferred > 1
              /\ net' = [n EXCEPT !.node[p].life = "closing"]
              /\ asked' = [asked EXCEPT ![p].headers = @ \cup FirstHeaders(n, p)]

\* The handshake done, UpdatePreferredDownload included.
InitializeNode(p) ==
    /\ net.node[p].life = "new"
    /\ net' = [net EXCEPT !.node[p].life = "up", !.preferred = @ + 1]
    /\ UNCHANGED <<chain, asked, unasked>>

\* The connection is lost, or the peer closes it.
ConnectionLost(p) ==
    /\ Up(p)
    /\ p \notin Prompt
    /\ net' = [net EXCEPT !.node[p].life = "closing"]
    /\ UNCHANGED <<chain, asked, unasked>>

FinalizedUncounted(p) ==
    LET x == net.node[p]
    IN  /\ x.life = "closing"
        /\ net' = [node |-> [net.node EXCEPT ![p] = [CNodeState EXCEPT !.life = "gone"]],
                   inFlight |-> [b \in Block |-> IF b \in x.flight THEN NoPeer
                                                 ELSE net.inFlight[b]],
                   partial |-> net.partial \ x.flight,
                   downloads |-> net.downloads,
                   syncs |-> net.syncs - One(x.sync),
                   preferred |-> net.preferred - 1,
                   protected |-> net.protected - One(x.protect)]
        /\ asked' = [asked EXCEPT ![p] = Nothing]
        /\ UNCHANGED <<chain, unasked>>

FinalizedInFlight(p) ==
    LET x == net.node[p]
    IN  /\ x.life = "closing"
        /\ net' = [node |-> [net.node EXCEPT ![p] = [CNodeState EXCEPT !.life = "gone"]],
                   inFlight |-> net.inFlight,
                   partial |-> net.partial,
                   downloads |-> net.downloads - One(x.nFlight # 0),
                   syncs |-> net.syncs - One(x.sync),
                   preferred |-> net.preferred - 1,
                   protected |-> net.protected - One(x.protect)]
        /\ asked' = [asked EXCEPT ![p] = Nothing]
        /\ UNCHANGED <<chain, unasked>>

FinalizeNode(p) ==
    LET x == net.node[p]
    IN  /\ x.life = "closing"
        /\ net' = [node |-> [net.node EXCEPT ![p] = [CNodeState EXCEPT !.life = "gone"]],
                   inFlight |-> [b \in Block |-> IF b \in x.flight THEN NoPeer
                                                 ELSE net.inFlight[b]],
                   partial |-> net.partial \ x.flight,
                   downloads |-> net.downloads - One(x.nFlight # 0),
                   syncs |-> net.syncs - One(x.sync),
                   preferred |-> net.preferred - 1,
                   protected |-> net.protected - One(x.protect)]
        /\ asked' = [asked EXCEPT ![p] = Nothing]
        /\ UNCHANGED <<chain, unasked>>

\* What a peer owes us: the answers a prompt peer gives for certain.
Reply(p) ==
    \/ \E q \in asked[p].headers : HeadersReply(p, q)
    \/ \E b \in asked[p].blocks : BlockMessage(p, b)
    \/ \E b \in asked[p].cmpct : BlockMessage(p, b) \/ \E s \in Statuses(p) : CmpctBlock(p, b, s)
    \/ \E b \in asked[p].txs, s \in Statuses(p) : BlockTxn(p, b, s)

Announce(p) ==
    \E b \in Has[p] :
        \/ HeaderAnnounced(p, b)
        \/ Inv(p, b)
        \/ BlockMessage(p, b)
        \/ \E s \in Statuses(p) : CmpctBlock(p, b, s)

Next ==
    \/ \E p \in Peer :
        \/ InitializeNode(p)
        \/ FinalizeNode(p)
        \/ ConnectionLost(p)
        \/ SendMessagesTimeout(p)
        \/ \E late \in BOOLEAN : SendMessages(p, late)
        \/ Reply(p)
        \/ Announce(p)
    \/ \E b \in Block \ {Genesis} : OwnBlock(b)

Spec == Init /\ [][Next]_vars

\* The message and socket threads keep running, timers expire, and the prompt
\* peers answer; nothing is assumed of the other peers.
Progress ==
    \/ \E p \in Peer : InitializeNode(p) \/ FinalizeNode(p) \/ SendMessagesTimeout(p)
    \/ \E p \in Prompt : Reply(p)
    \/ \E p \in Peer, late \in BOOLEAN : SendMessages(p, late)

FairSpec == Spec /\ WF_vars(Progress)

-----------------------------------------------------------------------------
(* Properties. *)

\* mapBlocksInFlight, the peers' lists of blocks in flight and the global
\* counters agree however messages, replacements, timeouts and disconnections
\* follow each other: every entry belongs to a peer that still has a CNodeState
\* (MarkBlockAsReceived asserts it), no peer is over its limit, and nothing is
\* left when the last peer goes (the assertions of FinalizeNode).
InFlightExact ==
    /\ \A p \in Peer :
          LET x == net.node[p]
          IN  /\ x.flight = {b \in Block : net.inFlight[b] = p}
              /\ x.nFlight = Cardinality(x.flight)
              /\ x.nFlight <= MaxInTransit
              /\ x.life \in {"new", "gone"} => x = [CNodeState EXCEPT !.life = x.life]
    /\ net.partial \subseteq {b \in Block : net.inFlight[b] # NoPeer}
    /\ net.downloads = Cardinality({p \in Peer : net.node[p].flight # {}})
    /\ net.syncs = Cardinality({p \in Peer : net.node[p].sync})
    /\ net.protected = Cardinality({p \in Peer : net.node[p].protect})
    /\ net.preferred = Cardinality({p \in Peer : net.node[p].life \in {"up", "closing"}})

\* FindNextBlocksToDownload only looks above pindexLastCommonBlock, so nothing
\* below it may be missing: it is a block whose ancestors are all stored, even
\* after blocks came out of order or the peer changed to another branch.
NothingSkipped ==
    \A p \in Peer :
        LET b == net.node[p].common IN b # NoBlock => Anc[b] \subseteq chain.data

\* A peer that answers everything in time is never disconnected by one of the
\* timers of SendMessages while its chain has more work than ours, unless all
\* the headers known are more than a day old.
PromptKept ==
    [][\A p \in Prompt :
          Up(p) /\ ~Up(p)' => \/ Height[chain.tip] >= Height[Best[p]]
                             \/ Height[chain.header] < NearToday
                             \/ net.node[p].flight \cap chain.data # {}]_vars

\* The chain of every peer that answers in time is fetched in the end, whatever
\* the other peers promise and then do not deliver: their blocks are asked of
\* somebody else once they are disconnected.  (Or that peer is dropped itself;
\* PromptKept says when.)
ChainFetched ==
    \A p \in Prompt :
        <>(Height[chain.tip] >= Height[Best[p]] \/ net.node[p].life = "gone")
=============================================================================
