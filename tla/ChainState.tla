----------------------------- MODULE ChainState -----------------------------
(***************************************************************************)
(* CChainState and BlockManager (validation.cpp): the tree of block        *)
(* headers with its status flags, the candidates for the tip, and the      *)
(* operations that grow the tree and move the active chain.                *)
(*                                                                         *)
(* cs_main is held through the body of every action except where the code  *)
(* lets go of it: ActivateBestChain releases it between two calls of       *)
(* ActivateBestChainStep, InvalidateBlock between two disconnected blocks. *)
(* Both hold m_cs_chainstate throughout, so at most one of them runs.  A   *)
(* critical section that loops is several actions here, during which abc   *)
(* holds cs_main (CsMainFree is FALSE) and no other thread moves.          *)
(*                                                                         *)
(* A header that its own checks reject never changes any of this state, so *)
(* Block holds the acceptable headers only.  What the checks of a body say *)
(* is chosen once, in verdict.                                             *)
(***************************************************************************)
EXTENDS Integers, FiniteSets, FiniteSetsExt

CONSTANTS
  Block,            \* headers that can arrive, as a tree
  Genesis,
  NoBlock,          \* nullptr
  Parent,           \* pprev, on Block \ {Genesis}
  Anc,              \* the block and its ancestors
  Height,           \* nHeight
  Work,             \* nChainWork
  Addr,             \* address of the CBlockIndex: the comparator's last resort
  KeepBlocks,       \* MIN_BLOCKS_TO_KEEP
  SyncSpan,         \* consensus.nCheckpointSpan
  MinimumWork,      \* nMinimumChainWork
  SeqLimit,         \* 2^31: numeric_limits<int32_t>::min() is -SeqLimit
  MaxBad,           \* number of blocks whose body is invalid
  MaxInvalidate, MaxReconsider, MaxPrecious, MaxPrune   \* calls of each RPC

ASSUME TreeAssumption ==
  /\ Genesis \in Block
  /\ NoBlock \notin Block
  /\ Parent \in [Block \ {Genesis} -> Block]
  /\ Anc \in [Block -> SUBSET Block]
  /\ Height \in [Block -> Nat]
  /\ Work \in [Block -> Nat]
  /\ Addr \in [Block -> Nat]
  /\ Anc[Genesis] = {Genesis}
  /\ Height[Genesis] = 0
  /\ \A b \in Block \ {Genesis} :
       /\ b \notin Anc[Parent[b]]
       /\ Anc[b] = Anc[Parent[b]] \cup {b}
       /\ Height[b] = Height[Parent[b]] + 1
       /\ Work[b] > Work[Parent[b]]
  /\ \A a, b \in Block : Addr[a] = Addr[b] => a = b

ASSUME BoundsAssumption ==
  /\ {KeepBlocks, SyncSpan} \subseteq Nat \ {0}
  /\ MinimumWork \in Nat
  /\ SeqLimit \in Nat \ {0}
  /\ {MaxBad, MaxInvalidate, MaxReconsider, MaxPrecious, MaxPrune} \subseteq Nat

VARIABLES
  verdict,      \* what ContextualCheckBlock and ConnectBlock say of a body
  index,        \* m_block_index: headers known
  received,     \* nTx > 0
  linked,       \* nChainTx > 0: HaveTxsDownloaded()
  txValid,      \* raised to BLOCK_VALID_TRANSACTIONS
  scriptsValid, \* raised to BLOCK_VALID_SCRIPTS
  haveData, haveUndo,          \* BLOCK_HAVE_DATA, BLOCK_HAVE_UNDO
  failedValid, failedChild,    \* BLOCK_FAILED_VALID, BLOCK_FAILED_CHILD
  seqId,        \* nSequenceId
  seq,          \* [next : nBlockSequenceId, rev : nBlockReverseSequenceId,
                \*  lastWork : nLastPreciousChainwork]
  candidates,   \* setBlockIndexCandidates
  unlinked,     \* m_blocks_unlinked
  failedBlocks, \* m_failed_blocks
  tip,          \* m_chain.Tip(): m_chain is Anc[tip]
  havePruned,   \* fHavePruned
  pending,      \* a thread is about to call ActivateBestChain
  abc,          \* the locals of ActivateBestChain
  inv,          \* the locals of InvalidateBlock
  aborted,      \* AbortNode was called: the node is shutting down
  calls         \* RPC calls made so far, bounded by the Max constants

store == <<index, received, linked, txValid, scriptsValid, haveData, haveUndo>>
flags == <<failedValid, failedChild, failedBlocks>>
order == <<seqId, seq>>
queues == <<candidates, unlinked>>
control == <<pending, abc, inv, aborted, calls>>
vars == <<verdict, store, flags, order, queues, tip, havePruned, control>>

Failed == failedValid \cup failedChild
Extends(b) == {c \in index : b \in Anc[c]}

CsMainFree == abc.pc \in {"idle", "unlocked"}
ChainstateFree == abc.pc = "idle" /\ inv.pc = "idle"

IdleABC == [pc |-> "idle", mostWork |-> NoBlock, start |-> NoBlock,
            old |-> NoBlock, moved |-> FALSE]
IdleInv == [pc |-> "idle", block |-> NoBlock, mark |-> NoBlock, byWork |-> {}]

-----------------------------------------------------------------------------
(* CBlockIndexWorkComparator: a sorts before b, with sequence ids sid.     *)
WorseBy(sid, a, b) ==
  \/ Work[a] < Work[b]
  \/ /\ Work[a] = Work[b]
     /\ \/ sid[a] > sid[b]
        \/ sid[a] = sid[b] /\ Addr[a] > Addr[b]

Worse(a, b) == WorseBy(seqId, a, b)

(* The element rbegin() of setBlockIndexCandidates.                        *)
Best(S) == CHOOSE b \in S : \A c \in S \ {b} : Worse(c, b)

(* The blocks on the way from the active chain up to b.                    *)
Path(b) == Anc[b] \ Anc[tip]

(* Checkpoints::CheckSync with AutoSelectSyncCheckpoint.                   *)
SyncHeight == IF Height[tip] > SyncSpan THEN Height[tip] - SyncSpan ELSE 0
CheckSync(b) == Height[b] > SyncHeight

(* MUTANTS of NotWorseThanTip: a tie is dropped, or nothing is.            *)
BetterThanTip(S, sid, t) == {c \in S : WorseBy(sid, t, c)}
AllCandidates(S, sid, t) == S

(* PruneBlockIndexCandidates                                               *)
NotWorseThanTip(S, sid, t) == {c \in S : ~WorseBy(sid, c, t)}

Init ==
  /\ verdict \in [Block -> {"ok", "badBody", "badConnect"}]
  /\ verdict[Genesis] = "ok"
  /\ Cardinality({b \in Block : verdict[b] # "ok"}) <= MaxBad
  /\ index = {Genesis}
  /\ received = {Genesis} /\ linked = {Genesis}
  /\ txValid = {Genesis} /\ haveData = {Genesis}
  /\ scriptsValid = {} /\ haveUndo = {}     \* ConnectBlock skips genesis
  /\ failedValid = {} /\ failedChild = {} /\ failedBlocks = {}
  /\ seqId = [b \in Block |-> IF b = Genesis THEN 1 ELSE 0]
  /\ seq = [next |-> 2, rev |-> -1, lastWork |-> 0]
  /\ candidates = {Genesis}
  /\ unlinked = {}
  /\ tip = Genesis
  /\ havePruned = FALSE
  /\ pending = FALSE
  /\ abc = IdleABC
  /\ inv = IdleInv
  /\ aborted = FALSE
  /\ calls = [invalidate |-> 0, reconsider |-> 0, precious |-> 0, prune |-> 0]
-----------------------------------------------------------------------------
(* AcceptBlockHeader (called by ProcessNewBlockHeaders and AcceptBlock)    *)

Running == ~aborted

NewHeader(b) ==
  /\ b \notin index
  /\ Parent[b] \in index
  /\ Parent[b] \notin Failed
  /\ CheckSync(b)

(* The members of m_failed_blocks that b descends from; they are looked    *)
(* for only when the parent is not yet BLOCK_VALID_SCRIPTS.                *)
FailedAncestors(b) ==
  IF Parent[b] \in scriptsValid THEN {} ELSE failedBlocks \cap Anc[Parent[b]]

HeaderAccepted(b) ==
  \/ b \in index /\ b \notin Failed
  \/ NewHeader(b) /\ FailedAncestors(b) = {}

(* invalid_walk: from the parent of b down to the failed block, without it *)
Between(f, b) == Anc[Parent[b]] \ Anc[f]

(* The header descends from a block found invalid: the blocks between them *)
(* are marked, the header is not added.                                    *)
RejectDescendant(b) ==
  /\ Running /\ CsMainFree
  /\ NewHeader(b)
  /\ \E f \in FailedAncestors(b) :
       failedChild' = failedChild \cup Between(f, b)
  /\ UNCHANGED <<verdict, store, failedValid, failedBlocks, order, queues, tip,
                 havePruned, control>>

(* AddToBlockIndex                                                         *)
AcceptBlockHeader(b) ==
  /\ Running /\ CsMainFree
  /\ NewHeader(b)
  /\ FailedAncestors(b) = {}
  /\ index' = index \cup {b}
  /\ UNCHANGED <<verdict, received, linked, txValid, scriptsValid, haveData,
                 haveUndo, flags, order, queues, tip, havePruned, control>>

-----------------------------------------------------------------------------
(* AcceptBlock (called by ProcessNewBlock, which goes on to                *)
(* ActivateBestChain when it returns true)                                 *)

(* An unsolicited block is stored only if it is new and could advance the  *)
(* tip.                                                                    *)
Wanted(b, requested) ==
  /\ b \notin haveData
  /\ \/ requested
     \/ /\ b \notin received
        /\ Work[b] > Work[tip]
        /\ Height[b] <= Height[tip] + KeepBlocks
        /\ Work[b] >= MinimumWork

(* MUTANTS of Linkable: the blocks that waited are forgotten, or blocks    *)
(* already linked are numbered again.                                      *)
LinkableAlone(b) == IF Parent[b] \in linked THEN {b} ELSE {}
LinkableAgain(b) ==
  IF Parent[b] \in linked
  THEN {c \in Extends(b) \cup {b} : Anc[c] \subseteq received \cup {b}}
  ELSE {}

(* ReceivedBlockTransactions: b and the blocks that waited for it, in the  *)
(* order of the queue (parents first, siblings in either order).           *)
Linkable(b) ==
  IF Parent[b] \in linked
  THEN {c \in Extends(b) \cup {b} :
          \A d \in Anc[c] \ Anc[b] : <<Parent[d], d>> \in unlinked}
  ELSE {}

LinkOrders(S) ==
  {f \in [S -> 0 .. Cardinality(S) - 1] :
     /\ \A c, d \in S : f[c] = f[d] => c = d
     /\ \A c, d \in S : Height[c] < Height[d] => f[c] < f[d]}

ReceivedBlockTransactions(b) ==
  LET now == Linkable(b)
  IN  /\ received' = received \cup {b}
      /\ haveData' = haveData \cup {b}
      /\ txValid' = txValid \cup ({b} \ Failed)
      /\ \E f \in LinkOrders(now) :
           LET sid == [c \in Block |-> IF c \in now THEN seq.next + f[c] ELSE seqId[c]]
           IN  /\ seqId' = sid
               /\ candidates' = candidates \cup NotWorseThanTip(now, sid, tip)
      /\ seq' = [seq EXCEPT !.next = @ + Cardinality(now)]
      /\ linked' = (linked \ {b}) \cup now
      /\ unlinked' = {p \in unlinked : p[1] \notin now}
                       \cup (IF now = {} /\ Parent[b] \notin Failed
                             THEN {<<Parent[b], b>>} ELSE {})

AcceptBlock(b, requested) ==
  /\ Running /\ CsMainFree
  /\ HeaderAccepted(b)
  /\ CheckSync(b)
  /\ index' = index \cup {b}
  /\ CASE ~Wanted(b, requested) ->
            /\ pending' = TRUE
            /\ UNCHANGED <<received, linked, txValid, haveData, flags, order, queues>>
       [] Wanted(b, requested) /\ verdict[b] = "badBody" ->
            /\ failedValid' = failedValid \cup {b}
            /\ UNCHANGED <<received, linked, txValid, haveData, failedChild,
                           failedBlocks, order, queues, pending>>
       [] Wanted(b, requested) /\ verdict[b] # "badBody" ->
            /\ ReceivedBlockTransactions(b)
            /\ pending' = TRUE
            /\ UNCHANGED flags
  /\ UNCHANGED <<verdict, scriptsValid, haveUndo, tip, havePruned, abc, inv,
                 aborted, calls>>

-----------------------------------------------------------------------------
(* ActivateBestChain                                                       *)

Enter ==
  /\ Running /\ pending /\ ChainstateFree
  /\ pending' = FALSE
  /\ abc' = [abc EXCEPT !.pc = "unlocked"]
  /\ UNCHANGED <<verdict, store, flags, order, queues, tip, havePruned, inv,
                 aborted, calls>>

Lock ==
  /\ Running /\ abc.pc = "unlocked"
  /\ abc' = [abc EXCEPT !.pc = "find", !.start = tip, !.moved = FALSE]
  /\ UNCHANGED <<verdict, store, flags, order, queues, tip, havePruned, pending,
                 inv, aborted, calls>>

(* MUTANT of Unusable: the failure flags are not looked at.                *)
UnusableDataOnly(c) == {b \in Path(c) : b \notin haveData}

(* The blocks FindMostWorkChain cannot pass on its way down from c: marked *)
(* as failed, or without data.  It stops at the first.                     *)
Unusable(c) == {b \in Path(c) : b \in Failed \/ b \notin haveData}
Topmost(S) == CHOOSE b \in S : \A c \in S : Height[c] <= Height[b]

(* One turn of FindMostWorkChain that drops the best candidate.            *)
DropCandidate ==
  /\ Running /\ abc.pc = "find" /\ abc.mostWork = NoBlock
  /\ candidates # {}
  /\ Unusable(Best(candidates)) # {}
  /\ LET new == Best(candidates)
         test == Topmost(Unusable(new))
         above == Anc[new] \ Anc[test]
     IN  /\ candidates' = candidates \ (above \cup {test})
         /\ IF test \in Failed
            THEN /\ failedChild' = failedChild \cup above
                 /\ UNCHANGED unlinked
            ELSE /\ unlinked' = unlinked \cup {<<Parent[d], d>> : d \in above}
                 /\ UNCHANGED failedChild
  /\ UNCHANGED <<verdict, store, failedValid, failedBlocks, order, tip,
                 havePruned, control>>

(* What FindMostWorkChain returns once nothing is left to drop.            *)
Found ==
  IF abc.mostWork # NoBlock THEN abc.mostWork
  ELSE IF candidates = {} THEN NoBlock ELSE Best(candidates)

FindDone ==
  \/ abc.mostWork # NoBlock
  \/ candidates = {}
  \/ candidates # {} /\ Unusable(Best(candidates)) = {}

(* MUTANT of Unlocked: one critical section is all.                        *)
UnlockedAndGone(mostWork) == IdleABC

(* The end of the do-while loop over ActivateBestChain's critical section: *)
(* on to the next one, or return.                                          *)
Unlocked(mostWork) ==
  IF tip = mostWork
  THEN IdleABC
  ELSE [abc EXCEPT !.pc = "unlocked", !.mostWork = mostWork]

NothingToDo ==
  /\ Running /\ abc.pc = "find" /\ FindDone
  /\ Found \in {NoBlock, tip}
  /\ abc' = IF abc.moved THEN Unlocked(Found) ELSE IdleABC
  /\ UNCHANGED <<verdict, store, flags, order, queues, tip, havePruned, pending,
                 inv, aborted, calls>>

(* ActivateBestChainStep begins.                                           *)
BeginStep ==
  /\ Running /\ abc.pc = "find" /\ FindDone
  /\ Found \notin {NoBlock, tip}
  /\ abc' = [abc EXCEPT !.pc = "disconnect", !.mostWork = Found, !.old = tip]
  /\ UNCHANGED <<verdict, store, flags, order, queues, tip, havePruned, pending,
                 inv, aborted, calls>>

CanDisconnect == tip \in haveData /\ tip \in haveUndo

(* DisconnectTip in ActivateBestChainStep; it fails if the block or its    *)
(* undo data cannot be read, and then AbortNode shuts the node down.       *)
StepDisconnect ==
  /\ Running /\ abc.pc = "disconnect"
  /\ tip \notin Anc[abc.mostWork]
  /\ IF CanDisconnect
     THEN tip' = Parent[tip] /\ UNCHANGED <<abc, aborted>>
     ELSE aborted' = TRUE /\ abc' = IdleABC /\ UNCHANGED tip
  /\ UNCHANGED <<verdict, store, flags, order, queues, havePruned, pending, inv,
                 calls>>

BeginConnect ==
  /\ Running /\ abc.pc = "disconnect"
  /\ tip \in Anc[abc.mostWork]
  /\ abc' = [abc EXCEPT !.pc = "connect"]
  /\ UNCHANGED <<verdict, store, flags, order, queues, tip, havePruned, pending,
                 inv, aborted, calls>>

NextToConnect == CHOOSE b \in Anc[abc.mostWork] : b # Genesis /\ Parent[b] = tip

(* ConnectTip succeeds.  The step ends at pindexMostWork, or earlier, as   *)
(* soon as the chain has more work than when the step began.               *)
ConnectTip ==
  /\ Running /\ abc.pc = "connect" /\ tip # abc.mostWork
  /\ NextToConnect \in haveData
  /\ verdict[NextToConnect] = "ok"
  /\ LET new == NextToConnect
     IN  /\ tip' = new
         /\ scriptsValid' = scriptsValid \cup ({new} \ Failed)
         /\ haveUndo' = haveUndo \cup {new}
         /\ candidates' = NotWorseThanTip(candidates, seqId, new)
         /\ IF Work[new] > Work[abc.old] \/ new = abc.mostWork
            THEN abc' = [abc EXCEPT !.pc = "stepped"]
            ELSE UNCHANGED abc
  /\ UNCHANGED <<verdict, index, received, linked, txValid, haveData, flags,
                 order, unlinked, havePruned, pending, inv, aborted, calls>>

(* ConnectBlock finds the block invalid: InvalidBlockFound, and            *)
(* pindexMostWork is wiped.                                                *)
ConnectTipInvalid ==
  /\ Running /\ abc.pc = "connect" /\ tip # abc.mostWork
  /\ NextToConnect \in haveData
  /\ verdict[NextToConnect] # "ok"
  /\ failedValid' = failedValid \cup {NextToConnect}
  /\ failedBlocks' = failedBlocks \cup {NextToConnect}
  /\ candidates' = candidates \ {NextToConnect}
  /\ abc' = [abc EXCEPT !.pc = "stepped", !.mostWork = NoBlock]
  /\ UNCHANGED <<verdict, store, failedChild, order, unlinked, tip, havePruned,
                 pending, inv, aborted, calls>>

(* ReadBlockFromDisk fails: AbortNode.                                     *)
ConnectTipUnreadable ==
  /\ Running /\ abc.pc = "connect" /\ tip # abc.mostWork
  /\ NextToConnect \notin haveData
  /\ aborted' = TRUE
  /\ abc' = IdleABC
  /\ UNCHANGED <<verdict, store, flags, order, queues, tip, havePruned, pending,
                 inv, calls>>

(* MUTANT of WorseThanAtLock: cs_main is released after any step.          *)
NeverWorseThanAtLock == FALSE

WorseThanAtLock == Worse(tip, abc.start)

(* After a step: cs_main stays held until the tip is no worse than it was. *)
Stepped ==
  /\ Running /\ abc.pc = "stepped"
  /\ abc' = IF WorseThanAtLock
            THEN [abc EXCEPT !.pc = "find", !.moved = TRUE]
            ELSE Unlocked(abc.mostWork)
  /\ UNCHANGED <<verdict, store, flags, order, queues, tip, havePruned, pending,
                 inv, aborted, calls>>
-----------------------------------------------------------------------------
(* InvalidateBlock                                                         *)

Usable(c) == c \in txValid /\ c \notin Failed /\ c \in linked

(* The first critical section: candidate_blocks_by_work.                   *)
InvalidateBegin(b) ==
  /\ Running /\ ChainstateFree
  /\ calls.invalidate < MaxInvalidate
  /\ b \in index \ {Genesis}
  /\ inv' = [pc |-> "walk", block |-> b, mark |-> b,
             byWork |-> {c \in index \ Anc[tip] : Usable(c) /\ ~Worse(c, Parent[b])}]
  /\ calls' = [calls EXCEPT !.invalidate = @ + 1]
  /\ UNCHANGED <<verdict, store, flags, order, queues, tip, havePruned, pending,
                 abc, aborted>>

(* One turn of the loop: disconnect the tip and mark it.                   *)
InvalidateDisconnect ==
  /\ Running /\ inv.pc = "walk"
  /\ inv.block \in Anc[tip]
  /\ CanDisconnect
  /\ LET new == Parent[tip]
         back == {c \in inv.byWork : ~Worse(c, new)}
         undo == IF new = inv.mark /\ inv.mark \in failedValid \cup {tip}
                 THEN {inv.mark} ELSE {}
     IN  /\ tip' = new
         /\ failedValid' = (failedValid \cup {tip}) \ undo
         /\ failedChild' = failedChild \cup undo
         /\ candidates' = (candidates \ {tip}) \cup {new} \cup back
         /\ inv' = [inv EXCEPT !.mark = tip, !.byWork = @ \ back]
  /\ UNCHANGED <<verdict, store, failedBlocks, order, unlinked, havePruned,
                 pending, abc, aborted, calls>>

(* DisconnectTip fails: InvalidateBlock returns false, with a state that   *)
(* is still valid, and the RPC goes on to ActivateBestChain.               *)
InvalidateUnreadable ==
  /\ Running /\ inv.pc = "walk"
  /\ inv.block \in Anc[tip]
  /\ ~CanDisconnect
  /\ inv' = IdleInv
  /\ pending' = TRUE
  /\ UNCHANGED <<verdict, store, flags, order, queues, tip, havePruned, abc,
                 aborted, calls>>

(* The last critical section.  (m_cs_chainstate keeps the block off the    *)
(* active chain since the loop ended.)                                     *)
InvalidateMark ==
  /\ Running /\ inv.pc = "walk"
  /\ inv.block \notin Anc[tip]
  /\ failedValid' = failedValid \cup {inv.mark}
  /\ failedBlocks' = failedBlocks \cup {inv.mark}
  /\ candidates' = (candidates \ {inv.mark}) \cup
       {c \in index \ {inv.mark} : Usable(c) /\ ~Worse(c, tip)}
  /\ inv' = IdleInv
  /\ pending' = TRUE
  /\ UNCHANGED <<verdict, store, failedChild, order, unlinked, tip, havePruned,
                 abc, aborted, calls>>

-----------------------------------------------------------------------------
(* The failed blocks that reconsiderblock clears: first descendants, then  *)
(* ancestors.                                                              *)
FailedBelow(b) == Extends(b) \cap Failed
Cleared(b) == FailedBelow(b) \cup (Anc[b] \cap Failed)

(* MUTANT of StillFailedBlocks: an ancestor is not erased.                 *)
StillFailedAbove(b) == failedBlocks \ FailedBelow(b)

StillFailedBlocks(b) == failedBlocks \ Cleared(b)

ResetBlockFailureFlags(b) ==
  /\ Running /\ CsMainFree
  /\ calls.reconsider < MaxReconsider
  /\ b \in index
  /\ failedValid' = failedValid \ Cleared(b)
  /\ failedChild' = failedChild \ Cleared(b)
  /\ failedBlocks' = StillFailedBlocks(b)
  /\ candidates' = candidates \cup
       {c \in FailedBelow(b) : c \in txValid /\ c \in linked /\ Worse(tip, c)}
  /\ pending' = TRUE
  /\ calls' = [calls EXCEPT !.reconsider = @ + 1]
  /\ UNCHANGED <<verdict, store, order, unlinked, tip, havePruned, abc, inv,
                 aborted>>

(* PreciousBlock, before its call of ActivateBestChain.                    *)
PreciousBlock(b) ==
  /\ Running /\ CsMainFree
  /\ calls.precious < MaxPrecious
  /\ b \in index
  /\ IF Work[b] < Work[tip]
     THEN UNCHANGED <<order, candidates, pending>>
     ELSE LET rev == IF Work[tip] > seq.lastWork THEN -1 ELSE seq.rev
              sid == [seqId EXCEPT ![b] = rev]
          IN  /\ seqId' = sid
              /\ seq' = [seq EXCEPT !.rev = IF rev > -SeqLimit THEN rev - 1 ELSE rev,
                                    !.lastWork = Work[tip]]
              /\ candidates' = IF Usable(b)
                               THEN NotWorseThanTip(candidates \cup {b}, sid, tip)
                               ELSE candidates \ {b}
              /\ pending' = TRUE
  /\ calls' = [calls EXCEPT !.precious = @ + 1]
  /\ UNCHANGED <<verdict, store, flags, unlinked, tip, havePruned, abc, inv,
                 aborted>>

(* MUTANT of UnlinkedWithout: entries under the pruned block go instead.   *)
UnlinkedUnder(b) == {p \in unlinked : p[1] # b}

(* m_blocks_unlinked without the entry of a pruned block                   *)
UnlinkedWithout(b) == {p \in unlinked : p[2] # b}

(* PruneOneBlockFile, for a file that holds b alone and that               *)
(* FindFilesToPrune may choose.  FlushStateToDisk prunes wherever it is    *)
(* called, in ConnectTip and DisconnectTip too; which files, and when,     *)
(* depends on their sizes.                                                 *)
PruneOneBlockFile(b) ==
  /\ Running
  /\ abc.pc \in {"idle", "unlocked", "disconnect", "connect"}
  /\ calls.prune < MaxPrune
  /\ b \in haveData
  /\ Height[b] + KeepBlocks <= Height[tip]
  /\ haveData' = haveData \ {b}
  /\ haveUndo' = haveUndo \ {b}
  /\ unlinked' = UnlinkedWithout(b)
  /\ havePruned' = TRUE
  /\ calls' = [calls EXCEPT !.prune = @ + 1]
  /\ UNCHANGED <<verdict, index, received, linked, txValid, scriptsValid, flags,
                 order, candidates, tip, pending, abc, inv, aborted>>

-----------------------------------------------------------------------------
ActivateBestChain ==
  \/ Enter \/ Lock \/ DropCandidate \/ NothingToDo \/ BeginStep
  \/ StepDisconnect \/ BeginConnect
  \/ ConnectTip \/ ConnectTipInvalid \/ ConnectTipUnreadable \/ Stepped

InvalidateBlock ==
  \/ \E b \in Block : InvalidateBegin(b)
  \/ InvalidateDisconnect \/ InvalidateUnreadable \/ InvalidateMark

Arrival ==
  \E b \in Block \ {Genesis} :
    \/ AcceptBlockHeader(b)
    \/ RejectDescendant(b)
    \/ \E requested \in BOOLEAN : AcceptBlock(b, requested)

Command ==
  \E b \in Block :
    ResetBlockFailureFlags(b) \/ PreciousBlock(b) \/ PruneOneBlockFile(b)

Next == ActivateBestChain \/ InvalidateBlock \/ Arrival \/ Command

Spec == Init /\ [][Next]_vars

(* A thread that is in ActivateBestChain or InvalidateBlock goes on, and   *)
(* one that waits for m_cs_chainstate gets it.                             *)
Progress == ActivateBestChain \/ InvalidateDisconnect \/ InvalidateUnreadable
              \/ InvalidateMark
FairSpec == Spec /\ WF_vars(Progress)

-----------------------------------------------------------------------------
(* CheckBlockIndex, which the code runs (-checkblockindex) under cs_main   *)
(* after every operation that changes the index.                           *)

Quiet == CsMainFree /\ ~aborted
AllIn(b, S) == Anc[b] \subseteq S
NoInvalidAncestor(b) == Anc[b] \cap failedValid = {}

(* CheckBlockIndex on the data of a block: the two counters nTx and        *)
(* nChainTx, the validity level and the HAVE flags tell the same story.    *)
(* A block with the data of its whole chain is linked, unless part of that *)
(* chain is invalid, and only a block on an invalid chain is marked.       *)
DataConsistent ==
  Quiet => \A b \in index :
    /\ b \notin linked => seqId[b] <= 0
    /\ b \in haveData => b \in received
    /\ ~havePruned /\ b \in received => b \in haveData
    /\ b \in haveUndo => b \in haveData
    /\ b \in txValid <=> b \in received
    /\ b \in linked => AllIn(b, received)
    /\ AllIn(b, haveData) /\ NoInvalidAncestor(b) => b \in linked
    /\ b \in scriptsValid => AllIn(b, scriptsValid \cup {Genesis})
    /\ NoInvalidAncestor(b) => b \notin Failed

(* CheckBlockIndex: "The failed mask cannot be set for blocks without      *)
(* invalid parents."  (Not after reconsiderblock, which clears the         *)
(* ancestors of a block but not their other descendants.)  And the         *)
(* assertion in AcceptBlockHeader, after reconsiderblock too: every member *)
(* of m_failed_blocks is BLOCK_FAILED_VALID.                               *)
FailureHasCause ==
  /\ Quiet /\ calls.reconsider = 0 =>
       \A b \in index : NoInvalidAncestor(b) => b \notin Failed
  /\ failedBlocks \subseteq failedValid

(* CheckBlockIndex: "If this block sorts at least as good as the current   *)
(* tip and is valid and we have all data for its parents, it must be in    *)
(* setBlockIndexCandidates.  m_chain.Tip() must also be there even if some *)
(* data has been pruned."                                                  *)
CandidatesComplete ==
  Quiet /\ inv.pc = "idle" => \A b \in index :
    ~Worse(b, tip) /\ AllIn(b, received) /\ NoInvalidAncestor(b)
                   /\ (AllIn(b, haveData) \/ b = tip)
      => b \in candidates

(* invalidateblock, at whatever point of it blocks arrive, and a first     *)
(* preciousblock keep the candidates complete.  The exceptions are real:   *)
(* reconsiderblock forgets ancestors of a block without data, pruning in   *)
(* the middle of invalidateblock loses entries of its precomputed map, and *)
(* a preciousblock that starts numbering again can put the tip behind a    *)
(* block that is no longer a candidate.                                    *)
InvalidateKeepsCandidates ==
  calls.reconsider = 0 /\ calls.precious <= 1 /\ ~havePruned => CandidatesComplete

(* CheckBlockIndex: "If this block sorts worse than the current tip or     *)
(* some ancestor's block has never been seen, it cannot be in              *)
(* setBlockIndexCandidates."                                               *)
(* The assertion in FindMostWorkChain wants HaveTxsDownloaded() of all     *)
(* blocks it walks over, too, and the one that ends                        *)
(* PruneBlockIndexCandidates says "Either the current tip or a successor   *)
(* of it we're working towards is left".                                   *)
CandidatesSound ==
  /\ Quiet => \A b \in candidates : ~Worse(b, tip) /\ AllIn(b, received \cap linked)
  /\ abc.pc = "stepped" /\ abc.mostWork # NoBlock =>
       \E c \in candidates : c = tip \/ (c = abc.mostWork /\ tip \in Anc[c])

(* CheckBlockIndex on m_blocks_unlinked: a stored block that waits for the *)
(* data of an ancestor can be found from that ancestor when it arrives.    *)
UnlinkedComplete ==
  Quiet => \A b \in index \ {Genesis} :
    /\ b \in haveData /\ ~AllIn(b, received) /\ NoInvalidAncestor(b)
         => <<Parent[b], b>> \in unlinked
    /\ b \notin haveData => <<Parent[b], b>> \notin unlinked
    /\ AllIn(b, haveData) => <<Parent[b], b>> \notin unlinked
    /\ b \in haveData /\ AllIn(b, received) /\ ~AllIn(b, haveData)
         => /\ havePruned
            /\ ~Worse(b, tip) /\ b \notin candidates /\ NoInvalidAncestor(b)
                 => <<Parent[b], b>> \in unlinked

(* The active chain never holds a block that is marked invalid, whatever   *)
(* the RPCs and the arriving blocks did to the flags.                      *)
ActiveChainUsable == Quiet => Anc[tip] \cap Failed = {} /\ AllIn(tip, linked)

(* ActivateBestChain: "We absolutely may not unlock cs_main until we've    *)
(* made forward progress": when it lets go of cs_main the tip is no worse  *)
(* than when it took it.                                                   *)
UnlockedWithProgress ==
  [][~CsMainFree /\ CsMainFree' /\ ~aborted' => ~Worse(tip, abc.start)]_vars

(* setBlockIndexCandidates is a std::set ordered by nSequenceId, so the    *)
(* number of a member may change only while it is out of the set.          *)
(* PreciousBlock takes the block out and puts it back in one step.         *)
KeysStable ==
  [][\/ \A b \in candidates \cap candidates' : seqId'[b] = seqId[b]
     \/ seq'.lastWork # seq.lastWork \/ seq'.rev # seq.rev
     \/ calls'.precious # calls.precious]_vars

(* A chain whose blocks are all valid and all stored is overtaken or made  *)
(* the active one.                                                         *)
BestChainActivated ==
  \A b \in Block :
    AllIn(b, haveData) /\ (\A c \in Anc[b] : verdict[c] = "ok")
      ~> Work[tip] >= Work[b]
=============================================================================
