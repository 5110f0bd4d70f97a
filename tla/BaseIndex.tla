------------------------------ MODULE BaseIndex ------------------------------
(***************************************************************************)
(* An index of the active chain (index/base.cpp) with the data of the      *)
(* block filter index (index/blockfilterindex.cpp): the thread that        *)
(* catches up, the notifications that take over from it, the locator they  *)
(* leave in the database, restarts and crashes.                            *)
(*                                                                         *)
(* Notifications arrive one at a time and in order, which is what          *)
(* SerialQueue promises; they are handled at the head of the queue.  The   *)
(* chain moves in critical sections of cs_main that also add the           *)
(* notifications.  A write to the index database survives the process.     *)
(***************************************************************************)
EXTENDS Integers, Sequences, Functions

CONSTANTS
  Block, Genesis,
  NoBlock,       \* nullptr, and a locator that is null
  Parent, Anc, Height,
  StartTips,     \* tips of the chain when the index is first enabled
  Max,           \* how often each of the bounded things may happen,
  MaxCalls       \* and how many of them altogether

ASSUME BlockTree ==
  /\ Genesis \in Block /\ NoBlock \notin Block
  /\ Anc[Genesis] = {Genesis} /\ Height[Genesis] = 0
  /\ \A b \in Block \ {Genesis} :
       /\ Parent[b] \in Block
       /\ Anc[b] = Anc[Parent[b]] \cup {b} /\ b \notin Anc[Parent[b]]
       /\ Height[b] = Height[Parent[b]] + 1

(* A branch has one block at each height, the branch of a block on it is   *)
(* the part up to there.                                                   *)
ASSUME Branches ==
  \A b \in Block :
    /\ Height[b] \in Nat /\ Anc[b] \subseteq Block
    /\ \A c \in Anc[b] : Anc[c] \subseteq Anc[b] /\ (c = b \/ Height[c] < Height[b])
    /\ \A c, d \in Anc[b] : Height[c] = Height[d] => c = d
    /\ \A h \in 0..Height[b] : \E c \in Anc[b] : Height[c] = h

(* And so is what two branches share.                                      *)
ASSUME Forks ==
  \A b, c \in Block : \E f \in Block : Anc[b] \cap Anc[c] = Anc[f]

ASSUME StartAssumption ==
  /\ StartTips \subseteq Block \cup {NoBlock}
  /\ Max \in [{"move", "flush", "wait", "stop", "crash", "fail"} -> Nat]

VARIABLES
  tip,                  \* ::ChainActive().Tip()
  diskTip,              \* the tip of the last flushed chain state
  queue,                \* notifications not yet handled
  m_synced, m_best_block_index,
  m_interrupt,
  sync,                 \* m_thread_sync: pc, pindex, whether it has just begun
  callback,             \* the handler of the first notification: pc and current_tip
  locator,              \* DB_BEST_BLOCK in the database
  heightIndex,          \* DB_BLOCK_HEIGHT: the block stored for a height
  hashIndex,            \* DB_BLOCK_HASH
  written,              \* history: the blocks WriteBlock has stored
  hole,                 \* history: the locator has been left at a block never written
  fatal,                \* FatalError has asked for a shutdown
  calls                 \* how often each of the bounded things happened

chain == <<tip, diskTip>>
index == <<m_synced, m_best_block_index>>
disk == <<locator, heightIndex, hashIndex, written>>
vars == <<tip, diskTip, queue, m_synced, m_best_block_index, m_interrupt, sync, callback,
          locator, heightIndex, hashIndex, written, hole, fatal, calls>>

Heights == {Height[b] : b \in Block}
Blocks == Block \cup {NoBlock}

(* CChain::Contains, CChain::FindFork, CBlockIndex::GetAncestor *)
Ancestors(b) == IF b = NoBlock THEN {} ELSE Anc[b]
Highest(S) ==
  IF S = {} THEN NoBlock ELSE CHOOSE b \in S : \A c \in S : Height[c] <= Height[b]
FindFork(b, t) == Highest(Ancestors(b) \cap Ancestors(t))
pprev(b) == IF b = Genesis THEN NoBlock ELSE Parent[b]

(* A locator names the last ten blocks of a chain one by one (GetLocator). *)
FindForkInGlobalIndex(loc, t) == FindFork(loc, t)

-----------------------------------------------------------------------------
NoCallback == [pc |-> "start", tip |-> NoBlock]

(* Start, with the chain loaded up to t: Init of the index, and the thread *)
(* begins.                                                                 *)
Start(t) ==
  /\ tip' = t /\ diskTip' = t
  /\ queue' = <<>> /\ callback' = NoCallback
  /\ m_interrupt' = FALSE /\ fatal' = FALSE
  /\ LET best == FindForkInGlobalIndex(locator, t) IN
       /\ m_best_block_index' = best
       /\ m_synced' = (best = t)
       /\ sync' = [pc |-> IF best = t THEN "done" ELSE "loop", pindex |-> best, first |-> TRUE]

(* The first start with the index, on a new or on an older data directory. *)
Init ==
  /\ tip \in StartTips /\ diskTip = tip
  /\ queue = <<>> /\ callback = NoCallback
  /\ m_interrupt = FALSE /\ fatal = FALSE
  /\ m_best_block_index = NoBlock
  /\ m_synced = (tip = NoBlock)
  /\ sync = [pc |-> IF tip = NoBlock THEN "done" ELSE "loop", pindex |-> NoBlock,
             first |-> TRUE]
  /\ locator = NoBlock
  /\ heightIndex = [h \in Heights |-> NoBlock]
  /\ hashIndex = {} /\ written = {} /\ hole = FALSE
  /\ calls = [op \in DOMAIN Max |-> 0]

Count(op) == calls' = [calls EXCEPT ![op] = @ + 1]
MayStill(op) == calls[op] < Max[op] /\ SumFunction(calls) < MaxCalls

-----------------------------------------------------------------------------
(* What the rest of the node does.  The sync thread holds cs_main from the *)
(* moment it sees that it is done until it has committed.                  *)
CsMainFree == sync.pc # "final"

Event(type, b) == [type |-> type, block |-> b]

(* The blocks connected on the way to b, lowest first.                     *)
Connected(b) ==
  LET fork == FindFork(b, tip)
      base == IF fork = NoBlock THEN -1 ELSE Height[fork]
  IN  [i \in 1..(Height[b] - base) |->
         Event("connected", CHOOSE c \in Anc[b] : Height[c] = base + i)]

(* ActivateBestChain, between two releases of cs_main.  A reorganisation   *)
(* that meets an invalid block and comes back is several moves.            *)
ActivateBestChain(b) ==
  /\ CsMainFree /\ MayStill("move")
  /\ b # tip /\ \A t \in {tip} \ {NoBlock} : Height[b] >= Height[t]
  /\ tip' = b
  /\ queue' = queue \o Connected(b)
  /\ Count("move")
  /\ UNCHANGED <<diskTip, index, m_interrupt, sync, callback, disk, hole, fatal>>

(* InvalidateBlock: one block is disconnected, the index is not told.      *)
InvalidateBlock ==
  /\ CsMainFree /\ MayStill("move")
  /\ tip \in Block \ {Genesis}
  /\ tip' = Parent[tip]
  /\ Count("move")
  /\ UNCHANGED <<diskTip, queue, index, m_interrupt, sync, callback, disk, hole, fatal>>

FlushStateToDisk ==
  /\ CsMainFree /\ (MayStill("flush") \/ (m_interrupt /\ diskTip # tip))
  /\ tip # NoBlock
  /\ diskTip' = tip
  /\ queue' = Append(queue, Event("flushed", tip))
  /\ Count("flush")
  /\ UNCHANGED <<tip, index, m_interrupt, sync, callback, disk, hole, fatal>>

(* BlockUntilSyncedToCurrentChain, where it has to wait for the queue.     *)
BlockUntilSyncedToCurrentChain ==
  /\ CsMainFree /\ MayStill("wait")
  /\ m_synced /\ tip # NoBlock
  /\ tip \notin Ancestors(m_best_block_index)
  /\ queue' = Append(queue, Event("wait", tip))
  /\ Count("wait")
  /\ UNCHANGED <<chain, index, m_interrupt, sync, callback, disk, hole, fatal>>

-----------------------------------------------------------------------------
(* A mutant for LocatorCovered: GetLocator() of the chain.                 *)
LocatorOfTip(best) == tip

(* Commit: without a best block GetLocator takes the tip of the chain.     *)
Locator(best) == IF best = NoBlock THEN tip ELSE best

(* A mutant for StaleFiltersKept: the last height is left out.             *)
OverwrittenBelow(old, new) ==
  {heightIndex[Height[c]] : c \in {b \in Ancestors(old) \ {old} : b \notin Ancestors(new) \ {new}}}

(* BlockFilterIndex::Rewind keeps what will be overwritten.  It fails if a *)
(* height has no entry.                                                    *)
Overwritten(old, new) ==
  {heightIndex[Height[c]] : c \in {b \in Ancestors(old) : b \notin Ancestors(new) \ {new}}}

(* BlockFilterIndex::WriteBlock: the entry below must be that of pprev.    *)
CanWrite(b) == pprev(b) = IF b = Genesis THEN NoBlock ELSE heightIndex[Height[b] - 1]

WriteBlock(b) ==
  /\ heightIndex' = [heightIndex EXCEPT ![Height[b]] = b]
  /\ written' = written \cup {b}
  /\ UNCHANGED <<locator, hashIndex>>

Fails == MayStill("fail") /\ Count("fail")
NoFailure == UNCHANGED calls

(* A Commit that fails is logged, and the process goes on.                 *)
Commit(best) ==
  \/ locator' = Locator(best) /\ NoFailure
  \/ UNCHANGED locator /\ Fails

-----------------------------------------------------------------------------
(* ThreadSync *)
NextSyncBlock ==
  Highest({c \in Ancestors(tip) : pprev(c) = FindFork(sync.pindex, tip)})

(* The block at hand is in the locator and not yet in the index.           *)
CommittedFirst == sync.pc = "write" /\ locator = sync.pindex

(* Interrupted before its first block, the thread commits the tip.         *)
SyncInterrupted ==
  /\ sync.pc = "loop" /\ m_interrupt
  /\ m_best_block_index' = sync.pindex
  /\ Commit(sync.pindex)
  /\ sync' = [sync EXCEPT !.pc = "done"]
  /\ hole' = (hole \/ sync.pindex = NoBlock)
  /\ UNCHANGED <<chain, queue, m_synced, m_interrupt, callback, heightIndex, hashIndex,
                 written, fatal>>

(* A mutant for InSync: no block follows on the active chain, fork or not. *)
SyncedNoSuccessor == \A c \in Ancestors(tip) : pprev(c) # sync.pindex
SyncedAtTip == NextSyncBlock = NoBlock

(* A mutant for CatchesUp: m_synced is never set.                          *)
SyncDoneUnflagged ==
  /\ sync.pc = "loop" /\ ~m_interrupt
  /\ SyncedAtTip
  /\ m_best_block_index' = sync.pindex
  /\ sync' = [sync EXCEPT !.pc = "final"]
  /\ UNCHANGED <<chain, queue, m_synced, m_interrupt, callback, disk, hole, fatal, calls>>

SyncDone ==
  /\ sync.pc = "loop" /\ ~m_interrupt
  /\ SyncedAtTip
  /\ m_best_block_index' = sync.pindex
  /\ m_synced' = TRUE
  /\ sync' = [sync EXCEPT !.pc = "final"]
  /\ UNCHANGED <<chain, queue, m_interrupt, callback, disk, hole, fatal, calls>>

SyncCommitsLast ==
  /\ sync.pc = "final"
  /\ Commit(m_best_block_index)
  /\ sync' = [sync EXCEPT !.pc = "done"]
  /\ UNCHANGED <<chain, queue, index, m_interrupt, callback, heightIndex, hashIndex,
                 written, hole, fatal>>

(* The next block is chosen under cs_main; the first time, and then every  *)
(* half a minute, the index commits before it writes it.                   *)
SyncTakes(best, loc) ==
  /\ sync' = [pc |-> "write", pindex |-> NextSyncBlock, first |-> FALSE]
  /\ \/ m_best_block_index' = best /\ locator' = loc /\ ~sync.first /\ NoFailure
     \/ m_best_block_index' = NextSyncBlock /\ locator' = NextSyncBlock /\ NoFailure
     \/ m_best_block_index' = NextSyncBlock /\ locator' = loc /\ Fails
  /\ UNCHANGED <<chain, queue, m_synced, m_interrupt, callback, heightIndex, written, hole, fatal>>

MustRewind == pprev(NextSyncBlock) # sync.pindex

SyncNext ==
  /\ sync.pc = "loop" /\ ~m_interrupt
  /\ ~SyncedAtTip /\ ~MustRewind
  /\ SyncTakes(m_best_block_index, locator)
  /\ UNCHANGED hashIndex

SyncRewind ==
  /\ sync.pc = "loop" /\ ~m_interrupt
  /\ ~SyncedAtTip /\ MustRewind
  /\ NoBlock \notin Overwritten(sync.pindex, pprev(NextSyncBlock))
  /\ sync.pindex = m_best_block_index
  /\ SyncTakes(pprev(NextSyncBlock), pprev(NextSyncBlock))
  /\ hashIndex' = hashIndex \cup Overwritten(sync.pindex, pprev(NextSyncBlock))

(* The assertion of BaseIndex::Rewind ends the process.                    *)
SyncAborts ==
  /\ sync.pc = "loop" /\ ~m_interrupt
  /\ ~SyncedAtTip /\ MustRewind
  /\ NoBlock \notin Overwritten(sync.pindex, pprev(NextSyncBlock))
  /\ sync.pindex # m_best_block_index
  /\ hashIndex' = hashIndex \cup Overwritten(sync.pindex, pprev(NextSyncBlock))
  /\ Start(diskTip)
  /\ Count("crash")
  /\ UNCHANGED <<locator, heightIndex, written, hole>>

SyncWrite ==
  /\ sync.pc = "write"
  /\ CanWrite(sync.pindex)
  /\ WriteBlock(sync.pindex)
  /\ sync' = [sync EXCEPT !.pc = "loop"]
  /\ UNCHANGED <<chain, queue, index, m_interrupt, callback, hole, fatal, calls>>

(* FatalError: a Rewind without its entries or whose Commit fails, a block *)
(* that cannot be read or written.                                         *)
SyncFails ==
  /\ \/ /\ sync.pc = "loop" /\ ~m_interrupt /\ ~SyncedAtTip /\ MustRewind
        /\ IF NoBlock \in Overwritten(sync.pindex, pprev(NextSyncBlock))
           THEN NoFailure /\ UNCHANGED hashIndex
           ELSE /\ sync.pindex = m_best_block_index /\ Fails
                /\ hashIndex' \in {hashIndex,
                       hashIndex \cup Overwritten(sync.pindex, pprev(NextSyncBlock))}
     \/ sync.pc = "write" /\ ~CanWrite(sync.pindex) /\ NoFailure /\ UNCHANGED hashIndex
     \/ sync.pc = "write" /\ Fails /\ UNCHANGED hashIndex
  /\ sync' = [sync EXCEPT !.pc = "done"]
  /\ fatal' = TRUE
  /\ hole' = (hole \/ CommittedFirst)
  /\ UNCHANGED <<chain, queue, index, m_interrupt, callback, locator, heightIndex, written>>

-----------------------------------------------------------------------------
(* BlockConnected, for the block of the first notification.                *)
Notified(type) == queue # <<>> /\ Head(queue).type = type
Now == Head(queue).block

ConnectsToBest == pprev(Now) \in Ancestors(m_best_block_index) \cup {NoBlock}

(* A mutant for EntriesFollow: a block of a stale branch is not left out.  *)
IgnoredUnsynced == ~m_synced
Ignored == ~m_synced \/ (m_best_block_index # NoBlock /\ ~ConnectsToBest)

BlockIgnored ==
  /\ Notified("connected") /\ callback.pc = "start"
  /\ Ignored
  /\ queue' = Tail(queue)
  /\ UNCHANGED <<chain, index, m_interrupt, sync, callback, disk, hole, fatal, calls>>

BlockConnected ==
  /\ Notified("connected") /\ callback.pc = "start"
  /\ ~Ignored /\ ConnectsToBest
  /\ pprev(Now) = m_best_block_index
  /\ callback' = [callback EXCEPT !.pc = "write"]
  /\ UNCHANGED <<chain, queue, index, m_interrupt, sync, disk, hole, fatal, calls>>

(* Rewind: the new best block is in memory before it is committed.         *)
BlockRewinds ==
  /\ Notified("connected") /\ callback.pc = "start"
  /\ ~Ignored /\ ConnectsToBest
  /\ pprev(Now) # m_best_block_index
  /\ NoBlock \notin Overwritten(m_best_block_index, pprev(Now))
  /\ hashIndex' = hashIndex \cup Overwritten(m_best_block_index, pprev(Now))
  /\ m_best_block_index' = pprev(Now)
  /\ callback' = [pc |-> "commit", tip |-> m_best_block_index]
  /\ UNCHANGED <<chain, queue, m_synced, m_interrupt, sync, locator, heightIndex, written,
                 hole, fatal, calls>>

RewindCommits ==
  /\ callback.pc = "commit" /\ CsMainFree
  /\ locator' = Locator(m_best_block_index)
  /\ callback' = [pc |-> "write", tip |-> NoBlock]
  /\ UNCHANGED <<chain, queue, index, m_interrupt, sync, heightIndex, hashIndex, written,
                 hole, fatal, calls>>

BlockWritten ==
  /\ callback.pc = "write"
  /\ CanWrite(Now)
  /\ WriteBlock(Now)
  /\ m_best_block_index' = Now
  /\ queue' = Tail(queue) /\ callback' = NoCallback
  /\ UNCHANGED <<chain, m_synced, m_interrupt, sync, hole, fatal, calls>>

(* FatalError: not the genesis block, no entry to rewind, a Commit of      *)
(* Rewind or a write that fails.                                           *)
BlockFails ==
  /\ \/ /\ Notified("connected") /\ callback.pc = "start" /\ ~Ignored
        /\ \/ ~ConnectsToBest /\ NoFailure
           \/ /\ pprev(Now) # m_best_block_index
              /\ IF NoBlock \in Overwritten(m_best_block_index, pprev(Now))
                 THEN NoFailure
                 ELSE Fails
        /\ UNCHANGED m_best_block_index
     \/ callback.pc = "commit" /\ CsMainFree /\ m_best_block_index' = callback.tip /\ Fails
     \/ callback.pc = "write" /\ ~CanWrite(Now) /\ UNCHANGED m_best_block_index /\ NoFailure
     \/ callback.pc = "write" /\ UNCHANGED m_best_block_index /\ Fails
  /\ queue' = Tail(queue) /\ callback' = NoCallback
  /\ fatal' = TRUE
  /\ UNCHANGED <<chain, m_synced, m_interrupt, sync, disk, hole>>

OnKnownChain == Now \in Ancestors(m_best_block_index)

ChainStateFlushed ==
  /\ Notified("flushed") /\ CsMainFree
  /\ IF m_synced /\ OnKnownChain THEN Commit(m_best_block_index) ELSE UNCHANGED <<locator, calls>>
  /\ queue' = Tail(queue)
  /\ UNCHANGED <<chain, index, m_interrupt, sync, callback, heightIndex, hashIndex, written,
                 hole, fatal>>

WaitEnds ==
  /\ Notified("wait")
  /\ queue' = Tail(queue)
  /\ UNCHANGED <<chain, index, m_interrupt, sync, callback, disk, hole, fatal, calls>>

-----------------------------------------------------------------------------
(* The process ends: in Shutdown, which stops the sync thread, flushes the *)
(* chain state and empties the queue, or at any time.                      *)
Interrupt ==
  /\ ~m_interrupt /\ MayStill("stop")
  /\ m_interrupt' = TRUE
  /\ Count("stop")
  /\ UNCHANGED <<chain, queue, index, sync, callback, disk, hole, fatal>>

Stop ==
  /\ m_interrupt /\ sync.pc = "done"
  /\ queue = <<>> /\ diskTip = tip
  /\ Start(tip)
  /\ UNCHANGED <<disk, hole, calls>>

Crash ==
  /\ MayStill("crash")
  /\ hole' = (hole \/ CommittedFirst)
  /\ Start(diskTip)
  /\ Count("crash")
  /\ UNCHANGED disk

-----------------------------------------------------------------------------
ThreadSync ==
  SyncInterrupted \/ SyncDone \/ SyncCommitsLast \/ SyncNext \/ SyncRewind \/ SyncAborts
    \/ SyncWrite \/ SyncFails

Callback ==
  BlockIgnored \/ BlockConnected \/ BlockRewinds \/ RewindCommits \/ BlockWritten
    \/ BlockFails \/ ChainStateFlushed \/ WaitEnds

Node ==
  \/ \E b \in Block : ActivateBestChain(b)
  \/ InvalidateBlock \/ FlushStateToDisk \/ BlockUntilSyncedToCurrentChain
  \/ Interrupt \/ Stop \/ Crash

Next == ThreadSync \/ Callback \/ Node

Spec == Init /\ [][Next]_vars

(* The sync thread runs, and the queue is served.                          *)
FairSpec == Spec /\ WF_vars(Callback \/ ThreadSync)

-----------------------------------------------------------------------------
(* The transactions of every block the locator stands for are in the       *)
(* index: wherever the process ends, the next start goes on from a block   *)
(* whose whole chain has been written.  The sync thread commits a block    *)
(* before it writes it, so one block may be missing while that thread      *)
(* lives.                                                                  *)
LocatorCovered ==
  ~hole => \A b \in Ancestors(locator) :
             b \in written \/ (sync.pc = "write" /\ b = sync.pindex)

(* BlockFilterIndex::WriteBlock and Rewind find the entries they need,     *)
(* whatever the backlog of notifications is when the sync thread ends, and *)
(* after any clean restart of a process in which nothing failed.  (Init    *)
(* goes back to the fork with the chain without a Commit, so a crash, or a *)
(* Commit that failed before a restart, can leave a locator whose entries  *)
(* have been overwritten.)                                                 *)
EntriesFollow ==
  calls.crash = 0 /\ (calls.stop = 0 \/ calls.fail = 0) /\ ~hole /\ ~fatal =>
    /\ sync.pc = "write" => CanWrite(sync.pindex)
    /\ callback.pc = "write" => CanWrite(Now)
    /\ Notified("connected") /\ callback.pc = "start" /\ ~Ignored =>
         /\ ConnectsToBest
         /\ pprev(Now) # m_best_block_index => pprev(Now) # NoBlock
         /\ NoBlock \notin Overwritten(m_best_block_index, pprev(Now))

(* A filter stays where LookupOne finds it, "so we can still find them     *)
(* when the height index entries are overwritten" (Rewind), as long as no  *)
(* Init has gone back without a Rewind.                                    *)
StaleFiltersKept ==
  calls.crash + calls.stop = 0 =>
    \A b \in written : heightIndex[Height[b]] = b \/ b \in hashIndex

HasTip == tip = NoBlock \/ tip \in Ancestors(m_best_block_index)

(* "The flag is flipped from false to true once, after which point this    *)
(* starts processing ValidationInterface notifications to stay in sync":   *)
(* with no notification left the index has the tip of the chain, whatever  *)
(* the backlog was when the sync thread ended, and                         *)
(* BlockUntilSyncedToCurrentChain "blocks the current thread until the     *)
(* index is caught up to the current state of the block chain".            *)
InSync ==
  m_synced /\ ~fatal =>
    /\ queue = <<>> => HasTip
    /\ Notified("wait") => Now \in Ancestors(m_best_block_index)

(* Once the chain rests, the index has caught up with it.                  *)
CatchesUp ==
  <>[](fatal \/ m_interrupt \/ (m_synced /\ HasTip))
=============================================================================
