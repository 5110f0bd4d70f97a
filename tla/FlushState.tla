----------------------------- MODULE FlushState -----------------------------
(***************************************************************************)
(* What a node leaves on disk, and what it makes of it after a crash.      *)
(*                                                                         *)
(* Three stores are written by CChainState::FlushStateToDisk, in this      *)
(* order: the flat files blk?????.dat and rev?????.dat, the block tree     *)
(* database (one synced batch), and the coins database (several batches,   *)
(* CCoinsViewDB::BatchWrite).  The process can die between any two writes. *)
(* At the next start the block index is loaded (LoadBlockIndexDB), an      *)
(* interrupted coins flush is replayed (ReplayBlocks) and the tip is set   *)
(* (LoadChainTip).                                                         *)
(*                                                                         *)
(* Which block is connected next is the matter of ChainState; here any     *)
(* stored child of the tip may be connected and the tip may be             *)
(* disconnected at any time, by a reorganisation or by invalidateblock.    *)
(* The coins cache is the map it stands for, which is what CoinsCache      *)
(* shows of it.  A crash is the death of the process: what was handed to   *)
(* the operating system survives.                                          *)
(***************************************************************************)
EXTENDS Integers, FiniteSets

CONSTANTS
  Block, Genesis, NoBlock,
  Parent, Anc, Height,  \* the tree of blocks; Anc[b] holds b itself
  Coin,                 \* outpoints
  Creates, Spends,      \* what the transactions of a block do to them
  KeepBlocks,           \* MIN_BLOCKS_TO_KEEP
  MaxFile,              \* bound: the number of the last block file
  MaxSlot,              \* bound: blocks (or undo records) in one file
  MaxCrash              \* bound: how often the process dies

File == 0..MaxFile
Slot == 1..MaxSlot
Place == File \X Slot
Nowhere == <<-1, 0>>
Path(b) == IF b = NoBlock THEN {} ELSE Anc[b]

ASSUME TreeAssumption ==
  /\ Genesis \in Block /\ NoBlock \notin Block
  /\ Parent \in [Block \ {Genesis} -> Block]
  /\ Anc \in [Block -> SUBSET Block]
  /\ Anc[Genesis] = {Genesis}
  /\ \A b \in Block \ {Genesis} : Anc[b] = Anc[Parent[b]] \cup {b} /\ b \notin Anc[Parent[b]]
  /\ \A b \in Block : Genesis \in Anc[b] /\ b \in Anc[b]
  /\ \A b \in Block : \A c \in Anc[b] : Anc[c] \subseteq Anc[b]
  /\ \A b \in Block : \A c \in Anc[b] \ {b} :
       \E d \in Anc[b] : d # Genesis /\ Parent[d] = c
  /\ Height \in [Block -> Nat]

(* What the consensus rules say of the transactions: an input is an output *)
(* of the same chain, no output is created twice on a chain (BIP30), none  *)
(* is spent twice, and the outputs of the genesis block cannot be spent.   *)
ASSUME CoinAssumption ==
  /\ Creates \in [Block -> SUBSET Coin]
  /\ Spends \in [Block -> SUBSET Coin]
  /\ Creates[Genesis] = {} /\ Spends[Genesis] = {}
  /\ \A b \in Block : \A o \in Spends[b] : \E c \in Anc[b] : o \in Creates[c]
  /\ \A b \in Block : \A c, d \in Anc[b] :
       c # d => Creates[c] \cap Creates[d] = {} /\ Spends[c] \cap Spends[d] = {}

ASSUME BoundsAssumption ==
  MaxFile \in Nat /\ MaxSlot \in Nat \ {0} /\ KeepBlocks \in Nat /\ MaxCrash \in Nat

(* The unspent outputs after block b: the reference.                       *)
UTXO(b) == {o \in Coin : /\ \E c \in Path(b) : o \in Creates[c]
                         /\ \A c \in Path(b) : o \notin Spends[c]}

VARIABLES
  node,         \* "down", "genesis", "replay", "rolling", "up" or "failed"
  cause,        \* why the start failed
  mIndex,       \* m_block_index: what is known of a block, and where it is
  mInfo,        \* vinfoBlockFile
  mLast,        \* nLastBlockFile
  dirtyBlocks,  \* setDirtyBlockIndex
  dirtyFiles,   \* setDirtyFileInfo
  havePruned,   \* fHavePruned
  tip, view,    \* m_chain.Tip() and the coins seen through CoinsTip()
  flush,        \* where FlushStateToDisk is
  at,           \* the block ReplayBlocks has rolled forward to
  dIndex, dInfo, dLast, dPruned,  \* the block tree database
  blk, rev,               \* the flat files
  unsyncedBlk, unsyncedRev, \* files written to since they were last synced
  coins, best, heads,     \* the coins database: DB_BEST_BLOCK, DB_HEAD_BLOCKS
  crashes

index  == <<mIndex, mInfo, mLast, dirtyBlocks, dirtyFiles, havePruned>>
tree   == <<dIndex, dInfo, dLast, dPruned>>
files  == <<blk, rev, unsyncedBlk, unsyncedRev>>
chain  == <<tip, view>>
coinDB == <<coins, best, heads>>
vars   == <<node, cause, index, chain, flush, at, tree, files, coinDB, crashes>>

Unknown == [known |-> FALSE, data |-> Nowhere, undo |-> Nowhere]
Entry == [known : BOOLEAN, data : Place \cup {Nowhere}, undo : Place \cup {Nowhere}]
NoInfo == [size |-> 0, undo |-> 0, heightLast |-> 0]
FileInfo == [size : 0..MaxSlot, undo : 0..MaxSlot, heightLast : Nat]
NoHeads == [new |-> NoBlock, old |-> NoBlock]
IdleFlush == [pc |-> "idle", full |-> FALSE, prune |-> {}]

TypeOK ==
  /\ node \in {"down", "genesis", "replay", "rolling", "up", "failed"}
  /\ cause \in {"none", "unknown", "missing", "unreadable", "assert"}
  /\ mIndex \in [Block -> Entry] /\ dIndex \in [Block -> Entry]
  /\ mInfo \in [File -> FileInfo] /\ dInfo \in [File -> FileInfo]
  /\ mLast \in File /\ dLast \in File
  /\ dirtyBlocks \in SUBSET Block /\ dirtyFiles \in SUBSET File
  /\ havePruned \in BOOLEAN /\ dPruned \in BOOLEAN
  /\ tip \in Block \cup {NoBlock} /\ view \in SUBSET Coin
  /\ flush \in [pc : {"idle", "files", "index", "unlink", "coins"},
                full : BOOLEAN, prune : SUBSET File]
  /\ at \in Block \cup {NoBlock} /\ (node = "rolling" <=> at # NoBlock)
  /\ blk \in [Place -> Block \cup {NoBlock}] /\ rev \in [Place -> Block \cup {NoBlock}]
  /\ unsyncedBlk \in SUBSET File /\ unsyncedRev \in SUBSET File
  /\ coins \in SUBSET Coin /\ best \in Block \cup {NoBlock}
  /\ heads \in [new : Block \cup {NoBlock}, old : Block \cup {NoBlock}]
  /\ crashes \in 0..MaxCrash

(* A node that was never started: nothing on disk.                         *)
Init ==
  /\ node = "down" /\ cause = "none"
  /\ mIndex = [b \in Block |-> Unknown] /\ dIndex = mIndex
  /\ mInfo = [f \in File |-> NoInfo] /\ dInfo = mInfo
  /\ mLast = 0 /\ dLast = 0
  /\ dirtyBlocks = {} /\ dirtyFiles = {}
  /\ havePruned = FALSE /\ dPruned = FALSE
  /\ tip = NoBlock /\ view = {}
  /\ flush = IdleFlush /\ at = NoBlock
  /\ blk = [p \in Place |-> NoBlock] /\ rev = blk
  /\ unsyncedBlk = {} /\ unsyncedRev = {}
  /\ coins = {} /\ best = NoBlock /\ heads = NoHeads
  /\ crashes = 0

-----------------------------------------------------------------------------
(* The running node, between flushes                                       *)

Running == node = "up" /\ flush.pc = "idle"

(* ReadBlockFromDisk and UndoReadFromDisk check what they read.            *)
CanRead(b) == mIndex[b].data # Nowhere /\ blk[mIndex[b].data] = b
CanUndo(b) == mIndex[b].undo # Nowhere /\ rev[mIndex[b].undo] = b

(* MUTANT of FilePos: the record is put over the last one.                 *)
FilePosOnLast(f) == <<f, IF mInfo[f].size = 0 THEN 1 ELSE mInfo[f].size>>

(* FindBlockPos in file f.                                                 *)
FilePos(f) == <<f, mInfo[f].size + 1>>

(* FindBlockPos flushes the file it leaves for file f.                     *)
LeaveFile(f, S) == IF f = mLast THEN S ELSE S \ {mLast}

(* SaveBlockToDisk and ReceivedBlockTransactions.  A block goes to the     *)
(* last file or, if it does not fit, to the next.                          *)
Store(b, f) ==
  /\ f \in {mLast, mLast + 1} \cap File
  /\ mInfo[f].size + 1 \in Slot
  /\ blk' = [blk EXCEPT ![FilePos(f)] = b]
  /\ unsyncedBlk' = LeaveFile(f, unsyncedBlk) \cup {f}
  /\ unsyncedRev' = LeaveFile(f, unsyncedRev)
  /\ mInfo' = [mInfo EXCEPT ![f] =
       [size |-> @.size + 1, undo |-> @.undo,
        heightLast |-> IF Height[b] > @.heightLast THEN Height[b] ELSE @.heightLast]]
  /\ mLast' = f
  /\ mIndex' = [mIndex EXCEPT ![b] =
       [known |-> TRUE, data |-> FilePos(f), undo |-> @.undo]]
  /\ dirtyBlocks' = dirtyBlocks \cup {b}
  /\ dirtyFiles' = dirtyFiles \cup {f}
  /\ UNCHANGED <<havePruned, rev>>

AcceptBlock(b, f) ==
  /\ Running
  /\ b # Genesis /\ mIndex[Parent[b]].known
  /\ mIndex[b].data = Nowhere
  /\ Store(b, f)
  /\ UNCHANGED <<node, cause, chain, flush, at, tree, coinDB, crashes>>

(* WriteUndoDataForBlock: once per block, in the file that goes with the   *)
(* one of the block.                                                       *)
WriteUndo(b) ==
  LET f == mIndex[b].data[1]
      p == <<f, mInfo[f].undo + 1>>
  IN  IF b = Genesis \/ mIndex[b].undo # Nowhere
      THEN UNCHANGED <<index, files>>
      ELSE /\ p \in Place
           /\ rev' = [rev EXCEPT ![p] = b]
           /\ unsyncedRev' = unsyncedRev \cup {f}
           /\ mInfo' = [mInfo EXCEPT ![f] =
                [size |-> @.size, undo |-> @.undo + 1, heightLast |-> @.heightLast]]
           /\ mIndex' = [mIndex EXCEPT ![b] =
                [known |-> @.known, data |-> @.data, undo |-> p]]
           /\ dirtyBlocks' = dirtyBlocks \cup {b}
           /\ dirtyFiles' = dirtyFiles \cup {f}
           /\ UNCHANGED <<mLast, havePruned, blk, unsyncedBlk>>

(* The effect of a block on the coins.  (The transactions of a block can   *)
(* spend outputs of each other.)                                           *)
Apply(b, S) == (S \cup Creates[b]) \ Spends[b]

(* MUTANT of Undo: the spent outputs are not restored.                     *)
UndoOutputsOnly(b, S) == S \ Creates[b]

(* MUTANT of Undo: the outputs are not removed.                            *)
UndoInputsOnly(b, S) == S \cup Spends[b]

Undo(b, S) == (S \cup Spends[b]) \ Creates[b]

ConnectTip(b) ==
  /\ Running
  /\ IF tip = NoBlock THEN b = Genesis ELSE b # Genesis /\ Parent[b] = tip
  /\ CanRead(b)
  /\ WriteUndo(b)
  /\ tip' = b
  /\ view' = Apply(b, view)
  /\ UNCHANGED <<node, cause, flush, at, tree, coinDB, crashes>>

DisconnectTip ==
  /\ Running
  /\ tip \notin {NoBlock, Genesis}
  /\ CanRead(tip) /\ CanUndo(tip)
  /\ tip' = Parent[tip]
  /\ view' = Undo(tip, view)
  /\ UNCHANGED <<node, cause, index, flush, at, tree, files, coinDB, crashes>>

-----------------------------------------------------------------------------
(* FlushStateToDisk, one action per write                                  *)

(* FindFilesToPrune and FindFilesToPruneManual.                            *)
Prunable(f) ==
  /\ tip # NoBlock
  /\ f < mLast /\ mInfo[f].size # 0
  /\ mInfo[f].heightLast + KeepBlocks <= Height[tip]

(* PruneOneBlockFile for every file of P.                                  *)
InFiles(P) == {b \in Block : mIndex[b].data # Nowhere /\ mIndex[b].data[1] \in P}

(* MUTANT of FlaggedPruned: the flag is not written.                       *)
FlaggedPrunedNever(P) == dPruned

(* The flag "prunedblockfiles" in the database.                            *)
FlaggedPruned(P) == dPruned \/ (P # {} /\ ~havePruned)

(* The mode and the size of the caches decide whether the coins are        *)
(* written, too; a prune always writes them.                               *)
BeginFlush(full, P) ==
  /\ Running
  /\ \A f \in P : Prunable(f)
  /\ P # {} => full
  /\ mIndex' = [b \in Block |->
        IF b \in InFiles(P)
        THEN [known |-> mIndex[b].known, data |-> Nowhere, undo |-> Nowhere]
        ELSE mIndex[b]]
  /\ mInfo' = [f \in File |-> IF f \in P THEN NoInfo ELSE mInfo[f]]
  /\ dirtyBlocks' = dirtyBlocks \cup InFiles(P)
  /\ dirtyFiles' = dirtyFiles \cup P
  /\ havePruned' = (havePruned \/ P # {})
  /\ dPruned' = FlaggedPruned(P)
  /\ flush' = [pc |-> "files", full |-> full, prune |-> P]
  /\ UNCHANGED <<node, cause, mLast, chain, at, dIndex, dInfo, dLast, files,
                 coinDB, crashes>>

FlushBlockFile ==
  /\ flush.pc = "files"
  /\ unsyncedBlk' = unsyncedBlk \ {mLast}
  /\ unsyncedRev' = unsyncedRev \ {mLast}
  /\ flush' = [flush EXCEPT !.pc = "index"]
  /\ UNCHANGED <<node, cause, index, chain, at, tree, blk, rev, coinDB, crashes>>

(* MUTANT of WrittenInfo: the file infos are left for a later batch.       *)
WrittenInfoLater == dInfo

WrittenInfo == [f \in File |-> IF f \in dirtyFiles THEN mInfo[f] ELSE dInfo[f]]

WriteBatchSync ==
  /\ flush.pc = "index"
  /\ dIndex' = [b \in Block |-> IF b \in dirtyBlocks THEN mIndex[b] ELSE dIndex[b]]
  /\ dInfo' = WrittenInfo
  /\ dLast' = mLast
  /\ dirtyBlocks' = {} /\ dirtyFiles' = {}
  /\ flush' = [flush EXCEPT !.pc = "unlink"]
  /\ UNCHANGED <<node, cause, mIndex, mInfo, mLast, havePruned, chain, at, dPruned,
                 files, coinDB, crashes>>

Emptied(content, P) == [p \in Place |-> IF p[1] \in P THEN NoBlock ELSE content[p]]

UnlinkPrunedFiles ==
  /\ flush.pc = "unlink"
  /\ blk' = Emptied(blk, flush.prune) /\ rev' = Emptied(rev, flush.prune)
  /\ flush' = IF flush.full /\ tip # NoBlock THEN [flush EXCEPT !.pc = "coins"]
              ELSE IdleFlush
  /\ UNCHANGED <<node, cause, index, chain, at, tree, unsyncedBlk, unsyncedRev,
                 coinDB, crashes>>

-----------------------------------------------------------------------------
(* CCoinsViewDB::BatchWrite, for a flush of the running node and for the   *)
(* one that ends a replay                                                  *)

Writing == flush.pc = "coins" \/ (node = "rolling" /\ at = heads.new)

HashBlock == IF node = "rolling" THEN heads.new ELSE tip
OldTip == IF best # NoBlock THEN best ELSE heads.old

(* MUTANT of MarkTransition: the old best block is kept in the database.   *)
MarkTransitionLate ==
  /\ best' = best
  /\ heads' = heads

(* The first batch marks the database as between two blocks.               *)
MarkTransition ==
  /\ best' = NoBlock
  /\ heads' = [new |-> HashBlock, old |-> OldTip]

(* A batch that is full holds any of the dirty entries: the cache is a     *)
(* hash map.                                                               *)
WritePartialBatch(S) ==
  /\ Writing
  /\ coins' = (coins \ S) \cup (view \cap S)
  /\ MarkTransition
  /\ UNCHANGED <<node, cause, index, chain, flush, at, tree, files, crashes>>

(* The last batch; then FlushStateToDisk or ReplayBlocks is done.          *)
WriteFinalBatch ==
  /\ Writing
  /\ coins' = view
  /\ best' = HashBlock /\ heads' = NoHeads
  /\ flush' = IdleFlush
  /\ node' = IF node = "rolling" THEN "replay" ELSE node
  /\ at' = NoBlock
  /\ UNCHANGED <<cause, index, chain, tree, files, crashes>>

-----------------------------------------------------------------------------
(* The process dies; memory is gone.                                       *)
Crash ==
  /\ node \notin {"down", "failed"}
  /\ crashes < MaxCrash
  /\ crashes' = crashes + 1
  /\ node' = "down"
  /\ mIndex' = [b \in Block |-> Unknown]
  /\ mInfo' = [f \in File |-> NoInfo]
  /\ mLast' = 0
  /\ dirtyBlocks' = {} /\ dirtyFiles' = {}
  /\ havePruned' = FALSE
  /\ tip' = NoBlock /\ view' = {}
  /\ flush' = IdleFlush /\ at' = NoBlock
  /\ UNCHANGED <<cause, tree, files, coinDB>>

Fail(why) ==
  /\ node' = "failed" /\ cause' = why
  /\ at' = NoBlock
  /\ UNCHANGED chain

Exists(f) == \E i \in Slot : blk[<<f, i>>] # NoBlock

(* LoadBlockIndexDB.                                                       *)
LoadBlockIndexDB ==
  /\ node = "down"
  /\ mIndex' = dIndex /\ mInfo' = dInfo /\ mLast' = dLast
  /\ havePruned' = dPruned
  /\ dirtyBlocks' = {} /\ dirtyFiles' = {}
  /\ IF \A b \in Block : dIndex[b].data # Nowhere => Exists(dIndex[b].data[1])
     THEN /\ node' = IF dIndex[Genesis].known THEN "replay" ELSE "genesis"
          /\ UNCHANGED <<cause, chain, at>>
     ELSE Fail("missing")
  /\ UNCHANGED <<flush, tree, files, coinDB, crashes>>

LoadGenesisBlock(f) ==
  /\ node = "genesis"
  /\ Store(Genesis, f)
  /\ node' = "replay"
  /\ UNCHANGED <<cause, chain, flush, at, tree, coinDB, crashes>>

(* ReplayBlocks finds a consistent database; LoadChainTip.                 *)
LoadChainTip ==
  /\ node = "replay" /\ heads = NoHeads
  /\ IF best # NoBlock /\ ~mIndex[best].known
     THEN Fail("unknown")
     ELSE /\ node' = "up" /\ tip' = best /\ view' = coins
          /\ UNCHANGED <<cause, at>>
  /\ UNCHANGED <<index, flush, tree, files, coinDB, crashes>>

KnownHeads ==
  /\ mIndex[heads.new].known
  /\ heads.old # NoBlock => mIndex[heads.old].known

(* The old tip is allowed to be null, indicating the first flush; the      *)
(* genesis block is never applied.                                         *)
RollFrom == IF heads.old = NoBlock THEN Genesis ELSE heads.old

RollsForward == heads.old = NoBlock \/ heads.old \in Path(heads.new)

(* ReplayBlocks up to the roll forward.  If the old tip is not an ancestor *)
(* of the new one its block is read and given to DisconnectBlock, which    *)
(* asserts that the view it gets is the one of that block; GetBestBlock()  *)
(* of a database in transition is null.                                    *)
ReplayBlocks ==
  /\ node = "replay" /\ heads # NoHeads
  /\ \/ ~KnownHeads /\ Fail("unknown")
     \/ /\ KnownHeads /\ RollsForward
        /\ node' = "rolling" /\ at' = RollFrom /\ view' = coins
        /\ UNCHANGED <<cause, tip>>
     \/ /\ KnownHeads /\ ~RollsForward
        /\ Fail(IF CanRead(heads.old) THEN "assert" ELSE "unreadable")
  /\ UNCHANGED <<index, flush, tree, files, coinDB, crashes>>

RollforwardBlock ==
  /\ node = "rolling" /\ at # heads.new
  /\ LET b == CHOOSE b \in Anc[heads.new] : b # Genesis /\ Parent[b] = at
     IN  IF CanRead(b)
         THEN /\ at' = b /\ view' = Apply(b, view)
              /\ UNCHANGED <<node, cause, tip>>
         ELSE Fail("unreadable")
  /\ UNCHANGED <<index, flush, tree, files, coinDB, crashes>>

Next ==
  \/ \E b \in Block, f \in File : AcceptBlock(b, f)
  \/ \E b \in Block : ConnectTip(b)
  \/ DisconnectTip
  \/ \E full \in BOOLEAN, P \in SUBSET File : BeginFlush(full, P)
  \/ FlushBlockFile \/ WriteBatchSync \/ UnlinkPrunedFiles
  \/ \E S \in SUBSET Coin : WritePartialBatch(S)
  \/ WriteFinalBatch
  \/ Crash
  \/ LoadBlockIndexDB
  \/ \E f \in File : LoadGenesisBlock(f)
  \/ LoadChainTip \/ ReplayBlocks \/ RollforwardBlock

Spec == Init /\ [][Next]_vars

-----------------------------------------------------------------------------
(* The coins database is never in doubt: either it names the block whose   *)
(* unspent outputs it holds, or it names two blocks and every output is as *)
(* after one of them (BatchWrite's DB_HEAD_BLOCKS, whenever the process    *)
(* dies, during a replay too).                                             *)
CoinsExact ==
  IF heads = NoHeads
  THEN coins = UTXO(best)
  ELSE best = NoBlock /\ \A o \in Coin :
         \/ o \in coins <=> o \in UTXO(heads.new)
         \/ o \in coins <=> o \in UTXO(heads.old)

(* A node that is up sees the coins of its tip, also when it came up after *)
(* a replay of a half-applied flush (ReplayBlocks, LoadChainTip).          *)
ViewExact == node = "up" => view = UTXO(tip)

(* BatchWrite: assert(old_heads[0] == hashBlock).                          *)
HeadsAgree == Writing /\ heads # NoHeads => heads.new = HashBlock

(* What the block tree database says is stored can be read back after a    *)
(* crash: no unindexed write of an earlier life, and no later one, landed  *)
(* on it, and the files are deleted only when the database has let go of   *)
(* them (FlushStateToDisk, FindBlockPos, UnlinkPrunedFiles).               *)
IndexedReadable ==
  \A b \in Block :
    /\ dIndex[b].data # Nowhere => blk[dIndex[b].data] = b
    /\ dIndex[b].undo # Nowhere => rev[dIndex[b].undo] = b

(* setDirtyBlockIndex and setDirtyFileInfo miss nothing: what is not dirty *)
(* is in the database as it is in memory.                                  *)
CleanIsWritten ==
  node \notin {"down", "failed"} =>
    /\ \A b \in Block \ dirtyBlocks : mIndex[b] = dIndex[b]
    /\ \A f \in File \ dirtyFiles : mInfo[f] = dInfo[f]

(* FlushStateToDisk: the coins "may refer to block index entries": the     *)
(* start never meets a coins database that names a block the block tree    *)
(* database does not know, nor an indexed block without its file, and a    *)
(* block that the replay cannot read was pruned.                           *)
StartKnowsBlocks ==
  /\ cause \notin {"unknown", "missing"}
  /\ cause = "unreadable" => dPruned

(* The comments of FlushStateToDisk: block data is synced before the index *)
(* that refers to it is written.                                           *)
DataSyncedFirst ==
  \A b \in Block :
    flush.pc = "unlink" /\ dIndex[b].data # Nowhere => dIndex[b].data[1] \notin unsyncedBlk

(* ReplayBlocks on a block whose flush was interrupted: "the result is     *)
(* still a version of the UTXO set with the effects of that block undone": *)
(* an interrupted flush of a reorganisation is replayed.                   *)
ReorgReplayed == cause # "assert"
=============================================================================
