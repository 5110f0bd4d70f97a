-------------------------- MODULE FlushStateProofs --------------------------
(***************************************************************************)
(* Crash safety of the flush and the replay, for any tree of blocks, any   *)
(* transactions and any number of crashes.                                 *)
(*                                                                         *)
(* DiskInv follows the block index and the files: what is on disk is       *)
(* consistent at any moment the process may die.                           *)
(*                                                                         *)
(* The coins database is followed by CoinInv: it says what the database,   *)
(* the view of a running node and the view of a replay that is under way   *)
(* have to do with UTXO(b).  The heart of it is Rolled: a coin that the    *)
(* blocks replayed so far touch is as after the last of them, any other    *)
(* one is still as the interrupted flush left it.                          *)
(***************************************************************************)
EXTENDS FlushState, TLAPS

(* Zenon is the prover of every step that does not name another.           *)
USE Zenon

-----------------------------------------------------------------------------
(* DiskInv follows the two copies of the block index and the files they    *)
(* point into.                                                             *)

Live == node \notin {"down", "failed"}

(* What an index with the file infos that go with it says of the files.    *)
Sound(idx, info) ==
  \A b \in Block :
    /\ idx[b].data # Nowhere =>
         /\ idx[b].known
         /\ blk[idx[b].data] = b
         /\ idx[b].data[2] <= info[idx[b].data[1]].size
    /\ idx[b].undo # Nowhere =>
         /\ idx[b].data # Nowhere
         /\ idx[b].undo[1] = idx[b].data[1]
         /\ rev[idx[b].undo] = b
         /\ idx[b].undo[2] <= info[idx[b].undo[1]].undo
    /\ idx[b].known => \A c \in Anc[b] : idx[c].known

(* Only blocks of the last file may still be unsynced.                     *)
Synced(idx, last) ==
  \A b \in Block : idx[b].data # Nowhere =>
    /\ idx[b].data[1] <= last
    /\ idx[b].data[1] < last => idx[b].data[1] \notin unsyncedBlk

AllStored(idx) == \A b \in Block : idx[b].known => idx[b].data # Nowhere

Avoids(idx, P) == \A b \in Block : idx[b].data # Nowhere => idx[b].data[1] \notin P

(* A file that is still written to is, in memory, at least as long as the  *)
(* database says.                                                          *)
Ahead ==
  /\ dLast <= mLast
  /\ \A f \in File :
       \/ mInfo[f].size = 0 /\ f < mLast
       \/ dInfo[f].size <= mInfo[f].size /\ dInfo[f].undo <= mInfo[f].undo

FlushPhases ==
  /\ flush.pc \in {"files", "index", "unlink"} => Avoids(mIndex, flush.prune)
  /\ flush.pc = "index" => mLast \notin unsyncedBlk
  /\ flush.pc = "unlink" => Avoids(dIndex, flush.prune) /\ dLast = mLast
                             /\ mLast \notin unsyncedBlk
  /\ flush.pc \in {"unlink", "coins"} => dirtyBlocks = {} /\ dirtyFiles = {}

InDB(b) == b # NoBlock => dIndex[b].known

DiskInv ==
  /\ TypeOK
  /\ Sound(dIndex, dInfo) /\ Synced(dIndex, dLast)
  /\ Live => Sound(mIndex, mInfo) /\ Synced(mIndex, mLast) /\ Ahead
  /\ Live => \A b \in Block : dIndex[b].known => mIndex[b].known
  /\ Live => havePruned = dPruned
  /\ dPruned \/ AllStored(dIndex)
  /\ Live => dPruned \/ AllStored(mIndex)
  /\ CleanIsWritten
  /\ FlushPhases
  /\ InDB(best) /\ InDB(heads.new) /\ InDB(heads.old)
  /\ node = "up" /\ tip # NoBlock => mIndex[tip].known
  /\ node = "genesis" => ~mIndex[Genesis].known
  /\ StartKnowsBlocks

LEMMA PlaceFacts ==
  /\ Nowhere \notin Place
  /\ \A p \in Place : p[1] \in File /\ p[2] \in Slot /\ p = <<p[1], p[2]>>
  /\ \A f \in File, n \in Slot : <<f, n>> \in Place
  /\ File \subseteq Int /\ Slot \subseteq Nat \ {0}
<1>1. File \subseteq Int /\ Slot \subseteq Nat \ {0} /\ -1 \notin File
  BY BoundsAssumption, SMT DEF File, Slot
<1> QED BY <1>1, SMT DEF Place, Nowhere

(* What the types say of one entry.                                        *)
LEMMA EntryFacts ==
  ASSUME TypeOK, NEW b \in Block
  PROVE  /\ mIndex[b] \in Entry /\ dIndex[b] \in Entry
         /\ mIndex[b].data # Nowhere => mIndex[b].data \in Place
         /\ mIndex[b].undo # Nowhere => mIndex[b].undo \in Place
         /\ dIndex[b].data # Nowhere => dIndex[b].data \in Place
         /\ dIndex[b].undo # Nowhere => dIndex[b].undo \in Place
BY DEF TypeOK, Entry

LEMMA InfoFacts ==
  ASSUME TypeOK, NEW f \in File
  PROVE  /\ mInfo[f] \in FileInfo /\ dInfo[f] \in FileInfo
         /\ mInfo[f].size \in Nat /\ mInfo[f].undo \in Nat
         /\ dInfo[f].size \in Nat /\ dInfo[f].undo \in Nat
BY BoundsAssumption, SMT DEF TypeOK, FileInfo

(* SaveBlockToDisk does not write over anything either index points to.    *)
LEMMA StoreStep ==
  ASSUME DiskInv, Live, NEW b \in Block, NEW f \in File, Store(b, f),
         mIndex[b].data = Nowhere,
         \A c \in Anc[b] \ {b} : mIndex[c].known,
         flush.pc = "idle",
         UNCHANGED <<cause, chain, flush, at, tree, coinDB, crashes>>,
         node' \in {"up", "replay"}, node' = "up" => node = "up", at = NoBlock
  PROVE  DiskInv'
<1> DEFINE p == FilePos(f)
<1>1. p \in Place /\ p # Nowhere /\ p[1] = f /\ p[2] = mInfo[f].size + 1
  BY PlaceFacts DEF Store, FilePos
<1>2. /\ blk' = [blk EXCEPT ![p] = b] /\ rev' = rev
      /\ mIndex' = [mIndex EXCEPT ![b] = [known |-> TRUE, data |-> p, undo |-> mIndex[b].undo]]
      /\ mLast' = f /\ f \in {mLast, mLast + 1} /\ havePruned' = havePruned
      /\ dirtyBlocks' = dirtyBlocks \cup {b} /\ dirtyFiles' = dirtyFiles \cup {f}
      /\ unsyncedBlk' = LeaveFile(f, unsyncedBlk) \cup {f}
      /\ unsyncedRev' = LeaveFile(f, unsyncedRev)
  BY DEF Store
<1>3. /\ mInfo' \in [File -> FileInfo]
      /\ mInfo'[f].size = mInfo[f].size + 1 /\ mInfo'[f].undo = mInfo[f].undo
      /\ \A g \in File : g # f => mInfo'[g] = mInfo[g]
  <2>1. mInfo \in [File -> FileInfo] /\ mInfo[f].size + 1 \in Slot
    BY DEF Store, DiskInv, TypeOK
  <2>2. mInfo' = [mInfo EXCEPT ![f] =
          [size |-> mInfo[f].size + 1, undo |-> mInfo[f].undo,
           heightLast |-> IF Height[b] > mInfo[f].heightLast THEN Height[b]
                          ELSE mInfo[f].heightLast]]
    BY DEF Store
  <2>3. Height[b] \in Nat
    BY TreeAssumption
  <2> QED BY <2>1, <2>2, <2>3, BoundsAssumption, SMT DEF FileInfo, Slot
<1> HIDE DEF p
<1>4. TypeOK
  BY DEF DiskInv
<1>s. Sound(dIndex, dInfo)
  BY DEF DiskInv
<1>m. Sound(mIndex, mInfo)
  BY DEF DiskInv
<1>y. Synced(dIndex, dLast) /\ Synced(mIndex, mLast)
  BY DEF DiskInv
<1>a. Ahead
  BY DEF DiskInv
<1>i. mLast \in Int /\ dLast \in Int /\ f \in Int
  BY <1>4, PlaceFacts DEF TypeOK
<1>5. dInfo[f].size <= mInfo[f].size
  BY <1>2, <1>a, <1>i, SMT DEF Ahead
<1>6. ASSUME NEW c \in Block, dIndex[c].data # Nowhere PROVE dIndex[c].data # p
  BY <1>1, <1>4, <1>s, <1>5, <1>6, EntryFacts, InfoFacts, PlaceFacts, SMT DEF Sound
<1>7. ASSUME NEW c \in Block, mIndex[c].data # Nowhere PROVE mIndex[c].data # p
  BY <1>1, <1>4, <1>m, <1>7, EntryFacts, InfoFacts, PlaceFacts, SMT DEF Sound
<1>8. mIndex[b].undo = Nowhere
  BY <1>m DEF Sound
<1>9. /\ mIndex'[b] = [known |-> TRUE, data |-> p, undo |-> Nowhere]
      /\ \A c \in Block : c # b => mIndex'[c] = mIndex[c]
      /\ mIndex' \in [Block -> Entry]
  BY <1>1, <1>2, <1>4, <1>8 DEF TypeOK, Entry
<1>10. /\ blk'[p] = b /\ blk' \in [Place -> Block \cup {NoBlock}]
       /\ \A q \in Place : q # p => blk'[q] = blk[q]
  BY <1>1, <1>2, <1>4 DEF TypeOK
<1>11. TypeOK'
  <2>1. LeaveFile(f, unsyncedBlk) \subseteq File /\ LeaveFile(f, unsyncedRev) \subseteq File
    BY <1>4 DEF LeaveFile, TypeOK
  <2> QED BY <1>2, <1>3, <1>4, <1>9, <1>10, <2>1, SMT DEF TypeOK, chain, tree, coinDB
<1>12. Sound(dIndex, dInfo)'
  BY <1>2, <1>4, <1>s, <1>6, <1>10, EntryFacts DEF Sound, tree
<1>13. Sound(mIndex, mInfo)'
  <2> SUFFICES ASSUME NEW c \in Block
               PROVE  /\ mIndex'[c].data # Nowhere =>
                           /\ mIndex'[c].known
                           /\ blk'[mIndex'[c].data] = c
                           /\ mIndex'[c].data[2] <= mInfo'[mIndex'[c].data[1]].size
                      /\ mIndex'[c].undo # Nowhere =>
                           /\ mIndex'[c].data # Nowhere
                           /\ mIndex'[c].undo[1] = mIndex'[c].data[1]
                           /\ rev'[mIndex'[c].undo] = c
                           /\ mIndex'[c].undo[2] <= mInfo'[mIndex'[c].undo[1]].undo
                      /\ mIndex'[c].known => \A d \in Anc[c] : mIndex'[d].known
    BY DEF Sound
  <2>1. \A d \in Block : mIndex[d].known => mIndex'[d].known
    BY <1>9, SMT
  <2>2. mIndex'[c].known => \A d \in Anc[c] : mIndex'[d].known
    BY <1>m, <1>9, <2>1, TreeAssumption DEF Sound
  <2>3. CASE c = b
    BY <2>2, <2>3, <1>1, <1>3, <1>4, <1>9, <1>10, InfoFacts, SMT
  <2>4. CASE c # b
    <3>1. mIndex'[c] = mIndex[c]
      BY <2>4, <1>9
    <3>2. \A g \in File : mInfo[g].size <= mInfo'[g].size /\ mInfo[g].undo <= mInfo'[g].undo
                           /\ mInfo'[g].size \in Nat /\ mInfo'[g].undo \in Nat
      BY <1>3, <1>4, InfoFacts, SMT
    <3>3. ASSUME mIndex[c].data # Nowhere
          PROVE  /\ mIndex[c].known /\ blk'[mIndex[c].data] = c
                 /\ mIndex[c].data[2] <= mInfo'[mIndex[c].data[1]].size
      BY <3>2, <3>3, <1>4, <1>m, <1>7, <1>10, EntryFacts, InfoFacts, PlaceFacts, SMT DEF Sound
    <3>4. ASSUME mIndex[c].undo # Nowhere
          PROVE  /\ mIndex[c].data # Nowhere
                 /\ mIndex[c].undo[1] = mIndex[c].data[1]
                 /\ rev'[mIndex[c].undo] = c
                 /\ mIndex[c].undo[2] <= mInfo'[mIndex[c].undo[1]].undo
      BY <3>2, <3>4, <1>2, <1>4, <1>m, EntryFacts, InfoFacts, PlaceFacts, SMT DEF Sound
    <3> QED BY <2>2, <3>1, <3>3, <3>4
  <2> QED BY <2>3, <2>4
<1>14. unsyncedBlk' \subseteq unsyncedBlk \cup {f} /\ (f # mLast => mLast \notin unsyncedBlk')
  BY <1>2 DEF LeaveFile
<1>15. Synced(dIndex, dLast)'
  BY <1>2, <1>4, <1>y, <1>a, <1>i, <1>14, EntryFacts, PlaceFacts, SMT DEF Synced, Ahead, tree
<1>16. Synced(mIndex, mLast)'
  <2> SUFFICES ASSUME NEW c \in Block, mIndex'[c].data # Nowhere
               PROVE  /\ mIndex'[c].data[1] <= f
                      /\ mIndex'[c].data[1] < f => mIndex'[c].data[1] \notin unsyncedBlk'
    BY <1>2 DEF Synced
  <2>1. CASE c = b
    BY <2>1, <1>1, <1>i, <1>9, SMT
  <2>2. CASE c # b
    <3>1. mIndex'[c] = mIndex[c] /\ mIndex[c].data \in Place /\ mIndex[c].data[1] \in Int
      BY <2>2, <1>4, <1>9, EntryFacts, PlaceFacts
    <3>2. mIndex[c].data[1] <= mLast /\ (mIndex[c].data[1] < mLast => mIndex[c].data[1] \notin unsyncedBlk)
      BY <3>1, <1>y DEF Synced
    <3> QED BY <3>1, <3>2, <1>2, <1>i, <1>14, SMT
  <2> QED BY <2>1, <2>2
<1>17. Ahead'
  BY <1>2, <1>3, <1>4, <1>a, <1>i, InfoFacts, PlaceFacts, SMT DEF Ahead, tree
<1>18. (\A c \in Block : dIndex[c].known => mIndex[c].known)'
       /\ (dPruned \/ AllStored(dIndex))' /\ (dPruned \/ AllStored(mIndex))'
  BY <1>1, <1>9, SMT DEF DiskInv, AllStored, tree
<1>19. CleanIsWritten'
  BY <1>2, <1>3, <1>9 DEF DiskInv, CleanIsWritten, Live, tree
<1>20. FlushPhases' /\ (InDB(best) /\ InDB(heads.new) /\ InDB(heads.old))' /\ StartKnowsBlocks'
  BY DEF DiskInv, FlushPhases, InDB, StartKnowsBlocks, tree, coinDB
<1>21. (node = "up" /\ tip # NoBlock => mIndex[tip].known)' /\ (node # "genesis")'
  BY <1>9, SMT DEF DiskInv, TypeOK, chain
<1>22. (havePruned = dPruned)'
  BY <1>2 DEF DiskInv, tree
<1> QED BY <1>11, <1>12, <1>13, <1>15, <1>16, <1>17, <1>18, <1>19, <1>20, <1>21, <1>22 DEF DiskInv

(* WriteUndoDataForBlock does not either.                                  *)
LEMMA UndoStep ==
  ASSUME DiskInv, Live, NEW b \in Block, WriteUndo(b), CanRead(b),
         b # Genesis, mIndex[b].undo = Nowhere,
         flush.pc = "idle", tip' = b, TypeOK',
         UNCHANGED <<node, cause, flush, at, tree, coinDB, crashes>>
  PROVE  DiskInv'
<1> DEFINE f == mIndex[b].data[1]
           p == <<f, mInfo[f].undo + 1>>
<1>1. TypeOK
  BY DEF DiskInv
<1>s. Sound(dIndex, dInfo)
  BY DEF DiskInv
<1>m. Sound(mIndex, mInfo)
  BY DEF DiskInv
<1>y. Synced(dIndex, dLast) /\ Synced(mIndex, mLast)
  BY DEF DiskInv
<1>a. Ahead
  BY DEF DiskInv
<1>2. /\ mIndex[b].data # Nowhere /\ mIndex[b].known
      /\ mIndex[b].data \in Place /\ f \in File /\ mInfo[f].size # 0
  BY <1>1, <1>m, EntryFacts, InfoFacts, PlaceFacts, SMT DEF CanRead, Sound
<1>3. /\ p \in Place /\ p # Nowhere /\ p[1] = f /\ p[2] = mInfo[f].undo + 1
      /\ rev' = [rev EXCEPT ![p] = b] /\ blk' = blk /\ unsyncedBlk' = unsyncedBlk
      /\ mLast' = mLast /\ havePruned' = havePruned
      /\ dirtyBlocks' = dirtyBlocks \cup {b} /\ dirtyFiles' = dirtyFiles \cup {f}
      /\ mInfo' = [mInfo EXCEPT ![f] =
            [size |-> @.size, undo |-> @.undo + 1, heightLast |-> @.heightLast]]
      /\ mIndex' = [mIndex EXCEPT ![b] =
            [known |-> @.known, data |-> @.data, undo |-> p]]
  BY PlaceFacts DEF WriteUndo
<1> HIDE DEF f, p
<1>4. /\ \A g \in File : mInfo'[g].size = mInfo[g].size
      /\ \A g \in File : g # f => mInfo'[g] = mInfo[g]
      /\ mInfo'[f].undo = mInfo[f].undo + 1
  <2>1. mInfo \in [File -> FileInfo]
    BY <1>1 DEF TypeOK
  <2>2. mInfo' = [mInfo EXCEPT ![f] =
            [size |-> mInfo[f].size, undo |-> mInfo[f].undo + 1,
             heightLast |-> mInfo[f].heightLast]]
    BY <1>3
  <2> QED BY <1>2, <2>1, <2>2
<1>5. /\ \A c \in Block : c # b => mIndex'[c] = mIndex[c]
      /\ mIndex'[b].undo = p /\ mIndex'[b].data = mIndex[b].data
      /\ mIndex'[b].known = mIndex[b].known
  <2>1. mIndex \in [Block -> Entry]
    BY <1>1 DEF TypeOK
  <2>2. mIndex' = [mIndex EXCEPT ![b] =
            [known |-> mIndex[b].known, data |-> mIndex[b].data, undo |-> p]]
    BY <1>3
  <2> QED BY <2>1, <2>2
<1>6. \A c \in Block : /\ mIndex'[c].data = mIndex[c].data
                        /\ mIndex'[c].known = mIndex[c].known
  BY <1>5
<1>7. dInfo[f].undo <= mInfo[f].undo
  BY <1>a, <1>2 DEF Ahead
<1>8. ASSUME NEW c \in Block, dIndex[c].undo # Nowhere PROVE dIndex[c].undo # p
  BY <1>1, <1>s, <1>2, <1>3, <1>7, <1>8, EntryFacts, InfoFacts, PlaceFacts, SMT DEF Sound
<1>9. ASSUME NEW c \in Block, mIndex[c].undo # Nowhere PROVE mIndex[c].undo # p
  BY <1>1, <1>m, <1>2, <1>3, <1>9, EntryFacts, InfoFacts, PlaceFacts, SMT DEF Sound
<1>10. rev'[p] = b /\ \A q \in Place : q # p => rev'[q] = rev[q]
  BY <1>1, <1>3 DEF TypeOK
<1>11. Sound(dIndex, dInfo)'
  BY <1>1, <1>s, <1>3, <1>8, <1>10, EntryFacts DEF Sound, tree
<1>12. Sound(mIndex, mInfo)'
  <2>1. \A g \in File : mInfo[g].undo <= mInfo'[g].undo /\ mInfo'[g].undo \in Nat
    BY <1>1, <1>2, <1>4, InfoFacts, SMT
  <2>2. ASSUME NEW c \in Block, mIndex'[c].undo # Nowhere
        PROVE  /\ mIndex'[c].data # Nowhere
               /\ mIndex'[c].undo[1] = mIndex'[c].data[1]
               /\ rev'[mIndex'[c].undo] = c
               /\ mIndex'[c].undo[2] <= mInfo'[mIndex'[c].undo[1]].undo
    <3>1. CASE c = b
      <4>1. mIndex'[b].data[1] = f
        BY <1>5 DEF f
      <4>2. mInfo[f].undo \in Nat
        BY <1>1, <1>2, InfoFacts
      <4>3. p[2] <= mInfo'[f].undo
        BY <4>2, <1>3, <1>4, SMT
      <4> QED BY <3>1, <4>1, <4>3, <1>2, <1>3, <1>5, <1>10, SMT
    <3>2. CASE c # b
      <4>1. mIndex'[c] = mIndex[c] /\ mIndex[c].undo # p /\ mIndex[c].undo \in Place
        BY <3>2, <2>2, <1>1, <1>5, <1>9, EntryFacts
      <4>2. /\ mIndex[c].undo[1] \in File /\ mIndex[c].undo[2] \in Nat
        BY <4>1, PlaceFacts
      <4>3. /\ mIndex[c].data # Nowhere /\ mIndex[c].undo[1] = mIndex[c].data[1]
            /\ rev[mIndex[c].undo] = c
            /\ mIndex[c].undo[2] <= mInfo[mIndex[c].undo[1]].undo
        BY <4>1, <2>2, <1>m DEF Sound
      <4>4. mInfo[mIndex[c].undo[1]].undo \in Nat
        BY <4>2, <1>1, InfoFacts
      <4>5. mIndex[c].undo[2] <= mInfo'[mIndex[c].undo[1]].undo
        BY <4>2, <4>3, <4>4, <2>1, SMT
      <4> QED BY <4>1, <4>3, <4>5, <1>10
    <3> QED BY <3>1, <3>2
  <2>3. ASSUME NEW c \in Block, mIndex'[c].data # Nowhere
        PROVE  /\ mIndex'[c].known
               /\ blk'[mIndex'[c].data] = c
               /\ mIndex'[c].data[2] <= mInfo'[mIndex'[c].data[1]].size
    <3>1. mIndex'[c].data = mIndex[c].data /\ mIndex'[c].known = mIndex[c].known
      BY <1>6
    <3>2. mIndex[c].data # Nowhere
      BY <2>3, <3>1
    <3>3. /\ mIndex[c].known /\ blk[mIndex[c].data] = c
          /\ mIndex[c].data[2] <= mInfo[mIndex[c].data[1]].size
      BY <3>2, <1>m DEF Sound
    <3>4. mIndex[c].data[1] \in File
      BY <3>2, <1>1, EntryFacts, PlaceFacts
    <3>5. mInfo'[mIndex[c].data[1]].size = mInfo[mIndex[c].data[1]].size
      BY <3>4, <1>4
    <3> QED BY <3>1, <3>3, <3>5, <1>3
  <2>4. ASSUME NEW c \in Block, mIndex'[c].known
        PROVE  \A d \in Anc[c] : mIndex'[d].known
    BY <2>4, <1>m, <1>6, TreeAssumption DEF Sound
  <2> QED BY <2>2, <2>3, <2>4 DEF Sound
<1>13. Synced(dIndex, dLast)' /\ Synced(mIndex, mLast)'
  BY <1>y, <1>3, <1>6, SMT DEF Synced, tree
<1>14. Ahead'
  BY <1>1, <1>a, <1>2, <1>3, <1>4, InfoFacts, SMT DEF Ahead, tree
<1>15. (\A c \in Block : dIndex[c].known => mIndex[c].known)'
       /\ (dPruned \/ AllStored(dIndex))' /\ (dPruned \/ AllStored(mIndex))'
  BY <1>6 DEF DiskInv, AllStored, tree
<1>16. CleanIsWritten'
  BY <1>3, <1>4, <1>5, SMT DEF DiskInv, CleanIsWritten, Live, tree
<1>17. FlushPhases' /\ (InDB(best) /\ InDB(heads.new) /\ InDB(heads.old))' /\ StartKnowsBlocks'
  BY DEF DiskInv, FlushPhases, InDB, StartKnowsBlocks, tree, coinDB
<1>18. (node = "up" /\ tip # NoBlock => mIndex[tip].known)'
       /\ (node = "genesis" => ~mIndex[Genesis].known)'
  BY <1>2, <1>6, TreeAssumption DEF DiskInv
<1>19. (havePruned = dPruned)'
  BY <1>3 DEF DiskInv, tree
<1> QED BY <1>11, <1>12, <1>13, <1>14, <1>15, <1>16, <1>17, <1>18, <1>19 DEF DiskInv

(* A step that leaves both copies of the index and the files alone.        *)
LEMMA DiskFrame ==
  ASSUME DiskInv, UNCHANGED <<index, tree, files>>, TypeOK', FlushPhases',
         (InDB(best) /\ InDB(heads.new) /\ InDB(heads.old))',
         (node = "up" /\ tip # NoBlock => mIndex[tip].known)',
         node' = "genesis" => node = "genesis", Live' => Live,
         StartKnowsBlocks'
  PROVE  DiskInv'
<1> USE DEF index, tree, files
<1>1. Sound(dIndex, dInfo)' /\ Synced(dIndex, dLast)' /\ (dPruned \/ AllStored(dIndex))'
  BY DEF DiskInv, Sound, Synced, AllStored
<1>2. ASSUME Live'
      PROVE  (Sound(mIndex, mInfo) /\ Synced(mIndex, mLast) /\ Ahead
               /\ (\A b \in Block : dIndex[b].known => mIndex[b].known)
               /\ havePruned = dPruned /\ (dPruned \/ AllStored(mIndex)))'
  BY <1>2 DEF DiskInv, Sound, Synced, Ahead, AllStored
<1>3. CleanIsWritten'
  BY DEF DiskInv, CleanIsWritten, Live
<1> QED BY <1>1, <1>2, <1>3 DEF DiskInv
-----------------------------------------------------------------------------
(* The coins                                                               *)

Null == Block \cup {NoBlock}

Touched(o, S) == \E c \in S : o \in Creates[c] \cup Spends[c]

(* As after the old or after the new block of the interrupted flush.       *)
Between(o, S) ==
  \/ o \in S <=> o \in UTXO(heads.new)
  \/ o \in S <=> o \in UTXO(heads.old)

Rolled ==
  \A o \in Coin :
    IF Touched(o, Path(at) \ Path(heads.old))
    THEN o \in view <=> o \in UTXO(at)
    ELSE Between(o, view)

FlushType ==
  flush \in [pc : {"idle", "files", "index", "unlink", "coins"},
             full : BOOLEAN, prune : SUBSET File]

CoinType ==
  /\ tip \in Null /\ best \in Null /\ at \in Null
  /\ heads \in [new : Null, old : Null]
  /\ view \in SUBSET Coin /\ coins \in SUBSET Coin
  /\ FlushType

CoinInv ==
  /\ CoinType
  /\ heads # NoHeads => heads.new \in Block
  /\ CoinsExact
  /\ ViewExact
  /\ flush.pc # "idle" => node = "up"
  /\ flush.pc = "coins" => tip # NoBlock
  /\ node = "up" /\ heads # NoHeads => flush.pc = "coins" /\ heads.new = tip
  /\ node = "rolling" =>
       /\ heads # NoHeads
       /\ at \in Anc[heads.new]
       /\ heads.old \in Path(at) \cup {NoBlock}
       /\ Rolled

-----------------------------------------------------------------------------
(* The reference definition, block by block                                *)

LEMMA EmptyChain == UTXO(NoBlock) = {} /\ UTXO(Genesis) = {}
BY TreeAssumption, CoinAssumption DEF UTXO, Path

(* ConnectBlock: the unspent outputs after b from those before it.         *)
LEMMA ApplyExact ==
  ASSUME NEW b \in Block \ {Genesis}
  PROVE  UTXO(b) = Apply(b, UTXO(Parent[b]))
<1>1. /\ Parent[b] \in Block /\ Anc[b] = Anc[Parent[b]] \cup {b}
      /\ b \notin Anc[Parent[b]] /\ b # NoBlock /\ Parent[b] # NoBlock
  BY TreeAssumption, SMT
<1>2. Path(b) = Path(Parent[b]) \cup {b}
  BY <1>1 DEF Path
<1>3. ASSUME NEW o \in Creates[b], NEW c \in Anc[Parent[b]]
      PROVE  o \notin Spends[c]
  <2>1. SUFFICES ASSUME o \in Spends[c] PROVE FALSE
    OBVIOUS
  <2>2. c \in Block /\ Anc[c] \subseteq Anc[Parent[b]]
    BY <1>1, TreeAssumption
  <2>3. PICK d \in Anc[c] : o \in Creates[d]
    BY <2>1, <2>2, CoinAssumption
  <2>4. d \in Anc[b] /\ d # b /\ b \in Anc[b]
    BY <1>1, <2>2, <2>3
  <2> QED BY <2>3, <2>4, CoinAssumption
<1>4. Creates[b] \subseteq Coin
  BY CoinAssumption
<1> QED BY <1>1, <1>2, <1>3, <1>4 DEF UTXO, Apply, Path

(* DisconnectBlock: and the other way round.                               *)
LEMMA UndoExact ==
  ASSUME NEW b \in Block \ {Genesis}
  PROVE  UTXO(Parent[b]) = Undo(b, UTXO(b))
<1>1. /\ Parent[b] \in Block /\ Anc[b] = Anc[Parent[b]] \cup {b}
      /\ b \notin Anc[Parent[b]] /\ b # NoBlock /\ Parent[b] # NoBlock
  BY TreeAssumption, SMT
<1>2. Path(b) = Path(Parent[b]) \cup {b} /\ Path(Parent[b]) = Anc[Parent[b]]
  BY <1>1 DEF Path
<1>3. \A c \in Anc[Parent[b]] : Creates[c] \cap Creates[b] = {} /\ Spends[c] \cap Spends[b] = {}
  BY <1>1, CoinAssumption
<1>4. \A o \in Spends[b] : o \in Creates[b] \/ \E c \in Anc[Parent[b]] : o \in Creates[c]
  BY <1>1, CoinAssumption
<1>5. Spends[b] \subseteq Coin /\ Creates[b] \subseteq Coin
  BY CoinAssumption
<1> QED BY <1>1, <1>2, <1>3, <1>4, <1>5 DEF UTXO, Undo

-----------------------------------------------------------------------------
(* CoinInv is inductive                                                    *)

(* A replay that has reached the new block has the coins of that block,    *)
(* however much of the flush had been written.                             *)
LEMMA ReplayedExact ==
  ASSUME CoinInv, node = "rolling", at = heads.new
  PROVE  view = UTXO(heads.new)
<1>1. /\ heads.new \in Block /\ heads.old \in Path(at) \cup {NoBlock} /\ Rolled
      /\ view \in SUBSET Coin /\ UTXO(heads.new) \subseteq Coin
  BY DEF CoinInv, CoinType, UTXO
<1>2. Path(heads.old) \subseteq Path(heads.new)
  BY <1>1, TreeAssumption DEF Path
<1>3. ASSUME NEW o \in Coin, ~Touched(o, Path(at) \ Path(heads.old))
      PROVE  o \in UTXO(heads.new) <=> o \in UTXO(heads.old)
  BY <1>2, <1>3 DEF Touched, UTXO
<1> QED BY <1>1, <1>3 DEF Rolled, Between

LEMMA CoinInit == Init => CoinInv
BY EmptyChain, SMT DEF Init, CoinInv, CoinType, FlushType, CoinsExact, ViewExact,
   IdleFlush, NoHeads, Null

LEMMA CoinConnect ==
  ASSUME CoinInv, NEW b \in Block, ConnectTip(b)
  PROVE  CoinInv'
<1>1. tip' = b /\ view' = Apply(b, view) /\ view = UTXO(tip) /\ node = "up"
  BY DEF ConnectTip, Running, CoinInv, ViewExact
<1>2. UTXO(b) = Apply(b, view)
  <2>1. CASE tip = NoBlock
    BY <2>1, <1>1, EmptyChain, CoinAssumption DEF ConnectTip, Apply
  <2>2. CASE tip # NoBlock
    BY <2>2, <1>1, ApplyExact DEF ConnectTip
  <2> QED BY <2>1, <2>2
<1>3. CoinType'
  BY <1>1, <1>2 DEF ConnectTip, coinDB, CoinInv, CoinType, FlushType, UTXO, Null
<1>4. CoinsExact' /\ ViewExact'
  BY <1>1, <1>2 DEF ConnectTip, coinDB, CoinInv, CoinsExact, ViewExact, UTXO, Path
<1> QED BY <1>1, <1>3, <1>4 DEF ConnectTip, Running, coinDB, CoinInv, NoHeads

LEMMA CoinDisconnect ==
  ASSUME CoinInv, DisconnectTip
  PROVE  CoinInv'
<1>1. /\ tip \in Block \ {Genesis} /\ tip' = Parent[tip] /\ view' = Undo(tip, view)
      /\ view = UTXO(tip) /\ node = "up" /\ Parent[tip] \in Block
  BY TreeAssumption DEF DisconnectTip, Running, CoinInv, CoinType, ViewExact, Null
<1>2. UTXO(Parent[tip]) = Undo(tip, view)
  BY <1>1, UndoExact
<1>3. CoinType'
  BY <1>1, <1>2 DEF DisconnectTip, coinDB, CoinInv, CoinType, FlushType, UTXO, Null
<1>4. CoinsExact' /\ ViewExact'
  BY <1>1, <1>2 DEF DisconnectTip, coinDB, CoinInv, CoinsExact, ViewExact, UTXO, Path
<1> QED BY <1>1, <1>3, <1>4 DEF DisconnectTip, Running, coinDB, CoinInv, NoHeads

(* A step that leaves the coins and the chain alone.                       *)
LEMMA CoinFrame ==
  ASSUME CoinInv, UNCHANGED <<chain, coinDB, at>>, FlushType',
         node = "rolling" <=> node' = "rolling", node' = "up" => node = "up",
         flush'.pc # "idle" => node' = "up",
         flush'.pc = "coins" => tip # NoBlock,
         node' = "up" /\ flush.pc = "coins" => flush'.pc = "coins"
  PROVE  CoinInv'
<1>1. CoinType'
  BY DEF CoinInv, CoinType, chain, coinDB
<1>2. CoinsExact' /\ ViewExact'
  BY DEF chain, coinDB, CoinInv, CoinsExact, ViewExact, UTXO, Path, NoHeads
<1>3. Rolled' = Rolled
  BY DEF chain, coinDB, Rolled, Touched, Between, UTXO, Path
<1> QED BY <1>1, <1>2, <1>3 DEF CoinInv, chain, coinDB, NoHeads, Path

LEMMA CoinPartialBatch ==
  ASSUME CoinInv, NEW S \in SUBSET Coin, WritePartialBatch(S)
  PROVE  CoinInv'
<1> USE DEF WritePartialBatch, MarkTransition, HashBlock, OldTip, chain
<1>1. CASE node = "rolling"
  <2>1. at = heads.new /\ flush.pc # "coins" /\ heads # NoHeads
    BY <1>1 DEF Writing, CoinInv
  <2>2. best = NoBlock /\ \A o \in Coin : Between(o, coins)
    BY <2>1 DEF CoinInv, CoinsExact, Between
  <2>3. heads' = heads /\ best' = NoBlock
    BY <1>1, <2>2 DEF CoinInv, CoinType
  <2>4. view = UTXO(heads.new)
    BY <1>1, <2>1, ReplayedExact
  <2>5. CoinsExact'
    BY <2>1, <2>2, <2>3, <2>4 DEF CoinsExact, Between, UTXO, Path
  <2>6. CoinType'
    BY <2>3 DEF CoinInv, CoinType, FlushType, Null
  <2>7. Rolled' = Rolled
    BY <2>3 DEF Rolled, Touched, Between, UTXO, Path
  <2> QED BY <1>1, <2>1, <2>3, <2>5, <2>6, <2>7 DEF CoinInv, ViewExact, NoHeads, Path
<1>2. CASE node # "rolling"
  <2>1. node = "up" /\ flush.pc = "coins" /\ tip \in Block /\ view = UTXO(tip)
    BY <1>2 DEF Writing, CoinInv, CoinType, ViewExact, Null
  <2>2. best' = NoBlock /\ heads'.new = tip /\ heads' # NoHeads
    BY <1>2, <2>1, TreeAssumption DEF NoHeads
  <2>3. \A o \in Coin : \/ o \in coins <=> o \in UTXO(tip)
                        \/ o \in coins <=> o \in UTXO(heads'.old)
    <3>1. CASE heads = NoHeads
      <4>1. heads'.old = best
        BY <3>1 DEF NoHeads
      <4> QED BY <3>1, <4>1 DEF CoinInv, CoinsExact
    <3>2. CASE heads # NoHeads
      <4>1. best = NoBlock /\ heads.new = tip /\ heads'.old = heads.old
        BY <3>2, <2>1 DEF CoinInv, CoinsExact
      <4> QED BY <3>2, <4>1 DEF CoinInv, CoinsExact
    <3> QED BY <3>1, <3>2
  <2>4. CoinsExact'
    <3>1. \A o \in Coin : \/ o \in coins' <=> o \in UTXO(heads'.new)
                          \/ o \in coins' <=> o \in UTXO(heads'.old)
      BY <2>1, <2>2, <2>3
    <3> QED BY <2>2, <3>1 DEF CoinsExact, UTXO, Path, NoHeads
  <2>5. CoinType'
    BY <1>2, <2>1 DEF CoinInv, CoinType, FlushType, Null
  <2> QED BY <2>1, <2>2, <2>4, <2>5 DEF CoinInv, ViewExact, NoHeads, UTXO, Path
<1> QED BY <1>1, <1>2

LEMMA CoinFinalBatch ==
  ASSUME CoinInv, WriteFinalBatch
  PROVE  CoinInv'
<1> USE DEF WriteFinalBatch, HashBlock, chain
<1>1. HashBlock \in Block /\ view = UTXO(HashBlock)
  <2>1. CASE node = "rolling"
    BY <2>1, ReplayedExact DEF Writing, CoinInv
  <2>2. CASE node # "rolling"
    BY <2>2 DEF Writing, CoinInv, CoinType, ViewExact, Null
  <2> QED BY <2>1, <2>2
<1>2. CoinsExact'
  <2>1. coins' = UTXO(best')
    BY <1>1
  <2> QED BY <2>1 DEF CoinsExact, UTXO, Path, NoHeads
<1>3. CoinType'
  BY <1>1 DEF CoinInv, CoinType, FlushType, IdleFlush, NoHeads, Null
<1>4. ViewExact'
  BY DEF ViewExact, UTXO, Path, CoinInv
<1> QED BY <1>1, <1>2, <1>3, <1>4 DEF CoinInv, NoHeads, IdleFlush

(* The steps after which there is no chain in memory, or the node is not   *)
(* up.                                                                     *)
LEMMA CoinNotUp ==
  ASSUME CoinInv, UNCHANGED coinDB, CoinType', node' \notin {"up", "rolling"},
         flush'.pc = "idle"
  PROVE  CoinInv'
<1>1. CoinsExact'
  BY DEF coinDB, CoinInv, CoinsExact, UTXO, Path, NoHeads
<1> QED BY <1>1 DEF CoinInv, ViewExact, coinDB, NoHeads

LEMMA CoinCrash ==
  ASSUME CoinInv, Crash
  PROVE  CoinInv'
<1>1. CoinType'
  BY DEF Crash, coinDB, CoinInv, CoinType, FlushType, IdleFlush, Null
<1> QED BY <1>1, CoinNotUp DEF Crash, IdleFlush

LEMMA CoinLoadTip ==
  ASSUME CoinInv, LoadChainTip
  PROVE  CoinInv'
<1>1. flush.pc = "idle" /\ UNCHANGED <<coinDB, flush>> /\ heads = NoHeads
  BY DEF LoadChainTip, CoinInv, CoinType, FlushType
<1>2. CASE best # NoBlock /\ ~mIndex[best].known
  <2>1. CoinType' /\ node' = "failed"
    BY <1>1, <1>2 DEF LoadChainTip, Fail, coinDB, chain, CoinInv, CoinType, FlushType, Null
  <2> QED BY <1>1, <2>1, CoinNotUp
<1>3. CASE ~(best # NoBlock /\ ~mIndex[best].known)
  <2>1. node' = "up" /\ tip' = best /\ view' = coins /\ at' = at
    BY <1>3 DEF LoadChainTip
  <2>2. CoinType'
    BY <1>1, <2>1 DEF coinDB, CoinInv, CoinType, FlushType, Null
  <2>3. CoinsExact' /\ ViewExact'
    BY <1>1, <2>1 DEF coinDB, CoinInv, CoinsExact, ViewExact, UTXO, Path, NoHeads
  <2> QED BY <1>1, <2>1, <2>2, <2>3 DEF CoinInv, coinDB, NoHeads
<1> QED BY <1>2, <1>3

LEMMA CoinReplay ==
  ASSUME CoinInv, ReplayBlocks
  PROVE  CoinInv'
<1>1. /\ flush.pc = "idle" /\ UNCHANGED <<coinDB, flush>> /\ heads # NoHeads
      /\ heads.new \in Block
  BY DEF ReplayBlocks, CoinInv, CoinType, FlushType
<1>2. CASE KnownHeads /\ RollsForward
  <2>1. node' = "rolling" /\ at' = RollFrom /\ view' = coins /\ tip' = tip
    BY <1>2 DEF ReplayBlocks
  <2>2. /\ at' \in Anc[heads.new] /\ at' \in Block
        /\ heads.old \in Path(at') \cup {NoBlock}
        /\ \A o : ~Touched(o, Path(at') \ Path(heads.old))
    <3>1. CASE heads.old = NoBlock
      BY <3>1, <2>1, <1>1, TreeAssumption, CoinAssumption DEF RollFrom, Path, Touched
    <3>2. CASE heads.old # NoBlock
      BY <3>2, <2>1, <1>1, <1>2, TreeAssumption, SMT DEF RollFrom, RollsForward, Path, Touched
    <3> QED BY <3>1, <3>2
  <2>3. \A o \in Coin : Between(o, coins)
    BY <1>1 DEF CoinInv, CoinsExact, Between
  <2>4. CoinType'
    BY <1>1, <2>1, <2>2 DEF coinDB, CoinInv, CoinType, FlushType, Null
  <2>5. CoinsExact' /\ ViewExact'
    BY <1>1, <2>1 DEF coinDB, CoinInv, CoinsExact, ViewExact, UTXO, Path, NoHeads
  <2>6. Rolled'
    <3>1. heads' = heads
      BY <1>1 DEF coinDB
    <3>2. \A o \in Coin : Between(o, view)'
      BY <2>1, <2>3, <3>1 DEF Between, UTXO, Path
    <3>3. \A o \in Coin : ~Touched(o, Path(at) \ Path(heads.old))'
      BY <2>2, <3>1 DEF Touched, Path
    <3> QED BY <3>2, <3>3 DEF Rolled
  <2> QED BY <1>1, <2>1, <2>2, <2>4, <2>5, <2>6 DEF CoinInv, coinDB, NoHeads, Path
<1>3. CASE ~(KnownHeads /\ RollsForward)
  <2>1. node' = "failed" /\ at' = NoBlock /\ UNCHANGED chain
    BY <1>3 DEF ReplayBlocks, Fail
  <2>2. CoinType'
    BY <1>1, <2>1 DEF coinDB, chain, CoinInv, CoinType, FlushType, Null
  <2> QED BY <1>1, <2>1, <2>2, CoinNotUp
<1> QED BY <1>2, <1>3

LEMMA CoinRollforward ==
  ASSUME CoinInv, RollforwardBlock
  PROVE  CoinInv'
<1> DEFINE b == CHOOSE c \in Anc[heads.new] : c # Genesis /\ Parent[c] = at
<1>1. /\ node = "rolling" /\ heads # NoHeads /\ heads.new \in Block
      /\ at \in Anc[heads.new] /\ at # heads.new
      /\ heads.old \in Path(at) \cup {NoBlock} /\ Rolled /\ at \in Block
      /\ flush.pc = "idle" /\ UNCHANGED <<coinDB, flush>>
  BY TreeAssumption DEF RollforwardBlock, CoinInv, CoinType, FlushType
<1>2. b \in Anc[heads.new] /\ b # Genesis /\ Parent[b] = at /\ b \in Block
  <2>1. \E c \in Anc[heads.new] : c # Genesis /\ Parent[c] = at
    BY <1>1, TreeAssumption
  <2> QED BY <1>1, <2>1, TreeAssumption
<1> HIDE DEF b
<1>3. CASE CanRead(b)
  <2>1. at' = b /\ view' = Apply(b, view) /\ node' = node /\ tip' = tip
    BY <1>3 DEF RollforwardBlock, b
  <2>2. UTXO(b) = Apply(b, UTXO(at))
    BY <1>2, ApplyExact
  <2>3. Creates[b] \subseteq Coin /\ Spends[b] \subseteq Coin
    BY <1>2, CoinAssumption
  <2>4. Path(b) = Path(at) \cup {b} /\ b \notin Path(at) /\ Path(heads.old) \subseteq Path(at)
    BY <1>1, <1>2, TreeAssumption DEF Path
  <2>5. Path(b) \ Path(heads.old) = (Path(at) \ Path(heads.old)) \cup {b}
    BY <2>4
  <2>6. CoinType'
    BY <1>1, <1>2, <2>1, <2>3 DEF coinDB, CoinInv, CoinType, FlushType, Null, Apply
  <2>7. CoinsExact' /\ ViewExact'
    BY <1>1, <2>1 DEF coinDB, CoinInv, CoinsExact, ViewExact, UTXO, Path, NoHeads
  <2>8. Rolled'
    <3> SUFFICES ASSUME NEW o \in Coin
                 PROVE  IF Touched(o, Path(at) \ Path(heads.old))'
                        THEN o \in view' <=> o \in UTXO(at)'
                        ELSE Between(o, view)'
      BY DEF Rolled
    <3>1. heads' = heads
      BY <1>1 DEF coinDB
    <3>2. Touched(o, Path(at) \ Path(heads.old))' <=> Touched(o, Path(b) \ Path(heads.old))
      BY <2>1, <3>1 DEF Touched, Path
    <3>3. UTXO(at)' = UTXO(b) /\ (Between(o, view)' <=> Between(o, Apply(b, view)))
      BY <2>1, <3>1 DEF UTXO, Path, Between
    <3>4. CASE o \in Creates[b] \cup Spends[b]
      <4>1. Touched(o, Path(b) \ Path(heads.old))
        BY <2>5, <3>4 DEF Touched
      <4> QED BY <4>1, <3>2, <3>3, <3>4, <2>1, <2>2 DEF Apply
    <3>5. CASE o \notin Creates[b] \cup Spends[b]
      <4>1. Touched(o, Path(b) \ Path(heads.old)) <=> Touched(o, Path(at) \ Path(heads.old))
        BY <2>5, <3>5 DEF Touched
      <4>2. /\ o \in Apply(b, view) <=> o \in view
            /\ o \in UTXO(b) <=> o \in UTXO(at)
        BY <2>2, <3>5 DEF Apply
      <4> QED BY <4>1, <4>2, <3>2, <3>3, <2>1, <1>1 DEF Rolled, Between
    <3> QED BY <3>4, <3>5
  <2>9. heads'.old \in Path(at') \cup {NoBlock} /\ at' \in Anc[heads'.new]
    BY <1>1, <1>2, <2>1, <2>4 DEF coinDB
  <2> QED BY <1>1, <2>1, <2>6, <2>7, <2>8, <2>9 DEF CoinInv, coinDB, NoHeads, Path
<1>4. CASE ~CanRead(b)
  <2>1. node' = "failed" /\ at' = NoBlock /\ UNCHANGED chain
    BY <1>4 DEF RollforwardBlock, b, Fail
  <2>2. CoinType'
    BY <1>1, <2>1 DEF coinDB, chain, CoinInv, CoinType, FlushType, Null
  <2> QED BY <1>1, <2>1, <2>2, CoinNotUp
<1> QED BY <1>3, <1>4

LEMMA CoinStep == CoinInv /\ [Next]_vars => CoinInv'
<1> SUFFICES ASSUME CoinInv, [Next]_vars PROVE CoinInv'
  OBVIOUS
<1>0. FlushType
  BY DEF CoinInv, CoinType
<1>1. ASSUME NEW b \in Block, NEW f \in File, AcceptBlock(b, f) PROVE CoinInv'
  BY <1>0, <1>1, CoinFrame DEF AcceptBlock, Running, FlushType, CoinInv
<1>2. ASSUME NEW b \in Block, ConnectTip(b) PROVE CoinInv'
  BY <1>2, CoinConnect
<1>3. ASSUME NEW full \in BOOLEAN, NEW P \in SUBSET File, BeginFlush(full, P) PROVE CoinInv'
  <2>1. FlushType' /\ flush'.pc = "files"
    BY <1>3 DEF BeginFlush, FlushType
  <2> QED BY <1>3, <2>1, CoinFrame DEF BeginFlush, Running
<1>4. ASSUME FlushBlockFile PROVE CoinInv'
  <2>1. FlushType' /\ flush'.pc = "index"
    BY <1>0, <1>4 DEF FlushBlockFile, FlushType
  <2> QED BY <1>4, <2>1, CoinFrame DEF FlushBlockFile, CoinInv
<1>5. ASSUME WriteBatchSync PROVE CoinInv'
  <2>1. FlushType' /\ flush'.pc = "unlink"
    BY <1>0, <1>5 DEF WriteBatchSync, FlushType
  <2> QED BY <1>5, <2>1, CoinFrame DEF WriteBatchSync, CoinInv
<1>6. ASSUME UnlinkPrunedFiles PROVE CoinInv'
  <2>1. FlushType' /\ (flush'.pc = "coins" => tip # NoBlock)
    BY <1>0, <1>6 DEF UnlinkPrunedFiles, FlushType, IdleFlush
  <2> QED BY <1>6, <2>1, CoinFrame DEF UnlinkPrunedFiles, CoinInv
<1>7. ASSUME LoadBlockIndexDB PROVE CoinInv'
  <2>1. CoinType' /\ node' \notin {"up", "rolling"} /\ flush' = flush /\ node = "down"
    BY <1>7 DEF LoadBlockIndexDB, Fail, CoinInv, CoinType, FlushType, coinDB, chain, Null
  <2> QED BY <1>7, <2>1, CoinNotUp DEF LoadBlockIndexDB, CoinInv
<1>8. ASSUME NEW f \in File, LoadGenesisBlock(f) PROVE CoinInv'
  BY <1>0, <1>8, CoinFrame DEF LoadGenesisBlock, FlushType, CoinInv
<1>9. CASE UNCHANGED vars
  BY <1>0, <1>9, CoinFrame DEF vars, FlushType, CoinInv
<1> QED BY <1>1, <1>2, <1>3, <1>4, <1>5, <1>6, <1>7, <1>8, <1>9, CoinDisconnect,
           CoinPartialBatch, CoinFinalBatch, CoinCrash, CoinLoadTip, CoinReplay,
           CoinRollforward DEF Next

LEMMA CoinAlways == Spec => []CoinInv
BY CoinInit, CoinStep, PTL DEF Spec

(* Whenever the process dies, the coins database names the block whose     *)
(* unspent outputs it holds, or two blocks it is between, coin by coin     *)
(* (CCoinsViewDB::BatchWrite).                                             *)
THEOREM CoinsNeverInDoubt == Spec => []CoinsExact
<1>1. CoinInv => CoinsExact
  BY DEF CoinInv
<1> QED BY CoinAlways, <1>1, PTL

(* A node that is up, also one that came up after a replay of a            *)
(* half-written flush, sees the unspent outputs of its tip (ReplayBlocks,  *)
(* RollforwardBlock, LoadChainTip).                                        *)
THEOREM TipCoinsExact == Spec => []ViewExact
<1>1. CoinInv => ViewExact
  BY DEF CoinInv
<1> QED BY CoinAlways, <1>1, PTL

(* The assertion on DB_HEAD_BLOCKS in CCoinsViewDB::BatchWrite holds, also *)
(* when a replay is interrupted and repeated.                              *)
THEOREM HeadsAlwaysAgree == Spec => []HeadsAgree
<1>1. CoinInv => HeadsAgree
  BY DEF CoinInv, HeadsAgree, Writing, HashBlock
<1> QED BY CoinAlways, <1>1, PTL

-----------------------------------------------------------------------------
(* The steps of a running node up to the write of the index.               *)

LEMMA DiskInit == Init => DiskInv
<1> SUFFICES ASSUME Init PROVE DiskInv
  OBVIOUS
<1>1. Unknown \in Entry /\ NoInfo \in FileInfo /\ IdleFlush.pc = "idle"
  BY BoundsAssumption, SMT DEF Unknown, Entry, NoInfo, FileInfo, IdleFlush
<1>2. TypeOK
  <2>1. 0 \in File /\ 0 \in 0..MaxCrash
    BY BoundsAssumption, SMT DEF File
  <2>2. /\ mIndex \in [Block -> Entry] /\ dIndex \in [Block -> Entry]
        /\ mInfo \in [File -> FileInfo] /\ dInfo \in [File -> FileInfo]
        /\ blk \in [Place -> Block \cup {NoBlock}] /\ rev \in [Place -> Block \cup {NoBlock}]
    BY <1>1 DEF Init
  <2>3. /\ flush \in [pc : {"idle", "files", "index", "unlink", "coins"},
                       full : BOOLEAN, prune : SUBSET File]
        /\ heads \in [new : Block \cup {NoBlock}, old : Block \cup {NoBlock}]
    BY DEF Init, IdleFlush, NoHeads
  <2>4. /\ node = "down" /\ cause = "none" /\ mLast = 0 /\ dLast = 0 /\ dirtyBlocks = {}
        /\ dirtyFiles = {} /\ havePruned = FALSE /\ dPruned = FALSE /\ tip = NoBlock
        /\ view = {} /\ at = NoBlock /\ unsyncedBlk = {} /\ unsyncedRev = {}
        /\ coins = {} /\ best = NoBlock /\ crashes = 0
    BY DEF Init
  <2> QED BY <2>1, <2>2, <2>3, <2>4 DEF TypeOK
<1>3. \A b \in Block : dIndex[b].data = Nowhere /\ dIndex[b].undo = Nowhere /\ ~dIndex[b].known
  BY DEF Init, Unknown
<1>4. Sound(dIndex, dInfo) /\ Synced(dIndex, dLast) /\ AllStored(dIndex)
  BY <1>3 DEF Sound, Synced, AllStored
<1>5. CleanIsWritten /\ FlushPhases /\ StartKnowsBlocks /\ ~Live
  BY <1>1 DEF Init, CleanIsWritten, FlushPhases, StartKnowsBlocks, Live
<1>6. InDB(best) /\ InDB(heads.new) /\ InDB(heads.old) /\ node = "down"
  BY DEF Init, InDB, NoHeads
<1> QED BY <1>2, <1>4, <1>5, <1>6 DEF DiskInv

LEMMA DiskAccept ==
  ASSUME DiskInv, NEW b \in Block, NEW f \in File, AcceptBlock(b, f)
  PROVE  DiskInv'
<1>1. Live /\ node' = "up" /\ node = "up" /\ flush.pc = "idle" /\ at = NoBlock
  BY DEF AcceptBlock, Running, Live, DiskInv, TypeOK
<1>2. \A c \in Anc[b] \ {b} : mIndex[c].known
  <2>1. Parent[b] \in Block /\ Anc[b] = Anc[Parent[b]] \cup {b} /\ mIndex[Parent[b]].known
    BY TreeAssumption DEF AcceptBlock
  <2> QED BY <1>1, <2>1 DEF DiskInv, Sound
<1>3. Store(b, f) /\ mIndex[b].data = Nowhere
      /\ UNCHANGED <<cause, chain, flush, at, tree, coinDB, crashes>>
  BY DEF AcceptBlock
<1> QED BY <1>1, <1>2, <1>3, StoreStep

LEMMA DiskGenesis ==
  ASSUME DiskInv, CoinInv, NEW f \in File, LoadGenesisBlock(f)
  PROVE  DiskInv'
<1>1. Live /\ node' = "replay" /\ flush.pc = "idle" /\ at = NoBlock
  BY DEF LoadGenesisBlock, Live, DiskInv, TypeOK, CoinInv
<1>2. Genesis \in Block /\ Anc[Genesis] = {Genesis}
  BY TreeAssumption
<1>3. mIndex[Genesis].data = Nowhere
  BY <1>1, <1>2 DEF LoadGenesisBlock, DiskInv, Sound
<1>4. Store(Genesis, f) /\ UNCHANGED <<cause, chain, flush, at, tree, coinDB, crashes>>
  BY DEF LoadGenesisBlock
<1> QED BY <1>1, <1>2, <1>3, <1>4, StoreStep

LEMMA DiskConnect ==
  ASSUME DiskInv, NEW b \in Block, ConnectTip(b)
  PROVE  DiskInv'
<1>1. /\ Live /\ flush.pc = "idle" /\ CanRead(b) /\ WriteUndo(b) /\ tip' = b
      /\ UNCHANGED <<node, cause, flush, at, tree, coinDB, crashes>>
      /\ TypeOK /\ Sound(mIndex, mInfo)
  BY DEF ConnectTip, Running, Live, DiskInv
<1>2. view' \in SUBSET Coin
  BY <1>1, CoinAssumption DEF ConnectTip, Apply, TypeOK
<1>3. CASE b = Genesis \/ mIndex[b].undo # Nowhere
  <2>1. UNCHANGED <<index, files>>
    BY <1>1, <1>3 DEF WriteUndo
  <2>2. TypeOK'
    BY <1>1, <1>2, <2>1, SMT DEF TypeOK, index, files, tree, coinDB
  <2>3. mIndex[b].known
    BY <1>1 DEF CanRead, Sound
  <2>4. FlushPhases' /\ StartKnowsBlocks' /\ (InDB(best) /\ InDB(heads.new) /\ InDB(heads.old))'
    BY <1>1 DEF FlushPhases, StartKnowsBlocks, InDB, tree, coinDB, DiskInv
  <2>5. (node = "up" /\ tip # NoBlock => mIndex[tip].known)' /\ node' = node /\ (Live' => Live)
    BY <1>1, <2>1, <2>3 DEF index, Live
  <2> QED BY <1>1, <2>1, <2>2, <2>4, <2>5, DiskFrame
<1>4. CASE b # Genesis /\ mIndex[b].undo = Nowhere
  <2> DEFINE f == mIndex[b].data[1]
             p == <<f, mInfo[f].undo + 1>>
  <2>1. p \in Place /\ f \in File /\ mInfo[f].undo + 1 \in Slot
    <3>1. mIndex[b].data \in Place
      BY <1>1, EntryFacts DEF CanRead
    <3> QED BY <1>1, <1>4, <3>1, PlaceFacts DEF WriteUndo, Place
  <2>2. /\ rev' = [rev EXCEPT ![p] = b] /\ blk' = blk /\ unsyncedBlk' = unsyncedBlk
        /\ unsyncedRev' = unsyncedRev \cup {f}
        /\ mLast' = mLast /\ havePruned' = havePruned
        /\ dirtyBlocks' = dirtyBlocks \cup {b} /\ dirtyFiles' = dirtyFiles \cup {f}
        /\ mInfo' = [mInfo EXCEPT ![f] =
            [size |-> @.size, undo |-> @.undo + 1, heightLast |-> @.heightLast]]
        /\ mIndex' = [mIndex EXCEPT ![b] =
            [known |-> @.known, data |-> @.data, undo |-> p]]
    BY <1>1, <1>4 DEF WriteUndo
  <2> HIDE DEF f, p
  <2>3. mIndex' \in [Block -> Entry]
    BY <1>1, <2>1, <2>2 DEF TypeOK, Entry
  <2>4. mInfo' \in [File -> FileInfo]
    <3>1. mInfo \in [File -> FileInfo] /\ mInfo[f] \in FileInfo
      BY <1>1, <2>1 DEF TypeOK
    <3>2. mInfo[f].undo + 1 \in 0..MaxSlot
      BY <2>1, BoundsAssumption, SMT DEF Slot
    <3> QED BY <2>1, <2>2, <3>1, <3>2 DEF FileInfo
  <2>5. TypeOK'
    BY <1>1, <1>2, <2>1, <2>2, <2>3, <2>4, SMT DEF TypeOK, tree, coinDB
  <2> QED BY <1>1, <1>4, <2>5, UndoStep
<1> QED BY <1>3, <1>4

LEMMA DiskDisconnect ==
  ASSUME DiskInv, DisconnectTip
  PROVE  DiskInv'
<1>1. /\ TypeOK /\ node = "up" /\ tip \in Block \ {Genesis} /\ mIndex[tip].known
      /\ tip' = Parent[tip] /\ view' = Undo(tip, view) /\ Sound(mIndex, mInfo)
      /\ UNCHANGED <<node, cause, index, flush, at, tree, files, coinDB, crashes>>
  BY DEF DisconnectTip, Running, DiskInv, TypeOK, Live
<1>2. Parent[tip] \in Block /\ Parent[tip] \in Anc[tip]
  BY <1>1, TreeAssumption, SMT
<1>3. TypeOK'
  BY <1>1, <1>2, CoinAssumption, SMT DEF TypeOK, Undo, index, tree, files, coinDB
<1>4. FlushPhases' /\ StartKnowsBlocks' /\ (InDB(best) /\ InDB(heads.new) /\ InDB(heads.old))'
  BY <1>1 DEF FlushPhases, Avoids, StartKnowsBlocks, InDB, index, tree, files, coinDB, DiskInv
<1>5. mIndex'[tip'].known /\ (Live' => Live)
  BY <1>1, <1>2 DEF Sound, index, Live
<1> QED BY <1>1, <1>3, <1>4, <1>5, DiskFrame

(* PruneOneBlockFile takes the blocks of a file out of the index in memory *)
(* only; the database and the files still agree.                           *)
LEMMA DiskBeginFlush ==
  ASSUME DiskInv, NEW full \in BOOLEAN, NEW P \in SUBSET File, BeginFlush(full, P)
  PROVE  DiskInv'
<1>1. /\ TypeOK /\ node = "up" /\ Live /\ Live' /\ node' = node
      /\ Sound(mIndex, mInfo) /\ Synced(mIndex, mLast) /\ Ahead /\ havePruned = dPruned
      /\ (dPruned \/ AllStored(mIndex))
  BY DEF BeginFlush, Running, DiskInv, Live
<1>2. /\ UNCHANGED <<cause, mLast, chain, at, dIndex, dInfo, dLast, files, coinDB, crashes>>
      /\ flush' = [pc |-> "files", full |-> full, prune |-> P]
      /\ havePruned' = (havePruned \/ P # {}) /\ dPruned' = (dPruned \/ (P # {} /\ ~havePruned))
      /\ dirtyBlocks' = dirtyBlocks \cup InFiles(P) /\ dirtyFiles' = dirtyFiles \cup P
      /\ \A f \in P : f < mLast
  BY DEF BeginFlush, FlaggedPruned, Prunable
<1>3. /\ \A b \in Block : b \notin InFiles(P) => mIndex'[b] = mIndex[b]
      /\ \A b \in InFiles(P) : mIndex'[b] = [known |-> mIndex[b].known, data |-> Nowhere,
                                              undo |-> Nowhere]
      /\ \A b \in Block : mIndex'[b].known = mIndex[b].known
      /\ mIndex' \in [Block -> Entry]
  BY <1>1 DEF BeginFlush, InFiles, TypeOK, Entry
<1>4. /\ \A f \in File : f \notin P => mInfo'[f] = mInfo[f]
      /\ \A f \in P : mInfo'[f].size = 0
      /\ mInfo' \in [File -> FileInfo]
  BY <1>1, BoundsAssumption, SMT DEF BeginFlush, NoInfo, FileInfo, TypeOK
<1>5. \A b \in Block : mIndex'[b].data # Nowhere =>
        b \notin InFiles(P) /\ mIndex'[b] = mIndex[b] /\ mIndex[b].data[1] \notin P
  BY <1>3, SMT DEF InFiles
<1>6. \A b \in Block : mIndex'[b].undo # Nowhere => b \notin InFiles(P) /\ mIndex'[b] = mIndex[b]
  BY <1>3, SMT DEF InFiles
<1>7. dPruned' \in BOOLEAN /\ havePruned' \in BOOLEAN /\ havePruned' = dPruned'
  <2>1. dPruned \in BOOLEAN /\ havePruned \in BOOLEAN
    BY <1>1 DEF TypeOK
  <2> QED BY <1>1, <1>2, <2>1
<1>8. TypeOK'
  <2>1. dirtyBlocks' \in SUBSET Block /\ dirtyFiles' \in SUBSET File
    BY <1>1, <1>2 DEF TypeOK, InFiles
  <2>2. flush' \in [pc : {"idle", "files", "index", "unlink", "coins"},
                    full : BOOLEAN, prune : SUBSET File]
    BY <1>2
  <2> QED BY <1>1, <1>2, <1>3, <1>4, <1>7, <2>1, <2>2 DEF TypeOK, chain, files, coinDB
<1>9. Sound(dIndex, dInfo)' /\ Synced(dIndex, dLast)'
  BY <1>2 DEF DiskInv, Sound, Synced, files
<1>10. Sound(mIndex, mInfo)'
  <2>1. ASSUME NEW b \in Block, mIndex'[b].data # Nowhere
        PROVE  /\ mIndex'[b].known
               /\ blk'[mIndex'[b].data] = b
               /\ mIndex'[b].data[2] <= mInfo'[mIndex'[b].data[1]].size
    BY <2>1, <1>1, <1>2, <1>4, <1>5, EntryFacts, PlaceFacts, SMT DEF Sound, files
  <2>2. ASSUME NEW b \in Block, mIndex'[b].undo # Nowhere
        PROVE  /\ mIndex'[b].data # Nowhere
               /\ mIndex'[b].undo[1] = mIndex'[b].data[1]
               /\ rev'[mIndex'[b].undo] = b
               /\ mIndex'[b].undo[2] <= mInfo'[mIndex'[b].undo[1]].undo
    <3>1. mIndex'[b] = mIndex[b] /\ mIndex[b].data # Nowhere /\ mIndex[b].undo[1] = mIndex[b].data[1]
      BY <2>2, <1>1, <1>6 DEF Sound
    <3>2. mIndex[b].undo[1] \in File /\ mIndex[b].undo[1] \notin P
      BY <2>2, <3>1, <1>1, <1>5, EntryFacts, PlaceFacts
    <3> QED BY <2>2, <3>1, <3>2, <1>1, <1>2, <1>4, SMT DEF Sound, files
  <2>3. ASSUME NEW b \in Block, mIndex'[b].known
        PROVE  \A c \in Anc[b] : mIndex'[c].known
    BY <2>3, <1>1, <1>3, TreeAssumption DEF Sound
  <2> QED BY <2>1, <2>2, <2>3 DEF Sound
<1>11. Synced(mIndex, mLast)'
  BY <1>1, <1>2, <1>5 DEF Synced, files
<1>12. Ahead'
  BY <1>1, <1>2, <1>4 DEF Ahead
<1>13. (\A b \in Block : dIndex[b].known => mIndex[b].known)'
       /\ (dPruned \/ AllStored(dIndex))'
  <2>1. (\A b \in Block : dIndex[b].known => mIndex[b].known) /\ (dPruned \/ AllStored(dIndex))
    BY <1>1 DEF DiskInv
  <2>2. AllStored(dIndex)' <=> AllStored(dIndex)
    BY <1>2 DEF AllStored
  <2>3. dPruned => dPruned'
    BY <1>2
  <2> QED BY <1>2, <1>3, <2>1, <2>2, <2>3
<1>14. (dPruned \/ AllStored(mIndex))'
  <2>1. CASE P = {}
    <3>1. InFiles(P) = {}
      BY <2>1 DEF InFiles
    <3>2. \A b \in Block : mIndex'[b] = mIndex[b]
      BY <1>3, <3>1
    <3>3. AllStored(mIndex)' <=> AllStored(mIndex)
      BY <3>2 DEF AllStored
    <3>4. dPruned => dPruned'
      BY <1>2
    <3> QED BY <1>1, <3>3, <3>4
  <2>2. CASE P # {}
    <3>1. havePruned'
      BY <2>2, <1>2
    <3> QED BY <3>1, <1>7
  <2> QED BY <2>1, <2>2
<1>15. CleanIsWritten'
  BY <1>1, <1>2, <1>3, <1>4 DEF DiskInv, CleanIsWritten, Live
<1>16. FlushPhases'
  BY <1>2, <1>5 DEF FlushPhases, Avoids
<1>17. StartKnowsBlocks' /\ (InDB(best) /\ InDB(heads.new) /\ InDB(heads.old))'
       /\ (node = "up" /\ tip # NoBlock => mIndex[tip].known)' /\ node' # "genesis"
  BY <1>1, <1>2, <1>3 DEF DiskInv, TypeOK, StartKnowsBlocks, InDB, coinDB, chain
<1> QED BY <1>7, <1>8, <1>9, <1>10, <1>11, <1>12, <1>13, <1>14, <1>15, <1>16, <1>17 DEF DiskInv

LEMMA DiskFlushBlockFile ==
  ASSUME DiskInv, CoinInv, FlushBlockFile
  PROVE  DiskInv'
<1>1. /\ TypeOK /\ Live /\ node = "up"
      /\ UNCHANGED <<node, cause, index, chain, at, tree, blk, rev, coinDB, crashes>>
      /\ flush' = [flush EXCEPT !.pc = "index"] /\ flush.pc = "files"
      /\ unsyncedBlk' = unsyncedBlk \ {mLast} /\ unsyncedRev' = unsyncedRev \ {mLast}
  BY DEF FlushBlockFile, DiskInv, CoinInv, Live
<1>2. flush'.pc = "index" /\ flush'.prune = flush.prune /\ flush'.full = flush.full
  BY <1>1 DEF TypeOK
<1>3. TypeOK'
  BY <1>1 DEF TypeOK, index, tree, chain, coinDB
<1>4. Sound(dIndex, dInfo)' /\ Synced(dIndex, dLast)' /\ Sound(mIndex, mInfo)'
      /\ Synced(mIndex, mLast)' /\ Ahead'
  BY <1>1 DEF DiskInv, Sound, Synced, Ahead, index, tree
<1>5. FlushPhases'
  BY <1>1, <1>2 DEF DiskInv, FlushPhases, Avoids, index
<1>6. CleanIsWritten' /\ (dPruned \/ AllStored(dIndex))' /\ (dPruned \/ AllStored(mIndex))'
  BY <1>1 DEF DiskInv, CleanIsWritten, AllStored, index, tree, Live
<1>7. StartKnowsBlocks' /\ (InDB(best) /\ InDB(heads.new) /\ InDB(heads.old))'
      /\ (node = "up" /\ tip # NoBlock => mIndex[tip].known)' /\ node' # "genesis"
      /\ (\A b \in Block : dIndex[b].known => mIndex[b].known)' /\ (havePruned = dPruned)'
  BY <1>1 DEF DiskInv, StartKnowsBlocks, InDB, index, tree, coinDB, chain
<1> QED BY <1>3, <1>4, <1>5, <1>6, <1>7 DEF DiskInv

-----------------------------------------------------------------------------
(* The write of the index, the unlinking, the coins, crashes and restarts. *)

(* The batch brings the database to what is in memory.                     *)
LEMMA DiskWriteBatch ==
  ASSUME DiskInv, CoinInv, WriteBatchSync
  PROVE  DiskInv'
<1>1. /\ TypeOK /\ Live /\ node = "up"
      /\ UNCHANGED <<node, cause, mIndex, mInfo, mLast, havePruned, chain, at, dPruned,
                     files, coinDB, crashes>>
      /\ flush' = [flush EXCEPT !.pc = "unlink"] /\ flush.pc = "index"
      /\ dLast' = mLast /\ dirtyBlocks' = {} /\ dirtyFiles' = {}
      /\ Sound(mIndex, mInfo) /\ Synced(mIndex, mLast) /\ (dPruned \/ AllStored(mIndex))
      /\ (\A b \in Block : dIndex[b].known => mIndex[b].known) /\ havePruned = dPruned
  BY DEF WriteBatchSync, DiskInv, CoinInv, Live
<1>2. flush'.pc = "unlink" /\ flush'.prune = flush.prune
  BY <1>1 DEF TypeOK
<1>3. dIndex' = mIndex /\ dInfo' = mInfo
  <2>1. /\ \A b \in Block \ dirtyBlocks : mIndex[b] = dIndex[b]
        /\ \A f \in File \ dirtyFiles : mInfo[f] = dInfo[f]
    BY <1>1 DEF DiskInv, CleanIsWritten
  <2>2. mIndex \in [Block -> Entry] /\ mInfo \in [File -> FileInfo]
    BY <1>1 DEF TypeOK
  <2>3. dIndex' = [b \in Block |-> IF b \in dirtyBlocks THEN mIndex[b] ELSE dIndex[b]]
        /\ dInfo' = [f \in File |-> IF f \in dirtyFiles THEN mInfo[f] ELSE dInfo[f]]
    BY DEF WriteBatchSync, WrittenInfo
  <2> QED BY <2>1, <2>2, <2>3
<1>4. TypeOK'
  BY <1>1, <1>3 DEF TypeOK, chain, files, coinDB
<1>5. Sound(dIndex, dInfo)' /\ Synced(dIndex, dLast)' /\ Sound(mIndex, mInfo)'
      /\ Synced(mIndex, mLast)'
  BY <1>1, <1>3 DEF Sound, Synced, files
<1>6. Ahead'
  <2>1. \A f \in File : mInfo[f].size \in Nat /\ mInfo[f].undo \in Nat
    BY <1>1, InfoFacts
  <2>2. mLast \in Int
    BY <1>1, PlaceFacts DEF TypeOK
  <2> QED BY <1>1, <1>3, <2>1, <2>2, SMT DEF Ahead
<1>7. FlushPhases'
  BY <1>1, <1>2, <1>3 DEF DiskInv, FlushPhases, Avoids, files
<1>8. CleanIsWritten' /\ (dPruned \/ AllStored(dIndex))' /\ (dPruned \/ AllStored(mIndex))'
  BY <1>1, <1>3 DEF CleanIsWritten, AllStored
<1>9. StartKnowsBlocks' /\ (InDB(best) /\ InDB(heads.new) /\ InDB(heads.old))'
  <2>1. heads.new \in Null /\ heads.old \in Null /\ best \in Null
    BY <1>1 DEF TypeOK, Null
  <2> QED BY <1>1, <1>3, <2>1 DEF DiskInv, StartKnowsBlocks, InDB, coinDB, Null
<1>10. (node = "up" /\ tip # NoBlock => mIndex[tip].known)' /\ node' # "genesis"
       /\ (\A b \in Block : dIndex[b].known => mIndex[b].known)' /\ (havePruned = dPruned)'
  BY <1>1, <1>3 DEF DiskInv, chain
<1> QED BY <1>4, <1>5, <1>6, <1>7, <1>8, <1>9, <1>10 DEF DiskInv

(* Nothing points into the files that are unlinked.                        *)
LEMMA DiskUnlink ==
  ASSUME DiskInv, CoinInv, UnlinkPrunedFiles
  PROVE  DiskInv'
<1> DEFINE P == flush.prune
<1>1. /\ TypeOK /\ Live /\ node = "up"
      /\ UNCHANGED <<node, cause, index, chain, at, tree, unsyncedBlk, unsyncedRev,
                     coinDB, crashes>>
      /\ flush.pc = "unlink" /\ Avoids(mIndex, P) /\ Avoids(dIndex, P)
      /\ Sound(mIndex, mInfo) /\ Sound(dIndex, dInfo)
      /\ dirtyBlocks = {} /\ dirtyFiles = {}
  BY DEF UnlinkPrunedFiles, DiskInv, CoinInv, Live, FlushPhases
<1>2. /\ \A p \in Place : p[1] \notin P => blk'[p] = blk[p] /\ rev'[p] = rev[p]
      /\ blk' \in [Place -> Null] /\ rev' \in [Place -> Null]
  BY <1>1 DEF UnlinkPrunedFiles, Emptied, TypeOK, Null
<1>3. /\ flush'.pc \in {"coins", "idle"}
      /\ flush' \in [pc : {"idle", "files", "index", "unlink", "coins"},
                      full : BOOLEAN, prune : SUBSET File]
  BY <1>1 DEF UnlinkPrunedFiles, IdleFlush, TypeOK
<1> HIDE DEF P
<1>4. TypeOK'
  BY <1>1, <1>2, <1>3 DEF TypeOK, index, chain, tree, coinDB, Null
<1>5. Sound(mIndex, mInfo)'
  <2>1. ASSUME NEW b \in Block, mIndex[b].data # Nowhere
        PROVE  blk'[mIndex[b].data] = b
    BY <2>1, <1>1, <1>2, EntryFacts DEF Sound, Avoids
  <2>2. ASSUME NEW b \in Block, mIndex[b].undo # Nowhere
        PROVE  rev'[mIndex[b].undo] = b
    BY <2>2, <1>1, <1>2, EntryFacts DEF Sound, Avoids
  <2> QED BY <1>1, <2>1, <2>2 DEF Sound, index
<1>6. Sound(dIndex, dInfo)'
  <2>1. ASSUME NEW b \in Block, dIndex[b].data # Nowhere
        PROVE  blk'[dIndex[b].data] = b
    BY <2>1, <1>1, <1>2, EntryFacts DEF Sound, Avoids
  <2>2. ASSUME NEW b \in Block, dIndex[b].undo # Nowhere
        PROVE  rev'[dIndex[b].undo] = b
    BY <2>2, <1>1, <1>2, EntryFacts DEF Sound, Avoids
  <2> QED BY <1>1, <2>1, <2>2 DEF Sound, tree
<1>7. Synced(dIndex, dLast)' /\ Synced(mIndex, mLast)' /\ Ahead'
  BY <1>1 DEF DiskInv, Synced, Ahead, index, tree
<1>8. FlushPhases'
  BY <1>1, <1>3 DEF FlushPhases, index
<1>9. CleanIsWritten' /\ (dPruned \/ AllStored(dIndex))' /\ (dPruned \/ AllStored(mIndex))'
  BY <1>1 DEF DiskInv, CleanIsWritten, AllStored, index, tree, Live
<1>10. StartKnowsBlocks' /\ (InDB(best) /\ InDB(heads.new) /\ InDB(heads.old))'
       /\ (node = "up" /\ tip # NoBlock => mIndex[tip].known)' /\ node' # "genesis"
       /\ (\A b \in Block : dIndex[b].known => mIndex[b].known)' /\ (havePruned = dPruned)'
  BY <1>1 DEF DiskInv, StartKnowsBlocks, InDB, index, tree, coinDB, chain
<1> QED BY <1>4, <1>5, <1>6, <1>7, <1>8, <1>9, <1>10 DEF DiskInv

LEMMA DiskPartialBatch ==
  ASSUME DiskInv, CoinInv, NEW S \in SUBSET Coin, WritePartialBatch(S)
  PROVE  DiskInv'
<1>1. /\ TypeOK /\ Writing
      /\ UNCHANGED <<node, cause, index, chain, flush, at, tree, files, crashes>>
      /\ best' = NoBlock /\ heads' = [new |-> HashBlock, old |-> OldTip]
      /\ coins' = (coins \ S) \cup (view \cap S)
  BY DEF WritePartialBatch, MarkTransition, DiskInv
<1>2. HashBlock \in Null /\ OldTip \in Null /\ InDB(OldTip)
  BY <1>1 DEF HashBlock, OldTip, TypeOK, Null, DiskInv
<1>3. InDB(HashBlock)
  <2>1. CASE node = "rolling"
    BY <2>1 DEF HashBlock, DiskInv
  <2>2. CASE flush.pc = "coins"
    <3>1. node = "up" /\ tip \in Block /\ HashBlock = tip
      BY <1>1, <2>2 DEF CoinInv, HashBlock, TypeOK
    <3>2. mIndex[tip] = dIndex[tip] /\ mIndex[tip].known
      BY <2>2, <3>1, TreeAssumption DEF DiskInv, CleanIsWritten, FlushPhases
    <3> QED BY <3>1, <3>2 DEF InDB
  <2> QED BY <1>1, <2>1, <2>2 DEF Writing
<1>4. TypeOK'
  <2>1. best' \in Null /\ heads' \in [new : Null, old : Null] /\ coins' \in SUBSET Coin
    BY <1>1, <1>2 DEF Null, TypeOK
  <2> QED BY <1>1, <2>1, SMT DEF TypeOK, Null, index, chain, tree, files
<1>5. (InDB(best) /\ InDB(heads.new) /\ InDB(heads.old))'
  BY <1>1, <1>2, <1>3 DEF InDB, tree
<1>6. FlushPhases' /\ StartKnowsBlocks' /\ (Live' => Live)
      /\ (node = "up" /\ tip # NoBlock => mIndex[tip].known)'
  BY <1>1 DEF DiskInv, FlushPhases, Avoids, StartKnowsBlocks, Live, index, tree, files, chain
<1> QED BY <1>1, <1>4, <1>5, <1>6, DiskFrame

LEMMA DiskFinalBatch ==
  ASSUME DiskInv, CoinInv, WriteFinalBatch
  PROVE  DiskInv'
<1>1. /\ TypeOK /\ Writing
      /\ UNCHANGED <<cause, index, chain, tree, files, crashes>>
      /\ best' = HashBlock /\ heads' = NoHeads /\ flush' = IdleFlush
      /\ node' = (IF node = "rolling" THEN "replay" ELSE node)
      /\ coins' = view /\ at' = NoBlock
  BY DEF WriteFinalBatch, DiskInv
<1>2. HashBlock \in Null
  BY <1>1 DEF HashBlock, TypeOK, Null
<1>3. InDB(HashBlock)
  <2>1. CASE node = "rolling"
    BY <2>1 DEF HashBlock, DiskInv
  <2>2. CASE flush.pc = "coins"
    <3>1. node = "up" /\ tip \in Block /\ HashBlock = tip
      BY <1>1, <2>2 DEF CoinInv, HashBlock, TypeOK
    <3>2. mIndex[tip] = dIndex[tip] /\ mIndex[tip].known
      BY <2>2, <3>1, TreeAssumption DEF DiskInv, CleanIsWritten, FlushPhases
    <3> QED BY <3>1, <3>2 DEF InDB
  <2> QED BY <1>1, <2>1, <2>2 DEF Writing
<1>4. TypeOK'
  <2>1. best' \in Null /\ heads' \in [new : Null, old : Null] /\ coins' \in SUBSET Coin
    BY <1>1, <1>2 DEF Null, TypeOK, NoHeads
  <2>2. flush' \in [pc : {"idle", "files", "index", "unlink", "coins"},
                    full : BOOLEAN, prune : SUBSET File]
    BY <1>1 DEF IdleFlush
  <2>3. /\ node' \in {"down", "genesis", "replay", "rolling", "up", "failed"}
        /\ node' # "rolling" /\ at' = NoBlock
    BY <1>1 DEF TypeOK
  <2> QED BY <1>1, <2>1, <2>2, <2>3 DEF TypeOK, Null, index, chain, tree, files
<1>5. (InDB(best) /\ InDB(heads.new) /\ InDB(heads.old))'
  BY <1>1, <1>3 DEF InDB, tree, NoHeads
<1>6. FlushPhases'
  BY <1>1 DEF FlushPhases, IdleFlush
<1>7. StartKnowsBlocks' /\ (Live' => Live) /\ (node' = "genesis" => node = "genesis")
      /\ (node = "up" /\ tip # NoBlock => mIndex[tip].known)'
  BY <1>1 DEF DiskInv, StartKnowsBlocks, Live, index, tree, chain
<1> QED BY <1>1, <1>4, <1>5, <1>6, <1>7, DiskFrame

LEMMA DiskCrash ==
  ASSUME DiskInv, Crash
  PROVE  DiskInv'
<1>1. /\ TypeOK /\ node' = "down" /\ flush' = IdleFlush /\ UNCHANGED <<cause, tree, files, coinDB>>
      /\ at' = NoBlock /\ mLast' = 0 /\ tip' = NoBlock /\ view' = {} /\ havePruned' = FALSE
      /\ dirtyBlocks' = {} /\ dirtyFiles' = {} /\ crashes' = crashes + 1 /\ crashes < MaxCrash
      /\ mIndex' = [b \in Block |-> Unknown] /\ mInfo' = [f \in File |-> NoInfo]
  BY DEF Crash, DiskInv
<1>2. Unknown \in Entry /\ NoInfo \in FileInfo /\ IdleFlush.pc = "idle" /\ 0 \in File
  BY BoundsAssumption, SMT DEF Unknown, Entry, NoInfo, FileInfo, IdleFlush, File
<1>3. crashes' \in 0..MaxCrash
  BY <1>1, BoundsAssumption, SMT DEF TypeOK
<1>4. TypeOK'
  <2>1. /\ mIndex' \in [Block -> Entry] /\ mInfo' \in [File -> FileInfo]
        /\ flush' \in [pc : {"idle", "files", "index", "unlink", "coins"},
                        full : BOOLEAN, prune : SUBSET File]
    BY <1>1, <1>2 DEF IdleFlush
  <2> QED BY <1>1, <1>2, <1>3, <2>1 DEF TypeOK, tree, files, coinDB
<1>5. Sound(dIndex, dInfo)' /\ Synced(dIndex, dLast)' /\ (dPruned \/ AllStored(dIndex))'
  BY <1>1 DEF DiskInv, Sound, Synced, AllStored, tree, files
<1>6. CleanIsWritten' /\ FlushPhases' /\ StartKnowsBlocks' /\ ~Live'
      /\ (InDB(best) /\ InDB(heads.new) /\ InDB(heads.old))'
  BY <1>1, <1>2 DEF DiskInv, CleanIsWritten, FlushPhases, StartKnowsBlocks, Live, InDB, tree, coinDB
<1> QED BY <1>1, <1>4, <1>5, <1>6 DEF DiskInv

LEMMA DiskLoad ==
  ASSUME DiskInv, CoinInv, LoadBlockIndexDB
  PROVE  DiskInv'
<1>1. /\ TypeOK /\ node = "down" /\ flush.pc = "idle" /\ at = NoBlock
      /\ mIndex' = dIndex /\ mInfo' = dInfo /\ mLast' = dLast /\ havePruned' = dPruned
      /\ dirtyBlocks' = {} /\ dirtyFiles' = {}
      /\ UNCHANGED <<flush, tree, files, coinDB, crashes>>
      /\ Sound(dIndex, dInfo) /\ Synced(dIndex, dLast) /\ (dPruned \/ AllStored(dIndex))
  BY DEF LoadBlockIndexDB, DiskInv, CoinInv, TypeOK
<1>2. ASSUME NEW b \in Block, dIndex[b].data # Nowhere
      PROVE  Exists(dIndex[b].data[1])
  <2>1. dIndex[b].data \in Place /\ blk[dIndex[b].data] = b
    BY <1>1, <1>2, EntryFacts DEF Sound
  <2>2. dIndex[b].data[2] \in Slot /\ dIndex[b].data = <<dIndex[b].data[1], dIndex[b].data[2]>>
    BY <2>1, PlaceFacts
  <2>3. blk[<<dIndex[b].data[1], dIndex[b].data[2]>>] # NoBlock
    BY <2>1, <2>2, TreeAssumption, SMT
  <2> QED BY <2>2, <2>3 DEF Exists
<1>3. /\ node' = (IF dIndex[Genesis].known THEN "replay" ELSE "genesis")
      /\ UNCHANGED <<cause, chain, at>>
  BY <1>2 DEF LoadBlockIndexDB
<1>4. TypeOK'
  <2>1. node' \in {"genesis", "replay"} /\ at' = NoBlock
    BY <1>1, <1>3
  <2> QED BY <1>1, <1>3, <2>1 DEF TypeOK, chain, tree, files, coinDB
<1>5. Sound(dIndex, dInfo)' /\ Synced(dIndex, dLast)' /\ Sound(mIndex, mInfo)'
      /\ Synced(mIndex, mLast)' /\ (dPruned \/ AllStored(dIndex))' /\ (dPruned \/ AllStored(mIndex))'
  BY <1>1 DEF Sound, Synced, AllStored, files, tree
<1>6. Ahead'
  <2>1. \A f \in File : dInfo[f].size \in Nat /\ dInfo[f].undo \in Nat
    BY <1>1, InfoFacts
  <2>2. dLast \in Int
    BY <1>1, PlaceFacts DEF TypeOK
  <2> QED BY <1>1, <2>1, <2>2, SMT DEF Ahead, tree
<1>7. CleanIsWritten' /\ FlushPhases' /\ StartKnowsBlocks'
      /\ (InDB(best) /\ InDB(heads.new) /\ InDB(heads.old))'
  BY <1>1, <1>3 DEF DiskInv, CleanIsWritten, FlushPhases, StartKnowsBlocks, InDB, tree, coinDB
<1>8. node' # "up" /\ (node = "genesis" => ~mIndex[Genesis].known)'
      /\ (\A b \in Block : dIndex[b].known => mIndex[b].known)' /\ (havePruned = dPruned)'
  BY <1>1, <1>3 DEF tree
<1> QED BY <1>4, <1>5, <1>6, <1>7, <1>8 DEF DiskInv

(* The steps of a start after the index is loaded leave the disk alone.    *)
LEMMA DiskStart ==
  ASSUME DiskInv, CoinInv, LoadChainTip \/ ReplayBlocks \/ RollforwardBlock
  PROVE  DiskInv'
<1>1. /\ TypeOK /\ Live /\ node # "up" /\ flush.pc = "idle"
      /\ UNCHANGED <<index, flush, tree, files, coinDB, crashes>>
      /\ Sound(mIndex, mInfo) /\ (dPruned \/ AllStored(mIndex))
      /\ \A b \in Block : dIndex[b].known => mIndex[b].known
  BY DEF LoadChainTip, ReplayBlocks, RollforwardBlock, DiskInv, CoinInv, Live
<1>2. FlushPhases' /\ (InDB(best) /\ InDB(heads.new) /\ InDB(heads.old))' /\ dPruned' = dPruned
  BY <1>1 DEF DiskInv, FlushPhases, InDB, tree, coinDB
<1>3. ASSUME NEW b \in Block, mIndex[b].known, ~CanRead(b)
      PROVE  dPruned
  BY <1>1, <1>3 DEF Sound, AllStored, CanRead
<1>4. ASSUME NEW b \in Null, InDB(b), b # NoBlock
      PROVE  mIndex[b].known
  BY <1>1, <1>4 DEF InDB, Null
<1>5. SUFFICES /\ node' \in {"replay", "rolling", "up", "failed"}
               /\ cause' \in {"none", "unreadable", "assert"} \/ cause' = cause
               /\ cause' = "unreadable" => cause = "unreadable" \/ dPruned
               /\ tip' \in Null /\ view' \in SUBSET Coin /\ at' \in Null
               /\ node' = "rolling" <=> at' # NoBlock
               /\ node' = "up" /\ tip' # NoBlock => mIndex[tip'].known
  <2>1. TypeOK'
    BY <1>1, <1>5, SMT DEF TypeOK, Null, index, tree, files, coinDB
  <2>2. StartKnowsBlocks'
    BY <1>2, <1>5 DEF DiskInv, StartKnowsBlocks
  <2>3. Live' => Live
    BY <1>1
  <2>4. (node = "up" /\ tip # NoBlock => mIndex[tip].known)' /\ node' # "genesis"
    BY <1>1, <1>5 DEF index
  <2> QED BY <1>1, <1>2, <2>1, <2>2, <2>3, <2>4, DiskFrame
<1>6. CASE LoadChainTip
  <2>1. best \in Null /\ (best # NoBlock => mIndex[best].known) /\ coins \in SUBSET Coin
        /\ at = NoBlock
    BY <1>4, <1>6 DEF DiskInv, TypeOK, Null, LoadChainTip
  <2>2. node' = "up" /\ tip' = best /\ view' = coins /\ UNCHANGED <<cause, at>>
    BY <1>6, <2>1 DEF LoadChainTip
  <2> QED BY <2>1, <2>2 DEF Null
<1>7. CASE ReplayBlocks
  <2>1. /\ heads.new \in Block /\ heads.old \in Null /\ tip \in Null /\ view \in SUBSET Coin
        /\ coins \in SUBSET Coin
    BY <1>1, <1>7 DEF CoinInv, ReplayBlocks, TypeOK, Null
  <2>2. KnownHeads
    BY <1>4, <2>1, TreeAssumption DEF DiskInv, KnownHeads, Null
  <2>3. CASE RollsForward
    <3>1. node' = "rolling" /\ at' = RollFrom /\ view' = coins /\ UNCHANGED <<cause, tip>>
      BY <1>7, <2>2, <2>3 DEF ReplayBlocks
    <3>2. RollFrom \in Block
      BY <2>1, TreeAssumption DEF RollFrom, Null
    <3> QED BY <2>1, <3>1, <3>2, TreeAssumption DEF Null
  <2>4. CASE ~RollsForward
    <3>1. /\ node' = "failed" /\ at' = NoBlock /\ UNCHANGED chain
          /\ cause' = IF CanRead(heads.old) THEN "assert" ELSE "unreadable"
      BY <1>7, <2>2, <2>4 DEF ReplayBlocks, Fail
    <3>2. heads.old \in Block /\ mIndex[heads.old].known
      BY <2>1, <2>2, <2>4 DEF RollsForward, Null, KnownHeads
    <3>3. cause' = "unreadable" => dPruned
      BY <1>3, <3>1, <3>2
    <3> QED BY <2>1, <3>1, <3>3 DEF chain, Null
  <2> QED BY <2>3, <2>4
<1>8. CASE RollforwardBlock
  <2> DEFINE b == CHOOSE c \in Anc[heads.new] : c # Genesis /\ Parent[c] = at
  <2>1. /\ node = "rolling" /\ heads.new \in Block /\ at \in Anc[heads.new] /\ at # heads.new
        /\ tip \in Null /\ view \in SUBSET Coin
    BY <1>1, <1>8 DEF RollforwardBlock, CoinInv, TypeOK, Null
  <2>2. b \in Anc[heads.new] /\ b \in Block
    <3>1. \E c \in Anc[heads.new] : c # Genesis /\ Parent[c] = at
      BY <2>1, TreeAssumption
    <3> QED BY <2>1, <3>1, TreeAssumption
  <2>3. mIndex[b].known
    <3>1. mIndex[heads.new].known
      BY <1>4, <2>1, TreeAssumption DEF DiskInv, Null
    <3> QED BY <1>1, <2>1, <2>2, <3>1 DEF Sound
  <2> HIDE DEF b
  <2>4. CASE CanRead(b)
    <3>1. at' = b /\ view' = Apply(b, view) /\ UNCHANGED <<node, cause, tip>>
      BY <1>8, <2>4 DEF RollforwardBlock, b
    <3>2. Apply(b, view) \in SUBSET Coin
      BY <2>1, <2>2, CoinAssumption DEF Apply
    <3> QED BY <2>1, <2>2, <3>1, <3>2, TreeAssumption DEF Null
  <2>5. CASE ~CanRead(b)
    <3>1. node' = "failed" /\ cause' = "unreadable" /\ at' = NoBlock /\ UNCHANGED chain
      BY <1>8, <2>5 DEF RollforwardBlock, Fail, b
    <3> QED BY <1>3, <2>1, <2>2, <2>3, <2>5, <3>1 DEF chain, Null
  <2> QED BY <2>4, <2>5
<1> QED BY <1>6, <1>7, <1>8

LEMMA DiskStep == DiskInv /\ CoinInv /\ [Next]_vars => DiskInv'
<1> SUFFICES ASSUME DiskInv, CoinInv, [Next]_vars PROVE DiskInv'
  OBVIOUS
<1>1. CASE UNCHANGED vars
  <2>1. UNCHANGED <<index, tree, files>> /\ UNCHANGED <<node, cause, chain, flush, at, coinDB, crashes>>
    BY <1>1 DEF vars
  <2>2. TypeOK'
    BY <2>1, SMT DEF DiskInv, TypeOK, index, tree, files, chain, coinDB
  <2>3. FlushPhases' /\ (InDB(best) /\ InDB(heads.new) /\ InDB(heads.old))' /\ StartKnowsBlocks'
    BY <2>1 DEF DiskInv, FlushPhases, Avoids, InDB, StartKnowsBlocks, index, tree, files, coinDB
  <2>4. (node = "up" /\ tip # NoBlock => mIndex[tip].known)' /\ (Live' => Live)
    BY <2>1 DEF DiskInv, Live, index, chain
  <2> QED BY <2>1, <2>2, <2>3, <2>4, DiskFrame
<1>2. CASE \E b \in Block, f \in File : AcceptBlock(b, f)
  BY <1>2, DiskAccept
<1>3. CASE \E b \in Block : ConnectTip(b)
  BY <1>3, DiskConnect
<1>4. CASE DisconnectTip
  BY <1>4, DiskDisconnect
<1>5. CASE \E full \in BOOLEAN, P \in SUBSET File : BeginFlush(full, P)
  BY <1>5, DiskBeginFlush
<1>6. CASE FlushBlockFile \/ WriteBatchSync \/ UnlinkPrunedFiles
  BY <1>6, DiskFlushBlockFile, DiskWriteBatch, DiskUnlink
<1>7. CASE \E S \in SUBSET Coin : WritePartialBatch(S)
  BY <1>7, DiskPartialBatch
<1>8. CASE WriteFinalBatch
  BY <1>8, DiskFinalBatch
<1>9. CASE Crash
  BY <1>9, DiskCrash
<1>10. CASE LoadBlockIndexDB
  BY <1>10, DiskLoad
<1>11. CASE \E f \in File : LoadGenesisBlock(f)
  BY <1>11, DiskGenesis
<1>12. CASE LoadChainTip \/ ReplayBlocks \/ RollforwardBlock
  BY <1>12, DiskStart
<1> QED BY <1>1, <1>2, <1>3, <1>4, <1>5, <1>6, <1>7, <1>8, <1>9, <1>10, <1>11, <1>12 DEF Next

LEMMA DiskAlways == Spec => []DiskInv
BY DiskInit, DiskStep, CoinAlways, PTL DEF Spec

(* The types of FlushState.                                                *)
THEOREM FlushTypes == Spec => []TypeOK
<1>1. DiskInv => TypeOK
  BY DEF DiskInv
<1> QED BY DiskAlways, <1>1, PTL

(* Whatever the block tree database says is stored can be read back: no    *)
(* write, whether indexed or lost with a crash, lands on it, and no file   *)
(* is deleted before the database has let go of it (FindBlockPos,          *)
(* FlushStateToDisk, UnlinkPrunedFiles).                                   *)
THEOREM DiskReadable == Spec => []IndexedReadable
<1>1. DiskInv => IndexedReadable
  BY DEF DiskInv, Sound, IndexedReadable
<1> QED BY DiskAlways, <1>1, PTL

(* Every change of an index entry or a file info is marked dirty until the *)
(* batch with it is written (setDirtyBlockIndex, setDirtyFileInfo).        *)
THEOREM DirtyComplete == Spec => []CleanIsWritten
<1>1. DiskInv => CleanIsWritten
  BY DEF DiskInv
<1> QED BY DiskAlways, <1>1, PTL

(* A start after any crash finds every block that the coins database names *)
(* in the block tree database and the file of every indexed block; a block *)
(* that is missing from the replay was pruned (ReplayBlocks, LoadChainTip, *)
(* LoadBlockIndexDB).                                                      *)
THEOREM StartSucceeds == Spec => []StartKnowsBlocks
<1>1. DiskInv => StartKnowsBlocks
  BY DEF DiskInv
<1> QED BY DiskAlways, <1>1, PTL

(* Block data is synced before the index that refers to it is written      *)
(* (FindBlockPos for the files that are left, FlushBlockFile for the last  *)
(* one).                                                                   *)
THEOREM DataBeforeIndex == Spec => []DataSyncedFirst
<1>1. DiskInv => DataSyncedFirst
  <2> SUFFICES ASSUME DiskInv, NEW b \in Block, flush.pc = "unlink", dIndex[b].data # Nowhere
               PROVE  dIndex[b].data[1] \notin unsyncedBlk
    BY DEF DataSyncedFirst
  <2>1. TypeOK /\ Synced(dIndex, dLast) /\ dLast = mLast /\ mLast \notin unsyncedBlk
    BY DEF DiskInv, FlushPhases
  <2>2. dIndex[b].data[1] \in Int /\ dLast \in Int
    BY <2>1, EntryFacts, PlaceFacts DEF TypeOK
  <2> QED BY <2>1, <2>2, SMT DEF Synced
<1> QED BY DiskAlways, <1>1, PTL
=============================================================================
