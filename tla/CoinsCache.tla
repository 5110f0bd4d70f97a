----------------------------- MODULE CoinsCache -----------------------------
(***************************************************************************)
(* CCoinsViewCache (coins.cpp): the write-back cache of unspent outputs,   *)
(* stacked as the node stacks it.                                          *)
(*                                                                         *)
(*    db     CCoinsViewDB, the chainstate database                         *)
(*    tip    CoinsTip(), a CCoinsViewCache over db                         *)
(*    child  the CCoinsViewCache over CoinsTip() that ConnectTip,          *)
(*           DisconnectTip and TestBlockValidity put on the stack, and     *)
(*           either Flush() into tip or drop                               *)
(*                                                                         *)
(* A cache maps an outpoint to Absent or to an entry: a coin and the flags *)
(* DIRTY and FRESH.  The flags only save work; the property is that they   *)
(* never change what a reader sees (UTXOLayers).  All of this runs under   *)
(* cs_main, so the actions are the methods.  The database write is atomic  *)
(* here; FlushState splits it and crashes in the middle.                   *)
(***************************************************************************)
CONSTANTS
  Outpoints,   \* COutPoint
  Coins,       \* unspent Coin values
  Spent,       \* a Coin for which IsSpent() holds
  Absent,      \* no entry in cacheCoins
  Blocks,      \* block hashes
  Null         \* uint256() : hashBlock not loaded yet

VARIABLES
  db, tip, child,           \* the three layers
  dbBest, tipBest, childBest,   \* hashBlock of each layer
  thrown                    \* a std::logic_error left a method

cacheVars == <<db, tip, child, dbBest, tipBest, childBest, thrown>>

Entry == [coin : Coins \cup {Spent}, dirty : BOOLEAN, fresh : BOOLEAN]

ASSUME SentinelsDistinct ==
  /\ Spent \notin Coins
  /\ Absent \notin Entry
  /\ Null \notin Blocks

EmptyCache == [o \in Outpoints |-> Absent]

CacheTypeOK ==
  /\ db \in [Outpoints -> Coins \cup {Spent}]
  /\ tip \in [Outpoints -> Entry \cup {Absent}]
  /\ child \in [Outpoints -> Entry \cup {Absent}]
  /\ dbBest \in Blocks
  /\ tipBest \in Blocks \cup {Null}
  /\ childBest \in Blocks \cup {Null}
  /\ thrown \in BOOLEAN

-----------------------------------------------------------------------------
(* What a view answers.  Spent stands for "no unspent coin": GetCoin on a  *)
(* cache returns false for a spent entry as it does for a missing one.     *)

View(cache, base) ==
  [o \in Outpoints |-> IF cache[o] = Absent THEN base[o] ELSE cache[o].coin]

TipView == View(tip, db)
ChildView == View(child, TipView)

BestBlock(own, base) == IF own = Null THEN base ELSE own
TipBestBlock == BestBlock(tipBest, dbBest)
ChildBestBlock == BestBlock(childBest, TipBestBlock)

-----------------------------------------------------------------------------
(* FetchCoin: look in the cache, else copy the base's coin in, unflagged.  *)
(* (Its FRESH branch needs a base that returns true with a spent coin;     *)
(* neither CCoinsViewDB nor CCoinsViewCache does.)                         *)
Fetch(cache, base, o) ==
  IF cache[o] # Absent \/ base[o] = Spent
  THEN cache
  ELSE [cache EXCEPT ![o] = [coin |-> base[o], dirty |-> FALSE, fresh |-> FALSE]]

(* A FetchCoin of the child that misses calls GetCoin of the tip, which    *)
(* fetches in its turn.                                                    *)
TipAfterChildFetch(o) == IF child[o] = Absent THEN Fetch(tip, db, o) ELSE tip
ChildAfterFetch(o) == Fetch(child, TipView, o)

(* MUTANT of HaveCoin: HaveCoinInCache in its place.                       *)
HaveCoinOnlyInCache(o) == child[o] # Absent /\ child[o].coin # Spent

HaveCoin(o) == ChildView[o] # Spent

(* MUTANT of AddedEntry: fresh is not cleared by DIRTY.                    *)
AddedEntryAlwaysFresh(old, coin, overwrite) ==
  [coin |-> coin, dirty |-> TRUE, fresh |-> (old # Absent /\ old.fresh) \/ ~overwrite]

(* The entry AddCoin leaves, given the one it finds (or emplaces).         *)
AddedEntry(old, coin, overwrite) ==
  LET e == IF old = Absent
           THEN [coin |-> Spent, dirty |-> FALSE, fresh |-> FALSE]
           ELSE old
  IN  [coin |-> coin,
       dirty |-> TRUE,
       fresh |-> e.fresh \/ (~overwrite /\ ~e.dirty)]

(* "Adding new coin that replaces non-pruned entry"                        *)
AddThrows(old, overwrite) == ~overwrite /\ old # Absent /\ old.coin # Spent

(* The entry SpendCoin leaves for one that it found.                       *)
SpentEntry(e) ==
  IF e.fresh THEN Absent ELSE [coin |-> Spent, dirty |-> TRUE, fresh |-> e.fresh]

(* MUTANT of MergedEntry: the child's FRESH is copied over a pruned entry. *)
MergedEntryCopiesFresh(mine, theirs) ==
  CASE theirs = Absent \/ ~theirs.dirty -> mine
    [] OTHER -> IF mine # Absent /\ mine.fresh /\ theirs.coin = Spent
                THEN Absent
                ELSE theirs

(* BatchWrite: the entry of the parent after taking in one of the child's. *)
MergedEntry(mine, theirs) ==
  CASE theirs = Absent \/ ~theirs.dirty -> mine
    [] OTHER ->
         IF mine = Absent
         THEN IF theirs.fresh /\ theirs.coin = Spent THEN Absent ELSE theirs
         ELSE IF mine.fresh /\ theirs.coin = Spent
              THEN Absent
              ELSE [coin |-> theirs.coin, dirty |-> TRUE, fresh |-> mine.fresh]

(* "FRESH flag misapplied to cache entry for base transaction with         *)
(* spendable outputs"                                                      *)
MergeThrows(mine, theirs) ==
  /\ theirs # Absent
  /\ theirs.dirty
  /\ theirs.fresh
  /\ mine # Absent
  /\ mine.coin # Spent

-----------------------------------------------------------------------------
CacheInit ==
  /\ db = [o \in Outpoints |-> Spent]
  /\ tip = EmptyCache
  /\ child = EmptyCache
  /\ dbBest \in Blocks
  /\ tipBest = Null
  /\ childBest = Null
  /\ thrown = FALSE

(* HaveCoin, GetCoin, AccessCoin on the child.                             *)
AccessChild(o) ==
  /\ tip' = TipAfterChildFetch(o)
  /\ child' = ChildAfterFetch(o)
  /\ UNCHANGED <<db, dbBest, tipBest, childBest, thrown>>

(* The same on CoinsTip(): the mempool, the RPCs, the wallet.              *)
AccessTip(o) ==
  /\ tip' = Fetch(tip, db, o)
  /\ UNCHANGED <<db, child, dbBest, tipBest, childBest, thrown>>

(* AddCoin on the child, from the cache it would leave if it does not      *)
(* throw.                                                                  *)
AddTo(cache, o, coin, overwrite) ==
  IF AddThrows(cache[o], overwrite)
  THEN thrown' = TRUE /\ child' = cache
  ELSE /\ child' = [cache EXCEPT ![o] = AddedEntry(cache[o], coin, overwrite)]
       /\ UNCHANGED thrown

(* AddCoins(check = false), from UpdateCoins: only a coinbase may          *)
(* overwrite.  Any other transaction is new to the view: ConnectBlock has  *)
(* checked BIP30, or its inputs make its txid unique.                      *)
AddCoinsUnchecked(o, coin, coinbase) ==
  /\ ~coinbase => ~HaveCoin(o)
  /\ AddTo(child, o, coin, coinbase)
  /\ UNCHANGED <<db, tip, dbBest, tipBest, childBest>>

(* AddCoins(check = true), from RollforwardBlock, and ApplyTxInUndo: ask   *)
(* HaveCoin first and pass the answer as possible_overwrite.               *)
AddCoinChecked(o, coin) ==
  /\ tip' = TipAfterChildFetch(o)
  /\ AddTo(ChildAfterFetch(o), o, coin, HaveCoin(o))
  /\ UNCHANGED <<db, dbBest, tipBest, childBest>>

(* SpendCoin: nothing but the lookup when the outpoint is not found.       *)
SpendCoin(o) ==
  /\ tip' = TipAfterChildFetch(o)
  /\ LET c == ChildAfterFetch(o) IN
       child' = IF c[o] = Absent THEN c ELSE [c EXCEPT ![o] = SpentEntry(c[o])]
  /\ UNCHANGED <<db, dbBest, tipBest, childBest, thrown>>

(* ConnectBlock and DisconnectBlock label the view with the new tip.       *)
SetBestBlock(b) ==
  /\ childBest' = b
  /\ UNCHANGED <<db, tip, child, dbBest, tipBest, thrown>>

(* GetBestBlock loads hashBlock, through every layer that has none.        *)
GetBestBlock ==
  /\ tipBest' = IF childBest = Null THEN TipBestBlock ELSE tipBest
  /\ childBest' = ChildBestBlock
  /\ UNCHANGED <<db, tip, child, dbBest, thrown>>

(* child.Flush(): tip.BatchWrite takes the entries over, and the child is  *)
(* destroyed.  Both callers have labelled the view before.                 *)
FlushChild ==
  /\ childBest # Null
  /\ IF \E o \in Outpoints : MergeThrows(tip[o], child[o])
     THEN thrown' = TRUE /\ UNCHANGED <<tip, child, tipBest, childBest>>
     ELSE /\ tip' = [o \in Outpoints |-> MergedEntry(tip[o], child[o])]
          /\ tipBest' = childBest
          /\ child' = EmptyCache
          /\ childBest' = Null
          /\ UNCHANGED thrown
  /\ UNCHANGED <<db, dbBest>>

(* The child goes out of scope without Flush: a block that failed to       *)
(* connect, or TestBlockValidity.                                          *)
DiscardChild ==
  /\ child' = EmptyCache
  /\ childBest' = Null
  /\ UNCHANGED <<db, tip, dbBest, tipBest, thrown>>

(* CoinsTip().GetBestBlock(), then CoinsTip().Flush(), as FlushStateToDisk *)
(* calls them: CCoinsViewDB::BatchWrite writes the DIRTY entries only, and *)
(* a spent coin erases the record.                                         *)
FlushTip ==
  /\ db' = [o \in Outpoints |->
              IF tip[o] # Absent /\ tip[o].dirty THEN tip[o].coin ELSE db[o]]
  /\ tipBest' = TipBestBlock
  /\ dbBest' = TipBestBlock
  /\ tip' = EmptyCache
  /\ UNCHANGED <<child, childBest, thrown>>

(* CoinsTip().Uncache: drop an entry that carries no flag.                 *)
Uncache(o) ==
  /\ tip[o] # Absent
  /\ ~tip[o].dirty /\ ~tip[o].fresh
  /\ tip' = [tip EXCEPT ![o] = Absent]
  /\ UNCHANGED <<db, child, dbBest, tipBest, childBest, thrown>>

CacheNext ==
  \/ \E o \in Outpoints :
       \/ AccessChild(o)
       \/ AccessTip(o)
       \/ SpendCoin(o)
       \/ Uncache(o)
       \/ \E coin \in Coins :
            \/ \E coinbase \in BOOLEAN : AddCoinsUnchecked(o, coin, coinbase)
            \/ AddCoinChecked(o, coin)
  \/ \E b \in Blocks : SetBestBlock(b)
  \/ GetBestBlock
  \/ FlushChild
  \/ DiscardChild
  \/ FlushTip

CacheSpec == CacheInit /\ [][CacheNext]_cacheVars

-----------------------------------------------------------------------------
(* coins.h: FRESH means "The parent view does not have this entry (or it   *)
(* is pruned)", and an entry without DIRTY is not "potentially different   *)
(* from the version in the parent view".                                   *)
EntrySound(e, baseCoin) ==
  e # Absent =>
    /\ e.fresh => baseCoin = Spent /\ e.dirty /\ e.coin # Spent
    /\ ~e.dirty => e.coin = baseCoin /\ e.coin # Spent

(* At every moment, in both caches, the flags of every entry say the truth *)
(* about the layer below, whatever was fetched, added, spent, uncached or  *)
(* flushed in whichever order (AddCoin, SpendCoin, BatchWrite).            *)
FlagsSound ==
  \A o \in Outpoints :
    /\ EntrySound(tip[o], db[o])
    /\ EntrySound(child[o], TipView[o])

(* Neither logic_error of coins.cpp (AddCoin over an unspent entry, FRESH  *)
(* misapplied in BatchWrite) can be thrown by the callers the node has.    *)
NeverThrows == ~thrown

(* The layered caches implement three plain maps: a fetch, an Uncache and  *)
(* an erased FRESH entry are invisible, and a flush moves exactly the view *)
(* of one layer to the next (CCoinsViewCache::BatchWrite, Flush).          *)
Layers == INSTANCE UTXOLayers WITH
  working <- ChildView, committed <- TipView, durable <- db,
  wBest <- ChildBestBlock, cBest <- TipBestBlock, dBest <- dbBest

ImplementsLayers == Layers!Spec
=============================================================================
