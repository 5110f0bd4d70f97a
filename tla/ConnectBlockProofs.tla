------------------------- MODULE ConnectBlockProofs -------------------------
(***************************************************************************)
(* Proofs about the two structures ConnectBlock stands on: the caches of   *)
(* unspent outputs (CoinsCache), for any sets of outpoints, coins and      *)
(* blocks, and the queue of script checks (CheckQueue), for any number of  *)
(* threads and checks and any batch size.  The two share no state, and no  *)
(* proof of one uses a fact of the other.                                  *)
(***************************************************************************)
EXTENDS CoinsCache, CheckQueue, FiniteSetTheorems, TLAPS

(* Zenon is the prover of every step that does not name another.           *)
USE Zenon

-----------------------------------------------------------------------------
(* CoinsCache.  The inductive invariant is the type invariant together     *)
(* with the truth of the flags: NeverThrows is not inductive alone,        *)
(* because whether BatchWrite throws depends on FRESH being true of the    *)
(* parent.                                                                 *)

IInv == CacheTypeOK /\ FlagsSound /\ NeverThrows

(* A view of a cache is a map, and at every outpoint it is the entry's     *)
(* coin or the base's.                                                     *)
LEMMA ViewType ==
  ASSUME NEW cache \in [Outpoints -> Entry \cup {Absent}],
         NEW base \in [Outpoints -> Coins \cup {Spent}]
  PROVE  View(cache, base) \in [Outpoints -> Coins \cup {Spent}]
BY DEF View, Entry

(* FetchCoin never changes what a cache answers, keeps its entries sound,  *)
(* and leaves a miss only where the base has no unspent coin.              *)
LEMMA FetchInvisible ==
  ASSUME NEW cache \in [Outpoints -> Entry \cup {Absent}],
         NEW base \in [Outpoints -> Coins \cup {Spent}],
         NEW o \in Outpoints,
         \A p \in Outpoints : EntrySound(cache[p], base[p])
  PROVE  /\ Fetch(cache, base, o) \in [Outpoints -> Entry \cup {Absent}]
         /\ View(Fetch(cache, base, o), base) = View(cache, base)
         /\ \A p \in Outpoints : EntrySound(Fetch(cache, base, o)[p], base[p])
         /\ Fetch(cache, base, o)[o] = Absent => base[o] = Spent
         /\ \A p \in Outpoints \ {o} : Fetch(cache, base, o)[p] = cache[p]
<1> DEFINE e == [coin |-> base[o], dirty |-> FALSE, fresh |-> FALSE]
<1>1. CASE cache[o] # Absent \/ base[o] = Spent
  BY <1>1 DEF Fetch
<1>2. CASE ~(cache[o] # Absent \/ base[o] = Spent)
  <2>1. Fetch(cache, base, o) = [cache EXCEPT ![o] = e]
    BY <1>2 DEF Fetch
  <2>2. e \in Entry /\ e # Absent /\ e.coin = base[o] /\ ~e.dirty /\ ~e.fresh
    <3>1. e \in Entry
      BY DEF Entry
    <3>2. e # Absent
      BY <3>1, SentinelsDistinct
    <3> QED BY <3>1, <3>2
  <2>3. EntrySound(e, base[o])
    BY <2>2, <1>2 DEF EntrySound
  <2>4. [cache EXCEPT ![o] = e] \in [Outpoints -> Entry \cup {Absent}]
    BY <2>2
  <2>5. View([cache EXCEPT ![o] = e], base) = View(cache, base)
    BY <2>2, <1>2 DEF View
  <2> HIDE DEF e
  <2> QED BY <2>1, <2>2, <2>3, <2>4, <2>5
<1> QED BY <1>1, <1>2
(* SpendCoin on an entry that is there leaves the view without that coin,  *)
(* whether it erases the entry (FRESH) or keeps it pruned and DIRTY.       *)
LEMMA SpendSound ==
  ASSUME NEW cache \in [Outpoints -> Entry \cup {Absent}],
         NEW base \in [Outpoints -> Coins \cup {Spent}],
         NEW o \in Outpoints,
         \A p \in Outpoints : EntrySound(cache[p], base[p]),
         cache[o] # Absent
  PROVE  LET new == [cache EXCEPT ![o] = SpentEntry(cache[o])] IN
         /\ new \in [Outpoints -> Entry \cup {Absent}]
         /\ \A p \in Outpoints : EntrySound(new[p], base[p])
         /\ View(new, base) = [View(cache, base) EXCEPT ![o] = Spent]
<1> DEFINE e == SpentEntry(cache[o])
           new == [cache EXCEPT ![o] = e]
<1>1. CASE cache[o].fresh
  <2>1. e = Absent
    BY <1>1 DEF SpentEntry
  <2>2. base[o] = Spent
    BY <1>1 DEF EntrySound
  <2> HIDE DEF e
  <2>3. EntrySound(e, base[o])
    BY <2>1 DEF EntrySound
  <2>4. View(new, base) = [View(cache, base) EXCEPT ![o] = Spent]
    BY <2>1, <2>2 DEF View
  <2> QED BY <2>1, <2>3, <2>4 DEF e
<1>2. CASE ~cache[o].fresh
  <2>1. e = [coin |-> Spent, dirty |-> TRUE, fresh |-> FALSE]
    BY <1>2 DEF SpentEntry, Entry
  <2>2. e \in Entry /\ e.coin = Spent /\ e.dirty = TRUE /\ e.fresh = FALSE
    BY <2>1, SMT DEF Entry
  <2> HIDE DEF e
  <2>3. e # Absent
    BY <2>2, SentinelsDistinct
  <2>4. EntrySound(e, base[o])
    BY <2>2 DEF EntrySound
  <2>5. View(new, base) = [View(cache, base) EXCEPT ![o] = Spent]
    BY <2>2, <2>3 DEF View
  <2> QED BY <2>2, <2>4, <2>5 DEF e
<1> QED BY <1>1, <1>2

(* BatchWrite into a cache does not throw, leaves the parent's flags true  *)
(* of the grandparent, and makes the parent answer what the child did.     *)
LEMMA MergeSound ==
  ASSUME NEW mine \in [Outpoints -> Entry \cup {Absent}],
         NEW theirs \in [Outpoints -> Entry \cup {Absent}],
         NEW base \in [Outpoints -> Coins \cup {Spent}],
         \A p \in Outpoints : EntrySound(mine[p], base[p]),
         \A p \in Outpoints : EntrySound(theirs[p], View(mine, base)[p])
  PROVE  LET new == [o \in Outpoints |-> MergedEntry(mine[o], theirs[o])] IN
         /\ \A o \in Outpoints : ~MergeThrows(mine[o], theirs[o])
         /\ new \in [Outpoints -> Entry \cup {Absent}]
         /\ \A o \in Outpoints : EntrySound(new[o], base[o])
         /\ View(new, base) = View(theirs, View(mine, base))
<1> DEFINE new == [o \in Outpoints |-> MergedEntry(mine[o], theirs[o])]
<1>1. ASSUME NEW o \in Outpoints
      PROVE  /\ ~MergeThrows(mine[o], theirs[o])
             /\ new[o] \in Entry \cup {Absent}
             /\ EntrySound(new[o], base[o])
             /\ View(new, base)[o] = View(theirs, View(mine, base))[o]
  <2> DEFINE m == mine[o]
             t == theirs[o]
             n == MergedEntry(m, t)
  <2>1. m \in Entry \cup {Absent} /\ t \in Entry \cup {Absent}
    OBVIOUS
  <2>2. View(mine, base)[o] = IF m = Absent THEN base[o] ELSE m.coin
    BY DEF View
  <2>3. EntrySound(m, base[o]) /\ EntrySound(t, IF m = Absent THEN base[o] ELSE m.coin)
    BY <2>2
  <2>4. /\ View(theirs, View(mine, base))[o]
             = IF t = Absent THEN IF m = Absent THEN base[o] ELSE m.coin ELSE t.coin
        /\ View(new, base)[o] = IF n = Absent THEN base[o] ELSE n.coin
        /\ new[o] = n
    BY <2>2 DEF View
  <2>5. ~MergeThrows(m, t)
    BY <2>3 DEF MergeThrows, EntrySound
  <2>6. /\ n \in Entry \cup {Absent}
        /\ EntrySound(n, base[o])
        /\ (IF n = Absent THEN base[o] ELSE n.coin)
              = IF t = Absent THEN IF m = Absent THEN base[o] ELSE m.coin ELSE t.coin
    <3>1. CASE t = Absent \/ ~t.dirty
      <4>1. n = m
        BY <3>1 DEF MergedEntry
      <4> HIDE DEF n, m, t
      <4> QED BY <4>1, <2>1, <2>3, <3>1 DEF EntrySound
    <3>2. CASE t # Absent /\ t.dirty /\ m = Absent
      <4>1. n = t
        BY <3>2, <2>3 DEF MergedEntry, EntrySound
      <4> HIDE DEF n, m, t
      <4> QED BY <4>1, <2>1, <2>3, <3>2 DEF EntrySound
    <3>3. CASE t # Absent /\ t.dirty /\ m # Absent /\ m.fresh /\ t.coin = Spent
      <4>1. n = Absent
        BY <3>3 DEF MergedEntry
      <4> HIDE DEF n, m, t
      <4> QED BY <4>1, <2>1, <2>3, <3>3 DEF EntrySound
    <3>4. CASE t # Absent /\ t.dirty /\ m # Absent /\ ~(m.fresh /\ t.coin = Spent)
      <4>1. n = [coin |-> t.coin, dirty |-> TRUE, fresh |-> m.fresh]
        BY <3>4 DEF MergedEntry
      <4>2. n \in Entry /\ n.coin = t.coin /\ n.dirty = TRUE /\ n.fresh = m.fresh
        BY <4>1, <3>4, <2>1, SMT DEF Entry
      <4> HIDE DEF n, m, t
      <4>3. n # Absent
        BY <4>2, SentinelsDistinct
      <4> QED BY <4>2, <4>3, <2>1, <2>3, <3>4 DEF EntrySound
    <3> QED BY <3>1, <3>2, <3>3, <3>4
  <2> QED BY <2>4, <2>5, <2>6
<1>2. View(new, base) = View(theirs, View(mine, base))
  BY <1>1 DEF View
<1> QED BY <1>1, <1>2
-----------------------------------------------------------------------------
(* A lookup through the child, in both layers at once.                     *)
LEMMA ChildFetch ==
  ASSUME IInv, NEW o \in Outpoints
  PROVE  /\ TipAfterChildFetch(o) \in [Outpoints -> Entry \cup {Absent}]
         /\ View(TipAfterChildFetch(o), db) = TipView
         /\ \A p \in Outpoints : EntrySound(TipAfterChildFetch(o)[p], db[p])
         /\ ChildAfterFetch(o) \in [Outpoints -> Entry \cup {Absent}]
         /\ View(ChildAfterFetch(o), TipView) = ChildView
         /\ \A p \in Outpoints : EntrySound(ChildAfterFetch(o)[p], TipView[p])
         /\ ChildAfterFetch(o)[o] = Absent => TipView[o] = Spent
<1>1. TipView \in [Outpoints -> Coins \cup {Spent}]
  BY ViewType DEF IInv, CacheTypeOK, TipView
<1>2. /\ Fetch(tip, db, o) \in [Outpoints -> Entry \cup {Absent}]
      /\ View(Fetch(tip, db, o), db) = View(tip, db)
      /\ \A p \in Outpoints : EntrySound(Fetch(tip, db, o)[p], db[p])
  BY FetchInvisible DEF IInv, CacheTypeOK, FlagsSound
<1>3. /\ Fetch(child, TipView, o) \in [Outpoints -> Entry \cup {Absent}]
      /\ View(Fetch(child, TipView, o), TipView) = View(child, TipView)
      /\ \A p \in Outpoints : EntrySound(Fetch(child, TipView, o)[p], TipView[p])
      /\ Fetch(child, TipView, o)[o] = Absent => TipView[o] = Spent
  BY <1>1, FetchInvisible DEF IInv, CacheTypeOK, FlagsSound
<1>4. /\ tip \in [Outpoints -> Entry \cup {Absent}]
      /\ \A p \in Outpoints : EntrySound(tip[p], db[p])
  BY DEF IInv, CacheTypeOK, FlagsSound
<1>5. TipAfterChildFetch(o) \in {tip, Fetch(tip, db, o)}
  BY DEF TipAfterChildFetch
<1> QED BY <1>2, <1>3, <1>4, <1>5 DEF ChildAfterFetch, ChildView, TipView

(* What every step does to the three maps and their labels: the effect     *)
(* that UTXOLayers gives it, with the invariant kept.                      *)
LEMMA InitIInv == CacheInit => IInv
BY DEF CacheInit, IInv, CacheTypeOK, FlagsSound, NeverThrows, EntrySound, EmptyCache

LEMMA AccessChildStep ==
  ASSUME IInv, NEW o \in Outpoints, AccessChild(o)
  PROVE  IInv' /\ UNCHANGED Layers!vars
<1>1. TipView' = TipView /\ ChildView' = ChildView
  BY ChildFetch DEF AccessChild, TipView, ChildView
<1>2. IInv'
  BY <1>1, ChildFetch DEF AccessChild, IInv, CacheTypeOK, FlagsSound, NeverThrows
<1> QED BY <1>1, <1>2 DEF AccessChild, Layers!vars, TipBestBlock, ChildBestBlock

LEMMA AccessTipStep ==
  ASSUME IInv, NEW o \in Outpoints, AccessTip(o)
  PROVE  IInv' /\ UNCHANGED Layers!vars
<1>1. /\ Fetch(tip, db, o) \in [Outpoints -> Entry \cup {Absent}]
      /\ View(Fetch(tip, db, o), db) = View(tip, db)
      /\ \A p \in Outpoints : EntrySound(Fetch(tip, db, o)[p], db[p])
  BY FetchInvisible DEF IInv, CacheTypeOK, FlagsSound
<1>2. TipView' = TipView /\ ChildView' = ChildView
  BY <1>1 DEF AccessTip, TipView, ChildView
<1>3. IInv'
  BY <1>1, <1>2 DEF AccessTip, IInv, CacheTypeOK, FlagsSound, NeverThrows
<1> QED BY <1>2, <1>3 DEF AccessTip, Layers!vars, TipBestBlock, ChildBestBlock

LEMMA UncacheStep ==
  ASSUME IInv, NEW o \in Outpoints, Uncache(o)
  PROVE  IInv' /\ UNCHANGED Layers!vars
<1>1. tip[o].coin = db[o]
  BY DEF Uncache, IInv, FlagsSound, EntrySound
<1>2. TipView' = TipView
  BY <1>1 DEF Uncache, TipView, View, IInv, CacheTypeOK
<1>3. ChildView' = ChildView
  BY <1>2 DEF Uncache, ChildView
<1>4. IInv'
  BY <1>2 DEF Uncache, IInv, CacheTypeOK, FlagsSound, NeverThrows, EntrySound
<1> QED BY <1>2, <1>3, <1>4 DEF Uncache, Layers!vars, TipBestBlock, ChildBestBlock

LEMMA SpendCoinStep ==
  ASSUME IInv, NEW o \in Outpoints, SpendCoin(o)
  PROVE  IInv' /\ Layers!Remove(o)
<1> DEFINE c == ChildAfterFetch(o)
<1>1. TipView' = TipView /\ TipView \in [Outpoints -> Coins \cup {Spent}]
  BY ChildFetch, ViewType DEF SpendCoin, TipView, IInv, CacheTypeOK
<1>2. /\ child' \in [Outpoints -> Entry \cup {Absent}]
      /\ \A p \in Outpoints : EntrySound(child'[p], TipView[p])
      /\ View(child', TipView) = [ChildView EXCEPT ![o] = Spent]
  <2>1. CASE c[o] = Absent
    <3>1. child' = c /\ TipView[o] = Spent /\ View(c, TipView) = ChildView
      BY <2>1, ChildFetch DEF SpendCoin
    <3>2. ChildView = [ChildView EXCEPT ![o] = Spent]
      BY <2>1, <3>1 DEF View
    <3> QED BY <3>1, <3>2, ChildFetch
  <2>2. CASE c[o] # Absent
    <3>1. child' = [c EXCEPT ![o] = SpentEntry(c[o])]
      BY <2>2 DEF SpendCoin
    <3>2. /\ c \in [Outpoints -> Entry \cup {Absent}]
          /\ \A p \in Outpoints : EntrySound(c[p], TipView[p])
          /\ View(c, TipView) = ChildView
      BY ChildFetch
    <3> HIDE DEF c
    <3> QED BY <3>1, <3>2, <2>2, <1>1, SpendSound
  <2> QED BY <2>1, <2>2
<1>3. ChildView' = [ChildView EXCEPT ![o] = Spent]
  BY <1>1, <1>2 DEF ChildView
<1>4. IInv'
  BY <1>1, <1>2, ChildFetch DEF SpendCoin, IInv, CacheTypeOK, FlagsSound, NeverThrows
<1> QED BY <1>1, <1>3, <1>4 DEF SpendCoin, Layers!Remove, TipBestBlock, ChildBestBlock

(* The part of the two AddCoin actions that is the same.                   *)
LEMMA AddToStep ==
  ASSUME IInv, NEW o \in Outpoints, NEW coin \in Coins,
         NEW cache \in [Outpoints -> Entry \cup {Absent}],
         NEW overwrite \in BOOLEAN,
         \A p \in Outpoints : EntrySound(cache[p], TipView[p]),
         View(cache, TipView) = ChildView,
         overwrite \/ ChildView[o] = Spent,
         AddTo(cache, o, coin, overwrite)
  PROVE  /\ child' \in [Outpoints -> Entry \cup {Absent}]
         /\ \A p \in Outpoints : EntrySound(child'[p], TipView[p])
         /\ View(child', TipView) = [ChildView EXCEPT ![o] = coin]
         /\ UNCHANGED thrown
<1>1. TipView \in [Outpoints -> Coins \cup {Spent}]
  BY ViewType DEF TipView, IInv, CacheTypeOK
<1> DEFINE e == AddedEntry(cache[o], coin, overwrite)
<1>2. ~overwrite => (IF cache[o] = Absent THEN TipView[o] ELSE cache[o].coin) = Spent
  <2>1. View(cache, TipView)[o] = IF cache[o] = Absent THEN TipView[o] ELSE cache[o].coin
    BY DEF View
  <2> QED BY <2>1
<1>3. ~AddThrows(cache[o], overwrite)
  BY <1>2 DEF AddThrows
<1>4. child' = [cache EXCEPT ![o] = e] /\ UNCHANGED thrown
  BY <1>3 DEF AddTo
<1>5. e \in Entry /\ e.coin = coin /\ e.dirty = TRUE
  BY DEF AddedEntry, Entry
<1>6. e.fresh => TipView[o] = Spent
  <2>1. CASE cache[o] = Absent
    BY <2>1, <1>2 DEF AddedEntry
  <2>2. CASE cache[o] # Absent
    <3>1. e.fresh = (cache[o].fresh \/ (~overwrite /\ ~cache[o].dirty))
      BY <2>2 DEF AddedEntry
    <3>2. EntrySound(cache[o], TipView[o])
      OBVIOUS
    <3> QED BY <3>1, <3>2, <2>2, <1>2 DEF EntrySound
  <2> QED BY <2>1, <2>2
<1>7. EntrySound(e, TipView[o])
  BY <1>5, <1>6, SentinelsDistinct DEF EntrySound
<1> DEFINE new == [cache EXCEPT ![o] = e]
<1> HIDE DEF e
<1>8. /\ new \in [Outpoints -> Entry \cup {Absent}]
      /\ \A p \in Outpoints : EntrySound(new[p], TipView[p])
      /\ View(new, TipView) = [View(cache, TipView) EXCEPT ![o] = e.coin]
  <2>1. e # Absent
    BY <1>5, SentinelsDistinct
  <2>2. new \in [Outpoints -> Entry \cup {Absent}]
    BY <1>5
  <2>3. \A p \in Outpoints : EntrySound(new[p], TipView[p])
    BY <1>7
  <2>4. View(new, TipView) = [View(cache, TipView) EXCEPT ![o] = e.coin]
    BY <2>1, <1>1 DEF View
  <2> QED BY <2>2, <2>3, <2>4
<1> HIDE DEF new
<1>9. child' = new
  BY <1>4 DEF new
<1> QED BY <1>4, <1>5, <1>8, <1>9

LEMMA AddCoinsUncheckedStep ==
  ASSUME IInv, NEW o \in Outpoints, NEW coin \in Coins, NEW coinbase \in BOOLEAN,
         AddCoinsUnchecked(o, coin, coinbase)
  PROVE  IInv' /\ Layers!Put(o, coin)
<1>1. coinbase \/ ChildView[o] = Spent
  BY DEF AddCoinsUnchecked, HaveCoin
<1>2. AddTo(child, o, coin, coinbase)
  BY DEF AddCoinsUnchecked
<1>3. /\ child \in [Outpoints -> Entry \cup {Absent}]
      /\ \A p \in Outpoints : EntrySound(child[p], TipView[p])
      /\ View(child, TipView) = ChildView
  BY DEF IInv, CacheTypeOK, FlagsSound, ChildView
<1>4. /\ child' \in [Outpoints -> Entry \cup {Absent}]
      /\ \A p \in Outpoints : EntrySound(child'[p], TipView[p])
      /\ View(child', TipView) = [ChildView EXCEPT ![o] = coin]
      /\ UNCHANGED thrown
  BY <1>1, <1>2, <1>3, AddToStep
<1>5. TipView' = TipView
  BY DEF AddCoinsUnchecked, TipView
<1>6. ChildView' = [ChildView EXCEPT ![o] = coin]
  BY <1>4, <1>5 DEF ChildView
<1>7. IInv'
  BY <1>4, <1>5 DEF AddCoinsUnchecked, IInv, CacheTypeOK, FlagsSound, NeverThrows
<1> QED BY <1>5, <1>6, <1>7 DEF AddCoinsUnchecked, Layers!Put, TipBestBlock, ChildBestBlock

LEMMA AddCoinCheckedStep ==
  ASSUME IInv, NEW o \in Outpoints, NEW coin \in Coins, AddCoinChecked(o, coin)
  PROVE  IInv' /\ Layers!Put(o, coin)
<1>1. HaveCoin(o) \in BOOLEAN /\ (HaveCoin(o) \/ ChildView[o] = Spent)
  BY DEF HaveCoin
<1>2. AddTo(ChildAfterFetch(o), o, coin, HaveCoin(o))
  BY DEF AddCoinChecked
<1>3. /\ ChildAfterFetch(o) \in [Outpoints -> Entry \cup {Absent}]
      /\ \A p \in Outpoints : EntrySound(ChildAfterFetch(o)[p], TipView[p])
      /\ View(ChildAfterFetch(o), TipView) = ChildView
  BY ChildFetch
<1>4. /\ child' \in [Outpoints -> Entry \cup {Absent}]
      /\ \A p \in Outpoints : EntrySound(child'[p], TipView[p])
      /\ View(child', TipView) = [ChildView EXCEPT ![o] = coin]
      /\ UNCHANGED thrown
  BY <1>1, <1>2, <1>3, AddToStep
<1>5. TipView' = TipView
  BY ChildFetch DEF AddCoinChecked, TipView
<1>6. ChildView' = [ChildView EXCEPT ![o] = coin]
  BY <1>4, <1>5 DEF ChildView
<1>7. IInv'
  BY <1>4, <1>5, ChildFetch DEF AddCoinChecked, IInv, CacheTypeOK, FlagsSound, NeverThrows
<1> QED BY <1>5, <1>6, <1>7 DEF AddCoinChecked, Layers!Put, TipBestBlock, ChildBestBlock

LEMMA LabelStep ==
  ASSUME IInv, NEW b \in Blocks, SetBestBlock(b)
  PROVE  IInv' /\ Layers!Label(b)
<1>1. TipView' = TipView /\ ChildView' = ChildView
  BY DEF SetBestBlock, TipView, ChildView
<1>2. ChildBestBlock' = b /\ TipBestBlock' = TipBestBlock
  BY SentinelsDistinct DEF SetBestBlock, ChildBestBlock, TipBestBlock, BestBlock
<1>3. IInv'
  BY <1>1 DEF SetBestBlock, IInv, CacheTypeOK, FlagsSound, NeverThrows
<1> QED BY <1>1, <1>2, <1>3 DEF SetBestBlock, Layers!Label

LEMMA GetBestBlockStep ==
  ASSUME IInv, GetBestBlock
  PROVE  IInv' /\ UNCHANGED Layers!vars
<1>1. TipView' = TipView /\ ChildView' = ChildView
  BY DEF GetBestBlock, TipView, ChildView
<1>2. /\ tipBest' \in Blocks \cup {Null} /\ childBest' \in Blocks
      /\ ChildBestBlock' = ChildBestBlock /\ TipBestBlock' = TipBestBlock
  BY SentinelsDistinct DEF GetBestBlock, ChildBestBlock, TipBestBlock, BestBlock, IInv, CacheTypeOK
<1>3. IInv'
  BY <1>1, <1>2 DEF GetBestBlock, IInv, CacheTypeOK, FlagsSound, NeverThrows
<1> QED BY <1>1, <1>2, <1>3 DEF GetBestBlock, Layers!vars

LEMMA FlushChildStep ==
  ASSUME IInv, FlushChild
  PROVE  IInv' /\ Layers!Commit
<1> DEFINE new == [o \in Outpoints |-> MergedEntry(tip[o], child[o])]
<1>1. /\ \A o \in Outpoints : ~MergeThrows(tip[o], child[o])
      /\ new \in [Outpoints -> Entry \cup {Absent}]
      /\ \A o \in Outpoints : EntrySound(new[o], db[o])
      /\ View(new, db) = View(child, View(tip, db))
  BY MergeSound DEF IInv, CacheTypeOK, FlagsSound, TipView
<1>2. /\ tip' = new /\ tipBest' = childBest
      /\ child' = EmptyCache /\ childBest' = Null /\ thrown' = thrown
      /\ db' = db /\ dbBest' = dbBest /\ childBest # Null
  BY <1>1 DEF FlushChild
<1> HIDE DEF new
<1>3. TipView' = ChildView
  BY <1>1, <1>2 DEF TipView, ChildView
<1>4. View(EmptyCache, ChildView) = ChildView
  BY DEF View, EmptyCache, ChildView
<1>5. ChildView' = ChildView
  BY <1>2, <1>3, <1>4 DEF ChildView
<1>6. \A o \in Outpoints : EntrySound(EmptyCache[o], TipView'[o])
  BY DEF EntrySound, EmptyCache
<1>7. IInv'
  BY <1>1, <1>2, <1>6 DEF IInv, CacheTypeOK, FlagsSound, NeverThrows, EmptyCache
<1>8. TipBestBlock' = ChildBestBlock /\ ChildBestBlock' = ChildBestBlock
  BY <1>2 DEF TipBestBlock, ChildBestBlock, BestBlock
<1> QED BY <1>2, <1>3, <1>5, <1>7, <1>8 DEF Layers!Commit

LEMMA DiscardChildStep ==
  ASSUME IInv, DiscardChild
  PROVE  IInv' /\ Layers!Abandon
<1>1. TipView' = TipView /\ TipBestBlock' = TipBestBlock
  BY DEF DiscardChild, TipView, TipBestBlock
<1>2. View(EmptyCache, TipView) = TipView
  BY DEF View, EmptyCache, TipView
<1>3. ChildView' = TipView
  BY <1>1, <1>2 DEF ChildView, DiscardChild
<1>4. ChildBestBlock' = TipBestBlock
  BY <1>1 DEF DiscardChild, ChildBestBlock, BestBlock
<1>5. \A o \in Outpoints : EntrySound(EmptyCache[o], TipView'[o])
  BY DEF EntrySound, EmptyCache
<1>6. IInv'
  BY <1>5 DEF DiscardChild, IInv, CacheTypeOK, FlagsSound, NeverThrows, EmptyCache
<1> QED BY <1>1, <1>3, <1>4, <1>6 DEF DiscardChild, Layers!Abandon

LEMMA FlushTipStep ==
  ASSUME IInv, FlushTip
  PROVE  IInv' /\ Layers!Persist
<1>1. db' = TipView
  <2>1. \A o \in Outpoints : (IF tip[o] # Absent /\ tip[o].dirty THEN tip[o].coin ELSE db[o])
                              = IF tip[o] = Absent THEN db[o] ELSE tip[o].coin
    BY DEF IInv, CacheTypeOK, FlagsSound, EntrySound
  <2> QED BY <2>1 DEF FlushTip, TipView, View
<1>2. TipView \in [Outpoints -> Coins \cup {Spent}]
  BY ViewType DEF TipView, IInv, CacheTypeOK
<1>3. View(EmptyCache, TipView) = TipView
  BY DEF View, EmptyCache, TipView
<1>4. TipView' = TipView
  BY <1>1, <1>3 DEF FlushTip, TipView
<1>5. ChildView' = ChildView
  BY <1>4 DEF FlushTip, ChildView
<1>6. /\ TipBestBlock \in Blocks
      /\ TipBestBlock' = TipBestBlock /\ ChildBestBlock' = ChildBestBlock
  BY SentinelsDistinct DEF FlushTip, TipBestBlock, ChildBestBlock, BestBlock, IInv, CacheTypeOK
<1>7. \A o \in Outpoints : EntrySound(EmptyCache[o], db'[o])
  BY DEF EntrySound, EmptyCache
<1>8. IInv'
  BY <1>1, <1>2, <1>4, <1>6, <1>7
  DEF FlushTip, IInv, CacheTypeOK, FlagsSound, NeverThrows, EmptyCache
<1> QED BY <1>1, <1>4, <1>5, <1>6, <1>8 DEF FlushTip, Layers!Persist

(* Every step of the caches keeps the invariant and is a step of the three *)
(* plain maps, or leaves them alone.                                       *)
LEMMA NextStep ==
  ASSUME IInv, [CacheNext]_cacheVars
  PROVE  IInv' /\ [Layers!Next]_(Layers!vars)
<1>1. CASE \E o \in Outpoints : AccessChild(o)
  BY <1>1, AccessChildStep
<1>2. CASE \E o \in Outpoints : AccessTip(o)
  BY <1>2, AccessTipStep
<1>3. CASE \E o \in Outpoints : SpendCoin(o)
  BY <1>3, SpendCoinStep DEF Layers!Next
<1>4. CASE \E o \in Outpoints : Uncache(o)
  BY <1>4, UncacheStep
<1>5. CASE \E o \in Outpoints, coin \in Coins, coinbase \in BOOLEAN :
             AddCoinsUnchecked(o, coin, coinbase)
  BY <1>5, AddCoinsUncheckedStep DEF Layers!Next
<1>6. CASE \E o \in Outpoints, coin \in Coins : AddCoinChecked(o, coin)
  BY <1>6, AddCoinCheckedStep DEF Layers!Next
<1>7. CASE \E b \in Blocks : SetBestBlock(b)
  BY <1>7, LabelStep DEF Layers!Next
<1>8. CASE GetBestBlock
  BY <1>8, GetBestBlockStep
<1>9. CASE FlushChild
  BY <1>9, FlushChildStep DEF Layers!Next
<1>10. CASE DiscardChild
  BY <1>10, DiscardChildStep DEF Layers!Next
<1>11. CASE FlushTip
  BY <1>11, FlushTipStep DEF Layers!Next
<1>12. CASE UNCHANGED cacheVars
  <2>1. IInv'
    BY <1>12 DEF cacheVars, IInv, CacheTypeOK, FlagsSound, NeverThrows, TipView
  <2>2. UNCHANGED Layers!vars
    BY <1>12 DEF cacheVars, Layers!vars, TipView, ChildView, TipBestBlock, ChildBestBlock
  <2> QED BY <2>1, <2>2
<1> QED BY <1>1, <1>2, <1>3, <1>4, <1>5, <1>6, <1>7, <1>8, <1>9, <1>10, <1>11, <1>12 DEF CacheNext

LEMMA Invariance == CacheSpec => []IInv
<1>1. IInv /\ [CacheNext]_cacheVars => IInv'
  BY NextStep
<1> QED BY InitIInv, <1>1, PTL DEF CacheSpec

(* The type invariant of the layered caches.                               *)
THEOREM TypeCorrect == CacheSpec => []CacheTypeOK
<1>1. IInv => CacheTypeOK
  BY DEF IInv
<1> QED BY Invariance, <1>1, PTL

(* DIRTY and FRESH always tell the truth about the layer below, for every  *)
(* set of outpoints and coins (CCoinsViewCache, coins.cpp).                *)
THEOREM FlagsAlwaysSound == CacheSpec => []FlagsSound
<1>1. IInv => FlagsSound
  BY DEF IInv
<1> QED BY Invariance, <1>1, PTL

(* Neither logic_error of coins.cpp is ever thrown.                        *)
THEOREM NoLogicError == CacheSpec => []NeverThrows
<1>1. IInv => NeverThrows
  BY DEF IInv
<1> QED BY Invariance, <1>1, PTL

(* The stack of CCoinsViewCache objects implements three plain maps: no    *)
(* reader of any layer can tell that there are caches.                     *)
THEOREM CachesAreInvisible == CacheSpec => ImplementsLayers
<1>1. CacheInit => Layers!Init
  <2> SUFFICES ASSUME CacheInit PROVE Layers!Init
    OBVIOUS
  <2>2. TipView = [o \in Outpoints |-> Spent]
    BY DEF CacheInit, TipView, View, EmptyCache
  <2>3. ChildView = [o \in Outpoints |-> Spent]
    BY <2>2 DEF CacheInit, ChildView, View, EmptyCache
  <2>4. TipBestBlock = dbBest /\ ChildBestBlock = dbBest
    BY DEF CacheInit, TipBestBlock, ChildBestBlock, BestBlock
  <2> QED BY <2>2, <2>3, <2>4 DEF CacheInit, Layers!Init
<1>2. IInv /\ [CacheNext]_cacheVars => [Layers!Next]_(Layers!vars)
  BY NextStep
<1> QED BY Invariance, <1>1, <1>2, PTL DEF CacheSpec, ImplementsLayers, Layers!Spec

-----------------------------------------------------------------------------
(* CheckQueue: the counters, the result of Wait(), and that the queue      *)
(* implements CheckSession.                                                *)

InBatch(t) == pc[t] \in {"working", "done"}

(* ControlMutex lets one master in; only masters leave Loop.               *)
Positions ==
  /\ \A w \in Worker : pc[w] \notin {"outside", "adding", "back"}
  /\ \A m \in Master : pc[m] = "outside" <=> control # m

Batches == \A t \in Thread : InBatch(t) <=> vChecks(t) # {}

(* Between sessions there is no work left and no failure remembered.       *)
Settled == fAllOk /\ \A c \in Check : place[c] = Free

(* The checks of the session succeed: those accounted for in fAllOk, those *)
(* in the queue, and those of the batches.                                 *)
AllWillSucceed ==
  /\ fAllOk
  /\ \A c \in Check : place[c] = Queue => good[c]
  /\ \A t \in Thread : pc[t] = "working" => fOk[t] /\ \A c \in vChecks(t) : good[c]
  /\ \A t \in Thread : pc[t] = "done" => fOk[t]

Accounted ==
  /\ control = NoThread => Settled
  /\ \A m \in Master : pc[m] = "back" => Settled /\ result = verdict
  /\ \A m \in Master : pc[m] \notin {"outside", "back"} => (verdict <=> AllWillSucceed)

Inv == TypeOK /\ CountersExact /\ Positions /\ Batches /\ Accounted

-----------------------------------------------------------------------------
LEMMA FiniteParts ==
  ASSUME TypeOK
  PROVE  /\ IsFiniteSet(Outstanding) /\ IsFiniteSet(Sleepers) /\ IsFiniteSet(InLoop)
         /\ \A t \in Thread : IsFiniteSet(vChecks(t))
<1>1. IsFiniteSet(Thread)
  BY ThreadAssumption, FS_Union DEF Thread
<1>2. Sleepers \in SUBSET Thread /\ InLoop \in SUBSET Thread
  BY DEF Sleepers, InLoop
<1>3. Outstanding \in SUBSET Check /\ \A t \in Thread : vChecks(t) \in SUBSET Check
  BY DEF Outstanding, vChecks
<1> QED BY <1>1, <1>2, <1>3, ThreadAssumption, FS_Subset

(* The head of a critical section leaves the counters of a thread that is  *)
(* awake and has no batch.                                                 *)
LEMMA HeadCounters ==
  ASSUME Inv, NEW t \in Thread, Locked(t)
  PROVE  /\ Todo(t) = Cardinality(Outstanding \ vChecks(t)) /\ Todo(t) \in Nat
         /\ Total(t) = Cardinality(InLoop \cup {t}) /\ Total(t) \in Nat
         /\ Idle(t) = Cardinality(Sleepers \ {t}) /\ Idle(t) \in Nat
<1>1. TypeOK /\ CountersExact /\ Batches
  BY DEF Inv
<1>2. /\ IsFiniteSet(Outstanding) /\ IsFiniteSet(Sleepers) /\ IsFiniteSet(InLoop)
      /\ IsFiniteSet(vChecks(t))
  BY <1>1, FiniteParts
<1>3. Todo(t) = Cardinality(Outstanding \ vChecks(t)) /\ Todo(t) \in Nat
  <2>1. vChecks(t) \subseteq Outstanding
    BY ThreadAssumption DEF vChecks, Outstanding, Thread
  <2>2. Outstanding \cap vChecks(t) = vChecks(t)
    BY <2>1
  <2>3. Cardinality(Outstanding \ vChecks(t)) = Cardinality(Outstanding) - Cardinality(vChecks(t))
    BY <2>2, <1>2, FS_Difference
  <2>4. IsFiniteSet(Outstanding \ vChecks(t))
    BY <1>2, FS_Difference
  <2>5. Cardinality(Outstanding \ vChecks(t)) \in Nat
    BY <2>4, FS_CardinalityType
  <2>6. CASE pc[t] = "done"
    BY <2>3, <2>5, <2>6, <1>1 DEF Todo, CountersExact
  <2>7. CASE pc[t] # "done"
    <3>1. vChecks(t) = {}
      BY <2>7, <1>1 DEF Locked, Batches, InBatch
    <3>2. Outstanding \ vChecks(t) = Outstanding
      BY <3>1
    <3> QED BY <3>2, <2>5, <2>7, <1>1 DEF Todo, CountersExact
  <2> QED BY <2>6, <2>7
<1>4. Total(t) = Cardinality(InLoop \cup {t}) /\ Total(t) \in Nat
  <2>1. Cardinality(InLoop) \in Nat
    BY <1>2, FS_CardinalityType
  <2>2. t \in InLoop <=> pc[t] # "new"
    BY DEF InLoop, Locked
  <2>3. Cardinality(InLoop \cup {t}) = IF t \in InLoop THEN Cardinality(InLoop) ELSE Cardinality(InLoop) + 1
    BY <1>2, FS_AddElement
  <2> QED BY <2>1, <2>2, <2>3, <1>1, SMT DEF Total, CountersExact
<1>5. Idle(t) = Cardinality(Sleepers \ {t}) /\ Idle(t) \in Nat
  <2>1. t \in Sleepers <=> pc[t] = "awake"
    BY DEF Sleepers, Locked
  <2>2. Cardinality(Sleepers \ {t}) = IF t \in Sleepers THEN Cardinality(Sleepers) - 1 ELSE Cardinality(Sleepers)
    BY <1>2, FS_RemoveElement
  <2>3. IsFiniteSet(Sleepers \ {t})
    BY <1>2, FS_RemoveElement
  <2>4. Cardinality(Sleepers \ {t}) \in Nat
    BY <2>3, FS_CardinalityType
  <2> QED BY <2>1, <2>2, <2>4, <1>1 DEF Idle, CountersExact
<1> QED BY <1>3, <1>4, <1>5

(* The end of a critical section changes the position of its thread, and   *)
(* may wake up a master.                                                   *)
LEMMA AfterFacts ==
  ASSUME TypeOK, NEW t \in Thread, NEW stage \in Stage, After(t, stage)
  PROVE  /\ pc' \in [Thread -> Stage]
         /\ pc'[t] = stage
         /\ \A u \in Thread \ {t} : pc'[u] = pc[u] \/ (pc[u] = "asleep" /\ pc'[u] = "awake")
<1>1. \A u \in Thread : pc'[u] = IF u = t THEN stage
                                ELSE IF InformMaster(t) /\ u \in Master /\ pc[u] = "asleep" THEN "awake"
                                ELSE pc[u]
  BY DEF After
<1>2. pc' = [u \in Thread |-> pc'[u]]
  BY DEF After
<1>3. \A u \in Thread : pc'[u] \in Stage
  BY <1>1 DEF TypeOK, Stage
<1> QED BY <1>1, <1>2, <1>3

(* The sets that are counted, after a critical section.                    *)
LEMMA AfterSets ==
  ASSUME TypeOK, NEW t \in Thread, NEW stage \in Stage, After(t, stage)
  PROVE  /\ stage = "asleep" => Sleepers' = (Sleepers \ {t}) \cup {t}
         /\ stage \in {"working", "back"} => Sleepers' = Sleepers \ {t}
         /\ stage \in {"asleep", "working"} => InLoop' = InLoop \cup {t}
         /\ stage = "back" => InLoop' = (InLoop \cup {t}) \ {t}
<1>1. /\ pc'[t] = stage
      /\ \A u \in Thread \ {t} : pc'[u] = pc[u] \/ (pc[u] = "asleep" /\ pc'[u] = "awake")
  BY AfterFacts
<1>2. \A u \in Thread \ {t} : (u \in Sleepers' <=> u \in Sleepers) /\ (u \in InLoop' <=> u \in InLoop)
  BY <1>1 DEF Sleepers, InLoop
<1>3. stage \in {"asleep", "awake"} <=> t \in Sleepers'
  BY <1>1 DEF Sleepers
<1>4. (stage \in {"asleep", "working"} => t \in InLoop') /\ (stage = "back" => t \notin InLoop')
  BY <1>1 DEF InLoop
<1>5. Sleepers \subseteq Thread /\ Sleepers' \subseteq Thread /\ InLoop \subseteq Thread /\ InLoop' \subseteq Thread
  BY DEF Sleepers, InLoop
<1> QED BY <1>2, <1>3, <1>4, <1>5

LEMMA InitInv == Init => Inv
<1> SUFFICES ASSUME Init PROVE Inv
  OBVIOUS
<1>1. TypeOK
  BY DEF Init, TypeOK, Stage, Thread
<1>2. Outstanding = {} /\ Sleepers = {} /\ InLoop = {}
  BY DEF Init, Outstanding, Sleepers, InLoop, Thread
<1>3. CountersExact
  BY <1>2, FS_EmptySet DEF Init, CountersExact
<1>4. Positions
  BY ThreadAssumption DEF Init, Positions, Thread
<1>5. Batches
  BY ThreadAssumption DEF Init, Batches, InBatch, vChecks, Thread
<1>6. Accounted
  BY DEF Init, Accounted, Settled, Thread
<1> QED BY <1>1, <1>3, <1>4, <1>5, <1>6 DEF Inv

-----------------------------------------------------------------------------
(* The steps of CCheckQueueControl.                                        *)

LEMMA EnterControlInv ==
  ASSUME Inv, NEW m \in Master, EnterControl(m)
  PROVE  Inv'
<1> USE DEF Inv, EnterControl, queue
<1>0. m \in Thread /\ m # NoThread
  BY ThreadAssumption DEF Thread
<1>1. TypeOK'
  BY <1>0 DEF TypeOK, Stage
<1>2. \A t \in Thread : pc'[t] = IF t = m THEN "adding" ELSE pc[t]
  BY <1>0 DEF TypeOK
<1>3. Outstanding' = Outstanding /\ Sleepers' = Sleepers /\ InLoop' = InLoop
  BY <1>2, SMT DEF Outstanding, Sleepers, InLoop
<1>4. CountersExact'
  BY <1>3 DEF CountersExact
<1>5. Positions'
  BY <1>2, ThreadAssumption, SMT DEF Positions, Thread
<1>6. Batches'
  BY <1>2, SMT DEF Batches, InBatch, vChecks
<1>7. Settled /\ Settled'
  BY DEF Accounted, Settled
<1>8. AllWillSucceed'
  <2>1. \A t \in Thread : ~InBatch(t)'
    BY <1>6, <1>7, ThreadAssumption DEF Batches, vChecks, Settled, Thread
  <2> QED BY <2>1, <1>7, ThreadAssumption DEF AllWillSucceed, Settled, InBatch
<1>9. Accounted'
  <2>1. \A n \in Master \ {m} : pc'[n] = "outside"
    BY <1>2, ThreadAssumption DEF Positions, Thread
  <2>2. \A n \in Master : pc'[n] # "back"
    BY <2>1, <1>0, <1>2, SMT
  <2>3. verdict' <=> AllWillSucceed'
    BY <1>8
  <2>4. control' # NoThread
    BY <1>0
  <2> QED BY <2>2, <2>3, <2>4 DEF Accounted
<1> QED BY <1>1, <1>4, <1>5, <1>6, <1>9

LEMMA WaitInv ==
  ASSUME Inv, NEW m \in Master, Wait(m)
  PROVE  Inv'
<1> USE DEF Inv, Wait, queue, session
<1>0. m \in Thread
  BY DEF Thread
<1>1. TypeOK'
  BY <1>0 DEF TypeOK, Stage
<1>2. \A t \in Thread : pc'[t] = IF t = m THEN "new" ELSE pc[t]
  BY <1>0 DEF TypeOK
<1>3. Outstanding' = Outstanding /\ Sleepers' = Sleepers /\ InLoop' = InLoop
  BY <1>2, SMT DEF Outstanding, Sleepers, InLoop
<1>4. CountersExact'
  BY <1>3 DEF CountersExact
<1>5. Positions'
  BY <1>2, ThreadAssumption, SMT DEF Positions, Thread
<1>6. Batches'
  BY <1>2, SMT DEF Batches, InBatch, vChecks
<1>7. AllWillSucceed' = AllWillSucceed
  BY <1>2, SMT DEF AllWillSucceed, vChecks
<1>8. Accounted'
  BY <1>0, <1>2, <1>7, SMT DEF Accounted, Settled, Thread
<1> QED BY <1>1, <1>4, <1>5, <1>6, <1>8

LEMMA LeaveControlInv ==
  ASSUME Inv, NEW m \in Master, LeaveControl(m)
  PROVE  Inv'
<1> USE DEF Inv, LeaveControl, queue
<1>0. m \in Thread
  BY DEF Thread
<1>1. TypeOK'
  BY <1>0 DEF TypeOK, Stage
<1>2. \A t \in Thread : pc'[t] = IF t = m THEN "outside" ELSE pc[t]
  BY <1>0 DEF TypeOK
<1>3. Outstanding' = Outstanding /\ Sleepers' = Sleepers /\ InLoop' = InLoop
  BY <1>2, SMT DEF Outstanding, Sleepers, InLoop
<1>4. CountersExact'
  BY <1>3 DEF CountersExact
<1>5. Positions'
  BY <1>2, ThreadAssumption DEF Positions, Thread
<1>6. Batches'
  BY <1>2, SMT DEF Batches, InBatch, vChecks
<1>7. Settled'
  BY DEF Accounted, Settled
<1>8. \A n \in Master : pc'[n] = "outside"
  BY <1>2, ThreadAssumption DEF Positions, Thread
<1>9. Accounted'
  BY <1>7, <1>8 DEF Accounted
<1> QED BY <1>1, <1>4, <1>5, <1>6, <1>9

LEMMA AddInv ==
  ASSUME Inv, NEW m \in Master, NEW S \in SUBSET Check, Add(m, S)
  PROVE  Inv'
<1> USE DEF Inv, Add
<1>0. m \in Thread /\ control = m
  BY DEF Thread, Positions
<1>1. /\ pc' \in [Thread -> Stage]
      /\ \A t \in Thread : pc'[t] = pc[t] \/ (pc[t] = "asleep" /\ pc'[t] = "awake")
  <2>1. CASE Cardinality(S) = 1 /\ AsleepWorkers # {}
    <3>1. PICK w \in AsleepWorkers : pc' = [pc EXCEPT ![w] = "awake"] \/ pc' = pc
      BY <2>1, SMT DEF NotifyWorkers
    <3>2. w \in Thread /\ pc[w] = "asleep"
      BY DEF AsleepWorkers, Thread
    <3> QED BY <2>1, <3>1, <3>2 DEF TypeOK, Stage
  <2>2. CASE Cardinality(S) = 1 /\ AsleepWorkers = {}
    BY <2>2 DEF NotifyWorkers, TypeOK
  <2>3. CASE Cardinality(S) > 1
    <3>1. Cardinality(S) # 1
      BY <2>3, SMT
    <3>2. pc' = [t \in Thread |-> IF t \in AsleepWorkers THEN "awake" ELSE pc[t]]
      BY <3>1 DEF NotifyWorkers
    <3> QED BY <3>2 DEF TypeOK, Stage, AsleepWorkers
  <2> QED BY <2>1, <2>2, <2>3 DEF NotifyWorkers
<1>2. IsFiniteSet(S) /\ Cardinality(S) \in Nat
  BY ThreadAssumption, FS_Subset, FS_CardinalityType
<1>3. \A c \in Check : place'[c] = IF c \in S THEN Queue ELSE place[c]
  OBVIOUS
<1>4. TypeOK'
  <2>1. place' \in [Check -> {Free, Queue} \cup Thread]
    BY DEF TypeOK
  <2> QED BY <2>1, <1>1, <1>2, SMT DEF TypeOK
<1>5. CountersExact'
  <2>1. Sleepers' = Sleepers /\ InLoop' = InLoop
    BY <1>1 DEF Sleepers, InLoop
  <2>2. Outstanding' = Outstanding \cup S /\ Outstanding \cap S = {}
    BY <1>3, ThreadAssumption DEF Outstanding
  <2>3. IsFiniteSet(Outstanding)
    BY FiniteParts
  <2>4. Cardinality(Outstanding \cup S) = Cardinality(Outstanding) + Cardinality(S) - Cardinality(Outstanding \cap S)
    BY <2>3, <1>2, FS_Union
  <2>5. Cardinality(Outstanding \cap S) = 0 /\ Cardinality(Outstanding) \in Nat
    BY <2>2, <2>3, FS_EmptySet, FS_CardinalityType
  <2> QED BY <2>1, <2>2, <2>4, <2>5, <1>2, SMT DEF CountersExact
<1>6. Positions'
  BY <1>1 DEF Positions, Thread
<1>7. \A t \in Thread : vChecks(t)' = vChecks(t)
  BY <1>3, ThreadAssumption DEF vChecks, Thread
<1>8. Batches'
  BY <1>1, <1>7 DEF Batches, InBatch
<1>9. AllWillSucceed' <=> AllWillSucceed /\ \A c \in S : good[c]
  BY <1>1, <1>3, <1>7, ThreadAssumption DEF AllWillSucceed
<1>10. verdict' <=> AllWillSucceed'
  BY <1>0, <1>9 DEF Accounted
<1>11. \A n \in Master : pc'[n] # "back"
  BY <1>0, <1>1 DEF Positions, Thread
<1>12. Accounted'
  BY <1>0, <1>10, <1>11, ThreadAssumption DEF Accounted, Thread
<1> QED BY <1>4, <1>5, <1>6, <1>8, <1>12

-----------------------------------------------------------------------------
(* The steps of Loop.                                                      *)

LEMMA SpuriousWakeupInv ==
  ASSUME Inv, NEW t \in Thread, SpuriousWakeup(t)
  PROVE  Inv'
<1> USE DEF Inv, SpuriousWakeup, queue, session
<1>1. \A u \in Thread : pc'[u] = IF u = t THEN "awake" ELSE pc[u]
  BY DEF TypeOK
<1>2. TypeOK'
  BY DEF TypeOK, Stage
<1>3. Outstanding' = Outstanding /\ Sleepers' = Sleepers /\ InLoop' = InLoop
  BY <1>1 DEF Outstanding, Sleepers, InLoop
<1>4. CountersExact'
  BY <1>3 DEF CountersExact
<1>5. Positions'
  BY <1>1, SMT DEF Positions, Thread
<1>6. Batches'
  BY <1>1, SMT DEF Batches, InBatch, vChecks
<1>7. AllWillSucceed' <=> AllWillSucceed
  BY <1>1, SMT DEF AllWillSucceed, vChecks
<1>8. Accounted'
  BY <1>1, <1>7, SMT DEF Accounted, Settled, Thread
<1> QED BY <1>2, <1>4, <1>5, <1>6, <1>8

LEMMA ExecuteInv ==
  ASSUME Inv, NEW t \in Thread, Execute(t)
  PROVE  Inv'
<1> USE DEF Inv, Execute, queue, session
<1>1. \A u \in Thread : pc'[u] = IF u = t THEN "done" ELSE pc[u]
  BY DEF TypeOK
<1>2. \A u \in Thread : u # t => fOk'[u] = fOk[u]
  BY DEF TypeOK
<1>3. fOk'[t] <=> fOk[t] /\ \A c \in vChecks(t) : good[c]
  BY DEF TypeOK
<1>4. TypeOK'
  BY DEF TypeOK, Stage
<1>5. Outstanding' = Outstanding /\ Sleepers' = Sleepers /\ InLoop' = InLoop
  BY <1>1, SMT DEF Outstanding, Sleepers, InLoop
<1>6. CountersExact'
  BY <1>5 DEF CountersExact
<1>7. Positions'
  BY <1>1, SMT DEF Positions, Thread
<1>8. Batches'
  BY <1>1 DEF Batches, InBatch, vChecks
<1>9. AllWillSucceed' <=> AllWillSucceed
  BY <1>1, <1>2, <1>3, SMT DEF AllWillSucceed, vChecks
<1>10. Accounted'
  BY <1>1, <1>9, SMT DEF Accounted, Settled, Thread
<1> QED BY <1>4, <1>6, <1>7, <1>8, <1>10

LEMMA HeadAllOk ==
  ASSUME TypeOK, NEW t \in Thread
  PROVE  AllOk(t) \in BOOLEAN /\ (AllOk(t) <=> fAllOk /\ (pc[t] = "done" => fOk[t]))
BY DEF AllOk, TypeOK

LEMMA TakeBatchInv ==
  ASSUME Inv, NEW t \in Thread, TakeBatch(t)
  PROVE  Inv'
<1> USE DEF Inv, TakeBatch, session
<1>1. PICK B \in SUBSET Queued :
        /\ Cardinality(B) = nNow(t)
        /\ place' = [c \in Check |-> IF c \in B THEN t ELSE IF place[c] = t THEN Free ELSE place[c]]
  OBVIOUS
<1>2. B # {}
  <2>1. nNow(t) # 0
    BY ThreadAssumption, SMT DEF nNow
  <2> QED BY <1>1, <2>1, FS_EmptySet
<1>3. \A c \in Check : /\ c \in B => place[c] = Queue
                       /\ place'[c] = IF c \in B THEN t ELSE IF place[c] = t THEN Free ELSE place[c]
  BY <1>1 DEF Queued
<1>4. /\ pc' \in [Thread -> Stage]
      /\ pc'[t] = "working"
      /\ \A u \in Thread \ {t} : pc'[u] = pc[u] \/ (pc[u] = "asleep" /\ pc'[u] = "awake")
  BY AfterFacts DEF Stage
<1>5. AllOk(t) \in BOOLEAN /\ (AllOk(t) <=> fAllOk /\ (pc[t] = "done" => fOk[t]))
  BY HeadAllOk
<1>6. TypeOK'
  <2>1. place' \in [Check -> {Free, Queue} \cup Thread]
    BY <1>1 DEF TypeOK
  <2>2. nTodo' \in Nat /\ nIdle' \in Nat /\ nTotal' \in Nat
    BY HeadCounters
  <2>3. fOk' \in [Thread -> BOOLEAN] /\ fAllOk' \in BOOLEAN
    BY <1>5 DEF TypeOK
  <2> QED BY <2>1, <2>2, <2>3, <1>4 DEF TypeOK
<1>7. CountersExact'
  <2>1. Outstanding' = Outstanding \ vChecks(t)
    BY <1>3, ThreadAssumption DEF Outstanding, vChecks
  <2>2. Sleepers' = Sleepers \ {t} /\ InLoop' = InLoop \cup {t}
    BY AfterSets DEF Stage
  <2> QED BY <2>1, <2>2, HeadCounters DEF CountersExact
<1>8. Positions'
  BY <1>4 DEF Positions, Thread, Locked
<1>9. vChecks(t)' = B /\ \A u \in Thread \ {t} : vChecks(u)' = vChecks(u)
  BY <1>1, <1>3, ThreadAssumption DEF vChecks, Thread, Queued
<1>10. Batches'
  BY <1>2, <1>4, <1>9 DEF Batches, InBatch
<1>11. AllWillSucceed' <=> AllWillSucceed
  <2>1. fOk'[t] <=> AllOk(t)
    BY <1>5 DEF TypeOK
  <2>2. \A u \in Thread \ {t} : /\ fOk'[u] = fOk[u]
                                /\ pc'[u] = "working" <=> pc[u] = "working"
                                /\ pc'[u] = "done" <=> pc[u] = "done"
    BY <1>4 DEF TypeOK
  <2>3. ASSUME AllWillSucceed PROVE AllWillSucceed'
    <3>1. AllOk(t)
      BY <1>5, <2>3 DEF AllWillSucceed
    <3>2. \A c \in Check : place'[c] = Queue => good'[c]
      BY <1>3, <2>3, ThreadAssumption DEF AllWillSucceed, Thread
    <3>3. \A c \in B : good'[c]
      BY <1>3, <2>3 DEF AllWillSucceed, Queued
    <3>4. \A u \in Thread : pc'[u] = "working" => fOk'[u] /\ \A c \in vChecks(u)' : good'[c]
      BY <1>4, <1>9, <2>1, <2>2, <2>3, <3>1, <3>3, SMT DEF AllWillSucceed
    <3>5. \A u \in Thread : pc'[u] = "done" => fOk'[u]
      BY <1>4, <2>2, <2>3 DEF AllWillSucceed
    <3>6. fAllOk'
      BY <3>1
    <3> QED BY <3>2, <3>4, <3>5, <3>6 DEF AllWillSucceed
  <2>4. ASSUME AllWillSucceed' PROVE AllWillSucceed
    <3>1. fAllOk /\ (pc[t] = "done" => fOk[t])
      BY <1>5, <2>4 DEF AllWillSucceed
    <3>2. ASSUME NEW c \in Check, place[c] = Queue PROVE good[c]
      <4>1. good'[c] = good[c]
        OBVIOUS
      <4>2. CASE c \in B
        <5>1. c \in vChecks(t)'
          BY <1>9, <4>2
        <5> QED BY <5>1, <4>1, <1>4, <2>4 DEF AllWillSucceed
      <4>3. CASE c \notin B
        <5>1. place'[c] = Queue
          BY <1>3, <3>2, <4>3, ThreadAssumption DEF Thread
        <5> QED BY <5>1, <4>1, <2>4 DEF AllWillSucceed
      <4> QED BY <4>2, <4>3
    <3>3. pc[t] # "working"
      BY DEF Locked
    <3> QED BY <3>1, <3>2, <3>3, <1>9, <2>2, <2>4 DEF AllWillSucceed
  <2> QED BY <2>3, <2>4
<1>12. Accounted'
  <2>1. ~Settled
    BY ThreadAssumption, SMT DEF Settled, Queued
  <2>2. \A n \in Master : pc[n] # "back" /\ pc'[n] # "back" /\ (pc'[n] = "outside" => pc[n] = "outside")
    BY <2>1, <1>4 DEF Accounted, Thread, Locked
  <2>3. \A n \in Master : pc[n] \notin {"outside", "back"} => (verdict <=> AllWillSucceed)
    BY DEF Accounted
  <2>4. \A n \in Master : pc'[n] \notin {"outside", "back"} => (verdict' <=> AllWillSucceed')
    <3>1. ASSUME NEW n \in Master, pc'[n] # "outside" PROVE pc[n] \notin {"outside", "back"}
      BY <3>1, <2>2, <1>4 DEF Thread, Locked
    <3> QED BY <3>1, <2>3, <1>11
  <2>5. control' # NoThread
    BY <2>1 DEF Accounted
  <2> QED BY <2>2, <2>4, <2>5 DEF Accounted
<1> QED BY <1>6, <1>7, <1>8, <1>10, <1>12

(* A thread that finds the queue empty lets go of its batch.               *)
LEMMA ReleaseFacts ==
  ASSUME Inv, NEW t \in Thread, place' = Released(t), NEW stage \in {"asleep", "back"},
         After(t, stage)
  PROVE  /\ place' \in [Check -> {Free, Queue} \cup Thread]
         /\ Outstanding' = Outstanding \ vChecks(t)
         /\ \A u \in Thread \ {t} : vChecks(u)' = vChecks(u)
         /\ Queued = {} => Queued' = {}
         /\ Batches'
<1> USE DEF Inv
<1>1. /\ pc'[t] = stage
      /\ \A u \in Thread \ {t} : pc'[u] = pc[u] \/ (pc[u] = "asleep" /\ pc'[u] = "awake")
  BY AfterFacts DEF Stage
<1>2. \A c \in Check : place'[c] = IF place[c] = t THEN Free ELSE place[c]
  BY DEF Released
<1>3. place' \in [Check -> {Free, Queue} \cup Thread]
  BY DEF Released, TypeOK
<1>4. Outstanding' = Outstanding \ vChecks(t)
  BY <1>2, ThreadAssumption DEF Outstanding, vChecks
<1>5. vChecks(t)' = {} /\ \A u \in Thread \ {t} : vChecks(u)' = vChecks(u)
  BY <1>2, ThreadAssumption DEF vChecks, Thread
<1>6. Batches'
  BY <1>1, <1>5 DEF Batches, InBatch
<1>7. Queued = {} => Queued' = {}
  BY <1>2, ThreadAssumption DEF Queued
<1> QED BY <1>3, <1>4, <1>5, <1>6, <1>7

LEMMA SleepInv ==
  ASSUME Inv, NEW t \in Thread, Sleep(t)
  PROVE  Inv'
<1> USE DEF Inv, Sleep, session
<1>1. /\ pc' \in [Thread -> Stage]
      /\ pc'[t] = "asleep"
      /\ \A u \in Thread \ {t} : pc'[u] = pc[u] \/ (pc[u] = "asleep" /\ pc'[u] = "awake")
  BY AfterFacts DEF Stage
<1>2. /\ place' \in [Check -> {Free, Queue} \cup Thread]
      /\ Outstanding' = Outstanding \ vChecks(t)
      /\ \A u \in Thread \ {t} : vChecks(u)' = vChecks(u)
      /\ Queued' = {}
      /\ Batches'
  BY ReleaseFacts
<1>3. AllOk(t) \in BOOLEAN /\ (AllOk(t) <=> fAllOk /\ (pc[t] = "done" => fOk[t]))
  BY HeadAllOk
<1>4. TypeOK'
  <2>1. nTodo' \in Nat /\ nIdle' \in Nat /\ nTotal' \in Nat
    <3>1. Todo(t) \in Nat /\ Idle(t) \in Nat /\ Total(t) \in Nat
      BY HeadCounters
    <3> QED BY <3>1, SMT
  <2> QED BY <2>1, <1>1, <1>2, <1>3 DEF TypeOK
<1>5. CountersExact'
  <2>1. Sleepers' = (Sleepers \ {t}) \cup {t} /\ InLoop' = InLoop \cup {t}
    BY AfterSets DEF Stage
  <2>2. IsFiniteSet(Sleepers \ {t})
    <3>1. IsFiniteSet(Sleepers)
      BY FiniteParts
    <3> QED BY <3>1, FS_RemoveElement
  <2>3. Cardinality((Sleepers \ {t}) \cup {t}) = Cardinality(Sleepers \ {t}) + 1
    BY <2>2, FS_AddElement
  <2> QED BY <2>1, <2>3, <1>2, HeadCounters DEF CountersExact
<1>6. Positions'
  BY <1>1 DEF Positions, Thread, Locked
<1>7. AllWillSucceed' <=> AllWillSucceed
  <2>1. \A c \in Check : place[c] # Queue /\ place'[c] # Queue
    BY <1>2 DEF Queued
  <2>2. pc[t] # "working"
    BY DEF Locked
  <2> QED BY <1>1, <1>2, <1>3, <2>1, <2>2 DEF AllWillSucceed
<1>8. Settled => Settled'
  <2>1. Settled => pc[t] # "done"
    BY ThreadAssumption DEF Settled, Batches, InBatch, vChecks, Thread
  <2> QED BY <2>1, <1>3 DEF Settled, Released
<1>9. \A n \in Master : /\ pc'[n] = "back" => pc[n] = "back"
                        /\ pc'[n] \notin {"outside", "back"} => pc[n] \notin {"outside", "back"}
  BY <1>1 DEF Thread, Locked
<1>10. Accounted'
  <2>1. \A n \in Master : pc'[n] = "back" => Settled' /\ result' = verdict'
    BY <1>8, <1>9 DEF Accounted
  <2>2. \A n \in Master : pc'[n] \notin {"outside", "back"} => (verdict' <=> AllWillSucceed')
    BY <1>7, <1>9 DEF Accounted
  <2>3. control' = NoThread => Settled'
    BY <1>8 DEF Accounted
  <2> QED BY <2>1, <2>2, <2>3 DEF Accounted
<1> QED BY <1>2, <1>4, <1>5, <1>6, <1>10

(* Wait() returns: nothing is outstanding, and the result is the verdict.  *)
LEMMA ReturnInv ==
  ASSUME Inv, NEW t \in Thread, Return(t)
  PROVE  Inv' /\ control = t /\ result' = verdict
<1> USE DEF Inv, Return
<1>0. t \in Master /\ Todo(t) = 0
  BY DEF WorkDone
<1>1. /\ pc' \in [Thread -> Stage]
      /\ pc'[t] = "back"
      /\ \A u \in Thread \ {t} : pc'[u] = pc[u] \/ (pc[u] = "asleep" /\ pc'[u] = "awake")
  BY AfterFacts DEF Stage
<1>2. /\ place' \in [Check -> {Free, Queue} \cup Thread]
      /\ Outstanding' = Outstanding \ vChecks(t)
      /\ \A u \in Thread \ {t} : vChecks(u)' = vChecks(u)
      /\ Batches'
  BY ReleaseFacts
<1>3. AllOk(t) \in BOOLEAN /\ (AllOk(t) <=> fAllOk /\ (pc[t] = "done" => fOk[t]))
  BY HeadAllOk
<1>4. Outstanding' = {}
  <2>1. Cardinality(Outstanding \ vChecks(t)) = 0
    BY <1>0, HeadCounters
  <2>2. IsFiniteSet(Outstanding \ vChecks(t))
    BY FiniteParts, FS_Difference
  <2> QED BY <2>1, <2>2, <1>2, FS_EmptySet
<1>5. \A c \in Check : place'[c] = Free
  BY <1>4 DEF Outstanding
<1>6. ASSUME NEW u \in Thread \ {t} PROVE ~InBatch(u)
  <2>1. vChecks(u)' = {}
    BY <1>5, ThreadAssumption DEF vChecks
  <2> QED BY <2>1, <1>2 DEF Batches
<1>7. AllWillSucceed <=> AllOk(t)
  <2>1. \A c \in Check : place[c] # Queue
    BY DEF Queued
  <2>2. pc[t] # "working"
    BY DEF Locked
  <2> QED BY <2>1, <2>2, <1>3, <1>6 DEF AllWillSucceed, InBatch
<1>8. control = t
  BY <1>0 DEF Positions, Locked
<1>9. result' = verdict
  <2>1. verdict <=> AllWillSucceed
    BY <1>0 DEF Accounted, Locked
  <2>2. verdict \in BOOLEAN
    BY DEF TypeOK
  <2> QED BY <2>1, <2>2, <1>3, <1>7, SMT
<1>10. TypeOK'
  <2>1. Cardinality((InLoop \cup {t}) \ {t}) = Cardinality(InLoop \cup {t}) - 1 /\ IsFiniteSet((InLoop \cup {t}) \ {t})
    BY FiniteParts, FS_AddElement, FS_RemoveElement
  <2>2. nTotal' \in Nat
    BY <2>1, HeadCounters, FS_CardinalityType
  <2>3. nTodo' \in Nat /\ nIdle' \in Nat
    BY HeadCounters
  <2> QED BY <2>2, <2>3, <1>1, <1>2, <1>3 DEF TypeOK
<1>11. CountersExact'
  <2>1. Sleepers' = Sleepers \ {t} /\ InLoop' = (InLoop \cup {t}) \ {t}
    BY AfterSets DEF Stage
  <2>2. Cardinality((InLoop \cup {t}) \ {t}) = Cardinality(InLoop \cup {t}) - 1
    BY FiniteParts, FS_AddElement, FS_RemoveElement
  <2> QED BY <2>1, <2>2, <1>2, HeadCounters DEF CountersExact
<1>12. Positions'
  BY <1>0, <1>1, ThreadAssumption DEF Positions, Thread, Locked
<1>13. Accounted'
  <2>1. Settled'
    BY <1>5 DEF Settled
  <2>2. \A n \in Master \ {t} : pc'[n] = "outside"
    BY <1>8, <1>1 DEF Positions, Thread
  <2>3. result' = verdict'
    BY <1>9
  <2> QED BY <2>1, <2>2, <2>3, <1>1 DEF Accounted
<1> QED BY <1>2, <1>8, <1>9, <1>10, <1>11, <1>12, <1>13

-----------------------------------------------------------------------------
LEMMA NextInv == Inv /\ [Next]_vars => Inv'
<1> SUFFICES ASSUME Inv, [Next]_vars PROVE Inv'
  OBVIOUS
<1>1. ASSUME NEW m \in Master, EnterControl(m) PROVE Inv'
  BY <1>1, EnterControlInv
<1>2. ASSUME NEW m \in Master, Wait(m) PROVE Inv'
  BY <1>2, WaitInv
<1>3. ASSUME NEW m \in Master, LeaveControl(m) PROVE Inv'
  BY <1>3, LeaveControlInv
<1>4. ASSUME NEW m \in Master, NEW S \in SUBSET Check, Add(m, S) PROVE Inv'
  BY <1>4, AddInv
<1>5. ASSUME NEW t \in Thread, TakeBatch(t) PROVE Inv'
  BY <1>5, TakeBatchInv
<1>6. ASSUME NEW t \in Thread, Sleep(t) PROVE Inv'
  BY <1>6, SleepInv
<1>7. ASSUME NEW t \in Thread, Return(t) PROVE Inv'
  BY <1>7, ReturnInv
<1>8. ASSUME NEW t \in Thread, Execute(t) PROVE Inv'
  BY <1>8, ExecuteInv
<1>9. ASSUME NEW t \in Thread, SpuriousWakeup(t) PROVE Inv'
  BY <1>9, SpuriousWakeupInv
<1>10. CASE UNCHANGED vars
  BY <1>10, SMT DEF vars, queue, session, Inv, TypeOK, CountersExact, Outstanding, Sleepers, InLoop,
       Positions, Batches, InBatch, vChecks, Accounted, Settled, AllWillSucceed
<1> QED BY <1>1, <1>2, <1>3, <1>4, <1>5, <1>6, <1>7, <1>8, <1>9, <1>10 DEF Next, Control, Loop

LEMMA SpecInv == Spec => []Inv
<1> QED BY InitInv, NextInv, PTL DEF Spec

(* The counters of the queue are exact for any number of threads and any   *)
(* batch size: nTodo never underflows, and the share of the queue that a   *)
(* thread takes is computed from the real numbers of threads.              *)
THEOREM CountersTheorem == Spec => [](TypeOK /\ CountersExact)
<1>1. Inv => TypeOK /\ CountersExact
  BY DEF Inv
<1> QED BY <1>1, SpecInv, PTL

(* Wait() returns the conjunction of the checks of its session, when all   *)
(* of them are done.                                                       *)
THEOREM WaitTheorem == Spec => []WaitExact
<1>1. Inv => WaitExact
  BY DEF Inv, WaitExact, Accounted, Settled
<1> QED BY <1>1, SpecInv, PTL

(* The queue with its workers implements CheckSession: the steps of Loop   *)
(* but the return of Wait() are invisible, and that one returns the        *)
(* verdict of the session.                                                 *)
THEOREM SessionTheorem == Spec => ImplementsSession
<1> USE DEF Abstract!Next, Abstract!vars
<1>1. Init => Abstract!Init
  BY DEF Init, Abstract!Init, StageOf, Thread
<1>2. Inv /\ [Next]_vars => [Abstract!Next]_(Abstract!vars)
  <2> SUFFICES ASSUME Inv, [Next]_vars PROVE [Abstract!Next]_(Abstract!vars)
    OBVIOUS
  <2> DEFINE st == [m \in Master |-> StageOf(m)]
  <2>0. TypeOK
    BY DEF Inv
  <2>1. ASSUME NEW m \in Master, EnterControl(m) PROVE Abstract!Begin(m)
    <3>1. st' = [st EXCEPT ![m] = "adding"]
      BY <2>0, <2>1 DEF EnterControl, StageOf, TypeOK, Thread
    <3> QED BY <2>1, <3>1 DEF EnterControl, Abstract!Begin, StageOf
  <2>2. ASSUME NEW m \in Master, NEW S \in SUBSET Check, Add(m, S) PROVE Abstract!Add(m)
    <3>1. \A t \in Thread : pc'[t] = pc[t] \/ (pc[t] = "asleep" /\ pc'[t] = "awake")
      BY <2>0, <2>2 DEF Add, NotifyWorkers, AsleepWorkers, TypeOK, Thread
    <3>2. st' = st
      BY <3>1 DEF StageOf, Thread
    <3>3. \E v \in BOOLEAN : verdict' = (verdict /\ v)
      BY <2>2 DEF Add
    <3> QED BY <2>2, <3>2, <3>3 DEF Add, Abstract!Add, StageOf
  <2>3. ASSUME NEW m \in Master, Wait(m) PROVE Abstract!Wait(m)
    <3>1. st' = [st EXCEPT ![m] = "waiting"]
      BY <2>0, <2>3 DEF Wait, StageOf, TypeOK, Thread
    <3> QED BY <2>3, <3>1 DEF Wait, Abstract!Wait, StageOf, session
  <2>4. ASSUME NEW m \in Master, LeaveControl(m) PROVE Abstract!End(m)
    <3>1. st' = [st EXCEPT ![m] = "outside"]
      BY <2>0, <2>4 DEF LeaveControl, StageOf, TypeOK, Thread
    <3> QED BY <2>4, <3>1 DEF LeaveControl, Abstract!End, StageOf
  <2>5. ASSUME NEW t \in Thread, Return(t) PROVE Abstract!Return(t) /\ t \in Master
    <3>1. t \in Master /\ Locked(t) /\ result' = verdict
      BY <2>5, ReturnInv DEF Return, WorkDone
    <3>2. /\ pc'[t] = "back"
          /\ \A u \in Thread \ {t} : pc'[u] = pc[u] \/ (pc[u] = "asleep" /\ pc'[u] = "awake")
      BY <2>0, <2>5, AfterFacts DEF Return, Stage
    <3>3. st' = [st EXCEPT ![t] = "back"]
      <4>1. StageOf(t)' = "back"
        BY <3>2 DEF StageOf
      <4>2. \A u \in Master \ {t} : StageOf(u)' = StageOf(u)
        BY <3>2 DEF StageOf, Thread
      <4> QED BY <3>1, <4>1, <4>2
    <3> QED BY <2>5, <3>1, <3>3 DEF Return, Abstract!Return, StageOf, Locked
  <2>6. ASSUME NEW t \in Thread, TakeBatch(t) \/ Sleep(t) \/ Execute(t) \/ SpuriousWakeup(t)
        PROVE  UNCHANGED Abstract!vars
    <3>1. UNCHANGED session
      BY <2>6 DEF TakeBatch, Sleep, Execute, SpuriousWakeup
    <3>2. /\ pc[t] \notin {"outside", "adding", "back"} /\ pc'[t] \notin {"outside", "adding", "back"}
          /\ \A u \in Thread \ {t} : pc'[u] = pc[u] \/ (pc[u] = "asleep" /\ pc'[u] = "awake")
      <4>1. CASE TakeBatch(t)
        BY <2>0, <4>1, AfterFacts DEF TakeBatch, Stage, Locked
      <4>2. CASE Sleep(t)
        BY <2>0, <4>2, AfterFacts DEF Sleep, Stage, Locked
      <4>3. CASE Execute(t)
        BY <2>0, <4>3 DEF Execute, TypeOK
      <4>4. CASE SpuriousWakeup(t)
        BY <2>0, <4>4 DEF SpuriousWakeup, TypeOK
      <4> QED BY <2>6, <4>1, <4>2, <4>3, <4>4
    <3>3. st' = st
      BY <3>2 DEF StageOf, Thread
    <3> QED BY <3>1, <3>3 DEF session
  <2>7. CASE UNCHANGED vars
    BY <2>7 DEF vars, session, StageOf
  <2> QED BY <2>1, <2>2, <2>3, <2>4, <2>5, <2>6, <2>7 DEF Next, Control, Loop
<1> QED BY <1>1, <1>2, SpecInv, PTL DEF Spec, ImplementsSession, Abstract!Spec
=============================================================================
