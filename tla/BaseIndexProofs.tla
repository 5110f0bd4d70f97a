-------------------------- MODULE BaseIndexProofs ---------------------------
(***************************************************************************)
(* The index keeps its promises for any tree of blocks and any number of   *)
(* moves of the chain, restarts, crashes and failures.                     *)
(*                                                                         *)
(* Five invariants hold together.  Control says which of the sync thread   *)
(* and the notifications is at work.  Pending says where the queue will    *)
(* take the index.  Coverage says which blocks have been written, Kept     *)
(* that their filters can be found, and Entries what the height index      *)
(* holds for the chain that is being indexed.                              *)
(***************************************************************************)
EXTENDS BaseIndex, TLAPS

(* Zenon is the prover of every step that does not name another.           *)
USE Zenon

Ops == {"move", "flush", "wait", "stop", "crash", "fail"}
Events == [type : {"connected", "flushed", "wait"}, block : Block]

TypeOK ==
  /\ tip \in Blocks /\ diskTip \in Blocks
  /\ queue \in Seq(Events)
  /\ m_synced \in BOOLEAN /\ m_best_block_index \in Blocks
  /\ m_interrupt \in BOOLEAN
  /\ sync \in [pc : {"loop", "write", "final", "done"}, pindex : Blocks, first : BOOLEAN]
  /\ callback \in [pc : {"start", "commit", "write"}, tip : Blocks]
  /\ locator \in Blocks
  /\ heightIndex \in [Heights -> Blocks]
  /\ hashIndex \subseteq Block /\ written \subseteq Block
  /\ hole \in BOOLEAN /\ fatal \in BOOLEAN
  /\ calls \in [Ops -> Nat]

(* Before genesis is connected there is nothing to index, and the index    *)
(* waits for it.                                                           *)
IsGenesis(i) == queue[i].type = "connected" /\ queue[i].block = Genesis

Control ==
  /\ m_synced => sync.pc \in {"final", "done"}
  /\ sync.pc = "final" => m_synced /\ m_best_block_index # NoBlock
  /\ sync.pc = "write" => sync.pindex \in Block
  /\ callback.pc # "start" =>
       m_synced /\ Notified("connected") /\ pprev(Now) = m_best_block_index
  /\ callback.pc = "commit" =>
       m_best_block_index # NoBlock /\ m_best_block_index \in Ancestors(callback.tip)
  /\ tip = NoBlock =>
       m_synced /\ m_best_block_index = NoBlock /\ sync.pc = "done" /\ queue = <<>>
  /\ \A i \in 1..Len(queue) : IsGenesis(i) =>
       i = 1 /\ m_synced /\ m_best_block_index = NoBlock /\ sync.pc = "done"
  /\ m_interrupt => calls.stop > 0

(* A place of queue q where the index has to know block w: a wait, or the  *)
(* end, where it is the tip t.                                             *)
Wanted(q, t, j, w) ==
  \/ j = Len(q) + 1 /\ w = t
  \/ j \in 1..Len(q) /\ q[j].type = "wait" /\ w = q[j].block

(* From the best block b, with the first i notifications handled, the ones *)
(* before place j lead to w: w is known already, or one of them connects   *)
(* to b.                                                                   *)
Leads(q, b, i, j, w) ==
  \/ w \in Ancestors(b) \cup {NoBlock}
  \/ \E k \in i+1..j-1 : /\ q[k].type = "connected"
                         /\ pprev(q[k].block) \in Ancestors(b) \cup {NoBlock}

Pending ==
  /\ \A i \in 1..Len(queue), j \in 1..Len(queue)+1, w \in Blocks :
       queue[i].type = "connected" /\ i < j /\ Wanted(queue, tip, j, w) =>
         Leads(queue, queue[i].block, i, j, w)
  /\ m_synced /\ ~fatal =>
       \A j \in 1..Len(queue)+1, w \in Blocks :
         Wanted(queue, tip, j, w) => Leads(queue, m_best_block_index, 0, j, w)
  /\ ~m_synced => \A j \in 1..Len(queue) : queue[j].type # "wait"

Covered(b) == Ancestors(b) \subseteq written

Coverage ==
  ~hole =>
    /\ LocatorCovered
    /\ \A b \in written : Covered(b)
    /\ sync.pc = "loop" => Covered(sync.pindex)
    /\ sync.pc = "write" => Covered(pprev(sync.pindex))
    /\ m_synced => Covered(m_best_block_index)
    /\ callback.pc = "commit" => Covered(callback.tip)

(* The block up to which the entries have been written.                    *)
Frontier ==
  IF m_synced THEN m_best_block_index
  ELSE IF sync.pc = "write" THEN pprev(sync.pindex) ELSE sync.pindex

Above(h, b) == b = NoBlock \/ h > Height[b]

(* What a write may overwrite has been kept.                               *)
Kept ==
  calls.crash + calls.stop = 0 =>
    /\ StaleFiltersKept
    /\ \A h \in Heights : Above(h, Frontier) => heightIndex[h] \in hashIndex \cup {NoBlock}

Match(b) == \A c \in Ancestors(b) : heightIndex[Height[c]] = c

Entries ==
  calls.crash = 0 /\ (calls.stop = 0 \/ calls.fail = 0) /\ ~hole =>
    /\ sync.pc \in {"loop", "write"} \/ m_synced => Match(Frontier)
    /\ callback.pc = "commit" => Match(callback.tip)
    /\ calls.fail = 0 => ~fatal
    /\ calls.fail = 0 /\ sync.pc = "done" /\ ~m_synced => Match(locator)

Inv == TypeOK /\ Control /\ Pending /\ Coverage /\ Kept /\ Entries

-----------------------------------------------------------------------------
(* The tree of blocks.                                                     *)

LEMMA Tree ==
  /\ \A b \in Blocks : Ancestors(b) \subseteq Block
  /\ \A b \in Block : b \in Ancestors(b) /\ Genesis \in Ancestors(b) /\ Height[b] \in Nat
  /\ \A b \in Blocks : \A c \in Ancestors(b) : Ancestors(c) \subseteq Ancestors(b)
  /\ \A b \in Blocks : pprev(b) \in Blocks \/ b = NoBlock
  /\ \A b \in Blocks : \A c \in Ancestors(b) : pprev(c) \in Ancestors(b) \cup {NoBlock}
<1>1. \A b \in Block : Ancestors(b) = Anc[b]
  BY BlockTree DEF Ancestors
<1>2. \A b \in Block : b \in Anc[b]
  BY BlockTree, SMT
<1>3. \A b \in Block : Genesis \in Anc[b]
  <2> SUFFICES ASSUME NEW b \in Block PROVE Genesis \in Anc[b]
    OBVIOUS
  <2>1. PICK c \in Anc[b] : Height[c] = 0
    BY Branches, SMT
  <2>2. c \in Block /\ (c # Genesis => Height[c] = Height[Parent[c]] + 1 /\ Height[Parent[c]] \in Nat)
    BY BlockTree, Branches
  <2> QED BY <2>1, <2>2, SMT
<1>4. \A b \in Block : \A c \in Anc[b] : pprev(c) \in Anc[b] \cup {NoBlock}
  <2> SUFFICES ASSUME NEW b \in Block, NEW c \in Anc[b], c # Genesis PROVE Parent[c] \in Anc[b]
    BY DEF pprev
  <2>1. c \in Block /\ Parent[c] \in Block /\ Anc[c] \subseteq Anc[b]
    BY BlockTree, Branches
  <2>2. Parent[c] \in Anc[c]
    BY <1>2, <2>1, BlockTree, SMT
  <2> QED BY <2>1, <2>2
<1>5. \A b \in Block : pprev(b) \in Blocks
  BY BlockTree DEF pprev, Blocks
<1>6. Ancestors(NoBlock) = {}
  BY DEF Ancestors
<1>7. \A b \in Blocks : b \in Block \/ b = NoBlock
  BY DEF Blocks
<1>8. \A b \in Block : /\ Anc[b] \subseteq Block /\ Height[b] \in Nat
                       /\ \A c \in Anc[b] : Anc[c] \subseteq Anc[b]
  BY Branches
<1> QED BY <1>1, <1>2, <1>3, <1>4, <1>5, <1>6, <1>7, <1>8, SMT

(* Heights along a branch.                                                 *)
LEMMA Branch ==
  ASSUME NEW b \in Block
  PROVE  /\ \A c \in Ancestors(b) : Height[c] \in Nat /\ (c = b \/ Height[c] < Height[b])
         /\ \A c, d \in Ancestors(b) : Height[c] = Height[d] => c = d
         /\ \A c, d \in Ancestors(b) : Height[c] <= Height[d] => c \in Ancestors(d)
         /\ \A h \in 0..Height[b] : \E c \in Ancestors(b) : Height[c] = h
<1>1. Ancestors(b) = Anc[b] /\ Anc[b] \subseteq Block
  BY BlockTree, Branches DEF Ancestors
<1>2. ASSUME NEW c \in Anc[b], NEW d \in Anc[b], Height[c] <= Height[d]
      PROVE  c \in Ancestors(d)
  <2>1. c \in Block /\ d \in Block /\ Height[c] \in 0..Height[d] /\ Ancestors(d) = Anc[d]
    BY <1>1, <1>2, BlockTree, Branches, SMT DEF Ancestors
  <2>2. PICK e \in Anc[d] : Height[e] = Height[c]
    BY <2>1, Branches
  <2>3. e \in Anc[b]
    BY <2>1, Branches
  <2> QED BY <2>1, <2>2, <2>3, Branches
<1> QED BY <1>1, <1>2, Branches, SMT

LEMMA Fork ==
  ASSUME NEW b \in Blocks, NEW t \in Blocks
  PROVE  LET f == FindFork(b, t) IN
         /\ f \in Blocks
         /\ Ancestors(b) \cap Ancestors(t) = Ancestors(f)
         /\ f = NoBlock => b = NoBlock \/ t = NoBlock
         /\ f # NoBlock => f \in Ancestors(b) /\ f \in Ancestors(t)
<1> DEFINE S == Ancestors(b) \cap Ancestors(t)
<1>1. CASE b = NoBlock \/ t = NoBlock
  <2>1. S = {}
    BY <1>1 DEF Ancestors
  <2> QED BY <1>1, <2>1 DEF FindFork, Highest, Ancestors, Blocks
<1>2. CASE b \in Block /\ t \in Block
  <2>1. PICK f \in Block : S = Ancestors(f)
    <3>1. PICK x \in Block : Anc[b] \cap Anc[t] = Anc[x]
      BY <1>2, Forks
    <3>2. Ancestors(b) = Anc[b] /\ Ancestors(t) = Anc[t] /\ Ancestors(x) = Anc[x]
      BY <1>2, BlockTree DEF Ancestors
    <3> QED BY <3>1, <3>2
  <2>2. f \in S /\ (\A c \in S : Height[c] <= Height[f])
    <3>1. f \in S
      BY <2>1, Tree
    <3>2. \A c \in S : Height[c] <= Height[f]
      <4> SUFFICES ASSUME NEW c \in Ancestors(f) PROVE Height[c] <= Height[f]
        BY <2>1
      <4> QED BY Branch, Tree, SMT
    <3> QED BY <3>1, <3>2
  <2>3. FindFork(b, t) = CHOOSE x \in S : \A c \in S : Height[c] <= Height[x]
    BY <2>2 DEF FindFork, Highest
  <2>4. FindFork(b, t) \in S /\ Height[f] <= Height[FindFork(b, t)]
    BY <2>2, <2>3
  <2>5. FindFork(b, t) = f
    <3>1. FindFork(b, t) \in Ancestors(f) /\ Height[f] \in Nat
      BY <2>1, <2>4, Tree
    <3>2. FindFork(b, t) = f \/ Height[FindFork(b, t)] < Height[f]
      BY <3>1, Branch
    <3> QED BY <2>1, <2>4, <3>1, <3>2, Branch, SMT
  <2> QED BY <1>2, <2>1, <2>2, <2>5, BlockTree DEF Blocks
<1> QED BY <1>1, <1>2 DEF Blocks

(* What the sync thread does next.                                         *)
LEMMA NextBlock ==
  ASSUME tip \in Blocks, sync.pindex \in Blocks
  PROVE  /\ NextSyncBlock \in Blocks
         /\ NextSyncBlock = NoBlock => tip \in Ancestors(sync.pindex) \cup {NoBlock}
         /\ NextSyncBlock # NoBlock =>
              /\ NextSyncBlock \in Ancestors(tip)
              /\ pprev(NextSyncBlock) = FindFork(sync.pindex, tip)
              /\ pprev(NextSyncBlock) \in Ancestors(sync.pindex) \cup {NoBlock}
              /\ pprev(NextSyncBlock) = NoBlock => sync.pindex = NoBlock
<1> DEFINE f == FindFork(sync.pindex, tip)
           S == {c \in Ancestors(tip) : pprev(c) = f}
<1>1. /\ f \in Blocks
      /\ f = NoBlock => sync.pindex = NoBlock \/ tip = NoBlock
      /\ f # NoBlock => f \in Ancestors(sync.pindex) /\ f \in Ancestors(tip)
  BY Fork
<1>2. S # {} => \A c, d \in S : c \in Block /\ Height[c] <= Height[d]
  <2> SUFFICES ASSUME NEW c \in S, NEW d \in S PROVE c \in Block /\ Height[c] <= Height[d]
    OBVIOUS
  <2>1. c \in Block /\ d \in Block
    BY Tree
  <2>2. CASE f = NoBlock
    BY <2>1, <2>2, BlockTree, SMT DEF pprev
  <2>3. CASE f # NoBlock
    <3>1. c # Genesis /\ d # Genesis /\ Parent[c] = f /\ Parent[d] = f
      BY <2>3 DEF pprev
    <3>2. Height[f] \in Nat
      BY <1>1, <2>3, Tree DEF Blocks
    <3> QED BY <2>1, <3>1, <3>2, BlockTree, SMT
  <2> QED BY <2>2, <2>3
<1>3. NextSyncBlock = IF S = {} THEN NoBlock ELSE CHOOSE c \in S : \A d \in S : Height[d] <= Height[c]
  BY DEF NextSyncBlock, Highest
<1>4. S # {} => NextSyncBlock \in S /\ NextSyncBlock \in Block
  BY <1>2, <1>3
<1>5. ASSUME S = {} PROVE tip \in Ancestors(sync.pindex) \cup {NoBlock}
  <2> SUFFICES ASSUME tip \in Block PROVE tip \in Ancestors(sync.pindex)
    BY DEF Blocks
  <2>1. f # NoBlock
    BY <1>5, Tree DEF pprev
  <2>2. f \in Ancestors(tip) /\ f \in Block /\ f \in Ancestors(sync.pindex)
    BY <1>1, <2>1, Tree
  <2>3. ASSUME f # tip PROVE FALSE
    <3>1. Height[f] + 1 \in 0..Height[tip]
      BY <2>2, <2>3, Branch, Tree, SMT
    <3>2. PICK c \in Ancestors(tip) : Height[c] = Height[f] + 1
      BY <3>1, Branch
    <3>3. c \in Block /\ c # Genesis
      BY <2>2, <3>2, Tree, BlockTree, SMT DEF Blocks
    <3>4. Parent[c] \in Ancestors(tip) /\ Height[Parent[c]] = Height[f]
      <4>1. pprev(c) = Parent[c] /\ Parent[c] # NoBlock /\ Height[c] = Height[Parent[c]] + 1
            /\ Parent[c] \in Block
        BY <3>3, BlockTree, SMT DEF pprev
      <4>2. Parent[c] \in Ancestors(tip)
        BY <4>1, Tree
      <4> QED BY <2>2, <3>2, <4>1, <4>2, Tree, SMT
    <3>5. Parent[c] = f
      BY <2>2, <3>4, Branch, SMT
    <3> QED BY <1>5, <3>2, <3>3, <3>5 DEF pprev
  <2> QED BY <2>2, <2>3
<1> QED BY <1>1, <1>3, <1>4, <1>5, BlockTree, Tree DEF Blocks, Ancestors

(* The notifications of a move to b.                                       *)
LEMMA ConnectedEvents ==
  ASSUME tip \in Blocks, NEW b \in Block, b \notin Ancestors(tip)
  PROVE  LET s == Connected(b) IN
         /\ s \in Seq(Events) /\ Len(s) \in Nat \ {0}
         /\ \A i \in 1..Len(s) : s[i].type = "connected" /\ s[i].block \in Block
         /\ pprev(s[1].block) \in Ancestors(tip) \cup {NoBlock}
         /\ \A i \in 1..Len(s)-1 : pprev(s[i+1].block) = s[i].block
         /\ s[Len(s)].block = b
         /\ \A i \in 1..Len(s) : s[i].block = Genesis => tip = NoBlock /\ i = 1
<1> DEFINE f == FindFork(b, tip)
           base == IF f = NoBlock THEN -1 ELSE Height[f]
           At(i) == CHOOSE c \in Anc[b] : Height[c] = base + i
           n == Height[b] - base
<1>1. /\ f \in Blocks
      /\ f = NoBlock => tip = NoBlock
      /\ f # NoBlock => f \in Ancestors(b) /\ f \in Ancestors(tip)
  BY Fork, BlockTree, SMT DEF Blocks
<1>2. Height[b] \in Nat /\ base \in Int /\ base >= -1 /\ n \in Nat \ {0}
  <2>1. Height[b] \in Nat
    BY Tree
  <2>2. CASE f = NoBlock
    BY <2>1, <2>2, SMT
  <2>3. CASE f # NoBlock
    <3>1. f \in Ancestors(b) /\ f # b
      BY <1>1, <2>3
    <3>2. Height[f] \in Nat /\ Height[f] < Height[b]
      BY <3>1, Branch
    <3> QED BY <2>1, <2>3, <3>2, SMT
  <2> QED BY <2>2, <2>3
<1>3. Ancestors(b) = Anc[b] /\ Anc[b] \subseteq Block
  BY BlockTree, Branches DEF Ancestors
<1>4. ASSUME NEW i \in 1..n
      PROVE  At(i) \in Anc[b] /\ At(i) \in Block /\ Height[At(i)] = base + i
  <2>1. base + i \in 0..Height[b]
    BY <1>2, SMT
  <2>2. \E c \in Anc[b] : Height[c] = base + i
    BY <2>1, Branches
  <2> QED BY <1>3, <2>2
<1>5. Connected(b) = [i \in 1..n |-> [type |-> "connected", block |-> At(i)]]
  BY DEF Connected, Event
<1> HIDE DEF f, base, At, n
<1>6. /\ Connected(b) \in Seq(Events) /\ Len(Connected(b)) = n
      /\ \A i \in 1..n : Connected(b)[i].type = "connected" /\ Connected(b)[i].block = At(i)
  BY <1>2, <1>4, <1>5, SMT DEF Events
<1>7. At(n) = b
  <2>1. At(n) \in Ancestors(b) /\ Height[At(n)] = Height[b]
    BY <1>2, <1>3, <1>4, SMT DEF n
  <2> QED BY <2>1, Branch, Tree
<1>8. ASSUME NEW i \in 1..n, i # 1 \/ f # NoBlock
      PROVE  At(i) # Genesis
  BY <1>2, <1>4, <1>8, BlockTree, <1>1, Tree, SMT DEF base, Blocks
<1>9. pprev(At(1)) \in Ancestors(tip) \cup {NoBlock}
  <2>1. 1 \in 1..n
    BY <1>2, SMT
  <2>2. At(1) \in Ancestors(b) /\ At(1) \in Block /\ Height[At(1)] = base + 1
    BY <1>3, <1>4, <2>1
  <2>3. CASE f = NoBlock
    BY <2>2, <2>3, BlockTree, Branches, SMT DEF base, pprev
  <2>4. CASE f # NoBlock
    <3>1. f \in Ancestors(b) /\ f \in Ancestors(tip) /\ f \in Block /\ Height[f] \in Nat
      BY <1>1, <2>4, Tree DEF Blocks
    <3>2. At(1) # Genesis /\ pprev(At(1)) = Parent[At(1)] /\ Parent[At(1)] \in Block
      BY <1>8, <2>1, <2>2, <2>4, BlockTree DEF pprev
    <3>3. Parent[At(1)] \in Ancestors(b)
      BY <2>2, <3>2, Tree, BlockTree, SMT DEF Blocks
    <3>4. Height[Parent[At(1)]] = Height[f]
      BY <2>2, <2>4, <3>1, <3>2, BlockTree, Tree, SMT DEF base
    <3> QED BY <3>1, <3>2, <3>3, <3>4, Branch, SMT
  <2> QED BY <2>3, <2>4
<1>10. ASSUME NEW i \in 1..n-1
       PROVE  pprev(At(i+1)) = At(i)
  <2>1. i \in 1..n /\ i + 1 \in 1..n /\ i + 1 # 1
    BY <1>2, SMT
  <2>2. /\ At(i) \in Ancestors(b) /\ Height[At(i)] = base + i
        /\ At(i+1) \in Ancestors(b) /\ At(i+1) \in Block /\ Height[At(i+1)] = base + (i + 1)
    BY <1>3, <1>4, <2>1
  <2>3. At(i+1) # Genesis /\ pprev(At(i+1)) = Parent[At(i+1)] /\ Parent[At(i+1)] \in Block
    BY <1>8, <2>1, <2>2, BlockTree DEF pprev
  <2>4. Parent[At(i+1)] \in Ancestors(b)
    BY <2>2, <2>3, Tree, BlockTree, SMT DEF Blocks
  <2>5. Height[Parent[At(i+1)]] = base + i
    BY <1>2, <2>2, <2>3, BlockTree, Tree, SMT
  <2> QED BY <2>2, <2>3, <2>4, <2>5, Branch, SMT
<1>11. \A i \in 1..n : Connected(b)[i].block = Genesis => tip = NoBlock /\ i = 1
  BY <1>1, <1>6, <1>8
<1>12. 1 \in 1..n /\ n \in 1..n /\ \A i \in 1..n-1 : i \in 1..n /\ i + 1 \in 1..n
  BY <1>2, SMT
<1> QED BY <1>2, <1>4, <1>6, <1>7, <1>9, <1>10, <1>11, <1>12

(* A notification has been handled.                                        *)
LEMMA Popped ==
  ASSUME TypeOK, queue # <<>>, queue' = Tail(queue)
  PROVE  /\ queue' \in Seq(Events) /\ Len(queue) \in Nat \ {0} /\ Len(queue') = Len(queue) - 1
         /\ \A i \in 1..Len(queue') : queue'[i] = queue[i+1]
         /\ Head(queue) = queue[1] /\ Head(queue) \in Events
  BY SMT DEF TypeOK

(* One has been added.                                                     *)
LEMMA Added ==
  ASSUME TypeOK, NEW s \in Seq(Events), queue' = queue \o s
  PROVE  /\ queue' \in Seq(Events) /\ Len(queue) \in Nat /\ Len(s) \in Nat
         /\ Len(queue') = Len(queue) + Len(s)
         /\ \A i \in 1..Len(queue) : queue'[i] = queue[i]
         /\ \A i \in 1..Len(s) : queue'[Len(queue) + i] = s[i]
         /\ queue # <<>> => queue' # <<>> /\ Head(queue') = Head(queue)
  BY SMT DEF TypeOK

-----------------------------------------------------------------------------
(* Types.                                                                  *)

LEMMA Counting ==
  ASSUME TypeOK
  PROVE  /\ \A op \in Ops : Count(op) =>
              /\ calls' \in [Ops -> Nat] /\ calls'[op] = calls[op] + 1 /\ calls[op] \in Nat
              /\ \A x \in Ops \ {op} : calls'[x] = calls[x]
         /\ NoFailure => calls' \in [Ops -> Nat] /\ calls' = calls
         /\ Fails => /\ calls' \in [Ops -> Nat] /\ calls'.fail > 0
                     /\ calls'.crash = calls.crash /\ calls'.stop = calls.stop
<1>1. calls \in [Ops -> Nat]
  BY DEF TypeOK
<1>2. ASSUME NEW op \in Ops, Count(op)
      PROVE  /\ calls' \in [Ops -> Nat] /\ calls'[op] = calls[op] + 1 /\ calls[op] \in Nat
             /\ \A x \in Ops \ {op} : calls'[x] = calls[x]
  BY <1>1, <1>2, SMT DEF Count
<1>3. {"fail", "crash", "stop"} \subseteq Ops /\ "crash" # "fail" /\ "stop" # "fail"
  BY DEF Ops
<1> QED BY <1>1, <1>2, <1>3, SMT DEF NoFailure, Fails

LEMMA OverwrittenType ==
  ASSUME TypeOK, NEW old \in Blocks, NEW new
  PROVE  Overwritten(old, new) \subseteq Blocks
  BY Tree, SMT DEF TypeOK, Overwritten, Heights

LEMMA CommitType ==
  ASSUME TypeOK, NEW best \in Blocks, Commit(best)
  PROVE  /\ locator' \in Blocks /\ calls' \in [Ops -> Nat]
         /\ calls'.crash = calls.crash /\ calls'.stop = calls.stop
         /\ \/ locator' = Locator(best) /\ calls' = calls
            \/ locator' = locator /\ calls'.fail > 0
  BY Counting DEF Commit, Locator, TypeOK

LEMMA StartType ==
  ASSUME TypeOK, NEW t \in Blocks, Start(t)
  PROVE  /\ tip' = t /\ diskTip' = t /\ queue' = <<>> /\ callback' = NoCallback
         /\ m_interrupt' = FALSE /\ fatal' = FALSE
         /\ m_best_block_index' = FindFork(locator, t) /\ m_best_block_index' \in Blocks
         /\ m_synced' = (m_best_block_index' = t) /\ m_synced' \in BOOLEAN
         /\ sync' \in [pc : {"loop", "done"}, pindex : Blocks, first : BOOLEAN]
         /\ sync'.pindex = m_best_block_index'
         /\ sync'.pc = IF m_synced' THEN "done" ELSE "loop"
         /\ queue' \in Seq(Events)
         /\ callback' \in [pc : {"start", "commit", "write"}, tip : Blocks]
         /\ callback'.pc = "start"
<1>1. FindFork(locator, t) \in Blocks
  BY Fork DEF TypeOK
<1>2. /\ tip' = t /\ diskTip' = t /\ queue' = <<>> /\ callback' = NoCallback
      /\ m_interrupt' = FALSE /\ fatal' = FALSE
      /\ m_best_block_index' = FindFork(locator, t)
      /\ m_synced' = (FindFork(locator, t) = t)
      /\ sync' = [pc |-> IF FindFork(locator, t) = t THEN "done" ELSE "loop",
                  pindex |-> FindFork(locator, t), first |-> TRUE]
  BY DEF Start, FindForkInGlobalIndex
<1>3. m_synced' \in BOOLEAN /\ (m_synced' <=> FindFork(locator, t) = t)
  BY <1>2
<1>4. callback' \in [pc : {"start", "commit", "write"}, tip : Blocks] /\ callback'.pc = "start"
  BY <1>2 DEF NoCallback, Blocks
<1>5. queue' \in Seq(Events)
  BY <1>2, SMT
<1>6. /\ sync' \in [pc : {"loop", "done"}, pindex : Blocks, first : BOOLEAN]
      /\ sync'.pindex = FindFork(locator, t)
      /\ sync'.pc = IF FindFork(locator, t) = t THEN "done" ELSE "loop"
  BY <1>1, <1>2
<1> QED BY <1>1, <1>2, <1>3, <1>4, <1>5, <1>6

LEMMA WriteType ==
  ASSUME TypeOK, NEW b \in Block, WriteBlock(b)
  PROVE  /\ heightIndex' \in [Heights -> Blocks] /\ written' \subseteq Block
         /\ locator' = locator /\ hashIndex' = hashIndex
         /\ \A h \in Heights : heightIndex'[h] = IF h = Height[b] THEN b ELSE heightIndex[h]
         /\ written' = written \cup {b}
  BY DEF TypeOK, WriteBlock, Heights, Blocks

LEMMA TypeInit == Init => TypeOK
<1> SUFFICES ASSUME Init PROVE TypeOK
  OBVIOUS
<1>1. tip \in Blocks /\ NoBlock \in Blocks
  BY StartAssumption DEF Init, Blocks
<1>2. calls \in [Ops -> Nat]
  BY StartAssumption DEF Init, Ops
<1>3. m_synced \in BOOLEAN
  BY DEF Init
<1>4. sync \in [pc : {"loop", "write", "final", "done"}, pindex : Blocks, first : BOOLEAN]
      /\ callback \in [pc : {"start", "commit", "write"}, tip : Blocks]
      /\ heightIndex \in [Heights -> Blocks] /\ queue \in Seq(Events)
  BY <1>1, SMT DEF Init, NoCallback
<1>5. /\ diskTip = tip /\ m_interrupt = FALSE /\ fatal = FALSE /\ m_best_block_index = NoBlock
      /\ locator = NoBlock /\ hashIndex = {} /\ written = {} /\ hole = FALSE
  BY DEF Init
<1> QED BY <1>1, <1>2, <1>3, <1>4, <1>5 DEF TypeOK

LEMMA TypeSync ==
  ASSUME TypeOK, Control, ThreadSync
  PROVE  TypeOK'
<1>1. /\ NextSyncBlock \in Blocks
      /\ NextSyncBlock # NoBlock => pprev(NextSyncBlock) \in Blocks
  BY NextBlock, Tree DEF TypeOK
<1>2. Overwritten(sync.pindex, pprev(NextSyncBlock)) \subseteq Blocks
  BY OverwrittenType DEF TypeOK
<1>3. CASE SyncInterrupted
  BY <1>3, CommitType DEF SyncInterrupted, TypeOK, chain
<1>4. CASE SyncDone
  BY <1>4 DEF SyncDone, TypeOK, chain, disk
<1>5. CASE SyncCommitsLast
  BY <1>5, CommitType DEF SyncCommitsLast, TypeOK, chain, index
<1>6. ASSUME NEW best \in Blocks, NEW loc \in Blocks, SyncTakes(best, loc),
             hashIndex' \subseteq Block
      PROVE  TypeOK'
  BY <1>1, <1>6, Counting DEF SyncTakes, TypeOK, chain
<1>7. CASE SyncNext
  BY <1>6, <1>7 DEF SyncNext, TypeOK
<1>8. CASE SyncRewind
  BY <1>1, <1>2, <1>6, <1>8 DEF SyncRewind, TypeOK, SyncedAtTip, Blocks
<1>9. CASE SyncAborts
  <2>1. Start(diskTip) /\ diskTip \in Blocks /\ Count("crash")
        /\ UNCHANGED <<locator, heightIndex, written, hole>> /\ hashIndex' \subseteq Block
    BY <1>2, <1>9 DEF SyncAborts, TypeOK, Blocks
  <2>2. calls' \in [Ops -> Nat]
    BY <2>1, Counting DEF Ops
  <2> QED BY <2>1, <2>2, StartType DEF TypeOK
<1>10. CASE SyncWrite
  <2>1. sync.pindex \in Block
    BY <1>10 DEF SyncWrite, Control
  <2> QED BY <1>10, <2>1, WriteType DEF SyncWrite, TypeOK, chain, index
<1>11. CASE SyncFails
  <2>1. calls' \in [Ops -> Nat] /\ hashIndex' \subseteq Block
    BY <1>2, <1>11, Counting, SMT DEF SyncFails, TypeOK, Blocks
  <2>2. /\ sync' = [sync EXCEPT !.pc = "done"] /\ fatal' = TRUE /\ hole' = (hole \/ CommittedFirst)
        /\ UNCHANGED <<chain, queue, index, m_interrupt, callback, locator, heightIndex, written>>
    BY <1>11 DEF SyncFails
  <2>3. hole' \in BOOLEAN
    BY <2>2
  <2> QED BY <2>1, <2>2, <2>3 DEF TypeOK, chain, index
<1> QED BY <1>3, <1>4, <1>5, <1>7, <1>8, <1>9, <1>10, <1>11 DEF ThreadSync

LEMMA TypeCallback ==
  ASSUME TypeOK, Control, Callback
  PROVE  TypeOK'
<1>1. Notified("connected") =>
        /\ queue # <<>> /\ Now \in Block /\ pprev(Now) \in Blocks
        /\ Overwritten(m_best_block_index, pprev(Now)) \subseteq Blocks
  <2>1. queue # <<>> => Now \in Block
    <3>1. queue # <<>> => Head(queue) \in Events
      BY SMT DEF TypeOK
    <3> QED BY <3>1 DEF Now, Events
  <2> QED BY <2>1, OverwrittenType, Tree, BlockTree DEF TypeOK, Notified, Blocks
<1>2. CASE BlockIgnored
  BY <1>1, <1>2, Popped DEF BlockIgnored, TypeOK, chain, index, disk
<1>3. CASE BlockConnected
  BY <1>3 DEF BlockConnected, TypeOK, chain, index, disk
<1>4. CASE BlockRewinds
  BY <1>1, <1>4, SMT DEF BlockRewinds, TypeOK, chain, Blocks
<1>5. CASE RewindCommits
  BY <1>5 DEF RewindCommits, TypeOK, chain, index, Locator, Blocks
<1>6. CASE BlockWritten
  <2>1. Notified("connected")
    BY <1>6 DEF BlockWritten, Control
  <2>2. heightIndex' \in [Heights -> Blocks] /\ written' \subseteq Block
        /\ locator' = locator /\ hashIndex' = hashIndex
    BY <1>1, <1>6, <2>1, WriteType DEF BlockWritten
  <2> QED BY <1>1, <1>6, <2>1, <2>2, Popped, SMT DEF BlockWritten, TypeOK, chain, NoCallback, Blocks
<1>7. CASE BlockFails
  <2>1. Notified("connected") /\ m_best_block_index' \in Blocks /\ calls' \in [Ops -> Nat]
    BY <1>7, Counting DEF BlockFails, Control, TypeOK
  <2>2. queue' = Tail(queue) /\ callback' = NoCallback /\ fatal' = TRUE
        /\ UNCHANGED <<chain, m_synced, m_interrupt, sync, disk, hole>>
    BY <1>7 DEF BlockFails
  <2> QED BY <1>1, <2>1, <2>2, Popped, SMT DEF TypeOK, chain, disk, NoCallback, Blocks
<1>8. CASE ChainStateFlushed
  <2>1. locator' \in Blocks /\ calls' \in [Ops -> Nat]
    BY <1>8, CommitType DEF ChainStateFlushed, TypeOK
  <2> QED BY <1>8, <2>1, Popped DEF ChainStateFlushed, Notified, TypeOK, chain, index
<1>9. CASE WaitEnds
  BY <1>9, Popped DEF WaitEnds, Notified, TypeOK, chain, index, disk
<1> QED BY <1>2, <1>3, <1>4, <1>5, <1>6, <1>7, <1>8, <1>9 DEF Callback

LEMMA TypeNode ==
  ASSUME TypeOK, Node
  PROVE  TypeOK'
<1>1. \A op \in {"move", "flush", "wait", "stop", "crash"} : Count(op) => calls' \in [Ops -> Nat]
  BY Counting DEF Ops
<1>2. ASSUME NEW b \in Block, ActivateBestChain(b) PROVE TypeOK'
  <2>1. b \notin Ancestors(tip)
    BY <1>2, Branch, Tree, SMT DEF ActivateBestChain, TypeOK, Blocks, Ancestors
  <2>2. queue' \in Seq(Events)
    BY <1>2, <2>1, Added, ConnectedEvents DEF ActivateBestChain, TypeOK
  <2> QED BY <1>1, <1>2, <2>2, SMT DEF ActivateBestChain, TypeOK, index, disk, Blocks
<1>3. CASE InvalidateBlock
  BY <1>1, <1>3, BlockTree, SMT DEF InvalidateBlock, TypeOK, index, disk, Blocks
<1>4. ASSUME NEW type \in {"flushed", "wait"}, tip \in Block, queue' = Append(queue, Event(type, tip))
      PROVE  queue' \in Seq(Events)
  <2>1. Event(type, tip) \in Events
    BY <1>4 DEF Event, Events
  <2> QED BY <1>4, <2>1, SMT DEF TypeOK
<1>5. CASE FlushStateToDisk
  BY <1>1, <1>4, <1>5, SMT DEF FlushStateToDisk, TypeOK, index, disk, Blocks
<1>6. CASE BlockUntilSyncedToCurrentChain
  BY <1>1, <1>4, <1>6, SMT DEF BlockUntilSyncedToCurrentChain, TypeOK, chain, index, disk, Blocks
<1>7. CASE Interrupt
  BY <1>1, <1>7 DEF Interrupt, TypeOK, chain, index, disk
<1>8. CASE Stop
  <2>1. Start(tip) /\ tip \in Blocks /\ UNCHANGED <<disk, hole, calls>>
    BY <1>8 DEF Stop, TypeOK
  <2> QED BY <2>1, StartType DEF TypeOK, disk
<1>9. CASE Crash
  <2>1. Start(diskTip) /\ diskTip \in Blocks /\ UNCHANGED disk /\ hole' = (hole \/ CommittedFirst)
        /\ calls' \in [Ops -> Nat]
    BY <1>1, <1>9 DEF Crash, TypeOK
  <2>2. hole' \in BOOLEAN
    BY <2>1
  <2> QED BY <2>1, <2>2, StartType DEF TypeOK, disk
<1> QED BY <1>2, <1>3, <1>5, <1>6, <1>7, <1>8, <1>9 DEF Node

-----------------------------------------------------------------------------
(* Control.                                                                *)

LEMMA ControlInit == Init => Control
<1> SUFFICES ASSUME Init PROVE Control
  OBVIOUS
<1>1. queue = <<>> /\ Len(queue) = 0 /\ callback.pc = "start" /\ m_interrupt = FALSE
      /\ m_best_block_index = NoBlock /\ sync.pc = (IF tip = NoBlock THEN "done" ELSE "loop")
      /\ (m_synced <=> tip = NoBlock)
  BY DEF Init, NoCallback
<1> QED BY <1>1, SMT DEF Control

LEMMA ControlStart ==
  ASSUME TypeOK, NEW t \in Blocks, Start(t)
  PROVE  Control'
<1>1. /\ tip' = t /\ queue' = <<>> /\ callback'.pc = "start" /\ m_interrupt' = FALSE
      /\ m_best_block_index' = FindFork(locator, t)
      /\ m_synced' = (m_best_block_index' = t)
      /\ sync'.pc = IF m_synced' THEN "done" ELSE "loop"
  BY StartType
<1>2. t = NoBlock => FindFork(locator, t) = NoBlock
  BY Fork, Tree DEF TypeOK, Ancestors
<1>3. Len(queue') = 0
  BY <1>1
<1>4. (m_synced' <=> FindFork(locator, t) = t) /\ m_synced' \in BOOLEAN
  BY <1>1
<1>5. sync'.pc \notin {"final", "write"} /\ (m_synced' => sync'.pc = "done")
  BY <1>1, <1>4
<1> QED BY <1>1, <1>2, <1>3, <1>4, <1>5, SMT DEF Control

LEMMA ControlSync ==
  ASSUME TypeOK, Control, ThreadSync
  PROVE  Control'
<1>1. CASE SyncAborts
  BY <1>1, ControlStart DEF SyncAborts, TypeOK
<1>2. ASSUME UNCHANGED <<tip, queue, m_interrupt, callback>>, calls'.stop = calls.stop,
             sync.pc # "done", sync' \in [pc : {"loop", "write", "final", "done"},
                                          pindex : Blocks, first : BOOLEAN],
             m_synced' => sync'.pc \in {"final", "done"},
             sync'.pc = "final" => m_synced' /\ m_best_block_index' # NoBlock,
             sync'.pc = "write" => sync'.pindex \in Block,
             m_synced => m_synced' /\ m_best_block_index' = m_best_block_index
      PROVE  Control'
  BY <1>2 DEF Control, Notified, Now, IsGenesis
<1>3. sync \in [pc : {"loop", "write", "final", "done"}, pindex : Blocks, first : BOOLEAN]
      /\ m_synced \in BOOLEAN
  BY DEF TypeOK
<1>4. CASE SyncInterrupted
  <2>1. calls'.stop = calls.stop
    BY <1>4, CommitType DEF SyncInterrupted, TypeOK
  <2> QED BY <1>2, <1>3, <1>4, <2>1 DEF SyncInterrupted, chain, Control
<1>5. CASE SyncDone
  <2>1. tip # NoBlock /\ tip \in Ancestors(sync.pindex) \cup {NoBlock}
    BY <1>5, NextBlock DEF SyncDone, SyncedAtTip, TypeOK, Control
  <2>2. sync.pindex # NoBlock
    BY <2>1 DEF Ancestors
  <2> QED BY <1>2, <1>3, <1>5, <2>2 DEF SyncDone, chain, Control
<1>6. CASE SyncCommitsLast
  <2>1. calls'.stop = calls.stop
    BY <1>6, CommitType DEF SyncCommitsLast, TypeOK
  <2> QED BY <1>2, <1>3, <1>6, <2>1 DEF SyncCommitsLast, chain, index, Control
<1>7. ASSUME NEW best, NEW loc, SyncTakes(best, loc), sync.pc = "loop", ~SyncedAtTip
      PROVE  Control'
  <2>1. NextSyncBlock \in Block
    BY <1>7, NextBlock DEF SyncedAtTip, TypeOK, Blocks
  <2>2. calls'.stop = calls.stop
    BY <1>7, Counting DEF SyncTakes
  <2>3. /\ sync' = [pc |-> "write", pindex |-> NextSyncBlock, first |-> FALSE]
        /\ UNCHANGED <<tip, queue, m_synced, m_interrupt, callback>> /\ ~m_synced
    BY <1>7 DEF SyncTakes, chain, Control
  <2> QED BY <1>2, <1>7, <2>1, <2>2, <2>3 DEF Blocks
<1>8. CASE SyncNext
  BY <1>7, <1>8 DEF SyncNext
<1>9. CASE SyncRewind
  BY <1>7, <1>9 DEF SyncRewind
<1>10. CASE SyncWrite
  BY <1>2, <1>3, <1>10 DEF SyncWrite, chain, index, Control
<1>11. CASE SyncFails
  <2>1. calls'.stop = calls.stop /\ sync.pc \in {"loop", "write"}
    BY <1>11, Counting DEF SyncFails
  <2> QED BY <1>2, <1>3, <1>11, <2>1 DEF SyncFails, chain, index, Control
<1> QED BY <1>1, <1>4, <1>5, <1>6, <1>8, <1>9, <1>10, <1>11 DEF ThreadSync

(* The first notification.                                                 *)
LEMMA First ==
  ASSUME TypeOK, queue # <<>>
  PROVE  /\ Now \in Block /\ Now = queue[1].block /\ 1 \in 1..Len(queue) /\ Len(queue) \in Nat
         /\ pprev(Now) \in Blocks /\ (pprev(Now) = NoBlock <=> Now = Genesis)
         /\ \A type : Notified(type) <=> queue[1].type = type
<1>1. Head(queue) = queue[1] /\ Head(queue) \in Events /\ Len(queue) \in Nat \ {0}
  BY SMT DEF TypeOK
<1>2. Now \in Block /\ Now = queue[1].block
  BY <1>1 DEF Now, Events
<1>3. pprev(Now) \in Blocks /\ (pprev(Now) = NoBlock <=> Now = Genesis)
  BY <1>2, BlockTree, SMT DEF pprev, Blocks
<1>4. \A type : Notified(type) <=> queue[1].type = type
  BY <1>1 DEF Notified
<1> QED BY <1>1, <1>2, <1>3, <1>4, SMT

LEMMA ControlCallback ==
  ASSUME TypeOK, Control, Callback
  PROVE  Control'
<1>1. ASSUME queue # <<>>, queue' = Tail(queue), callback'.pc = "start",
             UNCHANGED <<tip, m_synced, m_interrupt, sync>>, calls'.stop = calls.stop,
             sync.pc = "final" => m_best_block_index' # NoBlock
      PROVE  Control'
  <2>1. \A i \in 1..Len(queue') : ~IsGenesis(i)'
    BY <1>1, Popped, SMT DEF Control, IsGenesis
  <2>2. tip # NoBlock
    BY <1>1 DEF Control
  <2> QED BY <1>1, <2>1, <2>2 DEF Control
<1>2. CASE BlockIgnored
  BY <1>1, <1>2 DEF BlockIgnored, Notified, chain, index, Control
<1>3. CASE BlockConnected
  <2>1. m_synced /\ callback'.pc = "write"
    BY <1>3 DEF BlockConnected, Ignored, TypeOK
  <2> QED BY <1>3, <2>1 DEF BlockConnected, Control, Notified, Now, IsGenesis, chain, index
<1>4. CASE BlockRewinds
  <2>1. /\ queue # <<>> /\ m_synced /\ callback'.pc = "commit" /\ callback'.tip = m_best_block_index
        /\ m_best_block_index' = pprev(Now) /\ pprev(Now) # m_best_block_index
        /\ UNCHANGED <<tip, queue, m_synced, m_interrupt, sync, calls>>
        /\ Notified("connected") /\ ConnectsToBest
    BY <1>4 DEF BlockRewinds, Ignored, Notified, chain
  <2>2. \A i \in 1..Len(queue) : ~IsGenesis(i)
    <3>1. ~IsGenesis(1)
      BY <2>1, First DEF Control, IsGenesis
    <3> QED BY <3>1, <2>1 DEF Control
  <2>3. pprev(Now) # NoBlock
    BY <2>1, <2>2, First DEF IsGenesis
  <2>4. pprev(Now) \in Ancestors(m_best_block_index)
    BY <2>1, <2>3 DEF ConnectsToBest
  <2>5. \A i \in 1..Len(queue') : ~IsGenesis(i)'
    BY <2>1, <2>2 DEF IsGenesis
  <2>6. Notified("connected")' /\ pprev(Now)' = m_best_block_index'
    BY <2>1 DEF Notified, Now, pprev
  <2> QED BY <2>1, <2>3, <2>4, <2>5, <2>6 DEF Control
<1>5. CASE RewindCommits
  BY <1>5 DEF RewindCommits, Control, Notified, Now, IsGenesis, chain, index
<1>6. CASE BlockWritten
  <2>1. Notified("connected")
    BY <1>6 DEF BlockWritten, Control
  <2>2. Now # NoBlock /\ queue # <<>>
    BY <2>1, First, BlockTree DEF Notified
  <2> QED BY <1>1, <1>6, <2>2 DEF BlockWritten, NoCallback, chain
<1>7. CASE BlockFails
  <2>1. queue # <<>> /\ calls'.stop = calls.stop
    BY <1>7, Counting DEF BlockFails, Control, Notified
  <2>2. sync.pc = "final" => m_best_block_index' # NoBlock
    BY <1>7 DEF BlockFails, Control, Ancestors
  <2> QED BY <1>1, <1>7, <2>1, <2>2 DEF BlockFails, NoCallback, chain
<1>8. CASE ChainStateFlushed
  <2>1. calls'.stop = calls.stop
    BY <1>8, CommitType DEF ChainStateFlushed, TypeOK
  <2>2. callback.pc = "start"
    BY <1>8 DEF ChainStateFlushed, Control, Notified
  <2> QED BY <1>1, <1>8, <2>1, <2>2 DEF ChainStateFlushed, Notified, chain, index, Control
<1>9. CASE WaitEnds
  <2>1. callback.pc = "start"
    BY <1>9 DEF WaitEnds, Control, Notified
  <2> QED BY <1>1, <1>9, <2>1 DEF WaitEnds, Notified, chain, index, Control
<1> QED BY <1>2, <1>3, <1>4, <1>5, <1>6, <1>7, <1>8, <1>9 DEF Callback

LEMMA ControlNode ==
  ASSUME TypeOK, Control, Node
  PROVE  Control'
<1>1. ASSUME NEW s \in Seq(Events), queue' = queue \o s, tip' # NoBlock, calls'.stop = calls.stop,
             UNCHANGED <<m_synced, m_best_block_index, m_interrupt, sync, callback>>,
             \A i \in 1..Len(s) : s[i].type = "connected" /\ s[i].block = Genesis =>
                                    tip = NoBlock /\ i = 1
      PROVE  Control'
  <2>1. \A i \in 1..Len(queue') : IsGenesis(i)' =>
          i = 1 /\ m_synced /\ m_best_block_index = NoBlock /\ sync.pc = "done"
    <3> SUFFICES ASSUME NEW i \in 1..Len(queue'), IsGenesis(i)'
                 PROVE  i = 1 /\ m_synced /\ m_best_block_index = NoBlock /\ sync.pc = "done"
      OBVIOUS
    <3>1. CASE i <= Len(queue)
      <4>1. i \in 1..Len(queue) /\ queue'[i] = queue[i]
        BY <1>1, <3>1, Added, SMT
      <4>2. IsGenesis(i)
        BY <4>1 DEF IsGenesis
      <4> QED BY <4>1, <4>2 DEF Control
    <3>2. CASE i > Len(queue)
      <4>1. i - Len(queue) \in 1..Len(s) /\ queue'[i] = s[i - Len(queue)] /\ Len(queue) \in Nat
        <5>1. Len(queue) \in Nat /\ Len(s) \in Nat /\ Len(queue') = Len(queue) + Len(s)
          BY <1>1, Added
        <5>2. i - Len(queue) \in 1..Len(s) /\ Len(queue) + (i - Len(queue)) = i
          BY <3>2, <5>1, SMT
        <5> QED BY <1>1, <5>1, <5>2, Added
      <4>2. tip = NoBlock /\ i - Len(queue) = 1
        BY <1>1, <4>1 DEF IsGenesis
      <4>3. queue = <<>> /\ m_synced /\ m_best_block_index = NoBlock /\ sync.pc = "done"
        BY <4>2 DEF Control
      <4> QED BY <4>1, <4>2, <4>3, SMT
    <3> QED BY <3>1, <3>2, Added, <1>1, SMT
  <2>2. callback.pc # "start" =>
          Notified("connected")' /\ pprev(Now)' = m_best_block_index
    BY <1>1, Added DEF Control, Notified, Now, pprev
  <2> QED BY <1>1, <2>1, <2>2 DEF Control
<1>2. ASSUME NEW b \in Block, ActivateBestChain(b) PROVE Control'
  <2>1. b \notin Ancestors(tip)
    BY <1>2, Branch, Tree, SMT DEF ActivateBestChain, TypeOK, Blocks, Ancestors
  <2>2. calls'.stop = calls.stop
    BY <1>2, Counting DEF ActivateBestChain, Ops
  <2>3. /\ Connected(b) \in Seq(Events)
        /\ \A i \in 1..Len(Connected(b)) : Connected(b)[i].block = Genesis => tip = NoBlock /\ i = 1
    BY <2>1, ConnectedEvents DEF TypeOK
  <2>4. /\ queue' = queue \o Connected(b) /\ tip' # NoBlock
        /\ UNCHANGED <<m_synced, m_best_block_index, m_interrupt, sync, callback>>
    BY <1>2, BlockTree DEF ActivateBestChain, index
  <2> QED BY <1>1, <2>2, <2>3, <2>4
<1>3. CASE InvalidateBlock
  <2>1. calls'.stop = calls.stop /\ tip' # NoBlock
    BY <1>3, Counting, BlockTree, SMT DEF InvalidateBlock, Ops
  <2> QED BY <1>3, <2>1 DEF InvalidateBlock, Control, Notified, Now, IsGenesis, index
<1>4. ASSUME NEW type \in {"flushed", "wait"}, tip \in Block,
             queue' = Append(queue, Event(type, tip)), tip' = tip, calls'.stop = calls.stop,
             UNCHANGED <<m_synced, m_best_block_index, m_interrupt, sync, callback>>
      PROVE  Control'
  <2>1. Event(type, tip) \in Events /\ Event(type, tip).type # "connected"
    BY <1>4 DEF Event, Events
  <2>2. queue' = queue \o <<Event(type, tip)>> /\ <<Event(type, tip)>> \in Seq(Events)
    BY <1>4, <2>1, SMT DEF TypeOK
  <2>3. \A i \in 1..Len(<<Event(type, tip)>>) : <<Event(type, tip)>>[i].type # "connected"
    BY <2>1, SMT
  <2> QED BY <1>1, <1>4, <2>2, <2>3, BlockTree
<1>5. CASE FlushStateToDisk
  <2>1. calls'.stop = calls.stop
    BY <1>5, Counting DEF FlushStateToDisk, Ops
  <2> QED BY <1>4, <1>5, <2>1 DEF FlushStateToDisk, TypeOK, index, Blocks
<1>6. CASE BlockUntilSyncedToCurrentChain
  <2>1. calls'.stop = calls.stop
    BY <1>6, Counting DEF BlockUntilSyncedToCurrentChain, Ops
  <2> QED BY <1>4, <1>6, <2>1 DEF BlockUntilSyncedToCurrentChain, TypeOK, chain, index, Blocks
<1>7. CASE Interrupt
  <2>1. calls'.stop > 0
    BY <1>7, Counting, SMT DEF Interrupt, Ops
  <2> QED BY <1>7, <2>1 DEF Interrupt, Control, Notified, Now, IsGenesis, chain, index
<1>8. CASE Stop
  BY <1>8, ControlStart DEF Stop, TypeOK
<1>9. CASE Crash
  BY <1>9, ControlStart DEF Crash, TypeOK
<1> QED BY <1>2, <1>3, <1>5, <1>6, <1>7, <1>8, <1>9 DEF Node

-----------------------------------------------------------------------------
(* Pending.                                                                *)

LEMMA PendingInit == Init => Pending
<1> SUFFICES ASSUME Init PROVE Pending
  OBVIOUS
<1>1. queue = <<>> /\ Len(queue) = 0 /\ (m_synced => tip = NoBlock)
  BY DEF Init
<1> QED BY <1>1, SMT DEF Pending, Wanted, Leads

LEMMA PendingStart ==
  ASSUME TypeOK, NEW t \in Blocks, Start(t)
  PROVE  Pending'
<1>1. /\ tip' = t /\ queue' = <<>>
      /\ m_best_block_index' = FindFork(locator, t)
      /\ m_synced' = (m_best_block_index' = t)
  BY StartType
<1>2. m_synced' => m_best_block_index' = t
  BY <1>1
<1>3. t \in Ancestors(t) \cup {NoBlock}
  BY Tree DEF Blocks
<1>4. Len(queue') = 0
  BY <1>1
<1> QED BY <1>1, <1>2, <1>3, <1>4, SMT DEF Pending, Wanted, Leads, Ancestors

LEMMA QueueType ==
  ASSUME TypeOK
  PROVE  Len(queue) \in Nat /\ \A i \in 1..Len(queue) : queue[i].block \in Block
<1>1. \A i \in 1..Len(queue) : queue[i] \in Events
  BY SMT DEF TypeOK
<1> QED BY <1>1, SMT DEF TypeOK, Events

(* Taking the first notification from the queue.  The block it connects is *)
(* the best block then, or it does not connect to the best block.          *)
LEMMA PendingPopped ==
  ASSUME TypeOK, Pending, queue # <<>>, queue' = Tail(queue), UNCHANGED <<tip, m_synced>>,
         \/ fatal'
         \/ /\ fatal' = fatal /\ m_best_block_index' = queue[1].block
            /\ queue[1].type = "connected"
         \/ /\ fatal' = fatal /\ m_best_block_index' = m_best_block_index
            /\ m_synced /\ queue[1].type = "connected" =>
                 pprev(queue[1].block) \notin Ancestors(m_best_block_index) \cup {NoBlock}
  PROVE  Pending'
<1>1. /\ Len(queue) \in Nat \ {0} /\ Len(queue') = Len(queue) - 1
      /\ \A i \in 1..Len(queue') : queue'[i] = queue[i+1]
  BY Popped
<1>2. ASSUME NEW j \in 1..Len(queue')+1, NEW w \in Blocks, Wanted(queue', tip', j, w)
      PROVE  j + 1 \in 1..Len(queue)+1 /\ Wanted(queue, tip, j + 1, w)
  <2>1. CASE j = Len(queue') + 1 /\ w = tip'
    BY <1>1, <2>1, SMT DEF Wanted
  <2>2. CASE j \in 1..Len(queue') /\ queue'[j].type = "wait" /\ w = queue'[j].block
    BY <1>1, <2>2, SMT DEF Wanted
  <2> QED BY <1>2, <2>1, <2>2 DEF Wanted
<1>3. ASSUME NEW i \in Nat, NEW j \in 1..Len(queue')+1, NEW b, NEW w,
             Leads(queue, b, i + 1, j + 1, w)
      PROVE  Leads(queue', b, i, j, w)
  <2>1. CASE w \in Ancestors(b) \cup {NoBlock}
    BY <2>1 DEF Leads
  <2>2. ASSUME NEW k \in (i+1)+1..(j+1)-1, queue[k].type = "connected",
               pprev(queue[k].block) \in Ancestors(b) \cup {NoBlock}
        PROVE  Leads(queue', b, i, j, w)
    <3>1. k - 1 \in i+1..j-1 /\ k - 1 \in 1..Len(queue') /\ (k - 1) + 1 = k
      BY <1>1, <2>2, SMT
    <3>2. queue'[k-1] = queue[k]
      BY <1>1, <3>1
    <3> QED BY <2>2, <3>1, <3>2 DEF Leads
  <2> QED BY <1>3, <2>1, <2>2 DEF Leads
<1>4. ASSUME NEW i \in 1..Len(queue'), NEW j \in 1..Len(queue')+1, NEW w \in Blocks,
             queue'[i].type = "connected", i < j, Wanted(queue', tip', j, w)
      PROVE  Leads(queue', queue'[i].block, i, j, w)
  <2>1. i \in Nat /\ i + 1 \in 1..Len(queue) /\ i + 1 < j + 1 /\ queue'[i] = queue[i+1]
    BY <1>1, <1>4, SMT
  <2>2. Leads(queue, queue[i+1].block, i + 1, j + 1, w)
    BY <1>2, <1>4, <2>1 DEF Pending
  <2> QED BY <1>3, <2>1, <2>2
<1>5. ASSUME m_synced, ~fatal', NEW j \in 1..Len(queue')+1, NEW w \in Blocks,
             Wanted(queue', tip', j, w)
      PROVE  Leads(queue', m_best_block_index', 0, j, w)
  <2>1. /\ 1 \in 1..Len(queue) /\ 1 < j + 1 /\ j + 1 \in 1..Len(queue)+1
        /\ Wanted(queue, tip, j + 1, w) /\ 0 + 1 = 1 /\ 0 \in Nat
    BY <1>1, <1>2, <1>5, SMT
  <2>2. CASE m_best_block_index' = queue[1].block /\ queue[1].type = "connected"
    <3>1. Leads(queue, queue[1].block, 0 + 1, j + 1, w)
      BY <2>1, <2>2 DEF Pending
    <3> QED BY <1>3, <2>1, <2>2, <3>1
  <2>3. CASE /\ m_best_block_index' = m_best_block_index /\ fatal' = fatal
             /\ queue[1].type = "connected" =>
                  pprev(queue[1].block) \notin Ancestors(m_best_block_index) \cup {NoBlock}
    <3>1. Leads(queue, m_best_block_index, 0, j + 1, w)
      BY <1>5, <2>1, <2>3 DEF Pending
    <3>2. Leads(queue, m_best_block_index, 0 + 1, j + 1, w)
      BY <2>3, <3>1, SMT DEF Leads
    <3> QED BY <1>3, <2>1, <2>3, <3>2
  <2> QED BY <1>5, <2>2, <2>3
<1>6. ~m_synced => \A j \in 1..Len(queue') : queue'[j].type # "wait"
  BY <1>1, SMT DEF Pending
<1> QED BY <1>4, <1>5, <1>6 DEF Pending

(* Adding notifications: it is enough that what led to the tip leads to    *)
(* what is wanted after them, and that they lead there themselves.         *)
LEMMA PendingAdded ==
  ASSUME TypeOK, Pending, NEW s \in Seq(Events), queue' = queue \o s,
         UNCHANGED <<m_synced, m_best_block_index, fatal>>,
         \A j \in 1..Len(queue')+1, w \in Blocks :
           j > Len(queue) /\ Wanted(queue', tip', j, w) =>
             /\ \A x \in Blocks, i \in 0..Len(queue) :
                  Leads(queue, x, i, Len(queue) + 1, tip) => Leads(queue', x, i, j, w)
             /\ \A i \in Len(queue)+1..j-1 :
                  queue'[i].type = "connected" => Leads(queue', queue'[i].block, i, j, w),
         m_synced \/ \A i \in 1..Len(s) : s[i].type # "wait"
  PROVE  Pending'
<1> DEFINE n == Len(queue)
<1>1. /\ n \in Nat /\ Len(s) \in Nat /\ Len(queue') = n + Len(s)
      /\ \A i \in 1..n : queue'[i] = queue[i]
      /\ \A i \in 1..Len(s) : queue'[n + i] = s[i]
  BY Added
<1>2. \A i \in 1..n : queue[i].block \in Blocks
  BY QueueType DEF Blocks
<1>3. ASSUME NEW x \in Blocks, NEW i \in 0..n, NEW j \in 1..Len(queue')+1, NEW w \in Blocks,
             Wanted(queue', tip', j, w),
             \A k \in 1..n+1, v \in Blocks :
               k > i /\ Wanted(queue, tip, k, v) => Leads(queue, x, i, k, v),
             i < j
      PROVE  Leads(queue', x, i, j, w)
  <2>1. CASE j <= n
    <3>1. j \in 1..n /\ Wanted(queue, tip, j, w)
      BY <1>1, <1>3, <2>1, SMT DEF Wanted
    <3>2. Leads(queue, x, i, j, w)
      <4>1. j \in 1..n+1 /\ j > i
        BY <1>1, <1>3, <3>1, SMT
      <4> QED BY <1>3, <3>1, <4>1
    <3>3. \A k \in i+1..j-1 : queue'[k] = queue[k]
      BY <1>1, <3>1, SMT
    <3>4. CASE w \in Ancestors(x) \cup {NoBlock}
      BY <3>4 DEF Leads
    <3>5. ASSUME NEW k \in i+1..j-1, queue[k].type = "connected",
                 pprev(queue[k].block) \in Ancestors(x) \cup {NoBlock}
          PROVE  Leads(queue', x, i, j, w)
      <4>1. queue'[k] = queue[k]
        BY <3>3
      <4>2. queue'[k].type = "connected" /\ pprev(queue'[k].block) \in Ancestors(x) \cup {NoBlock}
        BY <3>5, <4>1
      <4> QED BY <4>2 DEF Leads
    <3> QED BY <3>2, <3>4, <3>5 DEF Leads
  <2>2. CASE j > n
    <3>1. Wanted(queue, tip, n + 1, tip) /\ n + 1 \in 1..n+1 /\ n + 1 > i /\ tip \in Blocks
      BY <1>1, SMT DEF Wanted, TypeOK
    <3>2. Leads(queue, x, i, n + 1, tip)
      BY <1>3, <3>1
    <3> QED BY <1>3, <2>2, <3>2
  <2> QED BY <1>1, <2>1, <2>2, SMT
<1>4. ASSUME NEW i \in 1..Len(queue'), NEW j \in 1..Len(queue')+1, NEW w \in Blocks,
             queue'[i].type = "connected", i < j, Wanted(queue', tip', j, w)
      PROVE  Leads(queue', queue'[i].block, i, j, w)
  <2>1. CASE i <= n
    <3>1. i \in 1..n /\ queue'[i] = queue[i] /\ queue[i].block \in Blocks /\ i \in 0..n
      BY <1>1, <1>2, <2>1, SMT
    <3>2. \A k \in 1..n+1, v \in Blocks :
            k > i /\ Wanted(queue, tip, k, v) => Leads(queue, queue[i].block, i, k, v)
      BY <1>4, <3>1 DEF Pending
    <3> QED BY <1>3, <1>4, <3>1, <3>2
  <2>2. CASE i > n
    <3>1. i \in n+1..j-1 /\ j > n
      BY <1>1, <1>4, <2>2, SMT
    <3> QED BY <1>4, <3>1
  <2> QED BY <1>1, <2>1, <2>2, SMT
<1>5. ASSUME m_synced, ~fatal, NEW j \in 1..Len(queue')+1, NEW w \in Blocks,
             Wanted(queue', tip', j, w)
      PROVE  Leads(queue', m_best_block_index, 0, j, w)
  <2>1. \A k \in 1..n+1, v \in Blocks :
          k > 0 /\ Wanted(queue, tip, k, v) => Leads(queue, m_best_block_index, 0, k, v)
    BY <1>5 DEF Pending
  <2>2. 0 \in 0..n /\ 0 < j /\ m_best_block_index \in Blocks
    BY <1>1, SMT DEF TypeOK
  <2> QED BY <1>3, <1>5, <2>1, <2>2
<1>6. ~m_synced => \A j \in 1..Len(queue') : queue'[j].type # "wait"
  <2> SUFFICES ASSUME ~m_synced, NEW j \in 1..Len(queue') PROVE queue'[j].type # "wait"
    OBVIOUS
  <2>1. CASE j <= n
    BY <1>1, <2>1, SMT DEF Pending
  <2>2. CASE j > n
    <3>1. j - n \in 1..Len(s) /\ n + (j - n) = j
      BY <1>1, <2>2, SMT
    <3> QED BY <1>1, <3>1
  <2> QED BY <1>1, <2>1, <2>2, SMT
<1> QED BY <1>4, <1>5, <1>6 DEF Pending

LEMMA PendingSync ==
  ASSUME TypeOK, Control, Pending, ThreadSync
  PROVE  Pending'
<1>1. CASE SyncAborts
  BY <1>1, PendingStart DEF SyncAborts, TypeOK
<1>2. CASE SyncDone
  <2>1. /\ tip \in Ancestors(sync.pindex) \cup {NoBlock} /\ m_best_block_index' = sync.pindex
        /\ UNCHANGED <<tip, queue, fatal>> /\ ~m_synced
    BY <1>2, NextBlock DEF SyncDone, SyncedAtTip, TypeOK, Control, chain
  <2>2. \A j \in 1..Len(queue) : queue[j].type # "wait"
    BY <2>1 DEF Pending
  <2>3. \A j \in 1..Len(queue)+1, w \in Blocks : Wanted(queue, tip, j, w) => w = tip
    BY <2>2 DEF Wanted
  <2>4. \A j \in 1..Len(queue)+1, w \in Blocks :
          Wanted(queue, tip, j, w) => Leads(queue, m_best_block_index', 0, j, w)
    BY <2>1, <2>3 DEF Leads
  <2>5. m_synced'
    BY <1>2 DEF SyncDone
  <2> QED BY <2>1, <2>4, <2>5 DEF Pending
<1>3. CASE ~SyncAborts /\ ~SyncDone
  <2>1. UNCHANGED <<tip, queue, m_synced>>
    BY <1>3 DEF ThreadSync, SyncInterrupted, SyncCommitsLast, SyncNext, SyncRewind, SyncTakes,
                SyncWrite, SyncFails, chain, index
  <2>2. m_synced => m_best_block_index' = m_best_block_index /\ (fatal' = fatal)
    BY <1>3 DEF ThreadSync, SyncInterrupted, SyncCommitsLast, SyncNext, SyncRewind, SyncTakes,
                SyncWrite, SyncFails, chain, index, Control
  <2> QED BY <2>1, <2>2 DEF Pending
<1> QED BY <1>1, <1>2, <1>3

LEMMA PendingCallback ==
  ASSUME TypeOK, Control, Pending, Callback
  PROVE  Pending'
<1>1. CASE BlockIgnored
  <2>1. queue # <<>> /\ queue' = Tail(queue)
        /\ UNCHANGED <<tip, m_synced, m_best_block_index, fatal>>
    BY <1>1 DEF BlockIgnored, Notified, chain, index
  <2>2. m_synced => pprev(queue[1].block) \notin Ancestors(m_best_block_index) \cup {NoBlock}
    BY <1>1, <2>1, First DEF BlockIgnored, Ignored, ConnectsToBest
  <2> QED BY <2>1, <2>2, PendingPopped
<1>2. CASE BlockConnected \/ RewindCommits
  BY <1>2, SMT DEF BlockConnected, RewindCommits, Pending, chain, index
<1>3. CASE BlockRewinds
  <2>1. queue # <<>> /\ Notified("connected") /\ m_best_block_index' = pprev(Now)
        /\ UNCHANGED <<tip, queue, m_synced, fatal>>
    BY <1>3 DEF BlockRewinds, Notified, chain
  <2>2. /\ 1 \in 1..Len(queue) /\ Len(queue) \in Nat /\ queue[1].type = "connected"
        /\ pprev(queue[1].block) = m_best_block_index' /\ m_best_block_index' \in Blocks
    BY <2>1, First
  <2>3. m_best_block_index' \in Ancestors(m_best_block_index') \cup {NoBlock}
    BY <2>2, Tree DEF Blocks
  <2>4. \A j \in 1..Len(queue)+1, w \in Blocks :
          Wanted(queue, tip, j, w) => Leads(queue, m_best_block_index', 0, j, w)
    <3> SUFFICES ASSUME NEW j \in 1..Len(queue)+1, NEW w \in Blocks, Wanted(queue, tip, j, w)
                 PROVE  Leads(queue, m_best_block_index', 0, j, w)
      OBVIOUS
    <3>1. j # 1
      BY <2>2, SMT DEF Wanted
    <3>2. 1 \in 0+1..j-1
      BY <2>2, <3>1, SMT
    <3> QED BY <2>2, <2>3, <3>2 DEF Leads
  <2> QED BY <2>1, <2>4 DEF Pending
<1>4. CASE BlockWritten
  <2>1. queue # <<>> /\ Notified("connected") /\ queue' = Tail(queue)
        /\ m_best_block_index' = Now /\ UNCHANGED <<tip, m_synced, fatal>>
    BY <1>4 DEF BlockWritten, Control, Notified, chain
  <2>2. Now = queue[1].block /\ queue[1].type = "connected"
    BY <2>1, First
  <2> QED BY <2>1, <2>2, PendingPopped
<1>5. CASE BlockFails
  <2>1. queue # <<>>
    BY <1>5 DEF BlockFails, Control, Notified
  <2> QED BY <1>5, <2>1, PendingPopped DEF BlockFails, chain
<1>6. CASE ChainStateFlushed \/ WaitEnds
  <2>1. queue # <<>> /\ queue' = Tail(queue) /\ (Notified("flushed") \/ Notified("wait"))
        /\ UNCHANGED <<tip, m_synced, m_best_block_index, fatal>>
    BY <1>6 DEF ChainStateFlushed, WaitEnds, Notified, chain, index
  <2>2. queue[1].type # "connected"
    BY <2>1, First, SMT
  <2> QED BY <2>1, <2>2, PendingPopped
<1> QED BY <1>1, <1>2, <1>3, <1>4, <1>5, <1>6 DEF Callback

LEMMA PendingNode ==
  ASSUME TypeOK, Control, Pending, Node
  PROVE  Pending'
<1> DEFINE n == Len(queue)
<1>1. n \in Nat
  BY QueueType
<1>2. ASSUME NEW b \in Block, ActivateBestChain(b) PROVE Pending'
  <2> DEFINE s == Connected(b)
             m == Len(s)
  <2>1. b \notin Ancestors(tip)
    BY <1>2, Branch, Tree, SMT DEF ActivateBestChain, TypeOK, Blocks, Ancestors
  <2>2. /\ s \in Seq(Events) /\ m \in Nat \ {0}
        /\ \A i \in 1..m : s[i].type = "connected" /\ s[i].block \in Block
        /\ pprev(s[1].block) \in Ancestors(tip) \cup {NoBlock}
        /\ \A i \in 1..m-1 : pprev(s[i+1].block) = s[i].block
        /\ s[m].block = b
    BY <2>1, ConnectedEvents DEF TypeOK
  <2>3. queue' = queue \o s /\ tip' = b /\ UNCHANGED <<m_synced, m_best_block_index, fatal>>
    BY <1>2 DEF ActivateBestChain, index
  <2> HIDE DEF s
  <2>4. /\ Len(queue') = n + m
        /\ \A i \in 1..n : queue'[i] = queue[i]
        /\ \A i \in 1..m : queue'[n + i] = s[i]
    BY <2>2, <2>3, Added
  <2>5. ASSUME NEW j \in 1..Len(queue')+1, NEW w \in Blocks, j > n, Wanted(queue', tip', j, w)
        PROVE  j = n + m + 1 /\ w = b
    <3>1. ASSUME j \in 1..Len(queue'), queue'[j].type = "wait" PROVE FALSE
      <4>1. j - n \in 1..m /\ n + (j - n) = j
        BY <1>1, <2>2, <2>4, <2>5, <3>1, SMT
      <4> QED BY <2>2, <2>4, <3>1, <4>1
    <3> QED BY <2>3, <2>4, <2>5, <3>1 DEF Wanted
  <2>6. ASSUME NEW x \in Blocks, NEW i \in 0..n, Leads(queue, x, i, n + 1, tip)
        PROVE  Leads(queue', x, i, n + m + 1, b)
    <3>1. CASE tip \in Ancestors(x) \cup {NoBlock}
      <4>1. Ancestors(tip) \subseteq Ancestors(x)
        BY <3>1, Tree DEF Ancestors
      <4>2. 1 \in 1..m /\ n + 1 \in i+1..(n+m+1)-1
        BY <1>1, <2>2, SMT
      <4>3. queue'[n+1].type = "connected"
            /\ pprev(queue'[n+1].block) \in Ancestors(x) \cup {NoBlock}
        BY <2>2, <2>4, <4>1, <4>2
      <4> QED BY <4>2, <4>3 DEF Leads
    <3>2. ASSUME NEW k \in i+1..(n+1)-1, queue[k].type = "connected",
                 pprev(queue[k].block) \in Ancestors(x) \cup {NoBlock}
          PROVE  Leads(queue', x, i, n + m + 1, b)
      <4>1. k \in 1..n /\ k \in i+1..(n+m+1)-1
        BY <1>1, <2>2, <3>2, SMT
      <4>2. queue'[k].type = "connected" /\ pprev(queue'[k].block) \in Ancestors(x) \cup {NoBlock}
        BY <2>4, <3>2, <4>1
      <4> QED BY <4>1, <4>2 DEF Leads
    <3> QED BY <2>6, <3>1, <3>2 DEF Leads
  <2>7. ASSUME NEW i \in n+1..n+m
        PROVE  Leads(queue', queue'[i].block, i, n + m + 1, b)
    <3>1. i - n \in 1..m /\ n + (i - n) = i
      BY <1>1, <2>2, SMT
    <3>2. queue'[i].block = s[i-n].block /\ s[i-n].block \in Block
      BY <2>2, <2>4, <3>1
    <3>3. queue'[i].block \in Ancestors(queue'[i].block)
      BY <3>2, Tree
    <3>4. CASE i = n + m
      <4>1. queue'[i].block = b
        BY <1>1, <2>2, <2>4, <3>2, <3>4, SMT
      <4> QED BY <3>3, <4>1 DEF Leads
    <3>5. CASE i # n + m
      <4>1. i + 1 \in i+1..(n+m+1)-1 /\ (i + 1) - n \in 1..m /\ i - n \in 1..m-1
            /\ n + ((i + 1) - n) = i + 1 /\ (i - n) + 1 = (i + 1) - n
        <5> HIDE DEF n, m
        <5>1. i \in Int /\ i >= n + 1 /\ i < n + m /\ n \in Nat /\ m \in Nat
          BY <1>1, <2>2, <3>5, SMT
        <5> QED BY <5>1, SMT
      <4>2. queue'[i+1] = s[(i+1)-n]
        BY <2>4, <4>1
      <4>3. queue'[i+1].type = "connected" /\ pprev(queue'[i+1].block) = queue'[i].block
        BY <2>2, <3>2, <4>1, <4>2
      <4>4. pprev(queue'[i+1].block) \in Ancestors(queue'[i].block) \cup {NoBlock}
        BY <3>3, <4>3
      <4> QED BY <4>1, <4>3, <4>4 DEF Leads
    <3> QED BY <3>4, <3>5
  <2>8. \A j \in 1..Len(queue')+1, w \in Blocks :
          j > n /\ Wanted(queue', tip', j, w) =>
            /\ \A x \in Blocks, i \in 0..n :
                 Leads(queue, x, i, n + 1, tip) => Leads(queue', x, i, j, w)
            /\ \A i \in n+1..j-1 :
                 queue'[i].type = "connected" => Leads(queue', queue'[i].block, i, j, w)
    <3> SUFFICES ASSUME NEW j \in 1..Len(queue')+1, NEW w \in Blocks, j > n,
                        Wanted(queue', tip', j, w)
                 PROVE  /\ \A x \in Blocks, i \in 0..n :
                             Leads(queue, x, i, n + 1, tip) => Leads(queue', x, i, j, w)
                        /\ \A i \in n+1..j-1 : Leads(queue', queue'[i].block, i, j, w)
      OBVIOUS
    <3>1. j = n + m + 1 /\ w = b
      BY <2>5
    <3>2. \A i \in n+1..j-1 : i \in n+1..n+m
      BY <1>1, <2>2, <3>1, SMT
    <3> QED BY <2>6, <2>7, <3>1, <3>2
  <2>9. \A i \in 1..Len(s) : s[i].type # "wait"
    BY <2>2
  <2> QED BY <2>2, <2>3, <2>8, <2>9, PendingAdded
<1>3. CASE InvalidateBlock
  <2>1. tip \in Block \ {Genesis} /\ tip' = Parent[tip]
        /\ UNCHANGED <<queue, m_synced, m_best_block_index, fatal>>
    BY <1>3 DEF InvalidateBlock, index
  <2>2. tip' \in Blocks /\ tip' \in Ancestors(tip)
    BY <2>1, Tree, BlockTree, SMT DEF pprev, Blocks
  <2>3. \A b \in Blocks : tip \in Ancestors(b) \cup {NoBlock} => tip' \in Ancestors(b) \cup {NoBlock}
    BY <2>1, <2>2, Tree, BlockTree
  <2>4. ASSUME NEW b \in Blocks, NEW i \in Nat, NEW j \in 1..n+1, NEW w \in Blocks,
               Wanted(queue, tip', j, w),
               \A v \in Blocks : Wanted(queue, tip, j, v) => Leads(queue, b, i, j, v)
        PROVE  Leads(queue, b, i, j, w)
    <3>1. CASE j = n + 1 /\ w = tip'
      <4>1. Leads(queue, b, i, j, tip)
        BY <2>1, <2>4, <3>1 DEF Wanted, Blocks
      <4> QED BY <2>3, <3>1, <4>1 DEF Leads
    <3>2. CASE j \in 1..n /\ queue[j].type = "wait" /\ w = queue[j].block
      BY <2>4, <3>2 DEF Wanted
    <3> QED BY <2>4, <3>1, <3>2 DEF Wanted
  <2>5. \A i \in 1..n : queue[i].block \in Blocks /\ i \in Nat
    BY QueueType, SMT DEF Blocks
  <2>6. \A i \in 1..n, j \in 1..n+1, w \in Blocks :
          queue[i].type = "connected" /\ i < j /\ Wanted(queue, tip', j, w) =>
            Leads(queue, queue[i].block, i, j, w)
    BY <2>4, <2>5 DEF Pending
  <2>7. m_synced /\ ~fatal => \A j \in 1..n+1, w \in Blocks :
          Wanted(queue, tip', j, w) => Leads(queue, m_best_block_index, 0, j, w)
    BY <2>4 DEF Pending, TypeOK
  <2> QED BY <2>1, <2>6, <2>7 DEF Pending
<1>4. ASSUME NEW type \in {"flushed", "wait"}, tip \in Block, m_synced \/ type = "flushed",
             queue' = Append(queue, Event(type, tip)),
             UNCHANGED <<tip, m_synced, m_best_block_index, fatal>>
      PROVE  Pending'
  <2> DEFINE s == <<Event(type, tip)>>
  <2>1. Event(type, tip) \in Events /\ Event(type, tip).type = type /\ Event(type, tip).block = tip
    BY <1>4 DEF Event, Events
  <2>2. queue' = queue \o s /\ s \in Seq(Events) /\ Len(s) = 1 /\ s[1] = Event(type, tip)
    BY <1>4, <2>1, SMT DEF TypeOK
  <2> HIDE DEF s
  <2>3. Len(queue') = n + 1 /\ (\A i \in 1..n : queue'[i] = queue[i]) /\ queue'[n+1] = s[1]
    <3>1. /\ Len(queue') = n + Len(s) /\ (\A i \in 1..n : queue'[i] = queue[i])
          /\ \A i \in 1..Len(s) : queue'[n + i] = s[i]
      BY <2>2, Added
    <3> QED BY <2>2, <3>1, SMT
  <2>4. ASSUME NEW j \in 1..Len(queue')+1, NEW w \in Blocks, j > n, Wanted(queue', tip', j, w)
        PROVE  w = tip /\ j \in {n + 1, n + 2}
    BY <1>1, <1>4, <2>1, <2>2, <2>3, <2>4, SMT DEF Wanted
  <2>5. ASSUME NEW x \in Blocks, NEW i \in 0..n, NEW j \in {n + 1, n + 2},
               Leads(queue, x, i, n + 1, tip)
        PROVE  Leads(queue', x, i, j, tip)
    <3>1. CASE tip \in Ancestors(x) \cup {NoBlock}
      BY <3>1 DEF Leads
    <3>2. ASSUME NEW k \in i+1..(n+1)-1, queue[k].type = "connected",
                 pprev(queue[k].block) \in Ancestors(x) \cup {NoBlock}
          PROVE  Leads(queue', x, i, j, tip)
      <4>1. k \in 1..n /\ k \in i+1..j-1
        BY <1>1, <3>2, SMT
      <4>2. queue'[k].type = "connected" /\ pprev(queue'[k].block) \in Ancestors(x) \cup {NoBlock}
        BY <2>3, <3>2, <4>1
      <4> QED BY <4>1, <4>2 DEF Leads
    <3> QED BY <2>5, <3>1, <3>2 DEF Leads
  <2>6. \A j \in 1..Len(queue')+1, w \in Blocks :
          j > n /\ Wanted(queue', tip', j, w) =>
            /\ \A x \in Blocks, i \in 0..n :
                 Leads(queue, x, i, n + 1, tip) => Leads(queue', x, i, j, w)
            /\ \A i \in n+1..j-1 :
                 queue'[i].type = "connected" => Leads(queue', queue'[i].block, i, j, w)
    <3> SUFFICES ASSUME NEW j \in 1..Len(queue')+1, NEW w \in Blocks, j > n,
                        Wanted(queue', tip', j, w)
                 PROVE  /\ \A x \in Blocks, i \in 0..n :
                             Leads(queue, x, i, n + 1, tip) => Leads(queue', x, i, j, w)
                        /\ \A i \in n+1..j-1 : queue'[i].type # "connected"
      OBVIOUS
    <3>1. w = tip /\ j \in {n + 1, n + 2}
      BY <2>4
    <3>2. \A i \in n+1..j-1 : i = n + 1
      BY <1>1, <3>1, SMT
    <3> QED BY <1>4, <2>1, <2>2, <2>3, <2>5, <3>1, <3>2
  <2>7. m_synced \/ \A i \in 1..Len(s) : s[i].type # "wait"
    BY <1>4, <2>1, <2>2, SMT
  <2> QED BY <1>4, <2>2, <2>6, <2>7, PendingAdded
<1>5. CASE FlushStateToDisk
  BY <1>4, <1>5 DEF FlushStateToDisk, TypeOK, index, Blocks
<1>6. CASE BlockUntilSyncedToCurrentChain
  BY <1>4, <1>6 DEF BlockUntilSyncedToCurrentChain, TypeOK, chain, index, Blocks
<1>7. CASE Interrupt
  BY <1>7 DEF Interrupt, Pending, chain, index
<1>8. CASE Stop
  BY <1>8, PendingStart DEF Stop, TypeOK
<1>9. CASE Crash
  BY <1>9, PendingStart DEF Crash, TypeOK
<1> QED BY <1>2, <1>3, <1>5, <1>6, <1>7, <1>8, <1>9 DEF Node

-----------------------------------------------------------------------------
(* Coverage.                                                               *)

LEMMA Step ==
  ASSUME NEW b \in Block
  PROVE  Ancestors(b) = Ancestors(pprev(b)) \cup {b}
  BY BlockTree, SMT DEF Ancestors, pprev

LEMMA CoverageInit == Init => Coverage
  BY SMT DEF Init, Coverage, LocatorCovered, Covered, Ancestors, NoCallback

(* Without the block at hand the locator is covered too, if that block is  *)
(* not the one that was committed.                                         *)
LEMMA LocatorWithout ==
  ASSUME TypeOK, Coverage, ~hole, ~CommittedFirst
  PROVE  Covered(locator)
<1> SUFFICES ASSUME NEW b \in Ancestors(locator), b \notin written PROVE FALSE
  BY DEF Covered
<1>1. sync.pc = "write" /\ b = sync.pindex
  BY DEF Coverage, LocatorCovered
<1>2. locator # sync.pindex
  BY <1>1 DEF CommittedFirst
<1>3. locator \in Block /\ locator \in Ancestors(locator)
  BY Tree DEF Ancestors, TypeOK, Blocks
<1>4. locator \in written
  BY <1>1, <1>2, <1>3 DEF Coverage, LocatorCovered
<1> QED BY <1>4 DEF Coverage, Covered

LEMMA CoverageStart ==
  ASSUME TypeOK, Coverage, NEW t \in Blocks, Start(t), UNCHANGED <<locator, written>>,
         ~hole' => ~hole /\ ~CommittedFirst
  PROVE  Coverage'
<1> SUFFICES ASSUME ~hole' PROVE Coverage'
  BY DEF Coverage
<1>1. Covered(locator)
  BY LocatorWithout
<1>2. /\ m_best_block_index' = FindFork(locator, t) /\ sync'.pindex = m_best_block_index'
      /\ sync'.pc # "write" /\ callback'.pc = "start"
  BY StartType
<1>3. Ancestors(m_best_block_index') \subseteq Ancestors(locator)
  BY <1>2, Fork DEF TypeOK
<1> QED BY <1>1, <1>2, <1>3 DEF Coverage, LocatorCovered, Covered

LEMMA CoverageSync ==
  ASSUME TypeOK, Control, Coverage, ThreadSync
  PROVE  Coverage'
<1>1. CASE SyncAborts
  <2>1. sync.pc = "loop" /\ Start(diskTip) /\ UNCHANGED <<locator, written, hole>>
    BY <1>1 DEF SyncAborts
  <2> QED BY <2>1, CoverageStart DEF TypeOK, CommittedFirst
<1>2. sync.pc # "done"
  BY DEF ThreadSync, SyncInterrupted, SyncDone, SyncCommitsLast, SyncNext, SyncRewind, SyncAborts,
         SyncWrite, SyncFails
<1>3. CASE SyncInterrupted
  <2>1. /\ sync.pc = "loop" /\ ~m_synced /\ sync'.pc = "done" /\ UNCHANGED <<written, m_synced, callback>>
        /\ hole' = (hole \/ sync.pindex = NoBlock)
    BY <1>3 DEF SyncInterrupted, Control, TypeOK
  <2>2. locator' \in {Locator(sync.pindex), locator}
    BY <1>3, CommitType DEF SyncInterrupted, TypeOK
  <2>3. ~hole' => ~hole /\ locator' \in {sync.pindex, locator}
    BY <2>1, <2>2 DEF Locator
  <2> QED BY <2>1, <2>3 DEF Coverage, LocatorCovered, Covered, Control
<1>4. CASE SyncDone
  BY <1>4, SMT DEF SyncDone, Coverage, LocatorCovered, Covered, Control, disk
<1>5. CASE SyncCommitsLast
  <2>1. locator' \in {m_best_block_index, locator}
    BY <1>5, CommitType DEF SyncCommitsLast, TypeOK, Control, Locator
  <2> QED BY <1>5, <2>1, SMT DEF SyncCommitsLast, Coverage, LocatorCovered, Covered, Control, index
<1>6. ASSUME NEW best, SyncTakes(best, locator) \/ SyncTakes(best, pprev(NextSyncBlock)),
             sync.pc = "loop", ~SyncedAtTip
      PROVE  Coverage'
  <2>1. /\ sync'.pc = "write" /\ sync'.pindex = NextSyncBlock
        /\ locator' \in {locator, pprev(NextSyncBlock), NextSyncBlock}
        /\ UNCHANGED <<written, m_synced, callback, hole>> /\ ~m_synced
    BY <1>6, SMT DEF SyncTakes, Control
  <2>2. NextSyncBlock \in Block /\ pprev(NextSyncBlock) \in Ancestors(sync.pindex) \cup {NoBlock}
    BY <1>6, NextBlock DEF SyncedAtTip, TypeOK, Blocks
  <2>3. Ancestors(NextSyncBlock) = Ancestors(pprev(NextSyncBlock)) \cup {NextSyncBlock}
    BY <2>2, Step
  <2>4. Ancestors(pprev(NextSyncBlock)) \subseteq Ancestors(sync.pindex)
    BY <2>2, Tree DEF TypeOK, Ancestors
  <2> QED BY <1>6, <2>1, <2>3, <2>4 DEF Coverage, LocatorCovered, Covered, Control
<1>7. CASE SyncNext
  BY <1>6, <1>7 DEF SyncNext
<1>8. CASE SyncRewind
  BY <1>6, <1>8 DEF SyncRewind
<1>9. CASE SyncWrite
  <2>1. /\ sync.pc = "write" /\ sync'.pc = "loop" /\ sync'.pindex = sync.pindex
        /\ UNCHANGED <<m_synced, callback, hole, locator>> /\ ~m_synced
        /\ written' = written \cup {sync.pindex} /\ sync.pindex \in Block
    BY <1>9 DEF SyncWrite, WriteBlock, index, Control, TypeOK
  <2>2. Ancestors(sync.pindex) = Ancestors(pprev(sync.pindex)) \cup {sync.pindex}
    BY <2>1, Step
  <2> QED BY <2>1, <2>2 DEF Coverage, LocatorCovered, Covered, Control
<1>10. CASE SyncFails
  <2>1. /\ sync.pc \in {"loop", "write"} /\ sync'.pc = "done"
        /\ UNCHANGED <<written, m_synced, callback, locator>> /\ ~m_synced
        /\ hole' = (hole \/ CommittedFirst)
    BY <1>10 DEF SyncFails, index, Control, TypeOK
  <2>2. ~hole' => Covered(locator) /\ ~hole
    BY <2>1, LocatorWithout
  <2> QED BY <2>1, <2>2 DEF Coverage, LocatorCovered, Covered, Control
<1> QED BY <1>1, <1>3, <1>4, <1>5, <1>7, <1>8, <1>9, <1>10 DEF ThreadSync

LEMMA CoverageCallback ==
  ASSUME TypeOK, Control, Coverage, Callback
  PROVE  Coverage'
<1>1. CASE BlockIgnored \/ BlockConnected \/ WaitEnds
  BY <1>1 DEF BlockIgnored, BlockConnected, WaitEnds, Coverage, LocatorCovered, Covered, index, disk,
              TypeOK
<1>2. CASE BlockRewinds
  <2>1. /\ m_synced /\ m_best_block_index' = pprev(Now) /\ callback'.tip = m_best_block_index
        /\ pprev(Now) \in Ancestors(m_best_block_index) \cup {NoBlock}
        /\ UNCHANGED <<m_synced, sync, locator, written, hole>>
    BY <1>2 DEF BlockRewinds, Ignored, ConnectsToBest
  <2>2. Ancestors(pprev(Now)) \subseteq Ancestors(m_best_block_index)
    BY <2>1, Tree DEF TypeOK, Ancestors
  <2> QED BY <2>1, <2>2 DEF Coverage, LocatorCovered, Covered, Control
<1>3. CASE RewindCommits
  <2>1. /\ m_synced /\ locator' = m_best_block_index /\ callback'.pc = "write"
        /\ UNCHANGED <<m_synced, m_best_block_index, sync, written, hole>>
    BY <1>3 DEF RewindCommits, Control, Locator, index
  <2> QED BY <2>1 DEF Coverage, LocatorCovered, Covered
<1>4. CASE BlockWritten
  <2>1. /\ m_synced /\ m_best_block_index' = Now /\ callback'.pc = "start"
        /\ UNCHANGED <<m_synced, sync, locator, hole>> /\ written' = written \cup {Now}
        /\ pprev(Now) = m_best_block_index /\ Notified("connected")
    BY <1>4 DEF BlockWritten, WriteBlock, Control, NoCallback
  <2>2. Now \in Block
    BY <2>1, First DEF Notified
  <2>3. Ancestors(Now) = Ancestors(m_best_block_index) \cup {Now}
    BY <2>1, <2>2, Step
  <2> QED BY <2>1, <2>3 DEF Coverage, LocatorCovered, Covered, Control
<1>5. CASE BlockFails
  <2>1. /\ callback'.pc = "start" /\ UNCHANGED <<m_synced, sync, locator, written, hole>>
        /\ \/ m_best_block_index' = m_best_block_index
           \/ callback.pc = "commit" /\ m_best_block_index' = callback.tip
    BY <1>5 DEF BlockFails, NoCallback, disk
  <2> QED BY <2>1 DEF Coverage, LocatorCovered, Covered
<1>6. CASE ChainStateFlushed
  <2>1. locator' = locator \/ (m_synced /\ locator' = m_best_block_index)
    BY <1>6, CommitType DEF ChainStateFlushed, OnKnownChain, Locator, Ancestors, TypeOK
  <2> QED BY <1>6, <2>1 DEF ChainStateFlushed, Coverage, LocatorCovered, Covered, index
<1> QED BY <1>1, <1>2, <1>3, <1>4, <1>5, <1>6 DEF Callback

LEMMA CoverageNode ==
  ASSUME TypeOK, Coverage, Node
  PROVE  Coverage'
<1>1. CASE Stop
  BY <1>1, CoverageStart DEF Stop, CommittedFirst, TypeOK, disk
<1>2. CASE Crash
  BY <1>2, CoverageStart DEF Crash, TypeOK, disk
<1>3. CASE ~Stop /\ ~Crash
  <2>1. UNCHANGED <<index, sync, callback, disk, hole>>
    BY <1>3 DEF Node, ActivateBestChain, InvalidateBlock, FlushStateToDisk,
                BlockUntilSyncedToCurrentChain, Interrupt
  <2> QED BY <2>1 DEF Coverage, LocatorCovered, Covered, index, disk
<1> QED BY <1>1, <1>2, <1>3

-----------------------------------------------------------------------------
(* Kept.  What is counted never goes down, so a property that holds while  *)
(* nothing has crashed or failed need not be reestablished afterwards.     *)

LEMMA Monotone ==
  ASSUME TypeOK, Next
  PROVE  /\ calls'.crash = 0 => calls.crash = 0
         /\ calls'.stop = 0 => calls.stop = 0
         /\ calls'.fail = 0 => calls.fail = 0
         /\ ~hole' => ~hole
<1>1. calls \in [Ops -> Nat] /\ calls.crash \in Nat /\ calls.stop \in Nat /\ calls.fail \in Nat
  BY DEF TypeOK, Ops
<1>2. \A op \in Ops : Count(op) => /\ calls'.crash = 0 => calls.crash = 0
                                   /\ calls'.stop = 0 => calls.stop = 0
                                   /\ calls'.fail = 0 => calls.fail = 0
  <2> SUFFICES ASSUME NEW op \in Ops, Count(op), NEW x \in {"crash", "stop", "fail"}, calls'[x] = 0
               PROVE  calls[x] = 0
    OBVIOUS
  <2> QED BY <1>1, Counting, SMT DEF Ops
<1>3. Fails \/ NoFailure => /\ calls'.crash = 0 => calls.crash = 0
                            /\ calls'.stop = 0 => calls.stop = 0
                            /\ calls'.fail = 0 => calls.fail = 0
  BY Counting, SMT
<1>4. \A best : Commit(best) => Fails \/ NoFailure
  BY DEF Commit
<1>5. CASE ThreadSync
  <2>1. Count("crash") \/ Fails \/ NoFailure
    BY <1>4, <1>5 DEF ThreadSync, SyncInterrupted, SyncDone, SyncCommitsLast, SyncNext, SyncRewind,
                      SyncTakes, SyncAborts, SyncWrite, SyncFails, NoFailure
  <2>2. ~hole' => ~hole
    BY <1>5 DEF ThreadSync, SyncInterrupted, SyncDone, SyncCommitsLast, SyncNext, SyncRewind,
                SyncTakes, SyncAborts, SyncWrite, SyncFails
  <2> QED BY <1>2, <1>3, <2>1, <2>2 DEF Ops
<1>6. CASE Callback
  <2>1. Fails \/ NoFailure
    BY <1>4, <1>6 DEF Callback, BlockIgnored, BlockConnected, BlockRewinds, RewindCommits, BlockWritten,
                      BlockFails, ChainStateFlushed, WaitEnds, NoFailure
  <2>2. hole' = hole
    BY <1>6 DEF Callback, BlockIgnored, BlockConnected, BlockRewinds, RewindCommits, BlockWritten,
                BlockFails, ChainStateFlushed, WaitEnds
  <2> QED BY <1>3, <2>1, <2>2
<1>7. CASE Node
  <2>1. (\E op \in {"move", "flush", "wait", "stop", "crash"} : Count(op)) \/ NoFailure
    BY <1>7 DEF Node, ActivateBestChain, InvalidateBlock, FlushStateToDisk,
                BlockUntilSyncedToCurrentChain, Interrupt, Stop, Crash, NoFailure
  <2>2. ~hole' => ~hole
    BY <1>7 DEF Node, ActivateBestChain, InvalidateBlock, FlushStateToDisk,
                BlockUntilSyncedToCurrentChain, Interrupt, Stop, Crash
  <2> QED BY <1>2, <1>3, <2>1, <2>2 DEF Ops
<1> QED BY <1>5, <1>6, <1>7 DEF Next

(* The entries above block b have been kept.                               *)
KeptAbove(b) == \A h \in Heights : Above(h, b) => heightIndex[h] \in hashIndex \cup {NoBlock}

LEMMA KeptRewound ==
  ASSUME TypeOK, NEW old \in Blocks, NEW new \in Ancestors(old) \cup {NoBlock}, KeptAbove(old),
         hashIndex' = hashIndex \cup Overwritten(old, new), heightIndex' = heightIndex
  PROVE  \A h \in Heights : Above(h, new) => heightIndex'[h] \in hashIndex' \cup {NoBlock}
<1> SUFFICES ASSUME NEW h \in Heights, Above(h, new), ~Above(h, old)
             PROVE  heightIndex[h] \in Overwritten(old, new)
  BY DEF KeptAbove
<1>1. old \in Block /\ h \in Nat /\ h <= Height[old]
  BY Tree, SMT DEF Above, Blocks, Heights
<1>2. PICK c \in Ancestors(old) : Height[c] = h
  BY <1>1, Branch, Tree, SMT
<1>3. c \notin Ancestors(new) \ {new}
  <2>1. CASE new = NoBlock
    BY <2>1 DEF Ancestors
  <2>2. CASE new # NoBlock
    <3>1. new \in Block /\ h > Height[new]
      BY <2>2, Tree DEF Above
    <3> QED BY <1>1, <1>2, <3>1, Branch, Tree, SMT
  <2> QED BY <2>1, <2>2
<1> QED BY <1>2, <1>3 DEF Overwritten

LEMMA KeptWritten ==
  ASSUME TypeOK, NEW b \in Block, WriteBlock(b), KeptAbove(pprev(b)),
         \A c \in written : heightIndex[Height[c]] = c \/ c \in hashIndex
  PROVE  /\ \A c \in written' : heightIndex'[Height[c]] = c \/ c \in hashIndex'
         /\ \A h \in Heights : Above(h, b) => heightIndex'[h] \in hashIndex' \cup {NoBlock}
<1>1. /\ \A h \in Heights : heightIndex'[h] = IF h = Height[b] THEN b ELSE heightIndex[h]
      /\ written' = written \cup {b} /\ hashIndex' = hashIndex
  BY WriteType
<1>2. /\ Height[b] \in Heights /\ Height[b] \in Nat
      /\ \A c \in written : Height[c] \in Heights /\ c # NoBlock
  BY Tree, BlockTree DEF Heights, TypeOK
<1>3. \A h \in Heights : h >= Height[b] => Above(h, pprev(b))
  BY BlockTree, Tree, SMT DEF Above, pprev, Heights
<1>4. heightIndex[Height[b]] \in hashIndex \cup {NoBlock}
  BY <1>2, <1>3, SMT DEF KeptAbove
<1>5. ASSUME NEW c \in written' PROVE heightIndex'[Height[c]] = c \/ c \in hashIndex'
  <2>1. CASE c = b
    BY <1>1, <1>2, <2>1
  <2>2. CASE c \in written /\ Height[c] # Height[b]
    BY <1>1, <1>2, <2>2
  <2>3. CASE c \in written /\ Height[c] = Height[b]
    BY <1>1, <1>2, <1>4, <2>3
  <2> QED BY <1>1, <2>1, <2>2, <2>3
<1>6. ASSUME NEW h \in Heights, Above(h, b) PROVE heightIndex'[h] \in hashIndex' \cup {NoBlock}
  <2>1. h > Height[b] /\ h \in Nat
    BY <1>6, BlockTree, Tree, SMT DEF Above, Heights
  <2> QED BY <1>1, <1>2, <1>3, <2>1, SMT DEF KeptAbove
<1> QED BY <1>5, <1>6

LEMMA KeptInit == Init => Kept
  BY DEF Init, Kept, StaleFiltersKept, Frontier

LEMMA KeptNext ==
  ASSUME TypeOK, Control, Kept, Next
  PROVE  Kept'
<1> SUFFICES ASSUME calls'.crash + calls'.stop = 0 PROVE Kept'
  BY DEF Kept
<1>1. calls'.crash = 0 /\ calls'.stop = 0 /\ calls.crash = 0 /\ calls.stop = 0
  <2>1. calls'.crash \in Nat /\ calls'.stop \in Nat
    BY TypeSync, TypeCallback, TypeNode DEF Next, TypeOK, Ops
  <2>2. calls'.crash = 0 /\ calls'.stop = 0
    BY <2>1, SMT
  <2> QED BY <2>2, Monotone
<1>2. /\ \A c \in written : heightIndex[Height[c]] = c \/ c \in hashIndex
      /\ KeptAbove(Frontier)
  BY <1>1 DEF Kept, StaleFiltersKept, KeptAbove
<1> DEFINE Goal == /\ \A c \in written' : heightIndex'[Height[c]] = c \/ c \in hashIndex'
                   /\ \A h \in Heights : Above(h, Frontier') => heightIndex'[h] \in hashIndex' \cup {NoBlock}
<1>3. SUFFICES Goal
  BY DEF Kept, StaleFiltersKept
<1>4. ~m_interrupt
  BY <1>1, SMT DEF Control, TypeOK
<1>5. \A op \in Ops : Count(op) => op \notin {"crash", "stop"}
  BY <1>1, Counting, SMT DEF Ops
(* The frontier stays, and nothing is written. *)
<1>6. ASSUME Frontier' = Frontier, UNCHANGED <<heightIndex, written>>, hashIndex \subseteq hashIndex'
      PROVE  Goal
  BY <1>2, <1>6 DEF KeptAbove
<1>7. CASE SyncDone \/ SyncCommitsLast
  BY <1>6, <1>7 DEF SyncDone, SyncCommitsLast, Frontier, Control, index, disk
<1>8. CASE SyncNext
  <2>1. Frontier = sync.pindex /\ Frontier' = pprev(NextSyncBlock)
    BY <1>8 DEF SyncNext, SyncTakes, Frontier, Control
  <2> QED BY <1>6, <1>8, <2>1 DEF SyncNext, SyncTakes, MustRewind
<1>9. CASE SyncRewind
  <2>1. Frontier = sync.pindex /\ Frontier' = pprev(NextSyncBlock)
    BY <1>9 DEF SyncRewind, SyncTakes, Frontier, Control
  <2>2. pprev(NextSyncBlock) \in Ancestors(sync.pindex) \cup {NoBlock} /\ sync.pindex \in Blocks
    BY <1>9, NextBlock DEF SyncRewind, SyncedAtTip, TypeOK
  <2>3. /\ hashIndex' = hashIndex \cup Overwritten(sync.pindex, pprev(NextSyncBlock))
        /\ UNCHANGED <<heightIndex, written>>
    BY <1>9 DEF SyncRewind, SyncTakes
  <2> QED BY <1>2, <2>1, <2>2, <2>3, KeptRewound
<1>10. CASE SyncWrite
  <2>1. sync.pindex \in Block /\ WriteBlock(sync.pindex) /\ Frontier = pprev(sync.pindex)
        /\ Frontier' = sync.pindex
    BY <1>10 DEF SyncWrite, Frontier, Control, index, TypeOK
  <2> QED BY <1>2, <2>1, KeptWritten
<1>11. CASE SyncFails
  <2>1. /\ hashIndex \subseteq hashIndex' /\ UNCHANGED <<heightIndex, written>>
        /\ ~m_synced /\ ~m_synced' /\ Frontier' = sync.pindex
    BY <1>11, SMT DEF SyncFails, Control, index, Frontier
  <2>2. \A h \in Heights : Above(h, sync.pindex) => Above(h, Frontier)
    <3>1. CASE sync.pc = "write"
      <4>1. sync.pindex \in Block /\ Frontier = pprev(sync.pindex)
        BY <2>1, <3>1 DEF Control, Frontier
      <4> QED BY <4>1, BlockTree, Tree, SMT DEF Above, pprev, Heights
    <3>2. CASE sync.pc # "write"
      BY <2>1, <3>2 DEF Frontier
    <3> QED BY <3>1, <3>2
  <2> QED BY <1>2, <2>1, <2>2 DEF KeptAbove
<1>12. CASE BlockIgnored \/ BlockConnected \/ RewindCommits \/ ChainStateFlushed \/ WaitEnds
  BY <1>6, <1>12, SMT DEF BlockIgnored, BlockConnected, RewindCommits, ChainStateFlushed, WaitEnds,
                     Frontier, index, disk
<1>13. CASE BlockRewinds
  <2>1. /\ Frontier = m_best_block_index /\ Frontier' = pprev(Now)
        /\ pprev(Now) \in Ancestors(m_best_block_index) \cup {NoBlock}
        /\ hashIndex' = hashIndex \cup Overwritten(m_best_block_index, pprev(Now))
        /\ UNCHANGED <<heightIndex, written>>
    BY <1>13 DEF BlockRewinds, Ignored, ConnectsToBest, Frontier
  <2> QED BY <1>2, <2>1, KeptRewound DEF TypeOK
<1>14. CASE BlockWritten
  <2>1. /\ Frontier = pprev(Now) /\ Frontier' = Now /\ WriteBlock(Now) /\ Notified("connected")
    BY <1>14 DEF BlockWritten, Control, Frontier
  <2>2. Now \in Block
    BY <2>1, First DEF Notified
  <2> QED BY <1>2, <2>1, <2>2, KeptWritten
<1>15. CASE BlockFails
  <2>1. /\ UNCHANGED <<m_synced, sync, heightIndex, hashIndex, written>>
        /\ \/ m_best_block_index' = m_best_block_index
           \/ callback.pc = "commit" /\ m_best_block_index' = callback.tip
    BY <1>15 DEF BlockFails, disk
  <2>2. CASE m_best_block_index' = m_best_block_index
    BY <1>6, <2>1, <2>2 DEF Frontier
  <2>3. CASE callback.pc = "commit" /\ m_best_block_index' = callback.tip
    <3>1. /\ Frontier = m_best_block_index /\ Frontier' = callback.tip
          /\ m_best_block_index \in Ancestors(callback.tip) /\ callback.tip \in Blocks
      BY <2>1, <2>3 DEF Frontier, Control, TypeOK
    <3>2. callback.tip \in Block
      BY <3>1 DEF Blocks, Ancestors
    <3>3. /\ Height[m_best_block_index] <= Height[callback.tip] /\ Height[callback.tip] \in Nat
          /\ Height[m_best_block_index] \in Nat /\ callback.tip # NoBlock
      BY <3>1, <3>2, Branch, Tree, BlockTree, SMT
    <3>4. \A h \in Heights : Above(h, callback.tip) => Above(h, m_best_block_index)
      BY <3>3, Tree, SMT DEF Above, Heights
    <3> QED BY <1>2, <2>1, <3>1, <3>4 DEF KeptAbove
  <2> QED BY <2>1, <2>2, <2>3
<1>16. CASE Node
  <2>1. ~Interrupt /\ ~Stop /\ ~Crash
    BY <1>4, <1>5 DEF Interrupt, Stop, Crash, Ops
  <2>2. UNCHANGED <<index, sync, disk>>
    BY <1>16, <2>1 DEF Node, ActivateBestChain, InvalidateBlock, FlushStateToDisk,
                       BlockUntilSyncedToCurrentChain
  <2> QED BY <1>6, <2>2 DEF Frontier, index, disk
<1>17. ~SyncInterrupted /\ ~SyncAborts
  BY <1>4, <1>5 DEF SyncInterrupted, SyncAborts, Ops
<1> QED BY <1>7, <1>8, <1>9, <1>10, <1>11, <1>12, <1>13, <1>14, <1>15, <1>16, <1>17
        DEF Next, ThreadSync, Callback

-----------------------------------------------------------------------------
(* Entries.                                                                *)

(* What the entries of a branch are good for.                              *)
LEMMA MatchFacts ==
  ASSUME TypeOK, NEW b \in Blocks, Match(b)
  PROVE  /\ \A c \in Ancestors(b) \cup {NoBlock} : Match(c)
         /\ \A new : NoBlock \notin Overwritten(b, new)
         /\ \A c \in Block : pprev(c) = b => CanWrite(c)
<1>1. \A c \in Ancestors(b) \cup {NoBlock} : Match(c)
  BY Tree DEF Match, Ancestors
<1>2. \A new : NoBlock \notin Overwritten(b, new)
  BY Tree, BlockTree, SMT DEF Match, Overwritten
<1>3. ASSUME NEW c \in Block, pprev(c) = b PROVE CanWrite(c)
  <2>1. CASE c = Genesis
    BY <2>1 DEF CanWrite, pprev
  <2>2. CASE c # Genesis
    <3>1. b = Parent[c] /\ b \in Block /\ Height[c] - 1 = Height[b]
      BY <1>3, <2>2, BlockTree, Tree, SMT DEF pprev
    <3>2. heightIndex[Height[b]] = b
      BY <3>1, Tree DEF Match
    <3> QED BY <1>3, <2>2, <3>1, <3>2 DEF CanWrite
  <2> QED BY <2>1, <2>2
<1> QED BY <1>1, <1>2, <1>3

LEMMA MatchWritten ==
  ASSUME TypeOK, NEW b \in Block, WriteBlock(b), Match(pprev(b))
  PROVE  \A c \in Ancestors(b) : heightIndex'[Height[c]] = c
<1> SUFFICES ASSUME NEW c \in Ancestors(b) PROVE heightIndex'[Height[c]] = c
  OBVIOUS
<1>1. c \in Block /\ Height[c] \in Heights
  BY Tree DEF Blocks, Heights
<1>2. CASE c = b
  BY <1>1, <1>2, WriteType
<1>3. CASE c # b
  <2>1. Height[c] # Height[b] /\ c \in Ancestors(pprev(b))
    BY <1>3, Branch, Step, Tree, SMT
  <2> QED BY <1>1, <2>1, WriteType DEF Match
<1> QED BY <1>2, <1>3

(* A block that is not ignored connects: without a best block only genesis *)
(* can be waiting, and it comes first.                                     *)
LEMMA Connects ==
  ASSUME TypeOK, Control, Pending, ~fatal, Notified("connected"), ~Ignored
  PROVE  /\ ConnectsToBest
         /\ pprev(Now) # m_best_block_index => pprev(Now) # NoBlock
<1>1. m_synced /\ queue # <<>>
  BY DEF Ignored, Notified
<1>2. /\ Now = queue[1].block /\ queue[1].type = "connected" /\ 1 \in 1..Len(queue)
      /\ (pprev(Now) = NoBlock <=> Now = Genesis) /\ Len(queue) \in Nat
  BY <1>1, First
<1>3. CASE m_best_block_index # NoBlock
  <2>1. ConnectsToBest
    BY <1>3 DEF Ignored
  <2>2. Now # Genesis
    BY <1>2, <1>3 DEF Control, IsGenesis
  <2> QED BY <1>2, <2>1, <2>2
<1>4. CASE m_best_block_index = NoBlock
  <2>1. Leads(queue, NoBlock, 0, Len(queue) + 1, tip)
    <3>1. Wanted(queue, tip, Len(queue) + 1, tip) /\ Len(queue) + 1 \in 1..Len(queue)+1 /\ tip \in Blocks
      <4>1. Len(queue) + 1 \in 1..Len(queue)+1
        BY <1>2, SMT
      <4> QED BY <4>1 DEF Wanted, TypeOK
    <3> QED BY <1>1, <1>4, <3>1 DEF Pending
  <2>2. tip # NoBlock
    BY <1>1 DEF Control
  <2>3. PICK k \in 1..Len(queue) : queue[k].type = "connected" /\ pprev(queue[k].block) = NoBlock
    BY <1>2, <2>1, <2>2, SMT DEF Leads, Ancestors
  <2>4. queue[k].block = Genesis
    BY <2>3, QueueType, BlockTree, SMT DEF pprev
  <2>5. Now = Genesis
    BY <1>2, <2>3, <2>4 DEF Control, IsGenesis
  <2> QED BY <1>2, <1>4, <2>5 DEF ConnectsToBest
<1> QED BY <1>3, <1>4

LEMMA EntriesInit == Init => Entries
  BY SMT DEF Init, Entries, Match, Frontier, Ancestors, NoCallback

LEMMA EntriesNext ==
  ASSUME TypeOK, Control, Pending, Entries, Next
  PROVE  Entries'
<1> SUFFICES ASSUME calls'.crash = 0, calls'.stop = 0 \/ calls'.fail = 0, ~hole' PROVE Entries'
  BY DEF Entries
<1>1. /\ calls.crash = 0 /\ (calls.stop = 0 \/ calls.fail = 0) /\ ~hole
      /\ calls'.fail = 0 => calls.fail = 0
  BY Monotone
<1>2. /\ sync.pc \in {"loop", "write"} \/ m_synced => Match(Frontier)
      /\ callback.pc = "commit" => Match(callback.tip)
      /\ calls.fail = 0 => ~fatal
      /\ calls.fail = 0 /\ sync.pc = "done" /\ ~m_synced => Match(locator)
  BY <1>1 DEF Entries
<1>3. Frontier \in Blocks /\ callback.tip \in Blocks
  BY Tree DEF Frontier, TypeOK, Control, Blocks
<1>4. Fails => calls'.fail # 0
  BY Counting, SMT
<1>5. \A op \in Ops : Count(op) => op # "crash"
  BY Counting, SMT
<1>6. ASSUME UNCHANGED <<heightIndex, index, sync, callback, fatal>>, locator' = locator \/ m_synced
      PROVE  Entries'
  BY <1>1, <1>2, <1>6 DEF Entries, Match, Frontier, index
(* The sync thread. *)
<1>7. CASE SyncInterrupted
  <2>1. /\ ~m_synced /\ callback.pc = "start" /\ Frontier = sync.pindex /\ sync.pindex # NoBlock
        /\ sync'.pc = "done"
        /\ UNCHANGED <<m_synced, callback, heightIndex, fatal>>
    BY <1>7 DEF SyncInterrupted, Control, Frontier, TypeOK
  <2>2. calls'.fail = 0 => locator' = sync.pindex
    BY <1>7, <2>1, CommitType, SMT DEF SyncInterrupted, Locator, TypeOK
  <2>3. Match(sync.pindex)
    BY <1>2, <1>7, <2>1 DEF SyncInterrupted
  <2> QED BY <1>1, <1>2, <2>1, <2>2, <2>3 DEF Entries, Match
<1>8. CASE SyncDone
  <2>1. /\ Frontier = sync.pindex /\ Frontier' = sync.pindex /\ sync.pc = "loop" /\ m_synced'
        /\ UNCHANGED <<callback, heightIndex, fatal, calls>>
    BY <1>8 DEF SyncDone, Control, Frontier, disk
  <2> QED BY <1>2, <2>1 DEF Entries, Match
<1>9. CASE SyncCommitsLast
  <2>1. /\ m_synced /\ m_synced' /\ Frontier' = Frontier
        /\ UNCHANGED <<callback, heightIndex, fatal>>
    BY <1>9 DEF SyncCommitsLast, Control, Frontier, index
  <2> QED BY <1>1, <1>2, <2>1 DEF Entries, Match
<1>10. CASE SyncNext \/ SyncRewind
  <2>1. /\ Frontier = sync.pindex /\ sync.pc = "loop" /\ ~SyncedAtTip
        /\ Frontier' = pprev(NextSyncBlock) /\ sync'.pc = "write"
        /\ UNCHANGED <<callback, heightIndex, fatal>>
    <3>1. /\ sync.pc = "loop" /\ ~SyncedAtTip
          /\ sync' = [pc |-> "write", pindex |-> NextSyncBlock, first |-> FALSE]
          /\ UNCHANGED <<m_synced, callback, heightIndex, fatal>>
      BY <1>10 DEF SyncNext, SyncRewind, SyncTakes
    <3>2. sync'.pc = "write" /\ sync'.pindex = NextSyncBlock
      BY <3>1
    <3>3. ~m_synced /\ ~m_synced'
      BY <3>1 DEF Control
    <3> QED BY <3>1, <3>2, <3>3 DEF Frontier
  <2>2. pprev(NextSyncBlock) \in Ancestors(sync.pindex) \cup {NoBlock}
    BY <2>1, NextBlock DEF SyncedAtTip, TypeOK
  <2>3. Match(pprev(NextSyncBlock))
    BY <1>2, <1>3, <2>1, <2>2, MatchFacts
  <2> QED BY <1>1, <1>2, <2>1, <2>3 DEF Entries, Match
<1>11. CASE SyncWrite
  <2>1. /\ ~m_synced /\ callback.pc = "start" /\ sync.pindex \in Block /\ WriteBlock(sync.pindex)
        /\ Frontier = pprev(sync.pindex) /\ Frontier' = sync.pindex /\ sync.pc = "write"
        /\ sync'.pc = "loop" /\ UNCHANGED <<callback, fatal, calls>>
    BY <1>11 DEF SyncWrite, Frontier, Control, index, TypeOK
  <2>2. \A c \in Ancestors(sync.pindex) : heightIndex'[Height[c]] = c
    BY <1>2, <2>1, MatchWritten
  <2> QED BY <1>2, <2>1, <2>2 DEF Entries, Match
<1>12. CASE SyncFails
  <2>1. /\ ~m_synced /\ callback.pc = "start" /\ sync.pc \in {"loop", "write"}
        /\ ~m_synced' /\ callback'.pc = "start" /\ sync'.pc = "done"
    BY <1>12 DEF SyncFails, Control, index, TypeOK
  <2>2. calls'.fail # 0
    <3>1. CASE sync.pc = "loop"
      <4>1. NoBlock \notin Overwritten(sync.pindex, pprev(NextSyncBlock))
        BY <1>2, <1>3, <2>1, <3>1, MatchFacts DEF Frontier
      <4> QED BY <1>4, <1>12, <3>1, <4>1 DEF SyncFails
    <3>2. CASE sync.pc = "write"
      <4>1. CanWrite(sync.pindex)
        BY <1>2, <1>3, <2>1, <3>2, MatchFacts DEF Frontier, Control
      <4> QED BY <1>4, <1>12, <3>2, <4>1 DEF SyncFails
    <3> QED BY <2>1, <3>1, <3>2
  <2> QED BY <2>1, <2>2 DEF Entries
<1>13. ~SyncAborts /\ ~Crash
  BY <1>5 DEF SyncAborts, Crash, Ops
(* The notifications. *)
<1>14. CASE BlockIgnored \/ WaitEnds
  BY <1>6, <1>14 DEF BlockIgnored, WaitEnds, disk
<1>15. CASE BlockConnected \/ RewindCommits
  <2>1. /\ callback'.pc = "write" /\ Frontier' = Frontier
        /\ UNCHANGED <<heightIndex, index, sync, fatal>> /\ (locator' = locator \/ m_synced)
    BY <1>15, SMT DEF BlockConnected, RewindCommits, Control, Frontier, index, disk, TypeOK
  <2> QED BY <1>1, <1>2, <2>1 DEF Entries, Match, index
<1>16. CASE BlockRewinds
  <2>1. /\ m_synced /\ m_synced' /\ Frontier = m_best_block_index /\ Frontier' = pprev(Now)
        /\ pprev(Now) \in Ancestors(m_best_block_index) \cup {NoBlock}
        /\ callback'.tip = m_best_block_index /\ UNCHANGED <<heightIndex, fatal, calls>>
    BY <1>16 DEF BlockRewinds, Ignored, ConnectsToBest, Frontier
  <2>2. Match(m_best_block_index) /\ Match(pprev(Now))
    BY <1>2, <1>3, <2>1, MatchFacts
  <2> QED BY <1>2, <2>1, <2>2 DEF Entries, Match
<1>17. CASE BlockWritten
  <2>1. /\ m_synced /\ m_synced' /\ Frontier = pprev(Now) /\ Frontier' = Now /\ WriteBlock(Now)
        /\ Notified("connected") /\ callback'.pc = "start" /\ UNCHANGED <<fatal, calls>>
    BY <1>17 DEF BlockWritten, Control, Frontier, NoCallback
  <2>2. Now \in Block
    BY <2>1, First DEF Notified
  <2>3. \A c \in Ancestors(Now) : heightIndex'[Height[c]] = c
    BY <1>2, <2>1, <2>2, MatchWritten
  <2> QED BY <1>2, <2>1, <2>3 DEF Entries, Match
<1>18. CASE BlockFails
  <2>1. /\ m_synced /\ m_synced' /\ callback'.pc = "start" /\ Frontier = m_best_block_index
        /\ Frontier' = m_best_block_index' /\ Notified("connected") /\ heightIndex' = heightIndex
        /\ \/ m_best_block_index' = m_best_block_index
           \/ callback.pc = "commit" /\ m_best_block_index' = callback.tip
    BY <1>18 DEF BlockFails, Control, Ignored, Frontier, NoCallback, disk
  <2>2. calls'.fail # 0
    <3> SUFFICES ASSUME calls'.fail = 0 PROVE FALSE
      OBVIOUS
    <3>1. ~Fails /\ ~fatal
      BY <1>1, <1>2, <1>4
    <3>2. Now \in Block
      BY <2>1, First DEF Notified
    <3>3. \A new : NoBlock \notin Overwritten(m_best_block_index, new)
      BY <1>2, <1>3, <2>1, MatchFacts
    <3>4. callback.pc = "write" => CanWrite(Now)
      BY <1>2, <1>3, <2>1, <3>2, MatchFacts DEF Control
    <3>5. ~Ignored => ConnectsToBest
      BY <2>1, <3>1, Connects
    <3> QED BY <1>18, <3>1, <3>3, <3>4, <3>5 DEF BlockFails
  <2> QED BY <1>2, <2>1, <2>2 DEF Entries, Match
<1>19. CASE ChainStateFlushed
  BY <1>6, <1>19 DEF ChainStateFlushed
(* The rest of the node. *)
<1>20. CASE Stop
  <2>1. calls.fail = 0 /\ calls' = calls /\ heightIndex' = heightIndex
    BY <1>1, <1>20, SMT DEF Stop, Control, TypeOK, Ops, disk
  <2>2. Match(locator) \/ (m_synced /\ Match(m_best_block_index) /\ ~fatal)
    BY <1>2, <1>20, <2>1 DEF Stop, Frontier
  <2>3. /\ m_best_block_index' = FindFork(locator, tip) /\ Frontier' = m_best_block_index'
        /\ callback'.pc = "start" /\ ~fatal' /\ (sync'.pc = "done" => m_synced')
    <3>1. /\ m_best_block_index' = FindFork(locator, tip) /\ sync'.pindex = m_best_block_index'
          /\ sync'.pc = (IF m_synced' THEN "done" ELSE "loop") /\ callback'.pc = "start" /\ fatal' = FALSE
      BY <1>20, StartType DEF Stop, TypeOK
    <3> QED BY <3>1 DEF Frontier
  <2>4. \A c \in Ancestors(FindFork(locator, tip)) : heightIndex[Height[c]] = c
    <3>1. Ancestors(FindFork(locator, tip)) = Ancestors(locator) \cap Ancestors(tip)
      BY Fork DEF TypeOK
    <3>2. CASE Match(locator)
      BY <3>1, <3>2 DEF Match
    <3>3. CASE m_synced /\ Match(m_best_block_index) /\ ~fatal
      <4>1. Len(queue) = 0
        BY <1>20 DEF Stop
      <4>2. Wanted(queue, tip, 1, tip) /\ 1 \in 1..Len(queue)+1 /\ tip \in Blocks
        BY <4>1, SMT DEF Wanted, TypeOK
      <4>3. Leads(queue, m_best_block_index, 0, 1, tip)
        BY <3>3, <4>2 DEF Pending
      <4>4. tip \in Ancestors(m_best_block_index) \cup {NoBlock}
        BY <4>3, SMT DEF Leads
      <4>5. Match(tip)
        BY <3>3, <4>4, MatchFacts DEF TypeOK
      <4> QED BY <3>1, <4>5 DEF Match
    <3> QED BY <2>2, <3>2, <3>3
  <2> QED BY <2>1, <2>3, <2>4 DEF Entries, Match
<1>21. CASE Node /\ ~Stop
  BY <1>6, <1>13, <1>21 DEF Node, ActivateBestChain, InvalidateBlock, FlushStateToDisk,
                            BlockUntilSyncedToCurrentChain, Interrupt, disk
<1> QED BY <1>7, <1>8, <1>9, <1>10, <1>11, <1>12, <1>13, <1>14, <1>15, <1>16, <1>17, <1>18, <1>19,
           <1>20, <1>21 DEF Next, ThreadSync, Callback

-----------------------------------------------------------------------------
(* The results.                                                            *)

(* All of it together holds of every reachable state.                      *)
THEOREM Invariance == Spec => []Inv
<1>1. Init => Inv
  BY TypeInit, ControlInit, PendingInit, CoverageInit, KeptInit, EntriesInit DEF Inv
<1>2. Inv /\ [Next]_vars => Inv'
  <2> SUFFICES ASSUME Inv, [Next]_vars PROVE Inv'
    OBVIOUS
  <2>1. TypeOK /\ Control /\ Pending /\ Coverage /\ Kept /\ Entries
    BY DEF Inv
  <2>2. CASE Next
    <3>1. TypeOK' /\ Control' /\ Pending' /\ Coverage'
      BY <2>1, <2>2, TypeSync, TypeCallback, TypeNode, ControlSync, ControlCallback, ControlNode,
         PendingSync, PendingCallback, PendingNode, CoverageSync, CoverageCallback, CoverageNode DEF Next
    <3> QED BY <2>1, <2>2, <3>1, KeptNext, EntriesNext DEF Inv
  <2>3. CASE UNCHANGED vars
    <3>1. TypeOK' /\ Control'
      BY <2>1, <2>3 DEF vars, TypeOK, Control, IsGenesis, Notified, Now
    <3>2. Pending'
      BY <2>1, <2>3 DEF vars, Pending
    <3>3. Coverage' /\ Kept' /\ Entries'
      BY <2>1, <2>3 DEF vars, Coverage, LocatorCovered, Covered, Kept, StaleFiltersKept, Frontier,
                        Entries, Match
    <3> QED BY <3>1, <3>2, <3>3 DEF Inv
  <2> QED BY <2>2, <2>3
<1> QED BY <1>1, <1>2, PTL DEF Spec

(* Whatever is in the locator's chain has been written: a restart or a     *)
(* crash at any point never makes the index skip a block (Commit,          *)
(* ThreadSync, Rewind, ChainStateFlushed).                                 *)
THEOREM LocatorIsCovered == Spec => []LocatorCovered
<1>1. Inv => LocatorCovered
  BY DEF Inv, Coverage, LocatorCovered
<1> QED BY <1>1, Invariance, PTL

(* WriteBlock finds the entry of the block below and Rewind the entries it *)
(* keeps, for any backlog of notifications.                                *)
THEOREM EntriesAreThere == Spec => []EntriesFollow
<1>1. Inv => EntriesFollow
  <2> SUFFICES ASSUME Inv, calls.crash = 0, calls.stop = 0 \/ calls.fail = 0, ~hole, ~fatal
               PROVE  /\ sync.pc = "write" => CanWrite(sync.pindex)
                      /\ callback.pc = "write" => CanWrite(Now)
                      /\ Notified("connected") /\ callback.pc = "start" /\ ~Ignored =>
                           /\ ConnectsToBest
                           /\ pprev(Now) # m_best_block_index => pprev(Now) # NoBlock
                           /\ NoBlock \notin Overwritten(m_best_block_index, pprev(Now))
    BY DEF EntriesFollow
  <2>1. TypeOK /\ Control /\ Pending /\ (sync.pc \in {"loop", "write"} \/ m_synced => Match(Frontier))
    BY DEF Inv, Entries
  <2>2. Frontier \in Blocks
    BY <2>1, Tree DEF Frontier, TypeOK, Control, Blocks
  <2>3. ASSUME sync.pc = "write" PROVE CanWrite(sync.pindex)
    BY <2>1, <2>2, <2>3, MatchFacts DEF Frontier, Control
  <2>4. ASSUME callback.pc = "write" PROVE CanWrite(Now)
    <3>1. m_synced /\ Notified("connected") /\ pprev(Now) = m_best_block_index
      BY <2>1, <2>4 DEF Control
    <3>2. Now \in Block
      BY <2>1, <3>1, First DEF Notified
    <3> QED BY <2>1, <2>2, <3>1, <3>2, MatchFacts DEF Frontier
  <2>5. ~Ignored => NoBlock \notin Overwritten(m_best_block_index, pprev(Now))
    BY <2>1, <2>2, MatchFacts DEF Frontier, Ignored
  <2> QED BY <2>1, <2>3, <2>4, <2>5, Connects
<1> QED BY <1>1, Invariance, PTL

(* A filter that has been stored can be looked up, through the height or,  *)
(* once a reorganisation has overwritten that entry, through the hash      *)
(* (BlockFilterIndex::Rewind, LookupOne).                                  *)
THEOREM StaleFiltersAreKept == Spec => []StaleFiltersKept
<1>1. Inv => StaleFiltersKept
  BY DEF Inv, Kept, StaleFiltersKept
<1> QED BY <1>1, Invariance, PTL

(* An index that says it is synced has the tip once its queue is empty,    *)
(* and BlockUntilSyncedToCurrentChain returns only then, whatever the      *)
(* notifications were that the sync thread left behind.                    *)
THEOREM StaysInSync == Spec => []InSync
<1>1. Inv => InSync
  <2> SUFFICES ASSUME Inv, m_synced, ~fatal
               PROVE  /\ queue = <<>> => HasTip
                      /\ Notified("wait") => Now \in Ancestors(m_best_block_index)
    BY DEF InSync
  <2>1. /\ TypeOK /\ Len(queue) \in Nat
        /\ \A j \in 1..Len(queue)+1, w \in Blocks :
             Wanted(queue, tip, j, w) => Leads(queue, m_best_block_index, 0, j, w)
    BY QueueType DEF Inv, Pending
  <2>2. \A w \in Blocks :
          Leads(queue, m_best_block_index, 0, 1, w) => w \in Ancestors(m_best_block_index) \cup {NoBlock}
    BY SMT DEF Leads
  <2>3. ASSUME queue = <<>> PROVE HasTip
    <3>1. Wanted(queue, tip, 1, tip) /\ tip \in Blocks
      BY <2>1, <2>3, SMT DEF Wanted, TypeOK
    <3> QED BY <2>1, <2>2, <3>1, SMT DEF HasTip
  <2>4. ASSUME Notified("wait") PROVE Now \in Ancestors(m_best_block_index)
    <3>1. Now \in Block /\ Now = queue[1].block /\ queue[1].type = "wait" /\ 1 \in 1..Len(queue)
      BY <2>1, <2>4, First DEF Notified
    <3>2. Wanted(queue, tip, 1, Now) /\ Now \in Blocks /\ Now # NoBlock
      BY <3>1, BlockTree DEF Wanted, Blocks
    <3> QED BY <2>1, <2>2, <3>2, SMT
  <2> QED BY <2>3, <2>4
<1> QED BY <1>1, Invariance, PTL
=============================================================================
