--------------------------- MODULE ContractProofs ---------------------------
(***************************************************************************)
(* What is proved of ContractState for any tree of blocks, any contracts   *)
(* and any number of faults.  RootInv says, for every thread that may hold *)
(* cs_main, how the root of globalState relates to the tip and to the root *)
(* that the thread will put back; OpenedInv says which states are in the   *)
(* database; LogInv which receipts and logs are; MoveInv which way the tip *)
(* can move, and StakeInv what follows for the staking thread.             *)
(***************************************************************************)
EXTENDS ContractState, SequenceTheorems, TLAPS

(* Zenon is the prover of every step that does not name another.           *)
USE Zenon

(* The root after n contracts of b on top of the state of its parent.      *)
RunSoFar(r, b, n) ==
  LET before == Root[Parent[b]] IN
  /\ Len(r) = Len(before) + n
  /\ \A i \in 1..Len(before) : r[i] = before[i]
  /\ \A i \in 1..n : r[Len(before) + i] = Exec(Txs[b][i], Parent[b])

Child(b) == b \in Block \ {Genesis} /\ Parent[b] = tip

RootInv ==
  /\ TypeOK
  /\ node = "down" => op.pc = "free"
  /\ op.pc \in {"exec", "results"} => Child(op.blk)
  /\ op.pc = "exec" => op.n <= Len(Txs[op.blk])
  /\ op.pc = "results" => root = Root[op.blk]
  /\ op.pc = "verify" => op.blk \in Anc[tip]
  /\ stranded => unreadable # 0
  /\ ~stranded =>
       /\ node = "up" /\ op.pc \in {"free", "step"} => root = Root[tip]
       /\ op.pc \in {"exec", "temporary", "verify", "assemble", "sign"} => op.old = Root[tip]
       /\ op.pc = "exec" => RunSoFar(root, op.blk, op.n)
  /\ OnlyBadBlocksFail

(* A state that is the state of some block is in the database.             *)
Committed(r) == \A b \in Block : Root[b] = r => b \in opened

OpenedInv ==
  /\ \A b \in opened : Committed(Root[b])
  /\ Anc[tip] \subseteq opened /\ Anc[flushed] \subseteq opened
  /\ Committed(root) /\ Committed(op.old) /\ Committed(stake.root)

(* ConnectBlock runs for a block of the target's chain, and keeps receipts. *)
Connecting == op.pc \in {"exec", "results"} /\ ~op.just

(* ActivateBestChain holds cs_main.                                        *)
Moving == op.pc = "step" \/ Connecting

(* m names the block of each transaction in the chain of c, and no other.  *)
Receipts(m, c) ==
  \A t \in Tx, b \in Block : m[t] = b <=> b \in Anc[c] /\ t \in Rng(Txs[b])

Logged(c, k) ==
  {t \in Tx : LogAddress[t] = k[2] /\ \E b \in Anc[c] : Height[b] = k[1] /\ t \in Rng(Txs[b])}

LogInv ==
  crashes = 0 =>
    /\ Receipts(results, tip)
    /\ \A k \in Heights \X Address :
         heightIndex[k] = Logged(IF op.pc = "results" THEN op.blk ELSE tip, k)
    /\ \A t \in Tx : \/ cache[t] \in {NoBlock, results[t]}
                     \/ Connecting /\ cache[t] = op.blk /\ t \in Rng(Txs[op.blk])
    /\ Connecting => \A i \in 1..op.n : cache[Txs[op.blk][i]] = op.blk
    /\ op.pc = "results" => ~op.just /\ op.n = Len(Txs[op.blk])

(* Every chain that was ever active is valid and stays in reach, so that   *)
(* the tip is never left for a chain with less work, and for one with as   *)
(* much only if a block failed.                                            *)
MoveInv ==
  /\ \A b \in stored : Anc[b] \subseteq stored
  /\ tip \in stored /\ flushed \in stored
  /\ \A b \in Anc[tip] \cup Anc[flushed] : Valid(b)
  /\ op.pc = "exec" => op.n <= badAt[op.blk]
  /\ op.pc = "results" => Valid(op.blk) /\ ~op.just
  /\ Moving => /\ start \in stored /\ \A b \in Anc[start] : Valid(b)
               /\ target \in stored /\ Anc[target] \cap failed = {}
               /\ Height[target] >= Height[start]
               /\ Height[target] = Height[start] => failed # {}
  /\ Connecting => op.blk \in Anc[target]

(* The tip when cs_main was free last.                                     *)
LastTip == IF Moving THEN start ELSE tip

(* The tip has been at p.                                                  *)
SinceAt(p) ==
  /\ Height[LastTip] >= Height[p]
  /\ Height[LastTip] = Height[p] => LastTip = p \/ failed # {}

TwoFailed == \E x, y \in failed : x # y

(* The tip has been at p, and somewhere else after that.                   *)
SinceAway(p) ==
  \/ TwoFailed
  \/ Height[LastTip] > Height[p]
  \/ /\ failed # {} /\ LastTip # p /\ Height[LastTip] = Height[p]
     /\ Moving => Height[target] > Height[start]

Assembled == Root[stake.prev] \o Execs(stake.txs, stake.prev)

(* The coinstake of the template was executed on top of b.                 *)
SignedOn(b) ==
  /\ stake.root = Append(Assembled, Exec(CoinStake, b))
  /\ unreadable = 0 /\ b # stake.prev =>
       IF stake.pc = "checked" THEN TwoFailed ELSE SinceAway(stake.prev)

StakeInv ==
  /\ node = "down" => stake.pc = "idle"
  /\ stake.pc \in {"filled", "completing", "signed", "ready", "checked"} => stake.prev \in Block
  /\ stake.pc \in {"filled", "completing"} /\ unreadable = 0 => SinceAt(stake.prev)
  /\ stake.pc \in {"signing", "completing"} <=> op.pc = "sign"
  /\ op.pc = "assemble" => stake.pc = "filling" /\ stake.prev = tip
  /\ ~stranded =>
       /\ stake.pc \in {"filled", "completing"} => stake.root = Assembled
       /\ op.pc = "sign" => root = stake.root
       /\ op.pc = "assemble" => root = Assembled
       /\ stake.pc \in {"signed", "ready", "checked"} => \E b \in Block : SignedOn(b)

MoveWell == unreadable = 0 => MoveInv

-----------------------------------------------------------------------------
(* Facts about the tree and about the roots of its blocks.                 *)

LEMMA TreeFacts ==
  ASSUME NEW b \in Block
  PROVE  /\ Anc[b] \subseteq Block /\ b \in Anc[b] /\ Genesis \in Anc[b]
         /\ b # Genesis => Parent[b] \in Block
         /\ \A c \in Anc[b] : c # Genesis => Parent[c] \in Anc[b]
<1>1. \A c \in Block : c \in Anc[c] /\ Anc[c] \subseteq Block
  BY TreeAssumption, SMT
<1>2. b # Genesis => Parent[b] \in Block
  BY TreeAssumption
<1>3. ASSUME NEW c \in Anc[b], c # Genesis PROVE Parent[c] \in Anc[b]
  <2>1. c \in Block /\ Parent[c] \in Block
    BY <1>1, <1>3, TreeAssumption
  <2>2. Parent[c] \in Anc[c] /\ Anc[c] \subseteq Anc[b]
    BY <2>1, <1>1, <1>3, TreeAssumption, SMT
  <2> QED BY <2>2
<1> QED BY <1>1, <1>2, <1>3, TreeAssumption

LEMMA TxsFacts ==
  ASSUME NEW b \in Block
  PROVE  /\ Txs[b] \in Seq(Tx) /\ Len(Txs[b]) \in Nat
         /\ \A i \in 1..Len(Txs[b]) : Txs[b][i] \in Tx
<1>1. Txs[b] \in Seq(Tx)
  BY ContractAssumption
<1> QED BY <1>1, LenProperties, ElementOfSeq

LEMMA ExecIsExecution ==
  ASSUME NEW t \in Tx \cup {CoinStake}, NEW b \in Block
  PROVE  Exec(t, b) \in Execution
BY DEF Exec, Execution

LEMMA RootFacts ==
  ASSUME NEW b \in Block
  PROVE  Root[b] \in Seq(Execution) /\ Len(Root[b]) \in Nat
<1>1. Root[b] \in Seq([tx : Tx, on : Block])
  BY ContractAssumption
<1>2. [tx : Tx, on : Block] \subseteq Execution
  BY DEF Execution
<1>3. Root[b] \in Seq(Execution)
  BY <1>1, <1>2, SeqMonotonic
<1> QED BY <1>3, LenProperties

LEMMA GenesisRoot == Root[Genesis] = <<>> /\ Genesis \in Block
BY ContractAssumption, TreeAssumption

LEMMA ConcatAt ==
  ASSUME NEW s \in Seq(Execution), NEW t \in Seq(Execution)
  PROVE  /\ Len(s \o t) = Len(s) + Len(t)
         /\ \A i \in 1..(Len(s) + Len(t)) :
              (s \o t)[i] = IF i <= Len(s) THEN s[i] ELSE t[i - Len(s)]
BY ConcatProperties

(* A block that runs all its contracts on the state of its parent ends in  *)
(* the state its header names.                                             *)
LEMMA RunToTheEnd ==
  ASSUME NEW b \in Block \ {Genesis}, NEW r \in Seq(Execution), RunSoFar(r, b, Len(Txs[b]))
  PROVE  r = Root[b]
<1> DEFINE p == Parent[b]
           e == Execs(Txs[b], p)
           k == Len(Root[p])
<1>1. p \in Block /\ Root[p] \in Seq(Execution) /\ k \in Nat
  BY TreeFacts, RootFacts
<1>2. Len(Txs[b]) \in Nat /\ \A i \in 1..Len(Txs[b]) : Exec(Txs[b][i], p) \in Execution
  BY <1>1, TxsFacts, ExecIsExecution
<1>3. e \in Seq(Execution) /\ Len(e) = Len(Txs[b]) /\ \A i \in 1..Len(Txs[b]) : e[i] = Exec(Txs[b][i], p)
  <2>1. e \in [1..Len(Txs[b]) -> Execution]
    BY <1>2 DEF Execs
  <2>2. e \in Seq(Execution)
    BY <1>2, <2>1, SeqDef
  <2>3. Len(e) = Len(Txs[b])
    BY <1>2, <2>1, <2>2, LenProperties, SMT
  <2> QED BY <2>2, <2>3 DEF Execs
<1>4. Root[b] = Root[p] \o e
  BY ContractAssumption
<1> HIDE DEF e
<1>5. /\ Len(Root[b]) = k + Len(Txs[b])
      /\ \A i \in 1..(k + Len(Txs[b])) : Root[b][i] = IF i <= k THEN Root[p][i] ELSE e[i - k]
  <2>1. /\ Len(Root[p] \o e) = k + Len(e)
        /\ \A i \in 1..(k + Len(e)) : (Root[p] \o e)[i] = IF i <= k THEN Root[p][i] ELSE e[i - k]
    BY <1>1, <1>3, ConcatAt
  <2> QED BY <2>1, <1>3, <1>4
<1>6. /\ Len(r) = k + Len(Txs[b])
      /\ \A i \in 1..k : r[i] = Root[p][i]
      /\ \A i \in 1..Len(Txs[b]) : r[k + i] = Exec(Txs[b][i], p)
  BY DEF RunSoFar
<1> HIDE DEF p, k
<1>7. ASSUME NEW i \in 1..Len(r) PROVE r[i] = Root[b][i]
  <2>1. CASE i <= k
    BY <1>1, <1>2, <1>5, <1>6, <1>7, <2>1, SMT
  <2>2. CASE i > k
    <3>1. i - k \in 1..Len(Txs[b]) /\ k + (i - k) = i
      BY <1>1, <1>2, <1>6, <1>7, <2>2, SMT
    <3>2. r[i] = Exec(Txs[b][i - k], p)
      BY <3>1, <1>6
    <3> QED BY <1>1, <1>2, <1>3, <1>5, <1>6, <2>2, <3>1, <3>2, SMT
  <2> QED BY <1>1, <1>6, <1>2, <2>1, <2>2, SMT
<1> QED BY <1>5, <1>6, <1>7, SeqEqual, RootFacts

LEMMA RunStarts ==
  ASSUME NEW b \in Block \ {Genesis}
  PROVE  RunSoFar(Root[Parent[b]], b, 0)
<1>1. Parent[b] \in Block
  BY TreeFacts
<1>2. Len(Root[Parent[b]]) \in Nat
  BY <1>1, RootFacts
<1> QED BY <1>2, SMT DEF RunSoFar

LEMMA RunStep ==
  ASSUME NEW b \in Block \ {Genesis}, NEW n \in Nat, NEW r \in Seq(Execution),
         n < Len(Txs[b]), RunSoFar(r, b, n)
  PROVE  RunSoFar(Append(r, Exec(Txs[b][n + 1], Parent[b])), b, n + 1)
<1> DEFINE x == Exec(Txs[b][n + 1], Parent[b])
           k == Len(Root[Parent[b]])
<1>1. Parent[b] \in Block /\ k \in Nat /\ Len(Txs[b]) \in Nat
  BY TreeFacts, RootFacts, TxsFacts
<1>2. x \in Execution
  BY <1>1, TxsFacts, ExecIsExecution, SMT
<1>3. Len(r) = k + n
  BY DEF RunSoFar
<1>4. /\ Len(Append(r, x)) = k + n + 1 /\ Append(r, x)[k + n + 1] = x
      /\ \A i \in 1..(k + n) : Append(r, x)[i] = r[i]
  BY <1>1, <1>2, <1>3, SMT
<1>5. /\ \A i \in 1..k : r[i] = Root[Parent[b]][i]
      /\ \A i \in 1..n : r[k + i] = Exec(Txs[b][i], Parent[b])
  BY DEF RunSoFar
<1> HIDE DEF k
<1>6. \A i \in 1..k : Append(r, x)[i] = Root[Parent[b]][i]
  BY <1>1, <1>4, <1>5, SMT
<1>7. ASSUME NEW i \in 1..(n + 1) PROVE Append(r, x)[k + i] = Exec(Txs[b][i], Parent[b])
  <2>1. CASE i = n + 1
    BY <1>1, <1>4, <2>1, SMT
  <2>2. CASE i # n + 1
    <3>1. i \in 1..n /\ k + i \in 1..(k + n)
      BY <1>1, <1>7, <2>2, SMT
    <3> QED BY <3>1, <1>4, <1>5
  <2> QED BY <2>1, <2>2
<1>8. Len(Append(r, x)) = k + (n + 1)
  BY <1>1, <1>4, SMT
<1> QED BY <1>6, <1>7, <1>8 DEF RunSoFar, k

-----------------------------------------------------------------------------
(* The types of what the actions assign.                                   *)

LEMMA ResultTypes ==
  ASSUME TypeOK
  PROVE  /\ NoResults \in [Tx -> Block \cup {NoBlock}]
         /\ CommittedResults \in [Tx -> Block \cup {NoBlock}]
         /\ \A t \in Tx, b \in Block : AddResult(t, b) \in [Tx -> Block \cup {NoBlock}]
         /\ \A b \in Block : /\ DeletedResults(results, b) \in [Tx -> Block \cup {NoBlock}]
                             /\ DeletedResults(cache, b) \in [Tx -> Block \cup {NoBlock}]
BY DEF TypeOK, NoResults, CommittedResults, AddResult, DeletedResults

LEMMA HeightIndexTypes ==
  ASSUME TypeOK, NEW b \in Block
  PROVE  /\ WrittenHeightIndex(b) \in [Heights \X Address -> SUBSET Tx]
         /\ ErasedHeightIndex(Height[b]) \in [Heights \X Address -> SUBSET Tx]
<1>1. Rng(Txs[b]) \subseteq Tx
  BY TxsFacts DEF Rng
<1>2. DOMAIN heightIndex = Heights \X Address /\ \A k \in Heights \X Address : heightIndex[k] \in SUBSET Tx
  BY DEF TypeOK
<1> QED BY <1>1, <1>2 DEF WrittenHeightIndex, ErasedHeightIndex

LEMMA OperationTypes ==
  /\ Free \in Operation /\ Step \in Operation /\ NoStake \in Template
  /\ \A pc \in {"exec", "temporary", "verify", "assemble", "sign"},
        b \in Block \cup {NoBlock}, r \in Seq(Execution) : Doing(pc, b, r) \in Operation
<1>1. <<>> \in Seq(Execution) /\ <<>> \in Seq(Tx)
  BY EmptySeq
<1> QED BY <1>1 DEF Free, Step, Doing, NoStake, Operation, Template

LEMMA OperationChanges ==
  ASSUME NEW o \in Operation
  PROVE  /\ \A k \in Nat : /\ [o EXCEPT !.n = k] \in Operation
                           /\ [o EXCEPT !.n = k].pc = o.pc /\ [o EXCEPT !.n = k].blk = o.blk
                           /\ [o EXCEPT !.n = k].n = k /\ [o EXCEPT !.n = k].old = o.old
BY DEF Operation

(* What the fields of the two records are while nobody touches them.       *)
LEMMA RecordTypes ==
  ASSUME TypeOK
  PROVE  /\ op.blk \in Block \cup {NoBlock} /\ op.n \in Nat /\ op.just \in BOOLEAN
         /\ op.old \in Seq(Execution)
         /\ stake.prev \in Block \cup {NoBlock} /\ stake.txs \in Seq(Tx)
         /\ stake.root \in Seq(Execution)
BY DEF TypeOK, Operation, Template

-----------------------------------------------------------------------------
(* RootInv is inductive: one lemma for each action.                        *)

(* Steps that leave globalState and the holder of cs_main alone.           *)
LEMMA RootFrame ==
  ASSUME RootInv, TypeOK', UNCHANGED <<badAt, node, failed, tip, root, op, stranded, unreadable>>
  PROVE  RootInv'
BY DEF RootInv, Child, RunSoFar, OnlyBadBlocksFail, Valid

LEMMA RootOthers ==
  ASSUME RootInv,
         \/ \E t \in Tx : GetResult(t)
         \/ \E b \in Block \ {Genesis} : AcceptBlock(b)
         \/ FlushStateToDisk \/ CreateEmptyBlock \/ ScrapProgress \/ GoOn
         \/ GiveUpStake \/ CheckStake \/ UNCHANGED vars
  PROVE  RootInv'
<1>1. TypeOK
  BY DEF RootInv
<1>2. CASE \E t \in Tx : GetResult(t)
  <2>1. PICK t \in Tx : GetResult(t)
    BY <1>2
  <2>2. results[t] \in Block
    BY <1>1, <2>1 DEF GetResult, TypeOK
  <2>3. cache' \in [Tx -> Block \cup {NoBlock}]
    BY <1>1, <2>1, <2>2, ResultTypes DEF GetResult
  <2>4. TypeOK'
    BY <1>1, <2>1, <2>3 DEF GetResult, TypeOK, chain, disk, counts
  <2> QED BY <2>1, <2>4, RootFrame DEF GetResult, chain, counts
<1>3. CASE \E b \in Block \ {Genesis} : AcceptBlock(b)
  <2>1. TypeOK'
    BY <1>1, <1>3 DEF AcceptBlock, TypeOK, disk, counts
  <2> QED BY <1>3, <2>1, RootFrame DEF AcceptBlock, counts
<1>4. CASE FlushStateToDisk
  <2>1. TypeOK'
    BY <1>1, <1>4 DEF FlushStateToDisk, TypeOK, disk, counts
  <2> QED BY <1>4, <2>1, RootFrame DEF FlushStateToDisk, counts
<1>5. CASE CreateEmptyBlock \/ ScrapProgress \/ GoOn \/ GiveUpStake \/ CheckStake
  <2>1. UNCHANGED <<badAt, node, chain, root, opened, cache, disk, op, start, target, counts>>
    BY <1>5 DEF CreateEmptyBlock, ScrapProgress, GoOn, GiveUpStake, CheckStake
  <2>2. stake' \in Template
    <3>1. <<>> \in Seq(Tx)
      BY EmptySeq
    <3>2. CASE CreateEmptyBlock
      BY <1>1, <3>1, <3>2 DEF CreateEmptyBlock, TypeOK, Template
    <3>3. CASE ScrapProgress \/ GiveUpStake
      BY <3>3, OperationTypes DEF ScrapProgress, GiveUpStake
    <3>4. CASE GoOn \/ CheckStake
      BY <1>1, <3>4 DEF GoOn, CheckStake, TypeOK, Template
    <3> QED BY <1>5, <3>2, <3>3, <3>4
  <2>3. TypeOK'
    BY <1>1, <2>1, <2>2 DEF TypeOK, chain, disk, counts
  <2> QED BY <2>1, <2>3, RootFrame DEF chain, counts
<1>6. CASE UNCHANGED vars
  <2>1. TypeOK'
    BY <1>1, <1>6 DEF vars, chain, disk, counts, TypeOK
  <2> QED BY <1>6, <2>1, RootFrame DEF vars, chain, counts
<1> QED BY <1>2, <1>3, <1>4, <1>5, <1>6

(* Taking cs_main for a step of the chain or for work that puts the root   *)
(* back, and giving it back.                                               *)
LEMMA RootActivate ==
  ASSUME RootInv, ActivateBestChain \/ ReleaseChain
  PROVE  RootInv'
<1>1. TypeOK /\ op' \in {Free, Step} /\ node = "up" /\ op.pc \in {"free", "step"}
      /\ UNCHANGED <<badAt, node, chain, root, opened, cache, disk, stake, counts>>
  BY DEF RootInv, ActivateBestChain, ReleaseChain, Idle
<1>2. start' \in Block /\ target' \in Block
  BY <1>1, GenesisRoot DEF TypeOK, ActivateBestChain, ReleaseChain, BestOf
<1>3. TypeOK'
  BY <1>1, <1>2, OperationTypes DEF TypeOK, chain, disk, counts
<1>4. op'.pc \in {"free", "step"}
  BY <1>1, SMT DEF Free, Step, Doing
<1> QED BY <1>1, <1>3, <1>4 DEF RootInv, chain, counts, OnlyBadBlocksFail, Valid

LEMMA RootDisconnect ==
  ASSUME RootInv, DisconnectTip
  PROVE  RootInv'
<1>1. TypeOK /\ op.pc = "step" /\ node = "up" /\ tip \in Block /\ target \in Block
  BY DEF RootInv, DisconnectTip, TypeOK
<1>2. tip # Genesis /\ Parent[tip] \in Block
  BY <1>1, TreeFacts DEF DisconnectTip
<1>3. TypeOK'
  <2>1. root' \in Seq(Execution)
    BY <1>2, RootFacts DEF DisconnectTip, RootAfterDisconnect
  <2>2. /\ results' \in [Tx -> Block \cup {NoBlock}] /\ cache' \in [Tx -> Block \cup {NoBlock}]
        /\ heightIndex' \in [Heights \X Address -> SUBSET Tx]
    BY <1>1, ResultTypes, HeightIndexTypes DEF DisconnectTip
  <2> QED BY <1>1, <1>2, <2>1, <2>2 DEF DisconnectTip, TypeOK, counts
<1> QED BY <1>1, <1>3 DEF RootInv, DisconnectTip, RootAfterDisconnect, counts, OnlyBadBlocksFail, Valid

LEMMA RootConnect ==
  ASSUME RootInv, ConnectTip \/ \E b \in Block \ {Genesis} : TestBlockValidity(b)
  PROVE  RootInv'
<1>1. /\ TypeOK /\ node = "up" /\ op.pc \in {"free", "step"} /\ tip \in Block /\ target \in Block
      /\ root \in Seq(Execution)
      /\ UNCHANGED <<badAt, node, chain, root, opened, cache, disk, start, target, stake, counts>>
  BY DEF RootInv, ConnectTip, TestBlockValidity, Idle, TypeOK
<1>2. PICK b \in Block \ {Genesis} :
        /\ Parent[b] = tip
        /\ \E j \in BOOLEAN : op' = [pc |-> "exec", blk |-> b, n |-> 0, just |-> j, old |-> root]
  <2>1. CASE ConnectTip
    <3>1. PICK b \in Anc[target] \ {Genesis} : Parent[b] = tip /\ op' = Doing("exec", b, root)
      BY <2>1 DEF ConnectTip
    <3>2. b \in Block \ {Genesis}
      BY <1>1, TreeFacts
    <3> QED BY <3>1, <3>2 DEF Doing
  <2>2. CASE \E b \in Block \ {Genesis} : TestBlockValidity(b)
    BY <2>2 DEF TestBlockValidity
  <2> QED BY <2>1, <2>2
<1>3. /\ op' \in Operation /\ op'.pc = "exec" /\ op'.blk = b /\ op'.n = 0 /\ op'.old = root
  BY <1>1, <1>2, SMT DEF Operation
<1>4. TypeOK'
  BY <1>1, <1>3 DEF TypeOK, chain, disk, counts
<1>5. Len(Txs[b]) \in Nat
  BY TxsFacts
<1>6. ~stranded => root = Root[tip] /\ RunSoFar(root, b, 0)
  BY <1>1, <1>2, RunStarts DEF RootInv
<1>7. ~stranded' => /\ op'.old = Root[tip'] /\ RunSoFar(root', op'.blk, op'.n)
  BY <1>1, <1>3, <1>6 DEF chain, counts, RunSoFar
<1>8. Child(op.blk)' /\ op'.n <= Len(Txs[op'.blk])
  BY <1>1, <1>2, <1>3, <1>5, SMT DEF Child, chain
<1>9. (stranded => unreadable # 0)' /\ OnlyBadBlocksFail'
  BY <1>1 DEF RootInv, chain, counts, OnlyBadBlocksFail, Valid
<1> QED BY <1>1, <1>3, <1>4, <1>7, <1>8, <1>9 DEF RootInv, RunSoFar

LEMMA RootExecute ==
  ASSUME RootInv, ExecuteContract
  PROVE  RootInv'
<1> DEFINE b == op.blk
           x == Exec(Txs[b][op.n + 1], Parent[b])
<1>1. /\ TypeOK /\ node = "up" /\ op.pc = "exec" /\ Child(b) /\ op.n < Len(Txs[b])
      /\ op.n \in Nat /\ root \in Seq(Execution) /\ op.old \in Seq(Execution) /\ op \in Operation
      /\ UNCHANGED <<badAt, node, chain, disk, start, target, stake, counts>>
      /\ root' = Append(root, x) /\ op' = [op EXCEPT !.n = op.n + 1]
      /\ opened' = opened \cup {c \in Block : Root[c] = root'}
  <2>1. TypeOK /\ node = "up" /\ op.pc = "exec" /\ Child(b) /\ op.n < Len(Txs[b])
    BY DEF RootInv, ExecuteContract
  <2>2. op.n \in Nat /\ root \in Seq(Execution) /\ op.old \in Seq(Execution) /\ op \in Operation
    BY <2>1, RecordTypes DEF TypeOK
  <2>3. /\ UNCHANGED <<badAt, node, chain, disk, start, target, stake, counts>>
        /\ root' = Append(root, x) /\ op' = [op EXCEPT !.n = op.n + 1]
        /\ opened' = opened \cup {c \in Block : Root[c] = root'}
    BY DEF ExecuteContract, Commit
  <2> QED BY <2>1, <2>2, <2>3
<1>2. b \in Block \ {Genesis} /\ Parent[b] = tip /\ tip \in Block /\ Len(Txs[b]) \in Nat
      /\ Txs[b][op.n + 1] \in Tx
  <2>1. b \in Block \ {Genesis} /\ Parent[b] = tip
    BY <1>1 DEF Child
  <2>2. tip \in Block /\ Len(Txs[b]) \in Nat
    BY <1>1, <2>1, TxsFacts DEF TypeOK
  <2>3. op.n + 1 \in 1..Len(Txs[b])
    BY <1>1, <2>2, SMT
  <2> QED BY <2>1, <2>2, <2>3, TxsFacts
<1>3. x \in Execution
  BY <1>2, ExecIsExecution
<1>4. cache' \in [Tx -> Block \cup {NoBlock}]
  BY <1>1, <1>2, ResultTypes DEF ExecuteContract, TypeOK
<1>5. op' \in Operation /\ op'.pc = "exec" /\ op'.blk = b /\ op'.n = op.n + 1 /\ op'.old = op.old
  <2>1. op.n + 1 \in Nat
    BY <1>1, SMT
  <2> QED BY <1>1, <2>1, OperationChanges
<1>6. root' \in Seq(Execution)
  BY <1>1, <1>3, SMT
<1>7. TypeOK'
  BY <1>1, <1>4, <1>5, <1>6 DEF TypeOK, chain, disk, counts
<1>8. ~stranded => /\ op.old = Root[tip] /\ RunSoFar(Append(root, x), b, op.n + 1)
  BY <1>1, <1>2, RunStep DEF RootInv
<1> HIDE DEF x, b
<1>9. ~stranded' => /\ op'.old = Root[tip'] /\ RunSoFar(root', op'.blk, op'.n)
  BY <1>1, <1>5, <1>8 DEF chain, counts
<1>10. Child(op.blk)' /\ op'.n <= Len(Txs[op'.blk])
  BY <1>1, <1>2, <1>5, SMT DEF Child, chain
<1>11. (stranded => unreadable # 0)' /\ OnlyBadBlocksFail'
  BY <1>1 DEF RootInv, chain, counts, OnlyBadBlocksFail, Valid
<1> QED BY <1>1, <1>5, <1>7, <1>9, <1>10, <1>11 DEF RootInv, RunSoFar

(* The path that has to undo what the executed contracts did.              *)
LEMMA RootFails ==
  ASSUME RootInv, ConnectBlockFails
  PROVE  RootInv'
<1> DEFINE b == op.blk
<1>1. /\ TypeOK /\ node = "up" /\ op.pc = "exec" /\ Child(b) /\ op.n <= Len(Txs[b])
      /\ (op.n = badAt[b] \/ Mismatch)
      /\ root' = op.old /\ cache' = NoResults /\ op' \in {Free, Step}
      /\ UNCHANGED <<badAt, node, stored, tip, flushed, opened, disk, start, stake, counts>>
      /\ (failed' = failed \/ (failed' = failed \cup {b} /\ ~op.just))
  BY DEF RootInv, ConnectBlockFails, RootAfterFailure, CacheAfterFailure
<1>2. b \in Block \ {Genesis} /\ op.n \in Nat /\ Len(Txs[b]) \in Nat /\ root \in Seq(Execution)
      /\ badAt[b] \in Nat /\ op.old \in Seq(Execution)
  BY <1>1, TxsFacts, RecordTypes DEF Child, TypeOK
<1>3. target' \in Block
  BY <1>1 DEF ConnectBlockFails, TypeOK, BestOf
<1>4. TypeOK'
  BY <1>1, <1>2, <1>3, OperationTypes, ResultTypes DEF TypeOK, disk, counts
<1>5. op'.pc \in {"free", "step"}
  BY <1>1, SMT DEF Free, Step, Doing
<1>6. ASSUME unreadable = 0, ~op.just PROVE ~Valid(b)
  <2>1. RunSoFar(root, b, op.n)
    BY <1>1, <1>6 DEF RootInv
  <2>2. op.n = badAt[b]
    <3> SUFFICES ASSUME Mismatch PROVE FALSE
      BY <1>1
    <3>1. op.n = Len(Txs[b]) /\ root # Root[b]
      BY DEF Mismatch, Executed
    <3> QED BY <2>1, <3>1, <1>2, RunToTheEnd
  <2> QED BY <2>2, <1>1, <1>2, SMT DEF Valid
<1>7. OnlyBadBlocksFail'
  BY <1>1, <1>6 DEF RootInv, OnlyBadBlocksFail, Valid, counts
<1> QED BY <1>1, <1>4, <1>5, <1>7 DEF RootInv, counts

(* The ends of ConnectBlock: fJustCheck puts the root of the parent back,  *)
(* a connected block leaves the root its header names.                     *)
LEMMA RootChecked ==
  ASSUME RootInv, JustChecked
  PROVE  RootInv'
<1>1. /\ TypeOK /\ node = "up" /\ Child(op.blk)
      /\ root' = Root[Parent[op.blk]] /\ op' = Free
      /\ UNCHANGED <<badAt, node, chain, opened, cache, disk, start, target, stake, counts>>
  BY DEF RootInv, JustChecked, Executed
<1>2. Parent[op.blk] = tip /\ tip \in Block /\ root' \in Seq(Execution)
  BY <1>1, RootFacts DEF Child, TypeOK
<1>3. TypeOK'
  BY <1>1, <1>2, OperationTypes DEF TypeOK, chain, disk, counts
<1>4. op'.pc = "free"
  BY <1>1 DEF Free, Doing
<1> QED BY <1>1, <1>2, <1>3, <1>4 DEF RootInv, chain, counts, OnlyBadBlocksFail, Valid

LEMMA RootWrites ==
  ASSUME RootInv, WriteHeightIndex
  PROVE  RootInv'
<1>1. /\ TypeOK /\ node = "up" /\ op.pc = "exec" /\ Child(op.blk) /\ root = Root[op.blk]
      /\ op \in Operation /\ op' = [op EXCEPT !.pc = "results"]
      /\ heightIndex' = WrittenHeightIndex(op.blk)
      /\ UNCHANGED <<badAt, node, chain, root, opened, cache, results, start, target, stake, counts>>
  BY DEF RootInv, WriteHeightIndex, Executed, Mismatch, TypeOK
<1>2. op' \in Operation /\ op'.pc = "results" /\ op'.blk = op.blk
  BY <1>1 DEF Operation
<1>3. heightIndex' \in [Heights \X Address -> SUBSET Tx]
  BY <1>1, HeightIndexTypes DEF Child
<1>4. TypeOK'
  BY <1>1, <1>2, <1>3 DEF TypeOK, chain, counts
<1> QED BY <1>1, <1>2, <1>4 DEF RootInv, Child, chain, counts, OnlyBadBlocksFail, Valid

LEMMA RootCommits ==
  ASSUME RootInv, CommitResults
  PROVE  RootInv'
<1>1. /\ TypeOK /\ node = "up" /\ Child(op.blk) /\ root = Root[op.blk]
      /\ results' = CommittedResults /\ cache' = NoResults /\ tip' = op.blk /\ op' = Step
      /\ UNCHANGED <<badAt, node, stored, failed, flushed, root, opened, heightIndex, start, target,
                     stake, counts>>
  BY DEF RootInv, CommitResults
<1>2. tip' \in Block
  BY <1>1 DEF Child
<1>3. TypeOK'
  BY <1>1, <1>2, OperationTypes, ResultTypes DEF TypeOK, counts
<1>4. op'.pc = "step"
  BY <1>1 DEF Step, Doing
<1> QED BY <1>1, <1>3, <1>4 DEF RootInv, counts, OnlyBadBlocksFail, Valid

(* callcontract, verifychain and the staking thread save the root, move    *)
(* it, and put it back.                                                    *)
LEMMA RootSaved ==
  ASSUME RootInv, VerifyBegin \/ CreateNewBlock \/ SignBlock \/ \E b \in Block : SetTemporaryState(b)
  PROVE  RootInv'
<1>1. /\ TypeOK /\ node = "up" /\ op.pc = "free" /\ tip \in Block
      /\ root \in Seq(Execution)
      /\ UNCHANGED <<badAt, node, chain, opened, cache, disk, start, target, counts>>
  BY DEF RootInv, VerifyBegin, CreateNewBlock, SignBlock, SetTemporaryState, Idle, TypeOK
<1>2. PICK pc \in {"temporary", "verify", "assemble", "sign"}, b \in Block \cup {NoBlock} :
        op' = Doing(pc, b, root) /\ (pc = "verify" => b = tip)
  BY <1>1, RecordTypes DEF VerifyBegin, CreateNewBlock, SignBlock, SetTemporaryState
<1>3. op' \in Operation /\ op'.pc = pc /\ op'.blk = b /\ op'.old = root
  BY <1>1, <1>2, OperationTypes DEF Doing
<1>4. root' \in Seq(Execution)
  BY <1>1, RootFacts, RecordTypes
     DEF VerifyBegin, CreateNewBlock, SignBlock, SetTemporaryState, RootOfTemplate
<1>5. stake' \in Template
  <2>1. CASE CreateNewBlock
    <3>1. <<>> \in Seq(Tx) /\ stake.root \in Seq(Execution)
      BY <1>1, EmptySeq, RecordTypes
    <3> QED BY <1>1, <2>1, <3>1 DEF CreateNewBlock, Template
  <2>2. CASE SignBlock
    BY <1>1, <2>2 DEF SignBlock, TypeOK, Template
  <2>3. CASE VerifyBegin \/ \E c \in Block : SetTemporaryState(c)
    BY <1>1, <2>3 DEF VerifyBegin, SetTemporaryState, TypeOK
  <2> QED BY <2>1, <2>2, <2>3
<1>6. TypeOK'
  BY <1>1, <1>3, <1>4, <1>5 DEF TypeOK, chain, disk, counts
<1>7. op'.pc = "verify" => op'.blk \in Anc[tip']
  BY <1>1, <1>2, <1>3, TreeFacts DEF chain
<1> QED BY <1>1, <1>2, <1>3, <1>6, <1>7 DEF RootInv, chain, counts, OnlyBadBlocksFail, Valid

LEMMA RootRestored ==
  ASSUME RootInv, DropTemporaryState \/ VerifyEnd \/ MineDGPContracts \/ BlockAssembled
  PROVE  RootInv'
<1>1. /\ TypeOK /\ node = "up" /\ op.pc \in {"temporary", "verify", "sign", "assemble"}
      /\ tip \in Block /\ root \in Seq(Execution) /\ op.old \in Seq(Execution)
      /\ root' = op.old /\ op' = Free /\ opened' \in SUBSET Block
      /\ UNCHANGED <<badAt, node, chain, cache, disk, start, target, counts>>
  <2>1. /\ TypeOK /\ node = "up" /\ op.pc \in {"temporary", "verify", "sign", "assemble"}
        /\ root' = op.old /\ op' = Free
        /\ UNCHANGED <<badAt, node, chain, cache, disk, start, target, counts>>
    BY DEF RootInv, DropTemporaryState, VerifyEnd, MineDGPContracts, BlockAssembled
  <2>2. tip \in Block /\ root \in Seq(Execution) /\ op.old \in Seq(Execution)
        /\ opened \in SUBSET Block
    BY <2>1, RecordTypes DEF TypeOK
  <2>3. opened' \in SUBSET Block
    BY <2>2 DEF DropTemporaryState, VerifyEnd, MineDGPContracts, BlockAssembled, Commit
  <2> QED BY <2>1, <2>2, <2>3
<1>2. stake' \in Template
  <2>1. CASE MineDGPContracts
    <3>1. Exec(CoinStake, tip) \in Execution
      BY <1>1 DEF Exec, Execution
    <3>2. Append(root, Exec(CoinStake, tip)) \in Seq(Execution)
      BY <1>1, <3>1, SMT
    <3> QED BY <1>1, <2>1, <3>2, RecordTypes DEF MineDGPContracts, Template
  <2>2. CASE BlockAssembled
    BY <1>1, <2>2, OperationTypes, RecordTypes DEF BlockAssembled, Template
  <2>3. CASE DropTemporaryState \/ VerifyEnd
    BY <1>1, <2>3 DEF DropTemporaryState, VerifyEnd, TypeOK
  <2> QED BY <2>1, <2>2, <2>3
<1>3. TypeOK'
  BY <1>1, <1>2, OperationTypes DEF TypeOK, chain, disk, counts
<1>4. op'.pc = "free"
  BY <1>1 DEF Free, Doing
<1> QED BY <1>1, <1>3, <1>4 DEF RootInv, chain, counts, OnlyBadBlocksFail, Valid

LEMMA RootVerify ==
  ASSUME RootInv, VerifyDisconnect
  PROVE  RootInv'
<1>1. /\ TypeOK /\ node = "up" /\ op.pc = "verify" /\ op.blk \in Anc[tip] /\ op.blk # Genesis
      /\ tip \in Block /\ op \in Operation
      /\ root' = Root[Parent[op.blk]] /\ op' = [op EXCEPT !.blk = Parent[op.blk]]
      /\ UNCHANGED <<badAt, node, chain, opened, cache, disk, start, target, stake, counts>>
  BY DEF RootInv, VerifyDisconnect, TypeOK
<1>2. Parent[op.blk] \in Anc[tip] /\ Parent[op.blk] \in Block
  BY <1>1, TreeFacts
<1>3. op' \in Operation /\ op'.pc = "verify" /\ op'.blk = Parent[op.blk] /\ op'.old = op.old
  BY <1>1, <1>2 DEF Operation
<1>4. root' \in Seq(Execution)
  BY <1>1, <1>2, RootFacts
<1>5. TypeOK'
  BY <1>1, <1>3, <1>4 DEF TypeOK, chain, disk, counts
<1> QED BY <1>1, <1>2, <1>3, <1>5 DEF RootInv, chain, counts, OnlyBadBlocksFail, Valid

LEMMA RootStranded ==
  ASSUME RootInv, VerifyUnreadable
  PROVE  RootInv'
<1>1. /\ TypeOK /\ node = "up" /\ op' = Free /\ stranded' = TRUE /\ unreadable' = unreadable + 1
      /\ unreadable \in Nat
      /\ UNCHANGED <<badAt, node, chain, root, opened, cache, disk, start, target, stake, crashes>>
  BY DEF RootInv, VerifyUnreadable, TypeOK
<1>2. op'.pc = "free" /\ unreadable' \in Nat /\ unreadable' # 0
  BY <1>1, SMT DEF Free, Doing
<1>3. TypeOK'
  BY <1>1, <1>2, OperationTypes DEF TypeOK, chain, disk
<1>4. OnlyBadBlocksFail'
  BY <1>2 DEF OnlyBadBlocksFail
<1> QED BY <1>1, <1>2, <1>3, <1>4 DEF RootInv

LEMMA RootAttempt ==
  ASSUME RootInv, NEW t \in Tx, NEW fits \in BOOLEAN, AttemptToAddContract(t, fits)
  PROVE  RootInv'
<1>1. /\ TypeOK /\ node = "up" /\ op.pc = "assemble" /\ tip \in Block
      /\ root \in Seq(Execution) /\ opened' \in SUBSET Block
      /\ UNCHANGED <<badAt, node, chain, cache, disk, op, start, target, counts>>
  BY DEF RootInv, AttemptToAddContract, TypeOK, Commit
<1>2. root' \in Seq(Execution)
  <2>1. Append(root, Exec(t, tip)) \in Seq(Execution)
    BY <1>1, ExecIsExecution, SMT
  <2> QED BY <1>1, <2>1 DEF AttemptToAddContract, RootAfterRefusal
<1>3. stake' \in Template
  <2>1. stake \in Template /\ Append(stake.txs, t) \in Seq(Tx)
    BY <1>1, RecordTypes, SMT DEF TypeOK
  <2>2. stake' = stake \/ stake' = [stake EXCEPT !.txs = Append(stake.txs, t)]
    BY DEF AttemptToAddContract
  <2> QED BY <2>1, <2>2 DEF Template
<1>4. TypeOK'
  BY <1>1, <1>2, <1>3 DEF TypeOK, chain, disk, counts
<1> QED BY <1>1, <1>4 DEF RootInv, chain, counts, OnlyBadBlocksFail, Valid

LEMMA RootCrash ==
  ASSUME RootInv, Crash \/ AppInitMain
  PROVE  RootInv'
<1>1. TypeOK
  BY DEF RootInv
<1>2. CASE Crash
  <2>1. TypeOK'
    <3>1. root' \in Seq(Execution)
      BY <1>2, RootFacts, GenesisRoot DEF Crash
    <3>2. failed' \in SUBSET Block /\ tip' \in Block /\ crashes' \in Nat
      BY <1>1, <1>2, SMT DEF Crash, TypeOK
    <3>3. /\ cache' \in [Tx -> Block \cup {NoBlock}] /\ op' \in Operation /\ stake' \in Template
          /\ start' \in Block /\ target' \in Block
      BY <1>1, <1>2, OperationTypes, ResultTypes, GenesisRoot DEF Crash
    <3> QED BY <1>1, <1>2, <3>1, <3>2, <3>3 DEF Crash, TypeOK, disk
  <2>2. op'.pc = "free" /\ node' = "down"
    BY <1>2 DEF Crash, Free, Doing
  <2>3. OnlyBadBlocksFail'
    BY <1>2 DEF Crash, RootInv, OnlyBadBlocksFail, Valid
  <2>4. (stranded => unreadable # 0)'
    BY <1>2 DEF Crash, RootInv
  <2> QED BY <2>1, <2>2, <2>3, <2>4 DEF RootInv
<1>3. CASE AppInitMain
  <2>1. op.pc = "free" /\ tip \in Block
    BY <1>1, <1>3 DEF RootInv, AppInitMain, TypeOK
  <2>2. root' \in Seq(Execution)
    BY <1>3, <2>1, RootFacts DEF AppInitMain
  <2>3. TypeOK'
    BY <1>1, <1>3, <2>2 DEF AppInitMain, TypeOK, chain, disk
  <2> QED BY <1>3, <2>1, <2>3 DEF AppInitMain, RootInv, chain, OnlyBadBlocksFail, Valid
<1> QED BY <1>2, <1>3

LEMMA RootInit == Init => RootInv
<1> SUFFICES ASSUME Init PROVE RootInv
  OBVIOUS
<1>1. badAt \in [Block -> Nat]
  BY SMT DEF Init
<1>2. root \in Seq(Execution)
  BY RootFacts, GenesisRoot DEF Init
<1>3. cache \in [Tx -> Block \cup {NoBlock}] /\ results \in [Tx -> Block \cup {NoBlock}]
      /\ heightIndex \in [Heights \X Address -> SUBSET Tx]
  BY DEF Init, NoResults
<1>4. TypeOK
  BY <1>1, <1>2, <1>3, OperationTypes, GenesisRoot DEF Init, TypeOK
<1> QED BY <1>4 DEF Init, RootInv, Free, Doing, OnlyBadBlocksFail

LEMMA RootStep == RootInv /\ [Next]_vars => RootInv'
BY RootOthers, RootActivate, RootDisconnect, RootConnect, RootExecute, RootFails, RootChecked,
   RootWrites, RootCommits, RootSaved, RootRestored, RootVerify, RootStranded, RootAttempt,
   RootCrash DEF Next

THEOREM RootInvariant == Spec => []RootInv
BY RootInit, RootStep, PTL DEF Spec

(* Every state of the contract model is well typed.                        *)
THEOREM ContractTypes == Spec => []TypeOK
<1>1. RootInv => TypeOK
  BY DEF RootInv
<1> QED BY <1>1, RootInvariant, PTL

(* Whenever cs_main is free globalState is at the state of the tip, on     *)
(* every path of ConnectBlock, TestBlockValidity, VerifyDB, TemporaryState *)
(* and the staking thread.                                                 *)
THEOREM RootAlwaysFollowsTip == Spec => []RootFollowsTip
<1>1. RootInv => RootFollowsTip
  BY DEF RootInv, RootFollowsTip, Idle
<1> QED BY <1>1, RootInvariant, PTL

(* ConnectTip marks no valid block as failed.                              *)
THEOREM NoValidBlockFails == Spec => []OnlyBadBlocksFail
<1>1. RootInv => OnlyBadBlocksFail
  BY DEF RootInv
<1> QED BY <1>1, RootInvariant, PTL

-----------------------------------------------------------------------------
(* The states of the chain are in the database.  What ByteCodeExec commits *)
(* only grows, and every root that any thread holds has been committed.    *)

LEMMA OpenedInit == Init => OpenedInv
<1> SUFFICES ASSUME Init PROVE OpenedInv
  OBVIOUS
<1>1. \A b \in Block : b \in opened <=> Root[b] = <<>>
  BY GenesisRoot DEF Init
<1>2. root = <<>> /\ op.old = <<>> /\ stake.root = <<>> /\ Anc[tip] = {Genesis} /\ tip = flushed
  BY GenesisRoot, TreeAssumption DEF Init, Free, Doing, NoStake
<1>3. opened \subseteq Block
  BY DEF Init
<1> QED BY <1>1, <1>2, <1>3, GenesisRoot DEF OpenedInv, Committed

(* Steps that commit nothing only move roots around.                       *)
LEMMA OpenedFrame ==
  ASSUME RootInv, OpenedInv, opened' = opened,
         Anc[tip'] \subseteq opened, Anc[flushed'] \subseteq opened,
         root' \in {root, op.old, stake.root} \cup {Root[b] : b \in opened},
         op'.old \in {root, op.old, <<>>},
         stake'.root \in {root, stake.root, <<>>}
  PROVE  OpenedInv'
<1>1. opened \subseteq Block /\ tip \in Block
  BY DEF RootInv, TypeOK
<1>2. Genesis \in opened
  BY <1>1, TreeFacts DEF OpenedInv
<1>3. Committed(<<>>)
  BY <1>2, GenesisRoot DEF OpenedInv
<1>4. \A r : Committed(r)' <=> Committed(r)
  BY DEF Committed
<1>5. Committed(root') /\ Committed(op'.old) /\ Committed(stake'.root)
  BY <1>3 DEF OpenedInv
<1>6. \A b \in opened : Committed(Root[b])
  BY DEF OpenedInv
<1> QED BY <1>4, <1>5, <1>6 DEF OpenedInv, Committed

(* Steps that execute a contract commit the root they reach.               *)
LEMMA OpenedCommit ==
  ASSUME RootInv, OpenedInv, NEW r, Commit(r), UNCHANGED <<tip, flushed>>,
         root' \in {root, op.old, r}, op'.old \in {op.old, <<>>},
         stake'.root \in {stake.root, r}
  PROVE  OpenedInv'
<1>1. opened \subseteq opened' /\ \A b \in Block : b \in opened' <=> b \in opened \/ Root[b] = r
  BY DEF Commit
<1>2. \A q : Committed(q) => Committed(q)'
  BY <1>1 DEF Committed
<1>3. Committed(r)'
  BY <1>1 DEF Committed
<1>4. opened \subseteq Block /\ tip \in Block
  BY DEF RootInv, TypeOK
<1>5. Committed(<<>>)
  BY <1>4, TreeFacts, GenesisRoot DEF OpenedInv
<1>6. ASSUME NEW b \in opened' PROVE Committed(Root[b])'
  BY <1>2, <1>3, <1>6 DEF OpenedInv, Commit
<1>7. Committed(root)' /\ Committed(op.old)' /\ Committed(stake.root)'
  <2>1. Committed(root) /\ Committed(op.old) /\ Committed(stake.root)
    BY DEF OpenedInv
  <2>2. \A q \in {root', op'.old, stake'.root} : q = r \/ Committed(q)
    BY <2>1, <1>5, SMT
  <2> QED BY <2>2, <1>2, <1>3 DEF Committed
<1> QED BY <1>1, <1>6, <1>7 DEF OpenedInv

LEMMA OpenedStep == RootInv /\ OpenedInv /\ [Next]_vars => OpenedInv'
<1> SUFFICES ASSUME RootInv, OpenedInv, [Next]_vars PROVE OpenedInv'
  OBVIOUS
<1>1. /\ TypeOK /\ tip \in Block /\ flushed \in Block /\ target \in Block
      /\ Anc[tip] \subseteq opened /\ Anc[flushed] \subseteq opened
      /\ tip \in opened /\ Genesis \in opened
  BY TreeFacts DEF RootInv, TypeOK, OpenedInv
<1>2. CASE \/ \E t \in Tx : GetResult(t)
           \/ \E b \in Block \ {Genesis} : AcceptBlock(b)
           \/ UNCHANGED vars \/ WriteHeightIndex \/ VerifyUnreadable
  <2>1. /\ UNCHANGED <<opened, tip, flushed, root, stake>>
        /\ op' \in {op, Free, [op EXCEPT !.pc = "results"]}
    BY <1>2 DEF GetResult, AcceptBlock, vars, chain, WriteHeightIndex, VerifyUnreadable
  <2>2. op'.old \in {op.old, <<>>}
    BY <2>1, <1>1, SMT DEF Free, Doing, TypeOK, Operation
  <2> QED BY <1>1, <2>1, <2>2, OpenedFrame
<1>3. CASE FlushStateToDisk \/ ActivateBestChain \/ ReleaseChain
  <2>1. /\ UNCHANGED <<opened, tip, root, stake>> /\ flushed' \in {flushed, tip}
        /\ op' \in {op, Free, Step}
    BY <1>3 DEF FlushStateToDisk, ActivateBestChain, ReleaseChain, chain
  <2>2. op'.old \in {op.old, <<>>}
    BY <2>1, SMT DEF Free, Step, Doing
  <2> QED BY <1>1, <2>1, <2>2, OpenedFrame
<1>4. CASE DisconnectTip
  <2>1. /\ UNCHANGED <<opened, flushed, stake, op>> /\ tip' = Parent[tip] /\ root' = Root[Parent[tip]]
    BY <1>4 DEF DisconnectTip, RootAfterDisconnect
  <2>2. tip # Genesis /\ Parent[tip] \in Anc[tip] /\ Anc[Parent[tip]] \subseteq Anc[tip]
    BY <1>1, <1>4, TreeFacts, TreeAssumption DEF DisconnectTip
  <2> QED BY <1>1, <2>1, <2>2, OpenedFrame
<1>5. CASE ConnectTip \/ \E b \in Block \ {Genesis} : TestBlockValidity(b)
  <2>1. UNCHANGED <<opened, tip, flushed, root, stake>> /\ op'.old = root
    BY <1>5, SMT DEF ConnectTip, TestBlockValidity, chain, Doing
  <2> QED BY <1>1, <2>1, OpenedFrame
<1>6. CASE ExecuteContract
  <2>1. UNCHANGED <<tip, flushed, stake>> /\ op' = [op EXCEPT !.n = op.n + 1] /\ Commit(root')
    BY <1>6 DEF ExecuteContract, chain
  <2>2. op'.old = op.old
    BY <1>1, <2>1 DEF TypeOK, Operation
  <2> QED BY <2>1, <2>2, OpenedCommit
<1>7. CASE ConnectBlockFails
  <2>1. UNCHANGED <<opened, tip, flushed, stake>> /\ root' = op.old /\ op' \in {Free, Step}
    BY <1>7 DEF ConnectBlockFails, RootAfterFailure
  <2>2. op'.old = <<>>
    BY <2>1, SMT DEF Free, Step, Doing
  <2> QED BY <1>1, <2>1, <2>2, OpenedFrame
<1>8. CASE JustChecked
  <2>1. UNCHANGED <<opened, tip, flushed, stake>> /\ root' = Root[tip] /\ op' = Free
    BY <1>8 DEF JustChecked, Executed, RootInv, Child, chain
  <2>2. op'.old = <<>>
    BY <2>1 DEF Free, Doing
  <2> QED BY <1>1, <2>1, <2>2, OpenedFrame
<1>9. CASE CommitResults
  <2>1. /\ UNCHANGED <<opened, flushed, stake, root>> /\ tip' = op.blk /\ op' = Step
        /\ Child(op.blk) /\ root = Root[op.blk]
    BY <1>9 DEF CommitResults, RootInv
  <2>2. Anc[op.blk] = Anc[tip] \cup {op.blk} /\ op.blk \in opened
    BY <2>1, TreeAssumption DEF Child, OpenedInv, Committed
  <2>3. op'.old = <<>>
    BY <2>1 DEF Step, Doing
  <2> QED BY <1>1, <2>1, <2>2, <2>3, OpenedFrame
<1>10. CASE VerifyBegin \/ CreateNewBlock \/ SignBlock \/ \E b \in Block : SetTemporaryState(b)
  <2>1. UNCHANGED <<opened, tip, flushed>> /\ op'.old = root
    BY <1>10, SMT DEF VerifyBegin, CreateNewBlock, SignBlock, SetTemporaryState, Doing, chain
  <2>2. root' \in {root, stake.root} \cup {Root[b] : b \in opened}
    BY <1>1, <1>10 DEF VerifyBegin, CreateNewBlock, SignBlock, SetTemporaryState, RootOfTemplate
  <2>3. stake'.root = stake.root
    BY <1>1, <1>10, SMT DEF VerifyBegin, CreateNewBlock, SignBlock, SetTemporaryState, TypeOK, Template
  <2> QED BY <1>1, <2>1, <2>2, <2>3, OpenedFrame
<1>11. CASE DropTemporaryState \/ VerifyEnd \/ BlockAssembled
  <2>1. /\ UNCHANGED <<opened, tip, flushed>> /\ root' = op.old /\ op' = Free
    BY <1>11 DEF DropTemporaryState, VerifyEnd, BlockAssembled, chain
  <2>2. op'.old = <<>>
    BY <2>1 DEF Free, Doing
  <2>3. stake'.root \in {root, stake.root, <<>>}
    BY <1>11, SMT DEF DropTemporaryState, VerifyEnd, BlockAssembled, NoStake
  <2> QED BY <1>1, <2>1, <2>2, <2>3, OpenedFrame
<1>12. CASE VerifyDisconnect
  <2>1. /\ UNCHANGED <<opened, tip, flushed, stake>> /\ root' = Root[Parent[op.blk]]
        /\ op' = [op EXCEPT !.blk = Parent[op.blk]] /\ op.blk \in Anc[tip] /\ op.blk # Genesis
    BY <1>12 DEF VerifyDisconnect, RootInv, chain
  <2>2. Parent[op.blk] \in opened
    BY <1>1, <2>1, TreeFacts
  <2>3. op'.old = op.old
    BY <1>1, <2>1 DEF TypeOK, Operation
  <2> QED BY <1>1, <2>1, <2>2, <2>3, OpenedFrame
<1>13. CASE MineDGPContracts
  <2> DEFINE r == Append(root, Exec(CoinStake, tip))
  <2>1. UNCHANGED <<tip, flushed>> /\ Commit(r) /\ root' = op.old /\ op' = Free /\ stake'.root = r
    BY <1>13 DEF MineDGPContracts, chain
  <2>2. op'.old = <<>>
    BY <2>1 DEF Free, Doing
  <2> HIDE DEF r
  <2> QED BY <2>1, <2>2, OpenedCommit
<1>14. CASE \E t \in Tx, fits \in BOOLEAN : AttemptToAddContract(t, fits)
  <2>1. PICK t \in Tx, fits \in BOOLEAN : AttemptToAddContract(t, fits)
    BY <1>14
  <2> DEFINE r == Append(root, Exec(t, tip))
  <2>2. UNCHANGED <<tip, flushed, op>> /\ Commit(r) /\ root' \in {root, r}
        /\ (stake' = stake \/ stake' = [stake EXCEPT !.txs = Append(stake.txs, t)])
    BY <2>1 DEF AttemptToAddContract, RootAfterRefusal, chain
  <2>3. stake'.root = stake.root
    BY <1>1, <2>2 DEF TypeOK, Template
  <2> HIDE DEF r
  <2> QED BY <2>2, <2>3, OpenedCommit
<1>15. CASE CreateEmptyBlock \/ ScrapProgress \/ GoOn \/ GiveUpStake \/ CheckStake
  <2>1. UNCHANGED <<opened, tip, flushed, root, op>>
    BY <1>15 DEF CreateEmptyBlock, ScrapProgress, GoOn, GiveUpStake, CheckStake, chain
  <2>2. stake'.root \in {root, stake.root, <<>>}
    BY <1>1, <1>15, SMT DEF CreateEmptyBlock, ScrapProgress, GoOn, GiveUpStake, CheckStake, NoStake,
                       TypeOK, Template
  <2> QED BY <1>1, <2>1, <2>2, OpenedFrame
<1>16. CASE Crash
  <2>1. UNCHANGED <<opened, flushed>> /\ tip' = flushed /\ root' = Root[Genesis] /\ op' = Free
        /\ stake' = NoStake
    BY <1>16 DEF Crash
  <2>2. op'.old = <<>> /\ stake'.root = <<>>
    BY <2>1 DEF Free, Doing, NoStake
  <2> QED BY <1>1, <2>1, <2>2, OpenedFrame
<1>17. CASE AppInitMain
  <2>1. UNCHANGED <<opened, tip, flushed, op, stake>> /\ root' = Root[tip]
    BY <1>17 DEF AppInitMain, chain
  <2> QED BY <1>1, <2>1, OpenedFrame
<1> QED BY <1>2, <1>3, <1>4, <1>5, <1>6, <1>7, <1>8, <1>9, <1>10, <1>11, <1>12, <1>13, <1>14, <1>15,
           <1>16, <1>17 DEF Next

(* The state of the block the coins database is at is in the database of   *)
(* globalState, so that AppInitMain can open it after a crash anywhere.    *)
THEOREM TipStateIsOnDisk == Spec => []TipCanBeOpened
<1>1. RootInv /\ OpenedInv => TipCanBeOpened
  BY TreeFacts DEF RootInv, TypeOK, OpenedInv, TipCanBeOpened
<1> QED BY <1>1, RootInit, RootStep, OpenedInit, OpenedStep, PTL DEF Spec

-----------------------------------------------------------------------------
(* Receipts and log index.  LogInv says what of them is written while a    *)
(* block is connected: the log index before the receipts, and the receipts *)
(* from a cache that may also hold what was read from disk.                *)

(* A block adds to its chain what is nowhere in it yet.                    *)
LEMMA NewOnChain ==
  ASSUME NEW b \in Block \ {Genesis}
  PROVE  /\ Parent[b] \in Block /\ Anc[b] = Anc[Parent[b]] \cup {b}
         /\ Rng(Txs[b]) \subseteq Tx
         /\ \A c \in Anc[Parent[b]] : /\ c \in Block /\ c # b /\ Height[c] # Height[b]
                                      /\ Rng(Txs[b]) \cap Rng(Txs[c]) = {}
<1>1. Parent[b] \in Block /\ Anc[b] = Anc[Parent[b]] \cup {b} /\ b \notin Anc[Parent[b]]
  BY TreeAssumption
<1>2. Rng(Txs[b]) \subseteq Tx
  BY TxsFacts DEF Rng
<1>3. ASSUME NEW c \in Anc[Parent[b]]
      PROVE  c \in Block /\ c # b /\ Height[c] # Height[b] /\ Rng(Txs[b]) \cap Rng(Txs[c]) = {}
  <2>1. c \in Block /\ c # b
    BY <1>1, TreeFacts
  <2>2. Height[c] <= Height[Parent[b]] /\ Height[b] = Height[Parent[b]] + 1
        /\ Height[c] \in Nat /\ Height[Parent[b]] \in Nat
    BY <1>1, <2>1, TreeAssumption
  <2>3. Rng(Txs[b]) \cap Rng(Txs[c]) = {}
    BY <1>1, <2>1, ContractAssumption
  <2>4. Height[c] # Height[b]
    BY <2>2, SMT
  <2> QED BY <2>1, <2>3, <2>4
<1> QED BY <1>1, <1>2, <1>3

(* Steps that touch neither of them.                                       *)
LEMMA LogFrame ==
  ASSUME LogInv, UNCHANGED <<crashes, tip, results, cache, heightIndex>>,
         \/ op' = op
         \/ ~Connecting /\ op.pc # "results" /\ ~Connecting' /\ op'.pc # "results"
  PROVE  LogInv'
BY SMT DEF LogInv, Connecting, Receipts, Logged

LEMMA LogOthers ==
  ASSUME RootInv, LogInv,
         \/ \E b \in Block \ {Genesis} : AcceptBlock(b) \/ TestBlockValidity(b)
         \/ ActivateBestChain \/ JustChecked \/ ReleaseChain \/ FlushStateToDisk
         \/ \E b \in Block : SetTemporaryState(b)
         \/ DropTemporaryState
         \/ VerifyBegin \/ VerifyDisconnect \/ VerifyEnd \/ VerifyUnreadable
         \/ CreateEmptyBlock \/ SignBlock \/ MineDGPContracts \/ ScrapProgress \/ GoOn
         \/ CreateNewBlock
         \/ \E t \in Tx, fits \in BOOLEAN : AttemptToAddContract(t, fits)
         \/ BlockAssembled \/ GiveUpStake \/ CheckStake \/ AppInitMain \/ UNCHANGED vars
  PROVE  LogInv'
<1>1. op \in Operation
  BY DEF RootInv, TypeOK
<1>2. CASE \/ \E b \in Block \ {Genesis} : AcceptBlock(b)
           \/ FlushStateToDisk \/ CreateEmptyBlock \/ ScrapProgress \/ GoOn
           \/ \E t \in Tx, fits \in BOOLEAN : AttemptToAddContract(t, fits)
           \/ GiveUpStake \/ CheckStake \/ AppInitMain \/ UNCHANGED vars
  <2>1. UNCHANGED <<crashes, tip, results, cache, heightIndex, op>>
    BY <1>2 DEF AcceptBlock, FlushStateToDisk, CreateEmptyBlock, ScrapProgress, GoOn,
                AttemptToAddContract, GiveUpStake, CheckStake, AppInitMain, vars, chain, disk, counts
  <2> QED BY <2>1, LogFrame
<1>3. CASE \/ ActivateBestChain \/ JustChecked \/ ReleaseChain \/ DropTemporaryState
           \/ VerifyEnd \/ VerifyUnreadable \/ MineDGPContracts \/ BlockAssembled
  <2>1. UNCHANGED <<crashes, tip, results, cache, heightIndex>> /\ op' \in {Free, Step}
    BY <1>3 DEF ActivateBestChain, JustChecked, ReleaseChain, DropTemporaryState, VerifyEnd,
                VerifyUnreadable, MineDGPContracts, BlockAssembled, chain, disk, counts
  <2>2. \/ op.pc \in {"free", "step", "temporary", "verify", "sign", "assemble"}
        \/ op.pc = "exec" /\ op.just
    BY <1>3 DEF ActivateBestChain, JustChecked, ReleaseChain, DropTemporaryState, VerifyEnd,
                VerifyUnreadable, MineDGPContracts, BlockAssembled, Idle, Executed
  <2>3. op'.pc \in {"free", "step"}
    BY <2>1, SMT DEF Free, Step, Doing
  <2> QED BY <2>1, <2>2, <2>3, LogFrame DEF Connecting
<1>4. CASE \/ \E b \in Block : SetTemporaryState(b)
           \/ VerifyBegin \/ VerifyDisconnect \/ SignBlock \/ CreateNewBlock
  <2>1. /\ UNCHANGED <<crashes, tip, results, cache, heightIndex>> /\ op.pc \in {"free", "verify"}
    BY <1>4 DEF SetTemporaryState, VerifyBegin, VerifyDisconnect, SignBlock, CreateNewBlock, Idle,
                chain, disk, counts
  <2>2. op'.pc \in {"temporary", "verify", "sign", "assemble"}
    BY <1>1, <1>4, SMT DEF SetTemporaryState, VerifyBegin, VerifyDisconnect, SignBlock,
                           CreateNewBlock, Doing, Operation
  <2> QED BY <2>1, <2>2, LogFrame DEF Connecting
<1>5. CASE \E b \in Block \ {Genesis} : TestBlockValidity(b)
  <2>1. /\ UNCHANGED <<crashes, tip, results, cache, heightIndex>> /\ op.pc = "free"
        /\ op'.pc = "exec" /\ op'.just = TRUE
    BY <1>5, SMT DEF TestBlockValidity, Idle, chain, disk, counts
  <2> QED BY <2>1, LogFrame DEF Connecting
<1> QED BY <1>2, <1>3, <1>4, <1>5

(* getResult fills the cache from the disk.                                *)
LEMMA LogGetResult ==
  ASSUME RootInv, LogInv, NEW t \in Tx, GetResult(t)
  PROVE  LogInv'
<1>1. /\ UNCHANGED <<crashes, tip, results, heightIndex, op>> /\ op.pc = "free"
      /\ cache' = AddResult(t, results[t])
  BY DEF GetResult, Idle, chain, disk, counts
<1>2. cache \in [Tx -> Block \cup {NoBlock}]
  BY DEF RootInv, TypeOK
<1>3. ASSUME crashes = 0, NEW u \in Tx PROVE cache'[u] \in {NoBlock, results[u]}
  BY <1>1, <1>2, <1>3 DEF AddResult, LogInv, Connecting
<1> QED BY <1>1, <1>3 DEF LogInv, Connecting, Receipts, Logged

(* The receipts and the logs of a block go with it.                        *)
LEMMA LogDisconnect ==
  ASSUME RootInv, LogInv, DisconnectTip
  PROVE  LogInv'
<1>1. /\ tip \in Block /\ target \in Block /\ op.pc = "step" /\ op' = op /\ tip' = Parent[tip]
      /\ results' = DeletedResults(results, tip) /\ cache' = DeletedResults(cache, tip)
      /\ heightIndex' = ErasedHeightIndex(Height[tip]) /\ crashes' = crashes
      /\ DOMAIN heightIndex = Heights \X Address
  BY DEF RootInv, TypeOK, DisconnectTip, counts
<1>2. tip \in Block \ {Genesis}
  BY <1>1, TreeFacts DEF DisconnectTip
<1>3. SUFFICES ASSUME crashes = 0
               PROVE  /\ Receipts(results', Parent[tip])
                      /\ \A k \in Heights \X Address : heightIndex'[k] = Logged(Parent[tip], k)
                      /\ \A t \in Tx : cache'[t] \in {NoBlock, results'[t]}
  BY <1>1, SMT DEF LogInv, Connecting, Receipts, Logged
<1>4. /\ Receipts(results, tip)
      /\ \A k \in Heights \X Address : heightIndex[k] = Logged(tip, k)
      /\ \A t \in Tx : cache[t] \in {NoBlock, results[t]}
  BY <1>1, <1>3 DEF LogInv, Connecting
<1>5. Receipts(results', Parent[tip])
  <2> SUFFICES ASSUME NEW t \in Tx, NEW b \in Block
               PROVE  results'[t] = b <=> b \in Anc[Parent[tip]] /\ t \in Rng(Txs[b])
    BY DEF Receipts
  <2>1. results'[t] = IF t \in Rng(Txs[tip]) THEN NoBlock ELSE results[t]
    BY <1>1 DEF DeletedResults
  <2>2. results[t] = b <=> b \in Anc[tip] /\ t \in Rng(Txs[b])
    BY <1>4 DEF Receipts
  <2> QED BY <1>2, <2>1, <2>2, NewOnChain, TreeAssumption, SMT
<1>6. ASSUME NEW k \in Heights \X Address PROVE heightIndex'[k] = Logged(Parent[tip], k)
  <2>1. heightIndex'[k] = IF k[1] = Height[tip] THEN {} ELSE Logged(tip, k)
    BY <1>1, <1>4, <1>6 DEF ErasedHeightIndex
  <2>2. CASE k[1] = Height[tip]
    BY <1>2, <2>1, <2>2, NewOnChain DEF Logged
  <2>3. CASE k[1] # Height[tip]
    <3>1. \A t : (\E b \in Anc[tip] : Height[b] = k[1] /\ t \in Rng(Txs[b]))
                   <=> \E b \in Anc[Parent[tip]] : Height[b] = k[1] /\ t \in Rng(Txs[b])
      BY <1>2, <2>3, NewOnChain, SMT
    <3> QED BY <2>1, <2>3, <3>1 DEF Logged
  <2> QED BY <2>2, <2>3
<1>7. \A t \in Tx : cache'[t] \in {NoBlock, results'[t]}
  BY <1>1, <1>4 DEF DeletedResults
<1> QED BY <1>5, <1>6, <1>7

LEMMA LogConnect ==
  ASSUME RootInv, LogInv, ConnectTip
  PROVE  LogInv'
<1>1. UNCHANGED <<crashes, tip, results, cache, heightIndex>> /\ op.pc = "step"
  BY DEF ConnectTip, chain, disk, counts
<1>2. op'.pc = "exec" /\ op'.n = 0 /\ ~op'.just
  BY SMT DEF ConnectTip, Doing
<1>3. 1..op'.n = {}
  BY <1>2, SMT
<1>4. crashes = 0 => \A t \in Tx : cache[t] \in {NoBlock, results[t]}
  BY <1>1 DEF LogInv, Connecting
<1> QED BY <1>1, <1>2, <1>3, <1>4 DEF LogInv, Connecting, Receipts, Logged

LEMMA LogExecute ==
  ASSUME RootInv, LogInv, ExecuteContract
  PROVE  LogInv'
<1> DEFINE b == op.blk
           t == Txs[b][op.n + 1]
<1>1. /\ UNCHANGED <<crashes, tip, results, heightIndex>> /\ op.pc = "exec" /\ op \in Operation
      /\ op.n \in Nat /\ op.n < Len(Txs[b]) /\ op' = [op EXCEPT !.n = op.n + 1]
      /\ cache' = (IF op.just THEN cache ELSE AddResult(t, b))
      /\ cache \in [Tx -> Block \cup {NoBlock}] /\ results \in [Tx -> Block \cup {NoBlock}]
  BY DEF RootInv, TypeOK, ExecuteContract, chain, disk, counts, Operation
<1>2. op'.pc = "exec" /\ op'.blk = b /\ op'.n = op.n + 1 /\ op'.just = op.just
  BY <1>1 DEF Operation
<1>3. b \in Block \ {Genesis} /\ Parent[b] = tip
  BY <1>1 DEF RootInv, Child
<1>4. op.n + 1 \in 1..Len(Txs[b]) /\ t \in Tx /\ t \in Rng(Txs[b])
  <2>1. op.n + 1 \in 1..Len(Txs[b])
    BY <1>1, <1>3, TxsFacts, SMT
  <2> QED BY <2>1, <1>3, TxsFacts DEF Rng
<1>5. CASE op.just
  BY <1>1, <1>2, <1>5, LogFrame DEF Connecting
<1>6. CASE ~op.just /\ crashes = 0
  <2>1. /\ Receipts(results, tip)
        /\ \A k \in Heights \X Address : heightIndex[k] = Logged(tip, k)
        /\ \A u \in Tx : \/ cache[u] \in {NoBlock, results[u]}
                         \/ cache[u] = b /\ u \in Rng(Txs[b])
        /\ \A i \in 1..op.n : cache[Txs[b][i]] = b
    BY <1>1, <1>6 DEF LogInv, Connecting
  <2>2. results[t] = NoBlock
    <3> SUFFICES ASSUME results[t] \in Block PROVE FALSE
      BY <1>1, <1>4
    <3>1. results[t] \in Anc[tip] /\ t \in Rng(Txs[results[t]])
      BY <1>4, <2>1, SMT DEF Receipts
    <3>2. Rng(Txs[b]) \cap Rng(Txs[results[t]]) = {}
      BY <1>3, <3>1, NewOnChain
    <3> QED BY <1>4, <3>1, <3>2
  <2>3. cache'[t] = b /\ \A u \in Tx : u # t => cache'[u] = cache[u]
    BY <1>1, <1>4, <1>6, <2>1, <2>2 DEF AddResult
  <2>4. \A u \in Tx : \/ cache'[u] \in {NoBlock, results[u]}
                      \/ cache'[u] = b /\ u \in Rng(Txs[b])
    BY <1>4, <2>1, <2>3
  <2>5. ASSUME NEW i \in 1..(op.n + 1) PROVE cache'[Txs[b][i]] = b
    <3>1. i \in 1..op.n \/ i = op.n + 1
      BY <1>1, SMT
    <3>2. i \in 1..Len(Txs[b])
      BY <1>1, <1>3, TxsFacts, SMT
    <3> QED BY <1>3, <2>1, <2>3, <3>1, <3>2, TxsFacts
  <2> HIDE DEF b, t
  <2> QED BY <1>1, <1>2, <1>6, <2>1, <2>4, <2>5, SMT DEF LogInv, Connecting, Receipts, Logged
<1>7. CASE crashes # 0
  BY <1>1, <1>7 DEF LogInv
<1> QED BY <1>5, <1>6, <1>7

LEMMA LogFails ==
  ASSUME RootInv, LogInv, ConnectBlockFails
  PROVE  LogInv'
<1>1. /\ UNCHANGED <<crashes, tip, results, heightIndex>> /\ op.pc = "exec" /\ cache' = NoResults
      /\ op' \in {Free, Step}
  BY DEF ConnectBlockFails, CacheAfterFailure, disk, counts
<1>2. op'.pc \in {"free", "step"}
  BY <1>1, SMT DEF Free, Step, Doing
<1> QED BY <1>1, <1>2 DEF LogInv, Connecting, Receipts, Logged, NoResults

LEMMA LogWrites ==
  ASSUME RootInv, LogInv, WriteHeightIndex
  PROVE  LogInv'
<1> DEFINE b == op.blk
<1>1. /\ UNCHANGED <<crashes, tip, results, cache>> /\ op.pc = "exec" /\ op \in Operation /\ ~op.just
      /\ op.n = Len(Txs[b]) /\ op' = [op EXCEPT !.pc = "results"]
      /\ heightIndex' = WrittenHeightIndex(b) /\ DOMAIN heightIndex = Heights \X Address
  BY DEF RootInv, TypeOK, WriteHeightIndex, Executed, chain, counts
<1>2. op'.pc = "results" /\ op'.blk = b /\ op'.n = op.n /\ op'.just = op.just
  BY <1>1 DEF Operation
<1>3. b \in Block \ {Genesis} /\ Parent[b] = tip
  BY <1>1 DEF RootInv, Child
<1>4. ASSUME crashes = 0, NEW k \in Heights \X Address PROVE heightIndex'[k] = Logged(b, k)
  <2> DEFINE new == {t \in Rng(Txs[b]) : LogAddress[t] = k[2]}
  <2>1. heightIndex[k] = Logged(tip, k)
    BY <1>1, <1>4 DEF LogInv
  <2>2. heightIndex'[k] = IF k[1] = Height[b] /\ new # {} THEN new ELSE heightIndex[k]
    BY <1>1, <1>4 DEF WrittenHeightIndex
  <2>3. CASE k[1] = Height[b]
    <3>1. Logged(tip, k) = {}
      BY <1>3, <2>3, NewOnChain DEF Logged
    <3>2. Logged(b, k) = new
      BY <1>3, <2>3, NewOnChain DEF Logged
    <3> QED BY <2>1, <2>2, <2>3, <3>1, <3>2
  <2>4. CASE k[1] # Height[b]
    <3>1. \A t : (\E c \in Anc[b] : Height[c] = k[1] /\ t \in Rng(Txs[c]))
                   <=> \E c \in Anc[tip] : Height[c] = k[1] /\ t \in Rng(Txs[c])
      BY <1>3, <2>4, NewOnChain, SMT
    <3> QED BY <2>1, <2>2, <2>4, <3>1 DEF Logged
  <2> QED BY <2>3, <2>4
<1> HIDE DEF b
<1> QED BY <1>1, <1>2, <1>4, SMT DEF LogInv, Connecting, Receipts

LEMMA LogCommits ==
  ASSUME RootInv, LogInv, CommitResults
  PROVE  LogInv'
<1> DEFINE b == op.blk
<1>1. /\ UNCHANGED <<crashes, heightIndex>> /\ op.pc = "results" /\ results' = CommittedResults
      /\ cache' = NoResults /\ tip' = b /\ op' = Step
      /\ results \in [Tx -> Block \cup {NoBlock}]
  BY DEF RootInv, TypeOK, CommitResults, counts
<1>2. op'.pc = "step"
  BY <1>1 DEF Step, Doing
<1>3. b \in Block \ {Genesis} /\ Parent[b] = tip
  BY <1>1 DEF RootInv, Child
<1>4. ASSUME crashes = 0 PROVE Receipts(results', b)
  <2>1. /\ Receipts(results, tip)
        /\ \A t \in Tx : \/ cache[t] \in {NoBlock, results[t]}
                         \/ cache[t] = b /\ t \in Rng(Txs[b])
        /\ \A t \in Rng(Txs[b]) : cache[t] = b
    BY <1>1, <1>4 DEF LogInv, Connecting, Rng
  <2> SUFFICES ASSUME NEW t \in Tx, NEW c \in Block
               PROVE  results'[t] = c <=> c \in Anc[b] /\ t \in Rng(Txs[c])
    BY DEF Receipts
  <2>2. results'[t] = IF results[t] = NoBlock THEN cache[t] ELSE results[t]
    BY <1>1 DEF CommittedResults
  <2>3. \A d \in Block : results[t] = d <=> d \in Anc[tip] /\ t \in Rng(Txs[d])
    BY <2>1 DEF Receipts
  <2>4. NoBlock \notin Block
    BY TreeAssumption
  <2>5. CASE t \in Rng(Txs[b])
    <3>1. results[t] = NoBlock
      BY <1>1, <1>3, <2>3, <2>5, NewOnChain
    <3>2. results'[t] = b
      BY <2>1, <2>2, <2>5, <3>1, SMT
    <3> QED BY <1>3, <2>5, <3>2, NewOnChain, SMT
  <2>6. CASE t \notin Rng(Txs[b])
    <3>1. results'[t] = results[t]
      BY <2>1, <2>2, <2>6
    <3> QED BY <1>3, <2>3, <2>6, <3>1, NewOnChain, SMT
  <2> QED BY <2>5, <2>6
<1> HIDE DEF b
<1>5. crashes = 0 => \A k \in Heights \X Address : heightIndex[k] = Logged(b, k)
  BY <1>1 DEF LogInv, b
<1> QED BY <1>1, <1>2, <1>4, <1>5 DEF LogInv, Connecting, Receipts, Logged, NoResults

LEMMA LogInit == Init => LogInv
<1> SUFFICES ASSUME Init PROVE LogInv
  OBVIOUS
<1>1. /\ \A t \in Tx : results[t] = NoBlock /\ cache[t] = NoBlock
      /\ \A k \in Heights \X Address : heightIndex[k] = {}
      /\ tip = Genesis /\ op.pc = "free"
  BY DEF Init, NoResults, Free, Doing
<1>2. Anc[Genesis] = {Genesis} /\ Rng(Txs[Genesis]) = {} /\ NoBlock \notin Block
  <2>1. 1..Len(Txs[Genesis]) = {}
    BY ContractAssumption, SMT
  <2> QED BY <2>1, TreeAssumption, SMT DEF Rng
<1> QED BY <1>1, <1>2 DEF LogInv, Receipts, Logged, Connecting

LEMMA LogStep == RootInv /\ LogInv /\ [Next]_vars => LogInv'
<1> SUFFICES ASSUME RootInv, LogInv, [Next]_vars PROVE LogInv'
  OBVIOUS
<1>1. CASE Crash
  <2>1. crashes' # 0
    BY <1>1, SMT DEF Crash, RootInv, TypeOK
  <2> QED BY <2>1 DEF LogInv
<1> QED BY <1>1, LogOthers, LogGetResult, LogDisconnect, LogConnect, LogExecute, LogFails, LogWrites,
           LogCommits DEF Next

(* As long as the node does not crash, the receipts and the log index are  *)
(* those of the active chain whenever cs_main is free: a reorganisation    *)
(* takes back and writes again exactly what it has to, and a cached        *)
(* receipt never goes to the wrong block (commitResults, deleteResults,    *)
(* WriteHeightIndex, EraseHeightIndex).                                    *)
THEOREM LogsFollowChain == Spec => []LogIndexExact
<1>1. RootInv /\ LogInv => LogIndexExact
  <2> SUFFICES ASSUME RootInv, LogInv, Idle, crashes = 0
               PROVE  /\ results = [t \in Tx |-> BlockOf(t)]
                      /\ heightIndex = [k \in Heights \X Address |-> Logged(tip, k)]
    BY DEF LogIndexExact, Logged
  <2>1. /\ Receipts(results, tip) /\ \A k \in Heights \X Address : heightIndex[k] = Logged(tip, k)
        /\ results \in [Tx -> Block \cup {NoBlock}]
        /\ heightIndex \in [Heights \X Address -> SUBSET Tx] /\ tip \in Block
    BY DEF Idle, LogInv, RootInv, TypeOK
  <2>2. ASSUME NEW t \in Tx PROVE results[t] = BlockOf(t)
    <3> DEFINE bs == {b \in Anc[tip] : t \in Rng(Txs[b])}
    <3>1. \A b \in Block : results[t] = b <=> b \in bs
      BY <2>1 DEF Receipts
    <3>2. bs \subseteq Block /\ BlockOf(t) = IF bs = {} THEN NoBlock ELSE CHOOSE b \in bs : TRUE
      BY <2>1, TreeFacts DEF BlockOf
    <3> HIDE DEF bs
    <3>3. CASE bs = {}
      BY <2>1, <3>1, <3>2, <3>3
    <3>4. CASE bs # {}
      <4>1. (CHOOSE b \in bs : TRUE) \in bs
        BY <3>4
      <4> QED BY <3>1, <3>2, <3>4, <4>1
    <3> QED BY <3>3, <3>4
  <2> QED BY <2>1, <2>2
<1> QED BY <1>1, RootInit, RootStep, LogInit, LogStep, PTL DEF Spec

-----------------------------------------------------------------------------
(* Where the tip goes.  MoveInv holds until a block cannot be read.        *)

LEMMA HeightFacts == \A b \in Block : Height[b] \in Nat
BY TreeAssumption

LEMMA MoveFrame ==
  ASSUME MoveInv, UNCHANGED <<badAt, stored, tip, flushed>>,
         \/ UNCHANGED <<failed, op, start, target>>
         \/ op'.pc \notin {"step", "exec", "results"}
  PROVE  MoveInv'
BY DEF MoveInv, Moving, Connecting, Valid

LEMMA MoveOthers ==
  ASSUME RootInv, MoveInv,
         \/ \E t \in Tx : GetResult(t)
         \/ JustChecked \/ ReleaseChain
         \/ \E b \in Block : SetTemporaryState(b)
         \/ DropTemporaryState
         \/ VerifyBegin \/ VerifyDisconnect \/ VerifyEnd \/ VerifyUnreadable
         \/ CreateEmptyBlock \/ SignBlock \/ MineDGPContracts \/ ScrapProgress \/ GoOn
         \/ CreateNewBlock
         \/ \E t \in Tx, fits \in BOOLEAN : AttemptToAddContract(t, fits)
         \/ BlockAssembled \/ GiveUpStake \/ CheckStake \/ AppInitMain \/ UNCHANGED vars
  PROVE  MoveInv'
<1>1. op \in Operation
  BY DEF RootInv, TypeOK
<1>2. CASE \/ \E t \in Tx : GetResult(t)
           \/ CreateEmptyBlock \/ ScrapProgress \/ GoOn
           \/ \E t \in Tx, fits \in BOOLEAN : AttemptToAddContract(t, fits)
           \/ GiveUpStake \/ CheckStake \/ AppInitMain \/ UNCHANGED vars
  <2>1. UNCHANGED <<badAt, stored, tip, flushed, failed, op, start, target>>
    BY <1>2 DEF GetResult, CreateEmptyBlock, ScrapProgress, GoOn, AttemptToAddContract, GiveUpStake,
                CheckStake, AppInitMain, vars, chain
  <2> QED BY <2>1, MoveFrame
<1>3. CASE \/ JustChecked \/ ReleaseChain \/ DropTemporaryState \/ VerifyEnd \/ VerifyUnreadable
           \/ MineDGPContracts \/ BlockAssembled
  <2>1. UNCHANGED <<badAt, stored, tip, flushed>> /\ op' = Free
    BY <1>3 DEF JustChecked, ReleaseChain, DropTemporaryState, VerifyEnd, VerifyUnreadable,
                MineDGPContracts, BlockAssembled, chain
  <2>2. op'.pc = "free"
    BY <2>1 DEF Free, Doing
  <2> QED BY <2>1, <2>2, MoveFrame
<1>4. CASE \/ \E b \in Block : SetTemporaryState(b)
           \/ VerifyBegin \/ VerifyDisconnect \/ SignBlock \/ CreateNewBlock
  <2>1. UNCHANGED <<badAt, stored, tip, flushed>>
    BY <1>4 DEF SetTemporaryState, VerifyBegin, VerifyDisconnect, SignBlock, CreateNewBlock, chain
  <2>2. op'.pc \in {"temporary", "verify", "sign", "assemble"}
    BY <1>1, <1>4, SMT DEF SetTemporaryState, VerifyBegin, VerifyDisconnect, SignBlock,
                           CreateNewBlock, Doing, Operation
  <2> QED BY <2>1, <2>2, MoveFrame
<1> QED BY <1>2, <1>3, <1>4

LEMMA MoveAccept ==
  ASSUME MoveInv, NEW b \in Block \ {Genesis}, AcceptBlock(b)
  PROVE  MoveInv'
<1>1. /\ UNCHANGED <<badAt, tip, flushed, failed, op, start, target>>
      /\ stored' = stored \cup {b} /\ Parent[b] \in stored
  BY DEF AcceptBlock
<1>2. Anc[b] = Anc[Parent[b]] \cup {b}
  BY TreeAssumption
<1>3. \A c \in stored' : Anc[c] \subseteq stored'
  BY <1>1, <1>2 DEF MoveInv
<1> QED BY <1>1, <1>3 DEF MoveInv, Moving, Connecting, Valid

LEMMA MoveActivate ==
  ASSUME RootInv, MoveInv, ActivateBestChain
  PROVE  MoveInv'
<1>1. /\ UNCHANGED <<badAt, stored, tip, flushed, failed>> /\ start' = tip /\ op' = Step
      /\ tip \in Block /\ target' \in stored /\ target' \in Block /\ Anc[target'] \cap failed = {}
      /\ Height[target'] > Height[tip]
  BY DEF RootInv, TypeOK, ActivateBestChain, BestOf, chain
<1>2. op'.pc = "step"
  BY <1>1 DEF Step, Doing
<1>3. Height[target'] >= Height[start'] /\ Height[target'] # Height[start']
  BY <1>1, HeightFacts, SMT
<1> QED BY <1>1, <1>2, <1>3 DEF MoveInv, Moving, Connecting, Valid

(* What a step towards the target does to the tip.                         *)
LEMMA MoveTip ==
  ASSUME MoveInv, UNCHANGED <<badAt, stored, failed, start, target, flushed>>,
         Moving, op'.pc = "step", tip' \in stored, \A b \in Anc[tip'] : Valid(b)
  PROVE  MoveInv'
BY DEF MoveInv, Moving, Connecting, Valid

LEMMA MoveDisconnect ==
  ASSUME RootInv, MoveInv, DisconnectTip
  PROVE  MoveInv'
<1>1. /\ UNCHANGED <<badAt, stored, failed, start, target, flushed, op>> /\ op.pc = "step"
      /\ tip \in Block /\ target \in Block /\ tip \notin Anc[target] /\ tip' = Parent[tip]
  BY DEF RootInv, TypeOK, DisconnectTip
<1>2. tip # Genesis /\ tip \in Anc[tip] /\ Anc[Parent[tip]] \subseteq Anc[tip] /\ Parent[tip] \in Anc[tip]
  BY <1>1, TreeFacts, TreeAssumption
<1>3. tip' \in stored /\ \A b \in Anc[tip'] : Valid(b)
  BY <1>1, <1>2 DEF MoveInv
<1> QED BY <1>1, <1>3, MoveTip DEF Moving

LEMMA MoveCommits ==
  ASSUME RootInv, MoveInv, CommitResults
  PROVE  MoveInv'
<1>1. /\ UNCHANGED <<badAt, stored, failed, start, target, flushed>> /\ op.pc = "results"
      /\ tip' = op.blk /\ op' = Step /\ op.blk \in Block \ {Genesis} /\ Parent[op.blk] = tip
  BY DEF RootInv, Child, CommitResults
<1>2. op'.pc = "step"
  BY <1>1 DEF Step, Doing
<1>3. ~op.just /\ Valid(op.blk) /\ op.blk \in Anc[target] /\ target \in stored
  BY <1>1 DEF MoveInv, Moving, Connecting
<1>4. Anc[op.blk] = Anc[tip] \cup {op.blk}
  BY <1>1, TreeAssumption
<1>5. tip' \in stored /\ \A b \in Anc[tip'] : Valid(b)
  BY <1>1, <1>3, <1>4 DEF MoveInv
<1> QED BY <1>1, <1>2, <1>3, <1>5, MoveTip DEF Moving, Connecting

LEMMA MoveFlush ==
  ASSUME MoveInv, FlushStateToDisk
  PROVE  MoveInv'
<1>1. UNCHANGED <<badAt, stored, failed, tip, start, target, op>> /\ flushed' = tip
  BY DEF FlushStateToDisk
<1> QED BY <1>1 DEF MoveInv, Moving, Connecting, Valid

LEMMA MoveConnect ==
  ASSUME RootInv, MoveInv, ConnectTip \/ \E b \in Block \ {Genesis} : TestBlockValidity(b)
  PROVE  MoveInv'
<1>1. UNCHANGED <<badAt, stored, failed, tip, flushed, start, target>>
  BY DEF ConnectTip, TestBlockValidity, chain
<1>2. PICK b \in Block : \E j \in BOOLEAN :
        /\ op' = [pc |-> "exec", blk |-> b, n |-> 0, just |-> j, old |-> root]
        /\ ~j => op.pc = "step" /\ b \in Anc[target]
  <2>1. CASE ConnectTip
    <3>1. PICK b \in Anc[target] : op' = Doing("exec", b, root)
      BY <2>1 DEF ConnectTip
    <3>2. b \in Block
      BY <3>1, TreeFacts DEF RootInv, TypeOK
    <3> QED BY <2>1, <3>1, <3>2 DEF Doing, ConnectTip
  <2>2. CASE \E b \in Block \ {Genesis} : TestBlockValidity(b)
    BY <2>2 DEF TestBlockValidity
  <2> QED BY <2>1, <2>2
<1>3. op'.pc = "exec" /\ op'.blk = b /\ op'.n = 0 /\ (~op'.just => op.pc = "step" /\ b \in Anc[target])
  BY <1>2, SMT
<1>4. op'.n <= badAt[op'.blk]
  BY <1>3, SMT DEF RootInv, TypeOK
<1> QED BY <1>1, <1>3, <1>4 DEF MoveInv, Moving, Connecting, Valid

LEMMA MoveExecute ==
  ASSUME RootInv, MoveInv, ExecuteContract \/ WriteHeightIndex
  PROVE  MoveInv'
<1>1. UNCHANGED <<badAt, stored, failed, tip, flushed, start, target>> /\ op.pc = "exec"
      /\ op \in Operation
  BY DEF ExecuteContract, WriteHeightIndex, Executed, chain, RootInv, TypeOK
<1>2. op.blk \in Block /\ badAt[op.blk] \in Nat /\ op.n \in Nat /\ op.n <= badAt[op.blk]
  BY <1>1, RecordTypes DEF RootInv, Child, TypeOK, MoveInv
<1>3. CASE ExecuteContract
  <2>1. op'.pc = "exec" /\ op'.blk = op.blk /\ op'.just = op.just /\ op'.n = op.n + 1
    BY <1>1, <1>3 DEF ExecuteContract, Operation
  <2>2. op.n + 1 <= badAt[op.blk]
    BY <1>2, <1>3, SMT DEF ExecuteContract
  <2> QED BY <1>1, <2>1, <2>2 DEF MoveInv, Moving, Connecting, Valid
<1>4. CASE WriteHeightIndex
  <2>1. op'.pc = "results" /\ op'.blk = op.blk /\ ~op'.just /\ ~op.just
    BY <1>1, <1>4 DEF WriteHeightIndex, Operation
  <2>2. Valid(op.blk)
    BY <1>2, <1>4, SMT DEF WriteHeightIndex, Executed, Valid
  <2> QED BY <1>1, <2>1, <2>2 DEF MoveInv, Moving, Connecting, Valid
<1> QED BY <1>3, <1>4

(* When a block fails the tip it all started from is still a candidate.    *)
LEMMA MoveFails ==
  ASSUME RootInv, RootInv', unreadable' = 0, MoveInv, ConnectBlockFails
  PROVE  MoveInv'
<1>1. UNCHANGED <<badAt, stored, tip, flushed, start>> /\ op.pc = "exec" /\ start \in Block
  BY DEF ConnectBlockFails, RootInv, TypeOK
<1>2. CASE op.just
  <2>1. op' = Free
    BY <1>2 DEF ConnectBlockFails
  <2>2. op'.pc = "free"
    BY <2>1 DEF Free, Doing
  <2> QED BY <1>1, <2>2, MoveFrame
<1>3. CASE ~op.just
  <2>1. op' = Step /\ failed' = failed \cup {op.blk} /\ target' \in BestOf(failed')
    BY <1>3 DEF ConnectBlockFails
  <2>2. op'.pc = "step" /\ failed' # {}
    BY <2>1 DEF Step, Doing
  <2>3. start \in stored /\ \A b \in Anc[start] : Valid(b)
    BY <1>1, <1>3 DEF MoveInv, Moving, Connecting
  <2>4. \A b \in failed' : ~Valid(b)
    BY <1>1 DEF RootInv, OnlyBadBlocksFail, Valid
  <2>5. /\ target' \in stored /\ Anc[target'] \cap failed' = {} /\ target' \in Block
        /\ Height[start] <= Height[target']
    BY <2>1, <2>3, <2>4 DEF BestOf, RootInv, TypeOK
  <2>6. Height[target'] >= Height[start]
    BY <1>1, <2>5, HeightFacts, SMT
  <2> QED BY <1>1, <2>2, <2>3, <2>5, <2>6 DEF MoveInv, Moving, Connecting, Valid
<1> QED BY <1>2, <1>3

LEMMA MoveCrash ==
  ASSUME MoveInv, Crash
  PROVE  MoveInv'
<1>1. UNCHANGED <<badAt, stored, flushed>> /\ tip' = flushed /\ op' = Free
  BY DEF Crash
<1>2. op'.pc = "free"
  BY <1>1 DEF Free, Doing
<1> QED BY <1>1, <1>2 DEF MoveInv, Moving, Connecting, Valid

(* Only verifychain counts a block that cannot be read.                    *)
LEMMA KeepsReading ==
  ASSUME [Next]_vars, ~VerifyUnreadable
  PROVE  unreadable' = unreadable
BY DEF Next, vars, counts, GetResult, AcceptBlock, TestBlockValidity, ActivateBestChain, DisconnectTip,
       ConnectTip, ExecuteContract, ConnectBlockFails, JustChecked, WriteHeightIndex, CommitResults,
       ReleaseChain, FlushStateToDisk, SetTemporaryState, DropTemporaryState, VerifyBegin,
       VerifyDisconnect, VerifyEnd, CreateEmptyBlock, SignBlock, MineDGPContracts, ScrapProgress, GoOn,
       CreateNewBlock, AttemptToAddContract, BlockAssembled, GiveUpStake, CheckStake, Crash, AppInitMain

LEMMA MoveInit == Init => MoveWell
<1> SUFFICES ASSUME Init PROVE MoveInv
  BY DEF MoveWell
<1>1. stored = {Genesis} /\ tip = Genesis /\ flushed = Genesis /\ op.pc = "free" /\ Valid(Genesis)
  BY DEF Init, Free, Doing
<1> QED BY <1>1, TreeAssumption DEF MoveInv, Moving, Connecting

LEMMA MoveStep == RootInv /\ RootInv' /\ MoveWell /\ [Next]_vars => MoveWell'
<1> SUFFICES ASSUME RootInv, RootInv', MoveWell, [Next]_vars, unreadable' = 0 PROVE MoveInv'
  BY DEF MoveWell
<1>1. unreadable = 0
  <2>1. CASE VerifyUnreadable
    BY <2>1, SMT DEF VerifyUnreadable, RootInv, TypeOK
  <2>2. CASE ~VerifyUnreadable
    BY <2>2, KeepsReading
  <2> QED BY <2>1, <2>2
<1>2. MoveInv
  BY <1>1 DEF MoveWell
<1> QED BY <1>2, MoveOthers, MoveAccept, MoveActivate, MoveDisconnect, MoveCommits, MoveFlush,
           MoveConnect, MoveExecute, MoveFails, MoveCrash DEF Next

-----------------------------------------------------------------------------
(* What the staking thread can tell from the tip it saw.                   *)

(* What is said of where the tip has been stays true.                      *)
Drifts ==
  /\ TwoFailed => TwoFailed'
  /\ \A p \in Block : (SinceAt(p) => SinceAt(p)') /\ (SinceAway(p) => SinceAway(p)')

LEMMA DriftFrame ==
  ASSUME failed' = failed, LastTip' = LastTip, Moving' => Moving /\ UNCHANGED <<start, target>>
  PROVE  Drifts
BY DEF Drifts, TwoFailed, SinceAt, SinceAway

(* Steps on the way to the target, and steps that have nothing to do with  *)
(* the chain.                                                              *)
LEMMA DriftMoving ==
  ASSUME UNCHANGED <<failed, start, target>>, Moving, Moving'
  PROVE  Drifts
BY DriftFrame DEF LastTip

LEMMA DriftResting ==
  ASSUME UNCHANGED <<failed, tip>>, ~Moving, ~Moving'
  PROVE  Drifts
BY DriftFrame DEF LastTip

LEMMA DriftActivate ==
  ASSUME RootInv, ActivateBestChain
  PROVE  Drifts
<1>1. failed' = failed /\ start' = tip /\ Height[target'] > Height[start'] /\ op.pc = "free" /\ op' = Step
  BY DEF ActivateBestChain, BestOf, Idle, chain
<1>2. op'.pc = "step"
  BY <1>1 DEF Step, Doing
<1>3. LastTip' = LastTip
  BY <1>1, <1>2 DEF LastTip, Moving, Connecting
<1> QED BY <1>1, <1>3 DEF Drifts, TwoFailed, SinceAt, SinceAway

LEMMA DriftFails ==
  ASSUME RootInv, MoveInv, ConnectBlockFails, ~op.just
  PROVE  Drifts
<1>1. /\ op.pc = "exec" /\ start' = start /\ failed' = failed \cup {op.blk} /\ op' = Step
      /\ target \in Block
  BY DEF ConnectBlockFails, RootInv, TypeOK
<1>2. op'.pc = "step"
  BY <1>1 DEF Step, Doing
<1>3. LastTip' = LastTip
  BY <1>1, <1>2 DEF LastTip, Moving, Connecting
<1>4. op.blk \notin failed
  BY <1>1 DEF MoveInv, Moving, Connecting
<1>5. ASSUME NEW x \in failed PROVE TwoFailed'
  BY <1>1, <1>4, <1>5, SMT DEF TwoFailed
<1>6. TwoFailed => TwoFailed'
  BY <1>1 DEF TwoFailed
<1> QED BY <1>1, <1>3, <1>5, <1>6 DEF Drifts, SinceAt, SinceAway

(* ActivateBestChain gives cs_main back on a chain with more work, or with *)
(* as much if a block failed on the way.                                   *)
LEMMA DriftRelease ==
  ASSUME RootInv, MoveInv, ReleaseChain
  PROVE  Drifts
<1>1. /\ failed' = failed /\ tip' = tip /\ op.pc = "step" /\ op' = Free
      /\ tip \in Block /\ start \in Block /\ target \in Block
      /\ tip = target \/ Height[tip] > Height[start]
  BY DEF ReleaseChain, BetterOff, chain, RootInv, TypeOK
<1>2. op'.pc = "free"
  BY <1>1 DEF Free, Doing
<1>3. LastTip = start /\ LastTip' = tip /\ Moving
  BY <1>1, <1>2 DEF LastTip, Moving, Connecting
<1>4. Height[target] >= Height[start] /\ (Height[target] = Height[start] => failed # {})
  BY <1>3 DEF MoveInv
<1>5. /\ Height[tip] >= Height[start] /\ (Height[tip] = Height[start] => failed # {})
      /\ Height[target] > Height[start] => Height[tip] > Height[start]
  BY <1>1, <1>4, HeightFacts, SMT
<1>6. ASSUME NEW p \in Block, SinceAt(p) PROVE SinceAt(p)'
  <2>1. Height[start] >= Height[p]
    BY <1>3, <1>6 DEF SinceAt
  <2>2. Height[tip] >= Height[p] /\ (Height[tip] = Height[p] => failed # {})
    BY <1>1, <1>5, <2>1, HeightFacts, SMT
  <2> QED BY <1>1, <1>3, <2>2 DEF SinceAt
<1>7. ASSUME NEW p \in Block, SinceAway(p) PROVE SinceAway(p)'
  <2>1. CASE TwoFailed
    BY <1>1, <2>1 DEF SinceAway, TwoFailed
  <2>2. CASE ~TwoFailed
    <3>1. \/ Height[start] > Height[p]
          \/ Height[start] = Height[p] /\ Height[target] > Height[start]
      BY <1>3, <1>7, <2>2 DEF SinceAway
    <3>2. Height[tip] > Height[p]
      BY <1>1, <1>5, <3>1, HeightFacts, SMT
    <3> QED BY <1>3, <3>2 DEF SinceAway
  <2> QED BY <2>1, <2>2
<1> QED BY <1>1, <1>6, <1>7 DEF Drifts, TwoFailed

LEMMA DriftStep ==
  ASSUME RootInv, MoveInv, Next, ~Crash
  PROVE  Drifts
<1>1. op \in Operation
  BY DEF RootInv, TypeOK
<1>2. CASE \/ \E t \in Tx : GetResult(t)
           \/ \E b \in Block \ {Genesis} : AcceptBlock(b)
           \/ FlushStateToDisk \/ CreateEmptyBlock \/ ScrapProgress \/ GoOn
           \/ \E t \in Tx, fits \in BOOLEAN : AttemptToAddContract(t, fits)
           \/ GiveUpStake \/ CheckStake \/ AppInitMain
  <2>1. UNCHANGED <<failed, tip, start, target, op>>
    BY <1>2 DEF GetResult, AcceptBlock, FlushStateToDisk, CreateEmptyBlock, ScrapProgress, GoOn,
                AttemptToAddContract, GiveUpStake, CheckStake, AppInitMain, chain
  <2>2. Moving' = Moving
    BY <2>1 DEF Moving, Connecting
  <2> QED BY <2>1, <2>2, DriftFrame DEF LastTip
<1>3. CASE \/ JustChecked \/ DropTemporaryState \/ VerifyEnd \/ VerifyUnreadable
           \/ MineDGPContracts \/ BlockAssembled \/ (ConnectBlockFails /\ op.just)
  <2>1. UNCHANGED <<failed, tip>> /\ op' = Free
    BY <1>3 DEF JustChecked, DropTemporaryState, VerifyEnd, VerifyUnreadable, MineDGPContracts,
                BlockAssembled, ConnectBlockFails, chain
  <2>2. \/ op.pc \in {"temporary", "verify", "sign", "assemble"}
        \/ op.pc = "exec" /\ op.just
    BY <1>3 DEF JustChecked, DropTemporaryState, VerifyEnd, VerifyUnreadable, MineDGPContracts,
                BlockAssembled, ConnectBlockFails, Executed
  <2>3. op'.pc = "free"
    BY <2>1 DEF Free, Doing
  <2> QED BY <2>1, <2>2, <2>3, DriftResting DEF Moving, Connecting
<1>4. CASE \/ \E b \in Block : SetTemporaryState(b)
           \/ VerifyBegin \/ VerifyDisconnect \/ SignBlock \/ CreateNewBlock
  <2>1. UNCHANGED <<failed, tip>> /\ op.pc \in {"free", "verify"}
    BY <1>4 DEF SetTemporaryState, VerifyBegin, VerifyDisconnect, SignBlock, CreateNewBlock, Idle, chain
  <2>2. op'.pc \in {"temporary", "verify", "sign", "assemble"}
    BY <1>1, <1>4, SMT DEF SetTemporaryState, VerifyBegin, VerifyDisconnect, SignBlock,
                           CreateNewBlock, Doing, Operation
  <2> QED BY <2>1, <2>2, DriftResting DEF Moving, Connecting
<1>5. CASE \E b \in Block \ {Genesis} : TestBlockValidity(b)
  <2>1. UNCHANGED <<failed, tip>> /\ op.pc = "free" /\ op'.pc = "exec" /\ op'.just = TRUE
    BY <1>5, SMT DEF TestBlockValidity, Idle, chain
  <2> QED BY <2>1, DriftResting DEF Moving, Connecting
<1>6. CASE DisconnectTip \/ ConnectTip \/ CommitResults \/ WriteHeightIndex
  <2>1. UNCHANGED <<failed, start, target>>
    BY <1>6 DEF DisconnectTip, ConnectTip, CommitResults, WriteHeightIndex, chain
  <2>2. Moving
    BY <1>6 DEF DisconnectTip, ConnectTip, CommitResults, WriteHeightIndex, Executed, Moving, Connecting,
                MoveInv
  <2>3. Moving'
    <3>1. CASE DisconnectTip
      BY <3>1 DEF DisconnectTip, Moving
    <3>2. CASE CommitResults
      BY <3>2, SMT DEF CommitResults, Moving, Step, Doing
    <3>3. CASE ConnectTip
      BY <3>3, SMT DEF ConnectTip, Moving, Connecting, Doing
    <3>4. CASE WriteHeightIndex
      BY <1>1, <3>4 DEF WriteHeightIndex, Moving, Connecting, Operation
    <3> QED BY <1>6, <3>1, <3>2, <3>3, <3>4
  <2> QED BY <2>1, <2>2, <2>3, DriftMoving
<1>7. CASE ExecuteContract
  <2>1. UNCHANGED <<failed, tip, start, target>> /\ op.pc = "exec"
    BY <1>7 DEF ExecuteContract, chain
  <2>2. op'.pc = "exec" /\ op'.just = op.just
    BY <1>1, <1>7, <2>1 DEF ExecuteContract, Operation
  <2>3. Moving' = Moving
    BY <2>1, <2>2 DEF Moving, Connecting
  <2> QED BY <2>1, <2>3, DriftFrame DEF LastTip
<1> QED BY <1>2, <1>3, <1>4, <1>5, <1>6, <1>7, DriftActivate, DriftFails, DriftRelease DEF Next

-----------------------------------------------------------------------------
(* The template of the staking thread.                                     *)

LEMMA ExecsFacts ==
  ASSUME NEW s \in Seq(Tx), NEW b \in Block
  PROVE  /\ Execs(s, b) \in Seq(Execution) /\ Len(Execs(s, b)) = Len(s) /\ Len(s) \in Nat
         /\ \A i \in 1..Len(s) : Execs(s, b)[i] = Exec(s[i], b) /\ Exec(s[i], b) \in Execution
<1>1. Len(s) \in Nat /\ \A i \in 1..Len(s) : s[i] \in Tx
  BY LenProperties, ElementOfSeq
<1>2. \A i \in 1..Len(s) : Exec(s[i], b) \in Execution
  BY <1>1, ExecIsExecution
<1>3. Execs(s, b) \in [1..Len(s) -> Execution]
  BY <1>2 DEF Execs
<1>4. Execs(s, b) \in Seq(Execution)
  BY <1>1, <1>3, SeqDef
<1>5. Len(Execs(s, b)) = Len(s)
  BY <1>1, <1>3, <1>4, LenProperties, SMT
<1> QED BY <1>1, <1>2, <1>4, <1>5 DEF Execs

(* A template without contracts is at the state of its parent, and each    *)
(* contract that is added moves it on.                                     *)
LEMMA AssembledFacts ==
  ASSUME NEW r \in Seq(Execution), NEW s \in Seq(Tx), NEW t \in Tx, NEW b \in Block
  PROVE  r \o Execs(Append(s, t), b) = Append(r \o Execs(s, b), Exec(t, b))
<1> DEFINE e == Execs(s, b)
           f == Execs(Append(s, t), b)
           x == Exec(t, b)
<1>1. e \in Seq(Execution) /\ Len(e) = Len(s) /\ Len(s) \in Nat /\ Len(r) \in Nat /\ x \in Execution
      /\ \A i \in 1..Len(s) : e[i] = Exec(s[i], b)
  BY ExecsFacts, ExecIsExecution, LenProperties
<1>2. /\ Append(s, t) \in Seq(Tx) /\ Len(Append(s, t)) = Len(s) + 1 /\ Append(s, t)[Len(s) + 1] = t
      /\ \A i \in 1..Len(s) : Append(s, t)[i] = s[i]
  BY SMT
<1>3. /\ f \in Seq(Execution) /\ Len(f) = Len(s) + 1
      /\ \A i \in 1..(Len(s) + 1) : f[i] = Exec(Append(s, t)[i], b)
  BY <1>2, ExecsFacts
<1>4. f[Len(s) + 1] = x /\ \A i \in 1..Len(s) : f[i] = e[i]
  <2>1. Len(s) + 1 \in 1..(Len(s) + 1) /\ 1..Len(s) \subseteq 1..(Len(s) + 1)
    BY <1>1, SMT
  <2> QED BY <1>1, <1>2, <1>3, <2>1
<1> HIDE DEF e, f, x
<1>5. f = Append(e, x)
  BY <1>1, <1>3, <1>4, SMT
<1>6. r \o Append(e, x) = Append(r \o e, x)
  BY <1>1, SMT
<1> QED BY <1>5, <1>6 DEF e, f, x

LEMMA NothingAssembled ==
  ASSUME NEW r \in Seq(Execution), NEW b
  PROVE  r \o Execs(<<>>, b) = r
<1>1. Execs(<<>>, b) = <<>>
  BY SMT DEF Execs
<1> QED BY <1>1, SMT

(* Steps of the others.                                                    *)
LEMMA StakeFrame ==
  ASSUME StakeInv, stake' = stake, node' = node, ~stranded' => ~stranded,
         unreadable' = 0 => unreadable = 0 /\ Drifts,
         op.pc \notin {"sign", "assemble"}, op'.pc \notin {"sign", "assemble"}
  PROVE  StakeInv'
<1>1. ASSUME NEW b \in Block, SignedOn(b), stake.prev \in Block PROVE SignedOn(b)'
  BY <1>1 DEF SignedOn, Assembled, Drifts
<1>2. stake.prev \in Block /\ unreadable' = 0 /\ SinceAt(stake.prev) => SinceAt(stake.prev)'
  BY DEF Drifts, SinceAt
<1> QED BY <1>1, <1>2 DEF StakeInv, Assembled

LEMMA StakeOthers ==
  ASSUME RootInv, MoveWell, StakeInv,
         \/ \E t \in Tx : GetResult(t)
         \/ \E b \in Block \ {Genesis} : AcceptBlock(b) \/ TestBlockValidity(b)
         \/ ActivateBestChain \/ DisconnectTip \/ ConnectTip
         \/ ExecuteContract \/ ConnectBlockFails \/ JustChecked
         \/ WriteHeightIndex \/ CommitResults \/ ReleaseChain \/ FlushStateToDisk
         \/ \E b \in Block : SetTemporaryState(b)
         \/ DropTemporaryState
         \/ VerifyBegin \/ VerifyDisconnect \/ VerifyEnd \/ VerifyUnreadable
  PROVE  StakeInv'
<1>1. op \in Operation /\ unreadable \in Nat
  BY DEF RootInv, TypeOK
<1>2. Next /\ stake' = stake /\ node = "up" /\ node' = node
  BY DEF Next, GetResult, AcceptBlock, TestBlockValidity, ActivateBestChain, DisconnectTip, ConnectTip,
         ExecuteContract, ConnectBlockFails, JustChecked, WriteHeightIndex, CommitResults, ReleaseChain,
         FlushStateToDisk, SetTemporaryState, DropTemporaryState, VerifyBegin, VerifyDisconnect,
         VerifyEnd, VerifyUnreadable, Idle
<1>3. ~Crash
  BY <1>2 DEF Crash
<1>4. CASE VerifyUnreadable
  <2>1. op'.pc = "free" /\ op.pc = "verify" /\ stranded' = TRUE /\ unreadable' # 0
    BY <1>1, <1>4, SMT DEF VerifyUnreadable, Free, Doing
  <2> QED BY <1>2, <2>1, StakeFrame
<1>5. CASE ~VerifyUnreadable
  <2>1. UNCHANGED counts
    BY <1>5 DEF GetResult, AcceptBlock, TestBlockValidity, ActivateBestChain, DisconnectTip, ConnectTip,
         ExecuteContract, ConnectBlockFails, JustChecked, WriteHeightIndex, CommitResults, ReleaseChain,
         FlushStateToDisk, SetTemporaryState, DropTemporaryState, VerifyBegin, VerifyDisconnect, VerifyEnd
  <2>2. op.pc \in {"free", "step", "exec", "results", "temporary", "verify"}
    BY DEF GetResult, AcceptBlock, TestBlockValidity, ActivateBestChain, DisconnectTip, ConnectTip,
         ExecuteContract, ConnectBlockFails, JustChecked, WriteHeightIndex, CommitResults, ReleaseChain,
         FlushStateToDisk, SetTemporaryState, DropTemporaryState, VerifyBegin, VerifyDisconnect,
         VerifyEnd, VerifyUnreadable, Idle, Executed
  <2>3. op'.pc \in {"free", "step", "exec", "results", "temporary", "verify"}
    <3>1. CASE \/ \E t \in Tx : GetResult(t)
               \/ \E b \in Block \ {Genesis} : AcceptBlock(b)
               \/ DisconnectTip \/ FlushStateToDisk
      BY <2>2, <3>1 DEF GetResult, AcceptBlock, DisconnectTip, FlushStateToDisk
    <3>2. CASE ExecuteContract \/ WriteHeightIndex \/ VerifyDisconnect
      BY <1>1, <2>2, <3>2, SMT DEF ExecuteContract, WriteHeightIndex, VerifyDisconnect, Operation
    <3>3. CASE ConnectBlockFails
      <4>1. op' \in {Free, Step}
        BY <3>3 DEF ConnectBlockFails
      <4> QED BY <4>1, SMT DEF Free, Step, Doing
    <3>4. CASE \/ \E b \in Block \ {Genesis} : TestBlockValidity(b)
               \/ ConnectTip \/ VerifyBegin
               \/ \E b \in Block : SetTemporaryState(b)
      BY <3>4, SMT DEF TestBlockValidity, ConnectTip, SetTemporaryState, VerifyBegin, Doing
    <3>5. CASE \/ ActivateBestChain \/ JustChecked \/ CommitResults \/ ReleaseChain
               \/ DropTemporaryState \/ VerifyEnd
      <4>1. op' \in {Free, Step}
        BY <3>5 DEF ActivateBestChain, JustChecked, CommitResults, ReleaseChain, DropTemporaryState,
                    VerifyEnd
      <4> QED BY <4>1, SMT DEF Free, Step, Doing
    <3> QED BY <1>5, <3>1, <3>2, <3>3, <3>4, <3>5
  <2>4. unreadable' = 0 => unreadable = 0 /\ Drifts
    BY <1>2, <1>3, <2>1, DriftStep DEF MoveWell, counts
  <2> QED BY <1>2, <2>1, <2>2, <2>3, <2>4, StakeFrame DEF counts
<1> QED BY <1>4, <1>5

LEMMA StakeAway ==
  ASSUME RootInv, StakeInv,
         Crash \/ AppInitMain \/ CreateEmptyBlock \/ ScrapProgress \/ GiveUpStake \/ UNCHANGED vars
  PROVE  StakeInv'
<1>1. CASE UNCHANGED vars
  BY <1>1 DEF vars, chain, counts, StakeInv, SignedOn, Assembled, SinceAt, SinceAway, TwoFailed, LastTip,
              Moving, Connecting
<1>2. CASE AppInitMain
  <2>1. stake' = stake /\ op' = op /\ node' = "up" /\ stake.pc = "idle" /\ op.pc = "free"
    BY <1>2 DEF AppInitMain, StakeInv, RootInv
  <2> QED BY <2>1 DEF StakeInv
<1>3. CASE Crash \/ ScrapProgress \/ GiveUpStake
  <2>1. stake' = NoStake /\ op'.pc \notin {"sign", "assemble"}
    <3>1. CASE Crash
      BY <3>1, SMT DEF Crash, Free, Doing
    <3>2. CASE ScrapProgress
      BY <3>2 DEF ScrapProgress, StakeInv
    <3>3. CASE GiveUpStake
      BY <3>3 DEF GiveUpStake
    <3> QED BY <1>3, <3>1, <3>2, <3>3
  <2>2. stake'.pc = "idle"
    BY <2>1 DEF NoStake
  <2> QED BY <2>1, <2>2 DEF StakeInv
<1>4. CASE CreateEmptyBlock
  <2>1. stake'.pc = "empty" /\ op' = op /\ op.pc = "free" /\ node' = "up"
    BY <1>4, SMT DEF CreateEmptyBlock, Idle
  <2> QED BY <2>1 DEF StakeInv
<1> QED BY <1>1, <1>2, <1>3, <1>4

LEMMA StakeAssembles ==
  ASSUME RootInv, StakeInv,
         CreateNewBlock \/ \E t \in Tx, fits \in BOOLEAN : AttemptToAddContract(t, fits)
  PROVE  StakeInv'
<1>1. /\ stake \in Template /\ op \in Operation /\ tip \in Block /\ root \in Seq(Execution)
      /\ stake.txs \in Seq(Tx) /\ node = "up" /\ UNCHANGED <<node, chain, counts>>
  BY RecordTypes DEF RootInv, TypeOK, CreateNewBlock, AttemptToAddContract, Idle
<1>2. SUFFICES /\ stake'.pc = "filling" /\ stake'.prev = tip /\ op'.pc = "assemble"
               /\ ~stranded => root' = Root[tip] \o Execs(stake'.txs, tip)
  BY <1>1 DEF StakeInv, Assembled, chain, counts
<1>3. CASE CreateNewBlock
  <2>1. stake'.pc = "filling" /\ stake'.prev = tip /\ stake'.txs = <<>> /\ op'.pc = "assemble"
    BY <1>3, SMT DEF CreateNewBlock, Doing
  <2>2. root' = root /\ (~stranded => root = Root[tip])
    BY <1>3 DEF CreateNewBlock, Idle, RootInv
  <2>3. ~stranded => root' = Root[tip] \o Execs(<<>>, tip)
    BY <1>1, <2>2, NothingAssembled
  <2> QED BY <2>1, <2>3
<1>4. CASE \E t \in Tx, fits \in BOOLEAN : AttemptToAddContract(t, fits)
  <2>1. PICK t \in Tx, fits \in BOOLEAN : AttemptToAddContract(t, fits)
    BY <1>4
  <2>2. op' = op /\ op.pc = "assemble"
    BY <2>1 DEF AttemptToAddContract
  <2>3. /\ stake.pc = "filling" /\ stake.prev = tip
        /\ ~stranded => root = Root[tip] \o Execs(stake.txs, tip)
    BY <2>2 DEF StakeInv, Assembled
  <2>4. CASE fits
    <3>1. root' = Append(root, Exec(t, tip)) /\ stake' = [stake EXCEPT !.txs = Append(stake.txs, t)]
      BY <2>1, <2>4 DEF AttemptToAddContract
    <3>2. stake'.pc = stake.pc /\ stake'.prev = stake.prev /\ stake'.txs = Append(stake.txs, t)
      BY <1>1, <3>1 DEF Template
    <3>3. Root[tip] \o Execs(Append(stake.txs, t), tip) = Append(Root[tip] \o Execs(stake.txs, tip), Exec(t, tip))
      BY <1>1, AssembledFacts, RootFacts
    <3> QED BY <2>2, <2>3, <3>1, <3>2, <3>3
  <2>5. CASE ~fits
    <3>1. root' = root /\ stake' = stake
      BY <2>1, <2>5 DEF AttemptToAddContract, RootAfterRefusal
    <3> QED BY <2>2, <2>3, <3>1
  <2> QED BY <2>4, <2>5
<1> QED BY <1>3, <1>4

(* The template is for the tip that the thread saw first.                  *)
LEMMA StakeFilled ==
  ASSUME RootInv, StakeInv, BlockAssembled
  PROVE  StakeInv'
<1>1. /\ op.pc = "assemble" /\ node = "up" /\ op' = Free /\ UNCHANGED <<node, chain, counts>> /\ tip \in Block
      /\ stake.prev = tip /\ (~stranded => root = Root[tip] \o Execs(stake.txs, tip))
  BY DEF BlockAssembled, RootInv, TypeOK, StakeInv, Assembled
<1>2. op'.pc = "free"
  BY <1>1 DEF Free, Doing
<1>3. CASE op.blk = tip
  <2>1. stake'.pc = "filled" /\ stake'.prev = tip /\ stake'.txs = stake.txs /\ stake'.root = root
    BY <1>1, <1>3, SMT DEF BlockAssembled
  <2>2. LastTip' = tip
    BY <1>1, <1>2 DEF LastTip, Moving, Connecting, chain
  <2>3. Height[tip] >= Height[tip]
    BY <1>1, HeightFacts, SMT
  <2>4. SinceAt(stake.prev)'
    BY <2>1, <2>2, <2>3 DEF SinceAt
  <2> QED BY <1>1, <1>2, <2>1, <2>4 DEF StakeInv, Assembled, chain, counts
<1>4. CASE op.blk # tip
  <2>1. stake'.pc = "idle"
    BY <1>4, SMT DEF BlockAssembled, NoStake
  <2> QED BY <1>2, <2>1 DEF StakeInv
<1> QED BY <1>3, <1>4

LEMMA StakeSigns ==
  ASSUME RootInv, StakeInv, SignBlock
  PROVE  StakeInv'
<1>1. /\ stake \in Template /\ node = "up" /\ op.pc = "free" /\ root' = stake.root
      /\ UNCHANGED <<node, chain, counts>>
  BY DEF RootInv, TypeOK, SignBlock, RootOfTemplate, Idle
<1>2. op'.pc = "sign"
  BY SMT DEF SignBlock, Doing
<1>3. /\ stake'.prev = stake.prev /\ stake'.txs = stake.txs /\ stake'.root = stake.root
      /\ \/ stake.pc = "empty" /\ stake'.pc = "signing"
         \/ stake.pc = "filled" /\ stake'.pc = "completing"
  BY <1>1, SMT DEF SignBlock, Staking, Template
<1>4. SinceAt(stake.prev) => SinceAt(stake.prev)'
  BY <1>1, <1>2, <1>3 DEF SinceAt, LastTip, Moving, Connecting, chain
<1> QED BY <1>1, <1>2, <1>3, <1>4 DEF StakeInv, Assembled, counts

(* The coinstake runs on top of whatever the tip is now.                   *)
LEMMA StakeMines ==
  ASSUME RootInv, StakeInv, MineDGPContracts
  PROVE  StakeInv'
<1>1. /\ op.pc = "sign" /\ node = "up" /\ op' = Free /\ UNCHANGED <<node, chain, counts>> /\ tip \in Block
      /\ stake.pc \in {"signing", "completing"} /\ (~stranded => root = stake.root)
      /\ stake' = [pc |-> IF stake.pc = "signing" THEN "found" ELSE "signed", prev |-> stake.prev,
                   txs |-> stake.txs, root |-> Append(root, Exec(CoinStake, tip))]
  BY DEF MineDGPContracts, RootInv, TypeOK, StakeInv
<1>2. op'.pc = "free"
  BY <1>1 DEF Free, Doing
<1>3. CASE stake.pc = "signing"
  <2>1. stake'.pc = "found"
    BY <1>1, <1>3, SMT
  <2> QED BY <1>1, <1>2, <2>1 DEF StakeInv
<1>4. CASE stake.pc = "completing"
  <2>1. /\ stake'.pc = "signed" /\ stake'.prev = stake.prev /\ stake'.txs = stake.txs
        /\ stake'.root = Append(root, Exec(CoinStake, tip))
    BY <1>1, <1>4, SMT
  <2>2. /\ stake.prev \in Block /\ (unreadable = 0 => SinceAt(stake.prev))
        /\ ~stranded => stake.root = Assembled
    BY <1>4 DEF StakeInv
  <2>3. LastTip = tip /\ LastTip' = tip /\ ~Moving'
    BY <1>1, <1>2 DEF LastTip, Moving, Connecting, chain
  <2>4. ASSUME unreadable = 0, tip # stake.prev PROVE SinceAway(stake.prev)'
    <3>1. /\ Height[tip] >= Height[stake.prev]
          /\ Height[tip] = Height[stake.prev] => failed # {}
      BY <2>2, <2>3, <2>4 DEF SinceAt
    <3>2. Height[tip] > Height[stake.prev] \/ (Height[tip] = Height[stake.prev] /\ failed # {})
      BY <1>1, <2>2, <3>1, HeightFacts, SMT
    <3> QED BY <1>1, <2>1, <2>3, <2>4, <3>2 DEF SinceAway, chain
  <2>5. ASSUME NEW b \in Block, b = tip, ~stranded PROVE SignedOn(b)'
    BY <1>1, <2>1, <2>2, <2>4, <2>5 DEF SignedOn, Assembled, counts
  <2>6. ~stranded' => \E b \in Block : SignedOn(b)'
    BY <1>1, <2>5 DEF counts
  <2> QED BY <1>1, <1>2, <2>1, <2>2, <2>6 DEF StakeInv
<1> QED BY <1>1, <1>3, <1>4

(* A tip that is back at the parent has come back over two failed chains.  *)
LEMMA StakeGoesOn ==
  ASSUME RootInv, StakeInv, GoOn \/ CheckStake
  PROVE  StakeInv'
<1>1. /\ stake \in Template /\ node = "up" /\ UNCHANGED <<node, chain, op, start, target, counts>>
      /\ stake.prev = tip
  BY DEF RootInv, TypeOK, GoOn, CheckStake, Staking, StakeIsStale
<1>2. CASE stake.pc = "found"
  <2>1. stake'.pc = "filling" /\ op.pc \notin {"sign", "assemble"}
    BY <1>1, <1>2, SMT DEF GoOn, CheckStake, Staking, StakeInv, Template
  <2> QED BY <1>1, <2>1 DEF StakeInv
<1>3. CASE stake.pc \in {"signed", "ready"}
  <2>1. /\ stake'.prev = stake.prev /\ stake'.txs = stake.txs /\ stake'.root = stake.root
        /\ \/ stake'.pc = "ready"
           \/ stake'.pc = "checked" /\ op.pc = "free"
    BY <1>1, <1>3, SMT DEF GoOn, CheckStake, Staking, Idle, Template
  <2>2. op.pc \notin {"sign", "assemble"} /\ stake.prev \in Block
        /\ (~stranded => \E b \in Block : SignedOn(b))
    BY <1>3 DEF StakeInv
  <2>3. (SinceAway(stake.prev) => SinceAway(stake.prev)') /\ (TwoFailed => TwoFailed')
    BY <1>1, <2>1 DEF SinceAway, TwoFailed, LastTip, Moving, Connecting, chain
  <2>4. op.pc = "free" /\ SinceAway(stake.prev) => TwoFailed
    <3>1. op.pc = "free" => LastTip = stake.prev
      BY <1>1 DEF LastTip, Moving, Connecting
    <3>2. ~(Height[stake.prev] > Height[stake.prev])
      BY <2>2, HeightFacts, SMT
    <3> QED BY <3>1, <3>2 DEF SinceAway
  <2>5. ASSUME NEW b \in Block, SignedOn(b) PROVE SignedOn(b)'
    BY <1>1, <1>3, <2>1, <2>3, <2>4, <2>5 DEF SignedOn, Assembled, counts
  <2> QED BY <1>1, <2>1, <2>2, <2>5 DEF StakeInv, counts
<1> QED BY <1>2, <1>3 DEF GoOn, CheckStake, Staking

LEMMA StakeInit == Init => StakeInv
<1> SUFFICES ASSUME Init PROVE StakeInv
  OBVIOUS
<1>1. stake.pc = "idle" /\ op.pc = "free"
  BY SMT DEF Init, NoStake, Free, Doing
<1> QED BY <1>1 DEF StakeInv

LEMMA StakeStep == RootInv /\ MoveWell /\ StakeInv /\ [Next]_vars => StakeInv'
BY StakeOthers, StakeAway, StakeAssembles, StakeFilled, StakeSigns, StakeMines, StakeGoesOn DEF Next

(* A block that the staking thread hands to ProcessNewBlock has the root   *)
(* that ConnectBlock computes: its contracts ran on the state of its       *)
(* parent in the order they have in the block, and its coinstake after     *)
(* them on its parent too, unless the tip was elsewhere while SignBlock    *)
(* ran and came back, which takes two blocks that failed.                  *)
THEOREM StakedBlockHasItsRoot == Spec => []StakedBlockConnects
<1>1. StakeInv => StakedBlockConnects
  <2> SUFFICES ASSUME StakeInv, stake.pc = "checked", ~stranded
               PROVE  \E b \in Block :
                        /\ stake.root = Append(Root[stake.prev] \o Execs(stake.txs, stake.prev),
                                               Exec(CoinStake, b))
                        /\ unreadable = 0 /\ (\A x, y \in failed : x = y) => b = stake.prev
    BY DEF StakedBlockConnects
  <2>1. PICK b \in Block : SignedOn(b)
    BY DEF StakeInv
  <2> QED BY <2>1 DEF SignedOn, Assembled, TwoFailed
<1> QED BY <1>1, RootInit, RootStep, MoveInit, MoveStep, StakeInit, StakeStep, PTL DEF Spec
=============================================================================
