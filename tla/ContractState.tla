--------------------------- MODULE ContractState ----------------------------
(* The state of the contracts (globalState), the receipts (StorageResults) *)
(* and the log index by height, while blocks are connected, disconnected,  *)
(* tried and assembled.  All of them are side effects next to the coins    *)
(* view: the root of globalState is moved by executing contracts and has   *)
(* to be put back by hand on every path, and the receipts and the log      *)
(* index are written to disk at once, the coins only by a later flush.     *)
(*                                                                         *)
(* A root is the sequence of the contract executions that lead to it, each *)
(* with the block it was executed on top of (the environment of the EVM).  *)
EXTENDS Integers, Sequences, FiniteSets

CONSTANTS
  Block, Genesis, NoBlock,
  Parent, Anc, Height,  \* the tree of blocks; Anc[b] holds b itself
  Tx, CoinStake,        \* contract transactions; the coinstake of a template
  Txs,                  \* the contract transactions of a block, in order
  Root,                 \* hashStateRoot and hashUTXORoot of a valid block
  Address, LogAddress,  \* where a transaction logs
  MaxBad,               \* bound: invalid blocks
  MaxTemplate,          \* bound: contract transactions in a template
  MaxFault              \* bound: crashes and failed block reads of verifychain

Rng(s) == {s[i] : i \in 1..Len(s)}
Exec(t, b) == [tx |-> t, on |-> b]
Execs(s, b) == [i \in 1..Len(s) |-> Exec(s[i], b)]

ASSUME TreeAssumption ==
  /\ Genesis \in Block /\ NoBlock \notin Block
  /\ Parent \in [Block \ {Genesis} -> Block]
  /\ Anc \in [Block -> SUBSET Block]
  /\ Anc[Genesis] = {Genesis}
  /\ \A b \in Block \ {Genesis} : Anc[b] = Anc[Parent[b]] \cup {b} /\ b \notin Anc[Parent[b]]
  /\ \A b \in Block : Genesis \in Anc[b] /\ \A c \in Anc[b] : Anc[c] \subseteq Anc[b]
  /\ Height \in [Block -> Nat] /\ Height[Genesis] = 0
  /\ \A b \in Block \ {Genesis} : Height[b] = Height[Parent[b]] + 1
  /\ \A b \in Block : \A c \in Anc[b] : Height[c] <= Height[b]

(* A chain holds a transaction once: its inputs are spent from then on.    *)
ASSUME ContractAssumption ==
  /\ Txs \in [Block -> Seq(Tx)] /\ Txs[Genesis] = <<>>
  /\ \A b \in Block : \A c \in Anc[b] \ {b} : Rng(Txs[b]) \cap Rng(Txs[c]) = {}
  /\ CoinStake \notin Tx
  /\ Root \in [Block -> Seq([tx : Tx, on : Block])] /\ Root[Genesis] = <<>>
  /\ \A b \in Block \ {Genesis} : Root[b] = Root[Parent[b]] \o Execs(Txs[b], Parent[b])
  /\ LogAddress \in [Tx -> Address]

ASSUME BoundsAssumption ==
  MaxBad \in Nat /\ MaxTemplate \in Nat /\ MaxFault \in Nat

VARIABLES
  badAt,        \* how many contracts of a block run before a check fails
  node,         \* "up" or "down"
  stored,       \* blocks with data
  failed,       \* BLOCK_FAILED_VALID
  tip, flushed, \* m_chain.Tip(), and the block the coins database is at
  root,         \* of globalState
  opened,       \* blocks whose state is in the database of globalState
  cache,        \* m_cache_result: the block named by a transaction's receipt
  results,      \* resultsDB
  heightIndex,  \* DB_HEIGHTINDEX: transactions by height and address
  op,           \* what the thread that holds cs_main is doing
  start, target,\* of ActivateBestChain, Genesis while it does not run
  stake,        \* ThreadStakeMiner and its block template
  stranded,     \* verifychain gave up half way
  unreadable, crashes

disk    == <<results, heightIndex>>
chain   == <<stored, failed, tip, flushed>>
counts  == <<stranded, unreadable, crashes>>
vars    == <<badAt, node, chain, root, opened, cache, disk, op, start, target, stake, counts>>

Heights == {Height[b] : b \in Block}
NoResults == [t \in Tx |-> NoBlock]
Doing(pc, b, r) == [pc |-> pc, blk |-> b, n |-> 0, just |-> FALSE, old |-> r]
Free == Doing("free", NoBlock, <<>>)
Step == Doing("step", NoBlock, <<>>)
NoStake == [pc |-> "idle", prev |-> NoBlock, txs |-> <<>>, root |-> <<>>]
Execution == [tx : Tx \cup {CoinStake}, on : Block]

Operation ==
  [pc : {"free", "step", "exec", "results", "temporary", "verify", "assemble", "sign"},
   blk : Block \cup {NoBlock}, n : Nat, just : BOOLEAN, old : Seq(Execution)]

Template ==
  [pc : {"idle", "empty", "signing", "found", "filling", "filled", "completing",
         "signed", "ready", "checked"},
   prev : Block \cup {NoBlock}, txs : Seq(Tx), root : Seq(Execution)]

TypeOK ==
  /\ badAt \in [Block -> Nat]
  /\ node \in {"up", "down"}
  /\ stored \in SUBSET Block /\ failed \in SUBSET Block
  /\ tip \in Block /\ flushed \in Block
  /\ root \in Seq(Execution)
  /\ opened \in SUBSET Block
  /\ cache \in [Tx -> Block \cup {NoBlock}] /\ results \in [Tx -> Block \cup {NoBlock}]
  /\ heightIndex \in [Heights \X Address -> SUBSET Tx]
  /\ op \in Operation /\ start \in Block /\ target \in Block
  /\ stake \in Template
  /\ stranded \in BOOLEAN /\ unreadable \in Nat /\ crashes \in Nat

Valid(b) == badAt[b] > Len(Txs[b])

Init ==
  /\ badAt \in [Block -> 0..(1 + Cardinality(Tx))]
  /\ \A b \in Block : badAt[b] <= Len(Txs[b]) + 1
  /\ Valid(Genesis) /\ Cardinality({b \in Block : ~Valid(b)}) <= MaxBad
  /\ node = "up"
  /\ stored = {Genesis} /\ failed = {}
  /\ tip = Genesis /\ flushed = Genesis
  /\ root = Root[Genesis] /\ opened = {b \in Block : Root[b] = Root[Genesis]}
  /\ cache = NoResults /\ results = NoResults
  /\ heightIndex = [k \in Heights \X Address |-> {}]
  /\ op = Free /\ start = Genesis /\ target = Genesis /\ stake = NoStake
  /\ stranded = FALSE /\ unreadable = 0 /\ crashes = 0

-----------------------------------------------------------------------------
(* Executing contracts and keeping their receipts.                         *)

Idle == node = "up" /\ op.pc = "free"

CommitNothing(r) == UNCHANGED opened

(* ByteCodeExec::performByteCode ends with the commit of both databases.   *)
Commit(r) == opened' = opened \cup {b \in Block : Root[b] = r}

(* std::unordered_map::insert leaves an entry that is there alone.         *)
AddResult(t, b) == [cache EXCEPT ![t] = IF cache[t] = NoBlock THEN b ELSE cache[t]]

DeletedResults(m, b) == [t \in Tx |-> IF t \in Rng(Txs[b]) THEN NoBlock ELSE m[t]]

(* commitResults writes the keys that are not in the database yet.         *)
CommittedResults ==
  [t \in Tx |-> IF results[t] = NoBlock THEN cache[t] ELSE results[t]]

WrittenHeightIndex(b) ==
  [k \in DOMAIN heightIndex |->
     LET logged == {t \in Rng(Txs[b]) : LogAddress[t] = k[2]}
     IN  IF k[1] = Height[b] /\ logged # {} THEN logged ELSE heightIndex[k]]

ErasedHeightIndex(h) ==
  [k \in DOMAIN heightIndex |-> IF k[1] = h THEN {} ELSE heightIndex[k]]

(* gettransactionreceipt, searchlogs: getResult caches what it reads.      *)
GetResult(t) ==
  /\ Idle
  /\ results[t] # NoBlock
  /\ cache' = AddResult(t, results[t])
  /\ UNCHANGED <<badAt, node, chain, root, opened, disk, op, start, target, stake, counts>>

-----------------------------------------------------------------------------
(* The active chain.  The choice of the target is modelled in ChainState;  *)
(* here it is any best chain without a failed block.                       *)

AcceptBlock(b) ==
  /\ Idle
  /\ b \notin stored /\ Parent[b] \in stored
  /\ stored' = stored \cup {b}
  /\ UNCHANGED <<badAt, node, failed, tip, flushed, root, opened, cache, disk, op, start, target,
                 stake, counts>>

BestOf(fails) ==
  LET usable == {b \in stored : Anc[b] \cap fails = {}}
  IN  {b \in usable : \A c \in usable : Height[c] <= Height[b]}

ActivateBestChain ==
  /\ Idle
  /\ \E b \in BestOf(failed) : Height[b] > Height[tip] /\ target' = b
  /\ start' = tip
  /\ op' = Step
  /\ UNCHANGED <<badAt, node, chain, root, opened, cache, disk, stake, counts>>

RootKept == root
RootAfterDisconnect == Root[Parent[tip]]

(* DisconnectBlock sets the root from the header of the parent and deletes *)
(* receipts and log index at once.                                         *)
DisconnectTip ==
  /\ node = "up" /\ op.pc = "step" /\ tip \notin Anc[target]
  /\ tip' = Parent[tip]
  /\ root' = RootAfterDisconnect
  /\ results' = DeletedResults(results, tip)
  /\ cache' = DeletedResults(cache, tip)
  /\ heightIndex' = ErasedHeightIndex(Height[tip])
  /\ UNCHANGED <<badAt, node, stored, failed, flushed, opened, op, start, target, stake, counts>>

BetterOff == Height[tip] > Height[start]

ConnectTip ==
  /\ node = "up" /\ op.pc = "step" /\ tip \in Anc[target] \ {target} /\ ~BetterOff
  /\ \E b \in Anc[target] \ {Genesis} :
       /\ Parent[b] = tip
       /\ op' = Doing("exec", b, root)
  /\ UNCHANGED <<badAt, node, chain, root, opened, cache, disk, start, target, stake, counts>>

(* TestBlockValidity: a proposed block is tried on top of the tip.         *)
TestBlockValidity(b) ==
  /\ Idle /\ b # Genesis /\ Parent[b] = tip
  /\ op' = [pc |-> "exec", blk |-> b, n |-> 0, just |-> TRUE, old |-> root]
  /\ UNCHANGED <<badAt, node, chain, root, opened, cache, disk, start, target, stake, counts>>

(* ConnectBlock executes the contracts of the block one by one.            *)
ExecuteContract ==
  LET t == Txs[op.blk][op.n + 1] IN
  /\ node = "up" /\ op.pc = "exec"
  /\ op.n < Len(Txs[op.blk]) /\ op.n # badAt[op.blk]
  /\ root' = Append(root, Exec(t, Parent[op.blk]))
  /\ Commit(root')
  /\ cache' = IF op.just THEN cache ELSE AddResult(t, op.blk)
  /\ op' = [op EXCEPT !.n = op.n + 1]
  /\ UNCHANGED <<badAt, node, chain, disk, start, target, stake, counts>>

Executed == op.pc = "exec" /\ op.n = Len(Txs[op.blk]) /\ op.n # badAt[op.blk]

(* The comparison of checkBlock with the block, which fJustCheck skips.    *)
Mismatch == Executed /\ ~op.just /\ root # Root[op.blk]

RootAfterFailure == op.old
CacheKept == cache
CacheAfterFailure == NoResults

(* What ConnectTip and TestBlockValidity do if ConnectBlock fails.         *)
ConnectBlockFails ==
  /\ node = "up" /\ op.pc = "exec"
  /\ op.n = badAt[op.blk] \/ Mismatch
  /\ root' = RootAfterFailure
  /\ cache' = CacheAfterFailure
  /\ IF op.just
     THEN op' = Free /\ UNCHANGED <<failed, target>>
     ELSE /\ failed' = failed \cup {op.blk}
          /\ target' \in BestOf(failed')
          /\ op' = Step
  /\ UNCHANGED <<badAt, node, stored, tip, flushed, opened, disk, start, stake, counts>>

JustChecked ==
  /\ node = "up" /\ Executed /\ op.just
  /\ root' = Root[Parent[op.blk]]
  /\ op' = Free
  /\ UNCHANGED <<badAt, node, chain, opened, cache, disk, start, target, stake, counts>>

WriteHeightIndex ==
  /\ node = "up" /\ Executed /\ ~op.just /\ ~Mismatch
  /\ heightIndex' = WrittenHeightIndex(op.blk)
  /\ op' = [op EXCEPT !.pc = "results"]
  /\ UNCHANGED <<badAt, node, chain, root, opened, cache, results, start, target, stake, counts>>

(* The end of ConnectBlock and of ConnectTip.                              *)
CommitResults ==
  /\ node = "up" /\ op.pc = "results"
  /\ results' = CommittedResults
  /\ cache' = NoResults
  /\ tip' = op.blk
  /\ op' = Step
  /\ UNCHANGED <<badAt, node, stored, failed, flushed, root, opened, heightIndex, start, target,
                 stake, counts>>

ReleaseChain ==
  /\ node = "up" /\ op.pc = "step"
  /\ tip = target \/ (tip \in Anc[target] /\ BetterOff)
  /\ op' = Free /\ start' = Genesis /\ target' = Genesis
  /\ UNCHANGED <<badAt, node, chain, root, opened, cache, disk, stake, counts>>

(* FlushStateToDisk: after every step of the chain, or on its own.         *)
FlushStateToDisk ==
  /\ node = "up" /\ op.pc \in {"free", "step"}
  /\ flushed # tip
  /\ flushed' = tip
  /\ UNCHANGED <<badAt, node, stored, failed, tip, root, opened, cache, disk, op, start, target,
                 stake, counts>>

-----------------------------------------------------------------------------
(* callcontract and the like look at the state of an older block.          *)

SetTemporaryState(b) ==
  /\ Idle /\ b \in Anc[tip]
  /\ op' = Doing("temporary", NoBlock, root)
  /\ root' = Root[b]
  /\ UNCHANGED <<badAt, node, chain, opened, cache, disk, start, target, stake, counts>>

DropTemporaryState ==
  /\ node = "up" /\ op.pc = "temporary"
  /\ root' = op.old
  /\ op' = Free
  /\ UNCHANGED <<badAt, node, chain, opened, cache, disk, start, target, stake, counts>>

(* verifychain at level 3 disconnects blocks from a scratch view, which    *)
(* moves the root, and puts it back at the end unless a read fails.        *)
VerifyBegin ==
  /\ Idle
  /\ op' = Doing("verify", tip, root)
  /\ UNCHANGED <<badAt, node, chain, root, opened, cache, disk, start, target, stake, counts>>

VerifyDisconnect ==
  /\ node = "up" /\ op.pc = "verify" /\ op.blk # Genesis
  /\ root' = Root[Parent[op.blk]]
  /\ op' = [op EXCEPT !.blk = Parent[op.blk]]
  /\ UNCHANGED <<badAt, node, chain, opened, cache, disk, start, target, stake, counts>>

VerifyEnd ==
  /\ node = "up" /\ op.pc = "verify"
  /\ root' = op.old
  /\ op' = Free
  /\ UNCHANGED <<badAt, node, chain, opened, cache, disk, start, target, stake, counts>>

VerifyUnreadable ==
  /\ node = "up" /\ op.pc = "verify" /\ unreadable + crashes < MaxFault
  /\ stranded' = TRUE /\ unreadable' = unreadable + 1
  /\ op' = Free
  /\ UNCHANGED <<badAt, node, chain, root, opened, cache, disk, start, target, stake, crashes>>

-----------------------------------------------------------------------------
(* ThreadStakeMiner.  It reads the tip without cs_main between its steps.  *)

Staking(pc) == node = "up" /\ stake.pc = pc

CreateEmptyBlock ==
  /\ Idle /\ Staking("idle")
  /\ stake' = [pc |-> "empty", prev |-> tip, txs |-> <<>>, root |-> root]
  /\ UNCHANGED <<badAt, node, chain, root, opened, cache, disk, op, start, target, counts>>

(* SignBlock first moves globalState to the state of the template ...      *)
RootOfTemplate == stake.root

SignBlock ==
  /\ Idle
  /\ \/ Staking("empty") /\ stake' = [stake EXCEPT !.pc = "signing"]
     \/ Staking("filled") /\ stake' = [stake EXCEPT !.pc = "completing"]
  /\ op' = Doing("sign", NoBlock, root)
  /\ root' = RootOfTemplate
  /\ UNCHANGED <<badAt, node, chain, opened, cache, disk, start, target, counts>>

(* ... executes the contracts of the coinstake, takes the new roots into   *)
(* the header and goes back.                                               *)
MineDGPContracts ==
  LET after == Append(root, Exec(CoinStake, tip)) IN
  /\ node = "up" /\ op.pc = "sign"
  /\ stake' = [pc |-> IF stake.pc = "signing" THEN "found" ELSE "signed",
                prev |-> stake.prev, txs |-> stake.txs, root |-> after]
  /\ Commit(after)
  /\ root' = op.old
  /\ op' = Free
  /\ UNCHANGED <<badAt, node, chain, cache, disk, start, target, counts>>

StakeIsStale == stake.prev # tip

(* "another block was received while building ours, scrap progress"        *)
ScrapProgress ==
  /\ node = "up" /\ stake.pc \in {"found", "filled", "signed", "ready"}
  /\ StakeIsStale
  /\ stake' = NoStake
  /\ UNCHANGED <<badAt, node, chain, root, opened, cache, disk, op, start, target, counts>>

GoOn ==
  /\ \/ Staking("found") /\ stake' = [stake EXCEPT !.pc = "filling"]
     \/ Staking("signed") /\ stake' = [stake EXCEPT !.pc = "ready"]
  /\ ~StakeIsStale
  /\ UNCHANGED <<badAt, node, chain, root, opened, cache, disk, op, start, target, counts>>

(* CreateNewBlock works on globalState itself.                             *)
CreateNewBlock ==
  /\ Idle /\ Staking("filling")
  /\ op' = Doing("assemble", stake.prev, root)
  /\ stake' = [pc |-> "filling", prev |-> tip, txs |-> <<>>, root |-> stake.root]
  /\ UNCHANGED <<badAt, node, chain, root, opened, cache, disk, start, target, counts>>

InMempool(t) == \A b \in Anc[tip] : t \notin Rng(Txs[b])

RootKeptAfterRefusal(after) == after
RootAfterRefusal(after) == root

(* AttemptToAddContractToBlock: what a contract uses is known only when it *)
(* has run; one that does not fit is undone.                               *)
AttemptToAddContract(t, fits) ==
  LET after == Append(root, Exec(t, tip)) IN
  /\ node = "up" /\ op.pc = "assemble"
  /\ InMempool(t) /\ t \notin Rng(stake.txs) /\ Len(stake.txs) < MaxTemplate
  /\ Commit(after)
  /\ IF fits
     THEN /\ root' = after
          /\ stake' = [stake EXCEPT !.txs = Append(stake.txs, t)]
     ELSE root' = RootAfterRefusal(after) /\ UNCHANGED stake
  /\ UNCHANGED <<badAt, node, chain, cache, disk, op, start, target, counts>>

(* The thread compares the tip with the block of the first template.       *)
BlockAssembled ==
  /\ node = "up" /\ op.pc = "assemble"
  /\ stake' = IF op.blk = tip
              THEN [pc |-> "filled", prev |-> stake.prev, txs |-> stake.txs, root |-> root]
              ELSE NoStake
  /\ root' = op.old
  /\ op' = Free
  /\ UNCHANGED <<badAt, node, chain, opened, cache, disk, start, target, counts>>

(* The kernel search, the timestamps or the wallet may refuse at any time. *)
GiveUpStake ==
  /\ node = "up" /\ op.pc \notin {"sign", "assemble"} /\ stake.pc # "idle"
  /\ stake' = NoStake
  /\ UNCHANGED <<badAt, node, chain, root, opened, cache, disk, op, start, target, counts>>

CheckStake ==
  /\ Idle /\ Staking("ready") /\ ~StakeIsStale
  /\ stake' = [stake EXCEPT !.pc = "checked"]
  /\ UNCHANGED <<badAt, node, chain, root, opened, cache, disk, op, start, target, counts>>

-----------------------------------------------------------------------------
(* The process dies; it comes back with what is on disk.                   *)

Crash ==
  /\ node = "up" /\ unreadable + crashes < MaxFault
  /\ node' = "down" /\ crashes' = crashes + 1
  /\ tip' = flushed
  /\ failed' \in {failed, {}}
  /\ root' = Root[Genesis] /\ cache' = NoResults
  /\ op' = Free /\ start' = Genesis /\ target' = Genesis /\ stake' = NoStake
  /\ UNCHANGED <<badAt, stored, flushed, opened, disk, stranded, unreadable>>

AppInitMain ==
  /\ node = "down"
  /\ tip \in opened
  /\ node' = "up"
  /\ root' = Root[tip]
  /\ stranded' = FALSE
  /\ UNCHANGED <<badAt, chain, opened, cache, disk, op, start, target, stake, unreadable, crashes>>

Next ==
  \/ \E t \in Tx : GetResult(t)
  \/ \E b \in Block \ {Genesis} : AcceptBlock(b) \/ TestBlockValidity(b)
  \/ ActivateBestChain \/ DisconnectTip \/ ConnectTip
  \/ ExecuteContract \/ ConnectBlockFails \/ JustChecked
  \/ WriteHeightIndex \/ CommitResults \/ ReleaseChain \/ FlushStateToDisk
  \/ \E b \in Block : SetTemporaryState(b)
  \/ DropTemporaryState
  \/ VerifyBegin \/ VerifyDisconnect \/ VerifyEnd \/ VerifyUnreadable
  \/ CreateEmptyBlock \/ SignBlock \/ MineDGPContracts \/ ScrapProgress \/ GoOn
  \/ CreateNewBlock
  \/ \E t \in Tx, fits \in BOOLEAN : AttemptToAddContract(t, fits)
  \/ BlockAssembled \/ GiveUpStake \/ CheckStake
  \/ Crash \/ AppInitMain

Spec == Init /\ [][Next]_vars

-----------------------------------------------------------------------------
(* Whenever cs_main is free, globalState is at the state of the tip, on    *)
(* whatever path the last user of it returned (except a verifychain that   *)
(* could not read a block).                                                *)
RootFollowsTip == Idle /\ ~stranded => root = Root[tip]

(* ConnectTip marks a block invalid only if it is: none fails the          *)
(* comparison of the roots because globalState was left somewhere else.    *)
OnlyBadBlocksFail == unreadable = 0 => \A b \in failed : ~Valid(b)

(* init.cpp sets the root from the tip of the coins database: its state    *)
(* must have been committed before the coins were flushed.                 *)
TipCanBeOpened == flushed \in opened

(* A block the staking thread hands to ProcessNewBlock carries the root    *)
(* that ConnectBlock will compute on its parent.  SignBlock runs the       *)
(* contracts of the coinstake on top of the tip, which the thread compares *)
(* with the parent only later: after two chains that failed, the tip may   *)
(* have gone to another block and come back in between.                    *)
StakedBlockConnects ==
  stake.pc = "checked" /\ ~stranded =>
    \E b \in Block :
      /\ stake.root = Append(Root[stake.prev] \o Execs(stake.txs, stake.prev),
                             Exec(CoinStake, b))
      /\ unreadable = 0 /\ (\A x, y \in failed : x = y) => b = stake.prev

BlockOf(t) ==
  LET bs == {b \in Anc[tip] : t \in Rng(Txs[b])}
  IN  IF bs = {} THEN NoBlock ELSE CHOOSE b \in bs : TRUE

(* Without a crash the receipts and the log index are those of the active  *)
(* chain, no more and no less, through every reorganisation.               *)
LogIndexExact ==
  Idle /\ crashes = 0 =>
    /\ results = [t \in Tx |-> BlockOf(t)]
    /\ heightIndex = [k \in Heights \X Address |->
         {t \in Tx : /\ LogAddress[t] = k[2]
                     /\ \E b \in Anc[tip] : Height[b] = k[1] /\ t \in Rng(Txs[b])}]
=============================================================================
