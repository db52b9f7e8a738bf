# A verification development for Cil-core

Cil-core (`src/`) is the node of a block-DAG network written in JavaScript. Its
witnesses are grouped in *conciliums*; every concilium makes blocks of its own with a
small BFT consensus, all blocks together form one acyclic graph, and a block becomes
final when blocks of a majority of the conciliums stand on it. This directory holds TLA+
models of the parts that decide what is agreed, what becomes final, what coins and
contracts it leaves and what survives a crash, the TLC configurations that check them and proofs that TLAPS checks.

- [The system](#the-system)
- [The modules and how they correspond to the code](#the-modules-and-how-they-correspond-to-the-code)
- [What the runs check](#what-the-runs-check)
- [What the code does otherwise than it says](#what-the-code-does-otherwise-than-it-says)
- [What is proved](#what-is-proved)
- [What is not modelled, and the plan](#what-is-not-modelled-and-the-plan)
- [Running it](#running-it)

## The system

| Component | State | Operations | Talks to |
|---|---|---|---|
| `BftConsensus` (`node/bftConsensus.js`) | phase, views, block, timer | `processMessage`, `processValidBlock`, `invalidBlock`, timer, `_resetState` | the witness (events `message`, `createBlock`, `commitBlock`) |
| Concilium definitions (`conciliums/*.js`) | seed, base round, local round; members, weights, quorum | `nextRound`, `adjustRound`, `changeSeed`, `initRounds`, `getProposerAddress` | BFT; the seed is set when blocks are accepted |
| `Witness` (`node/witness.js`) | a consensus per concilium, mutex keys | message relay, check of a proposed block, `createBlock`, `commitBlock` | BFT, pending blocks, mempool, the node |
| `PendingBlocksManager` (`node/pendingBlocksManager.js`) | graph of pending blocks with their patches, top stable blocks | `addBlock`, `getBestParents`, `mergePatches`, `checkFinality` | node, witness, `PatchDB` |
| `PatchDB` (`storage/patch.js`) | spent and created coins, contracts, receipts | `merge`, `purge` | pending blocks, storage |
| `Node` block pipeline (`node/node.js`, `node/requestsCache.js`) | blocks in flight, blocks to execute, unknown blocks, requests | inv, getdata, block, execute, accept, unwind | peers, pending blocks, storage |
| `MainDag`, recovery (`node/mainDag.js`, `node/node.js`) | the graph of all known blocks | `_buildMainDag`, `_rebuildPending` | storage |
| `PersistentStorage` (`storage/persistentStorage.js`) | coins, contracts, block infos, last applied and pending blocks; mutex keys | `applyPatch`, `saveBlockInfo`, `update...` | LevelDB |
| `StorageWithCache` | contracts that were read | `getContract` | storage |
| `Mempool` (`node/mempool.js`) | transactions by concilium, local ones, bad hashes | `addTx`, limits, purge | witness, node |
| `Peer`, `PeerManager` (`network/*.js`) | handshake, send queue, ban score, table of addresses | `pushMessage`, `disconnect`, `ban`, connect | node |
| Transports, serializer | buffers | framing | sockets |
| Contracts (`node/app.js`, `structures/contract.js`) | VM, coins left, growth of the data | create, run, call, delegatecall, send | node |
| Wallet index (`storage/persistentStorage.js:677`), `StoredWallets` | watched addresses, numbered records of outputs | watch, list, clean up, re-index; filled by `applyPatch` | storage, witness, RPC |
| Keys, crypto, RPC, scripts, messages | - | - | - |

How a block comes about: a concilium agrees on a round (`ROUND_CHANGE`), the proposer of
that round makes a block on the best parents it finds among the pending blocks
(`BLOCK`), the witnesses verify it and vote (`VOTE_BLOCK`), and with a quorum of
signatures in view every one of them commits it (`COMMIT`): it accepts the block with
the patch it got when it verified or made it, and announces it. The nodes fetch it,
execute it when its parents are executed, and accept it: the block enters the graph of
pending blocks; the blocks it makes stable are applied to the storage and become final;
branches that conflict with them are rolled back.

### What is hard

Everything runs in one JavaScript thread per node, with awaits inside the handlers and
mutex keys that guard some of them. The hard behaviours are:

- *timers and late votes*: a witness that voted goes on when its timer fires; votes name
  no round and are relayed; views are never cleared one by one;
- *state behind an await*: verification, making and committing of a block run with the
  consensus, and the acceptance of other blocks, going on;
- *order of arrival*: nodes see the blocks of several conciliums in different orders,
  and have to make the same ones final;
- *roll back* of pending branches, which includes blocks that conflict with nothing;
- *merging and purging of patches*: what a block changed is kept apart, joined with what
  others changed and taken away again when it is applied, in any order;
- *failing contracts*: fees, transfers and nested changes of a call that throws late;
- *values that are cached* across acceptances: best parents, contracts, local patches;
- *crashes* between the writes of one acceptance, and what the start makes of what is
  left; a witness forgets all it voted for;
- *limits, hold-offs, queues* of the mempool, the requests and the peers.

`PROJECT.json` lists each of them at its line, with the properties that catch it, or
the reason why none does yet.

### What makes each component correct

- BFT: what is committed has a quorum of real signatures; it is committed once; votes
  follow the turn; one block per parent; every block there is work for is committed.
- Concilium: two quorums meet; a round always has a proposer; rounds agreed on are kept.
- Pending blocks: what is pending can be applied; stability does not depend on order;
  no block is rolled back that somebody else has made final.
- Storage and finality: the storage holds what the final blocks hold; no two nodes apply
  two transactions that spend one output.
- Recovery: a node can always be started, with the graph it had; nothing is
  applied without its block or taken for applied without its patch.
- Pipeline: no block that is stored is forgotten; nothing is executed before what it
  stands on; what is asked for is not asked for twice; no peer is blamed without a cause;
  every stored block is executed in the end, and initial loading ends.
- Peers: two nodes are connected over one connection at most, agree that they are, and
  get connected again.
- Coins and contracts: a block finds exactly the outputs and the contract data that the
  transactions below it and the final ones leave; no coin appears or vanishes.
- Mempool: its limit is kept, local transactions do not collide, what is rolled back is
  held again.
- Wallet index: no unspent output of a watched address is missing, no watched address is
  forgotten.
- Send queues: a queue never stops. This is not modelled.

## The modules and how they correspond to the code

| Module | Of | What it is |
|---|---|---|
| `Concilium` | `conciliums/*.js` | weights, quorum, proposers, round counters |
| `ConciliumProofs` | - | lemmas about weights, and that two quorums meet |
| `Bft` | `bftConsensus.js`, the witness handlers | a concilium of witnesses, links, timers, crashes |
| `Ballot` | - | abstract: votes, and commits certified by a quorum |
| `MCBft` | - | small conciliums for TLC |
| `BftProofs` | - | theorems about `Bft` and their proofs |
| `PendingBlocks` | `pendingBlocksManager.js` | operators on the graph of pending blocks |
| `PendingBlocksProofs` | - | lemmas about those operators, for any graph |
| `Finality` | `node.js`, `witness.js`, and the above | nodes and conciliums that build, accept, finalise, roll back |
| `Ledger` | - | abstract: transactions applied for good, no output spent twice by anybody |
| `MCFinality` | - | small networks for TLC |
| `FinalityProofs` | - | theorems about `Finality` and their proofs |
| `Restart` | `node.js`, `persistentStorage.js`, `mainDag.js` | one more node whose disk writes are steps and that crashes |
| `MCRestart` | - | its network for TLC |
| `RestartProofs` | - | theorems about `Restart` and their proofs |
| `Pipeline` | `node.js`, `requestsCache.js`, `peer.js` | a node that gets the blocks it lacks from its peers and executes them |
| `MCPipeline` | - | graphs of blocks and peers for TLC |
| `PipelineProofs` | - | theorems about `Pipeline` and their proofs |
| `Patch` | `patch.js` | operators on patches with outputs, contracts and receipts |
| `Execution` | `node.js`, `app.js`, `contract.js`, `storageWithCache.js`, `patch.js` | a node that executes, merges and applies the blocks of all conciliums |
| `MCExecution` | - | coins, contracts and transactions for TLC |
| `Mempool` | `mempool.js`, handlers of `node.js` and `witness.js` | the transactions a witness holds while blocks come, become final and are rolled back |
| `MCMempool` | - | four transactions for TLC |
| `Wallet` | `persistentStorage.js:677-900`, `storedWallets.js` | the wallet index beside the chain state |
| `MCWallet` | - | two transactions for TLC |
| `WalletProofs` | - | theorems about `Wallet` and their proofs |
| `PeerLife` | `peer.js`, `peerManager.js`, the handshake in `node.js` | the connections between two nodes |
| `PeerLifeProofs` | - | theorems about `PeerLife` and their proofs |

`Bft` extends `Concilium`; `Finality`, `Execution` and `Mempool` extend `PendingBlocks`,
`Execution` also `Patch`; `Restart` extends `Finality`. `Bft` implements `Ballot` and `Finality` implements `Ledger`, each by an
`INSTANCE ... WITH` at the end of the module, checked as the property `KeepsPromise`.

### Bft

A state is what the witnesses of one concilium hold: `phase` is `_state`, `rounds` the
counters of the concilium definition, `views` the matrix `_views`, `prevViews`
`_prevViews`, `block` is `_block`, `timer` the `stateChange` interval. `todo` is the call
stack: `processMessage` emits a message of its own, which the witness broadcasts and
processes itself at once (`EventEmitter.emit` is a call), so a handler is a chain of
`Process` steps that nothing interrupts. Handlers of different witnesses interact only
over FIFO links (`net`, `up`), so running one at a time loses no behaviour. What stands
behind an await is a job: `jobs[w]` are the holders, in order, of the `blockExec` mutex key
(`StartVerify`/`FinishVerify` and `StartCreate`/`FinishCreate`), `commits[w]` the
`commitBlock` handlers under way (`FinishCommit`); timers and messages come in between.

`RunConsensus` is the two-level majority of `runConsensus`: a value is agreed when a
quorum of *columns* agree on it, and a column agrees on what a quorum of witnesses say
that its owner said. A message relayed for somebody else (`MSG_WITNESS_EXPOSE`) is an
envelope whose `of` is not its sender. Signatures are taken for the fact that their
owner said so: every body in the model was said by the witness it names.

A block is a number; `made` gives its maker and parent, `known`/`tip` what a witness has
accepted and builds on. Faults are `Disconnect` (the messages under way are lost),
`Reconnect` and `Crash` (memory is gone; accepted blocks stay).

With `Clocked` FALSE a timer may fire at any moment: every relative speed of timers,
messages and handlers, bounded by `MaxTimeouts`. With `Clocked` TRUE a `Tick` counts all
timers down by the ratios of `consensusTimeouts` in `config/prod.conf.js` and happens
only when no message and no job is waiting: links and execution are faster than the
unit of the timers (10 s). Timers start at any distance from each other.

### PendingBlocks and Finality

`PendingBlocks` holds the operators: `BestParents` with `SortTips` and `MergeInOrder`,
`FindTopStable` (a block is stable on a path down from the new block when a majority of
the conciliums are seen on it above), `FindAlsoStable`, `ConflictingBranches`. A
patch is the set of the transactions whose spendings it holds; `InputOf` says which
output a transaction spends, so two transactions conflict when they spend one output.
Merging is union, purging what is applied is difference. Coins that are created, contract
data and fees are left out: they do not decide which patches exclude each other. That
this view is right is itself checked: `MergeAgrees` of `Execution` says that two patches of
outputs can be merged exactly when the sets of transactions do not conflict.

`Finality` has nodes, each with its graph `patch[n]`, `topStable[n]`, the storage
`store[n]` and what it decided of blocks (`final`, `unwound`, `bad`), and one
witness per concilium on its home node. `CreateBlock` is the `createBlock` handler
up to the signatures; the block then waits in `building` with the patch it was made with,
and `CommitBlock` accepts it with that patch, not executed again, as the `commitBlock`
handler does. `DropCommit` is the same handler when the node is just receiving a block.
`ReceiveBlock` executes any block that somebody has accepted, once its parents are
executed; order of arrival is free. `AcceptBlock` is `_acceptBlock` with `checkFinality`
and `_processFinalityResults`, in one step. Between the making of a block and its commit a
node accepts others: nothing keeps the `commitBlock` handler from coming late, and it takes
no `blockExec` key (`node/witness.js:433`). The patch of the block may conflict with the
storage by then, and is taken all the same. The history variable `stale` remembers the nodes
where that has happened; no action reads it.

Ties that the code breaks by the hash of a block are broken nondeterministically, which
transactions a mempool holds is left open, and an unwound block is never asked for again
(it is marked bad on disk).

### Restart

One more node, `Mortal`, which runs no witness. Its acceptance of a block is cut at
every write, in the order of the code: `WriteLastApplied` (`LAST_APPLIED_BLOCKS`),
`WriteFinal` (a block info at a time), `WritePatch` (`applyPatch`, a batch of the data
base), `WriteBad`, `WritePending`. `Crash` may come between any two; queued blocks and the
acceptance under way are lost. `StartAgain` builds the memory as `_rebuildBlockDb` does,
`FailToStart` is the exception of that code. `HearOf` and `Recall` stand for the pipeline:
which blocks are stored, which are fetched again, and which are taken for executed, as
`_mainDag` says. A graceful shutdown waits for nothing either, so it is a crash too;
`CrashAnywhere` FALSE restricts it to the moments between two acceptances.

`torn` is TRUE once a crash came in the middle of an acceptance, or a start left out of the
main dag blocks that are final on disk, which `_buildMainDag` does when no pending block
stands on them: such a node takes blocks for new that it has applied long ago. Two more
things the code does had to be named:

- A branch is rolled back whole, so a block that was rolled back can be under one that stays
  pending. `_buildMainDag` refuses to start on it (`StandsOnBad`).
- One transaction can be in two blocks of its concilium on branches that conflict. When it
  is applied with one, `purge` takes it out of the patch of the other, in memory; a start
  executes that block again, on a storage where the output is spent (`PendsApplied`).

`StartsWhenWhole` says that a node that is not `torn` starts but for these two. No start fails so in
the instance of `RestartCrash`; it was the proof that asked for them, and behaviours with four
and with six conciliums that have them are told [below](#what-the-code-does-otherwise-than-it-says).

### Pipeline

One node among `Peers`. `info` is what the node knows of a block besides its execution
(`_mainDag`), `executed` the blocks that are pending or final, `toExec` and `unknown` the
maps `_mapBlocksToExec` and `_mapUnknownBlocks`, each with the peer it names for a
block, `requested` the entries of `_requestCache` that are not outdated, `ahead`, `asking`
and `singles` what is remembered of a peer. The handlers of MSG_INV, MSG_BLOCK, the end of
the handshake (`Connect`) and the worker (`StartWorker`, `WorkOff`, `AskForBlocks`) are
steps. An execution is not: it starts in one step and ends in another (`FinishExec`),
and everything else goes on in between, the worker excepted, which waits for its own and
does not start during another (`_isBusyWithExec`).

Peers run the same code; the model has what they answer (`PeerAnswers`, `PeerHasNot`) and
announce (`PeerAccepts`). `BlocksFromLastKnown` is the walk of
`_getBlocksFromLastKnown`, level after level up to `MAX_BLOCKS_INV`. Messages are sets: a
peer's messages may be handled in any order. A request counts as given up
(`GiveUpRequest`) when nothing of it is under way any more, or, `MaxFaults` times, before the
answer is there; the hold-off of a query for blocks (`GiveUpQuery`) never ends before
the answer comes. An `Invalid` block fails in `_verifyBlock`
or when it is executed, a `Contested` one may fail here for what this node has of others
(`Outcomes`): when it is executed, or in `_acceptBlock` once it has been added to the graph
(`node/node.js:1565`), which leaves it executed and marked bad at once. That final blocks roll others
back, and mark them bad, is `Finality`'s. Last applied blocks are taken to be those right under the tips,
which blocks exactly being up to `Finality`. `FactoryOptions.slowBoot` is off.

### Patch and Execution

`Patch` has `PatchDB` with its data: `coins` the unspent outputs a patch has a version of, with
amounts, `spent` which transaction spends an output, `level` the levels of the conciliums,
`contracts` and `receipts`. `SpendCoins`, `CreateCoins`, `SetContract` ... are its methods, `Merge`
with `MergeFails` is `merge` and its three errors, `Purged` is `purge`.

In `Execution` one node receives the blocks of all conciliums. A block is made on what its
maker had seen (`Seen`), which is any part of the blocks closed downwards that has the maker's own
ones; what is pending for the maker (`PendingFor`) follows from that. `ReceiveBlock` executes
the block on the merged patches of its parents, one transaction after the other (`ExecBlock`,
`ProcessTx`, `ProcessContract`), and accepts it (`AcceptBlock`, with `ApplyPatch`). The code of
a contract is a list of what it does that matters here: it changes its data, sends coins,
calls another contract or delegates to it, or throws. Data are the bag of the
transactions that changed them, so that a change that is lost or made twice shows. Fees
are those of the concilium's definition (`FeeOf`), with storage paid by the growth of the data
once the contract has run. `cache` is `_cachedContracts`: its objects are the very ones
executions work on (`KeepInCache`), and what an execution has changed stays in them when it fails
(`RefuseBlock`, `LookedUp`). `TryLocally` is an execution that is no block's: of a transaction
of the user (`_acceptLocalTx`) or of a block of the node's own; it leaves only the cache changed.
A delegated call to a contract large enough to be cached is left out: it would leave the balance
of its caller in the cached object.

The model has what the code does here beside the expected, since the properties had to name it:

- A concilium whose own block is final for it, and still pending for others, builds
  beside it: `getBestParents` (`node/pendingBlocksManager.js:120`) returns pending tips
  only. `InLine` and `Rootless` are the conditions that leave such blocks out. The assertion that
  is to catch parallel blocks (`storage/patch.js:146`) never fires for merged patches,
  which have no `_conciliumId` (`storage/patch.js:133`).
- `purge` takes a contract away when its data are those that were applied
  (`storage/patch.js:304`), balances are not compared, and of two versions the higher level
  wins. A pending block that a final one of the same contract has
  *overtaken* therefore hides the final state or loses its deposit, and so does one whose version
  has the data that were applied and another balance; `overtaken` remembers both.
- The cache of large contracts is never invalidated (`storage/storageWithCache.js:21`), and the first
  execution on a cached object changes it in place. What comes from the cache is therefore what some
  execution, also one that failed or was only tried, made of the contract. `stale` remembers that a
  block was executed on a cached contract that is not the stored one; what comes of it is told [below](#what-the-code-does-otherwise-than-it-says).
- A failed creation keeps its value unless the contract came about and only its data were too
  dear (`MayUse`). A call without a receiver of the change leaves `maxFee - fee` as the fee
  (`node/node.js:1994`), so that what it cost is nobody's (`Vanished`).
- What a call did before it failed is not taken back where it is in the patch of the
  transaction already: an internal output it sent (`_sendCoins`), which is paid out of nothing
  (`Conjured`), and what a nested call that succeeded has changed (`_invokeNestedContract`).
  `CoinsConserved` and `ContractIsReplay` say so, and calls that fail after either are in the
  instance.
- Nested calls read the patch of the block, not that of the transaction, and are not checked
  to stay in the concilium (`node/node.js:1420`).

### Mempool

`pool` stands for all maps of `_mapConcilimTxns` in the order their entries arrived, `local` for
`_mapLocalTxns` and its file, `bad` for the hashes of bad transactions. `best` and `localPatch` are
`_objCurrentBestParents` and `_patchLocalTxns`, each a set of transactions or `Nothing`; `calling` is a
transaction of the user that waits for the `blockExec` key, so that all else may happen between its
first check and its acceptance. `HandleTx`, `CallLocalTx`/`AcceptLocalTx`, `CreateBlock`, `MakeBlock`
(another witness), `ReceiveBlock` with `AcceptBlock`, `PurgeOutdated` and `Restart` are the
handlers. Blocks are those of `PendingBlocks`, with lists of transactions, since what
a list does not get executed is removed one by one.

What the code does here beside the expected:

- `_objCurrentBestParents` is cleared after the blocks were unwound (`node/node.js:1678`) and may be set
  to an old value by a computation that ends late (`node/node.js:2451`): transactions
  of a rolled back block are then checked upon the parents of before, and marked bad. Hence
  `best = Nothing` in `RolledBackReturns`. A child heard before its parent is marked bad too.
- A transaction of the user can come from a peer while it waits (`node/node.js:992`): it is held
  twice, and `removeTxns` takes the local copy only.
- Local transactions that have a patch are never executed again (`node/node.js:2469`), although
  the comment at `node/node.js:1601` says "revalidate".
- The limit is looked at before a transaction is added, and rounding in `_purgeMaps` keeps up to
  one transaction more for every two maps (`WithinLimit`); with many maps of few
  transactions nothing is trimmed at all, so the bound is that of a witness of one concilium.

### Wallet

`records` are the numbered entries of the index, `stored` its table of addresses with
the last number, `wallet` the same in memory; `applied` is how far the chain state has come.
`applyPatch` is two steps, `ApplyToWallet` and `ApplyBatch`: the index is written first, and in another
data base. `walletListUnspent` reads one record after the other (`StartList`, `ListNext`) and
cleans up what it did not find (`EndList`), `walletReIndex` is `Erase`, `Flush`, `Scan`, `Write`, and all of
them interleave, also while `_reInitMainDb` has the chain state closed (`CloseDb`, `OpenDb`),
with `Crash` anywhere. `due` and `kept` are what the index has to have: an output enters
`due` when it is applied or found, an address `kept` when it is watched. They leave in four cases, which are
what the code loses:

1. `getUtxo` takes no lock. Who lists an address between the two writes of `applyPatch` finds the new
   output not there, and its record is cleaned up for ever (`storage/persistentStorage.js:457`, 485).
2. The same for a listing while the chain state is closed; a re-indexing that was erased
   before such a moment ends empty, and one that scans between the two writes
   misses what is just being applied.
3. A crash in the middle of `walletReIndex` leaves an index that lacks what was there.
4. A crash between its first two steps leaves no watched address (`storage/persistentStorage.js:872`).

### PeerLife

What a node holds of another (`Peer`, its place in `_mapAllPeers`) does not depend on a
third, so there are two nodes and a few connections, numbers that are taken again. Of a
connection `c`, `end[c][n]` and `stage[c][n]` are what the `Peer` object of node `n` for it
knows (`_connection`, `_version` and `_handshakeDone`), `chan[c][n]` the messages under way to
`n` in their order, the closing last. `table[n]` is the connection of the `Peer` in
`_mapAllPeers`, `restricted` and `banned` say that its times are to come, `failed` is
`failedConnectionsCount`. Dialling is two steps (`Dial`, then `Dialled` or `DialFails`), and so
is a refusal: the reject is sent, and the connection closed a second later (`RefusalEnds`).
In between an inbound connection may replace the `Peer` that dials. `removeAllListeners`
then makes it deaf: its connection comes about, pings are answered below the
listeners, and the handshake never ends; it is open until its lifetime ends. This is why
`SettledIsFull` excepts `deaf` connections. Witness peers (`markAsPersistent`), clock
offsets, connections to oneself and restarts of a node, which zero `failed`, are left out.

## What the runs check

Every `.cfg` is one run. *Pass* runs:

| Run | Instance and bounds | Properties |
|---|---|---|
| `BftStake` | proof of stake 3:1, sequences of 2 rounds, timers free; 1 block, 3 timeouts, 1 broken connection, 1 crash | `TypeOK`, `CommitCertified`, `CommitOnce`, `KeepsPromise` |
| `BftClocked` | 3 members, the first dead, clocked; 3 blocks, seeds far apart | `NoFork`, `VotesFollowTurn`, `RoundAsAgreed`, `Progress` |
| `FinalStale` | 3 conciliums on 3 nodes, two race for an output; 5 blocks, commits any time after their blocks are made | `AppliedIsAccounted`, `UnwoundFailed`, `OrderIsIrrelevant`, `KeepsPromise` |
| `Execution` | 4 conciliums, 3 transactions of one of two sets in the blocks. In 5 blocks: 2 contracts and a third that is created, a race, nested and delegated calls, one that names no receiver of the change, a call of a foreign contract and one that can not pay. In 4 blocks: calls of a contract and of a large one that is cached, of which one only pays, one sends and is also tried locally, one fails after it sent and one after a nested call | `CoinsAreReplay`, `MergeAgrees`, `LostForCause`, `ContractIsReplay`, `CoinsConserved` |
| `Pool` | 3 conciliums, one of them the witness's; 4 transactions, a race, one that spends another; pool of 2, 3 blocks | `WithinLimit`, `LocalsAgree`, `RolledBackReturns` |
| `RestartCrash` | 2 nodes of witnesses and the mortal one; 4 blocks, 3 transactions of two conciliums, 1 crash anywhere | `TypeOKRestart`, `StoresWhatIsFinal`, `StartsWhenWhole`, `LastAppliedIsApplied`, `RestoresGraph`, `PendingAppliesWhole` |
| `Wallet` | 2 addresses, 2 transactions of which one spends of the other; 2 crashes or closings | `IndexIsComplete`, `WatchIsKept` |
| `Pipe` | 2 peers; 3 blocks, a fork with one branch invalid, that is joined, of which the second peer has the invalid branch at first; a lost connection or a late answer, batches of 2; fair | `TypeOK`, `NothingForgotten`, `ExecutedInOrder`, `AskedOnce`, `BlamedForCause`, `StoredIsExecuted`, `StopsLoading` |
| `PeerLinks` | 3 connections at a time, of which 2 dials cross another; given up after 1 failed dial of at most 2, 1 cut, 1 ban; fair | `OneLink`, `BothAgree`, `SettledIsFull`, `Reconnects` |

*Violation* runs are the findings below: `BftFork`, `FinalBranch`, `RestartBroken`.

What they show:

- **Certified commits** (`CommitCertified`, `CommitOnce`): whatever
  is lost, late, relayed, repeated or left over from another round, and whoever restarts
  without its memory, a block handed over to be committed has a quorum of
  signatures of witnesses that did vote for it, once.
  `CommitOnce` depends on two quorums always meeting (`QuorumsMeet`), which the
  proof-of-stake weights ensure by half a unit, and on every word coming once.
- **Synchrony buys one block per parent** (`NoFork`, `VotesFollowTurn`, `RoundAsAgreed`):
  with links faster than timers none of them is violated; without, `NoFork` is (see
  below), and so is `VotesFollowTurn`, with 2 witnesses, 6 timeouts and 2 blocks.
- **Progress**: under the same synchrony every block there is work for is committed by
  all that run, with a dead proposer and with timers at any distance. It needs every
  message: in the instance of `BftClocked` a single lost one can put the two witnesses
  into a lockstep in which each restarts the other's round for ever, so `MaxDrops` is 0.
  It needs witnesses that hear each other directly.
- **Finality under races** (`AppliedIsAccounted`, `OrderIsIrrelevant`, `KeepsPromise`,
  `UnwoundFailed`): with one race for an output the nodes agree on what
  is final, apply it whole, and never apply two conflicting transactions, even when
  commits come with stale patches. `UnwoundFailed`, and with it `KeepsPromise`, need that
  no branch mixes two races (finding 2). `AppliedIsAccounted` allows that the storage holds
  transactions of a block that was rolled back. In this instance it never does, but simulation
  of five conciliums finds it: a node rolls back a block with the conflicting tip above it,
  while another branch that stands on the same block stays, and holds its transactions in
  its patches (`patch.purge` takes away only what is applied); when that branch becomes final they
  are applied. In the instance of `FinalStale` a commit that comes after a conflicting block
  became final brings a patch that can not be applied into the graph, since the `commitBlock`
  handler (`node/witness.js:433`) does not execute the block again. So `PendingApplies` and
  `SpentOnce` except the nodes that are `stale`; both are checked in `RestartCrash`
  (`PendingAppliesWhole`), and proved.
- **Restart** (`StoresWhatIsFinal`, `RestoresGraph`, `StartsWhenWhole`,
  `LastAppliedIsApplied`, `PendingAppliesWhole`): nothing is applied before its block is final
  on disk, but for what came with a block that was rolled back. A node that stops at rest, and
  comes back with all that was final, has the graph it had, patch by patch. What is under
  its last applied blocks is applied, what is pending can be (but at a node that committed a
  stale patch; the mortal one commits none), and but for the two reasons
  above it starts. All of them hold as long as the node is not `torn`; finding 3 is what comes
  of that.
- **Coins and contracts** (`CoinsAreReplay`, `MergeAgrees`, `ContractIsReplay`,
  `CoinsConserved`, `LostForCause`): the patches, however merged, purged and applied, give every
  block the outputs that replaying the transactions below it would. Contracts are what their calls
  make of them, one by one, as long as the blocks of their concilium stand on one another, no
  pending block was overtaken, and no block was executed on a cached contract that is not the
  stored one. Under the same conditions all amounts add up to what there was at the start, plus what
  failing calls had sent and less what calls without a receiver of the change cost: coins
  appear and vanish in these two ways and no other. A block of an honest
  concilium is lost only to a race, or because it spends what was final for its maker alone.
- **Mempool** (`WithinLimit`, `LocalsAgree`, `RolledBackReturns`): the bound on the pool is the one
  rounding leaves; the merge of local patches in the middle of an acceptance never throws;
  the transactions of a rolled back block come back into the pool when they still can be executed,
  were not found bad before, and there is room, provided that no best parents are cached at that
  moment. With a cached value the code does lose them (see [Mempool](#mempool)).
- **Wallet index** (`IndexIsComplete`, `WatchIsKept`): the four ways above are the only ones in
  which an output or an address is lost.
- **Getting blocks** (`NothingForgotten`, `ExecutedInOrder`, `AskedOnce`,
  `BlamedForCause`): with blocks that come in any order from two peers, executed by
  the handler and the worker at once, every stored block is queued, being executed
  or waiting for a parent that is itself stored or marked unknown; nothing is executed
  before its parents or on a bad block. A block whose acceptance throws after it was added
  to the graph is executed and bad at once, but nothing else finds fault with what is
  executed, however often it is received or queued. No block is
  requested twice unless the first request was given up, and a peer is only blamed for
  a block that is or stands on one that fails, or for an answer that came late. That does
  not say the peer is at fault: a valid block that loses to another this node has
  accepted counts, and children of a block are queued for the peer that sent
  the parent (`node/node.js:2105`), who pays for them.
- **Blocks are executed in the end** (`StoredIsExecuted`, `StopsLoading`): as long as
  there is a peer to be reached, the unknown parents of stored blocks arrive and all
  stored blocks are executed that neither failed nor stand on one that did. No peer counts as ahead for ever, which would
  keep the node from announcing anything (`node/node.js:2159`) and a witness from making blocks
  (`node/witness.js:391`), with one exception that TLC found: blocks that were found bad stay in the
  main dag of a peer until it restarts, so `_getBlocksFromLastKnown` (`node/node.js:568`) goes on
  telling of them, while they are gone from the storage and can not be sent. A node that lacks two of
  them, or holds a block upon one, counts that peer as ahead again and again. `StopsLoading` says that
  whoever loads for ever lacks such a block. It is not true that a node gets every block its
  peers have: when an announcement is taken for the answer to getblocks and the peer
  is marked even, the rest comes only with the next announcement.
- **Connections** (`OneLink`, `BothAgree`, `SettledIsFull`, `Reconnects`): whatever two nodes
  dial, accept, refuse, replace and drop at once, they end up with one connection that
  both take for complete, or with none and another dial. When each refuses the
  other's dial as a duplicate they lose both and try again. The failures of dials are
  never taken back by a success, so that after more than `PEER_FAILED_CONNECTIONS_LIMIT`
  of them in its life a node does not dial that peer again until it is dialled by it; when
  both are there nobody dials. `Reconnects` says that nothing else keeps them apart.

**Bounds.** Two witnesses already have every race of a timer with a vote, and
three are the fewest where a majority is not everybody and where a word has to be
relayed. A second block lets leftovers of one block meet the next.
With three conciliums a majority is two, so a block needs one block of another concilium
above it: four blocks suffice to make one final and roll its rival back, five to do so at
one node while the rival's concilium goes on, six for two races in one branch.
In the pipeline two peers are the fewest where one can be asked for what the other named,
a batch of two blocks and one single request before a peer counts as ahead reach the
limits 300 and 6 of the code with a handful of blocks, and a join of a contested and an invalid
branch is the smallest graph with a block that waits for two and one that stands on a bad one.
`MaxBlocks` of `Execution` is one bound for each set of transactions, and a behaviour has those of one
set. A fourth concilium leaves blocks pending beside those that become final, and three
blocks make the first one final; five
blocks with three transactions have a block merged from two branches, made final and purged from
a third, and every transaction in a final block in some behaviour. In four blocks a contract is
called again after it was applied, and after a call that failed. In `Pool` two transactions
fill the pool and three blocks make one of two rivals final; in `Wallet` two transactions are one
that is spent from and one that spends, and two faults a crash after a closing.
Three connections are one complete, or left over, and a dial of each node; a limit of no
failure lets two failed dials give up on both sides, or on one side twice.
`MaxTimeouts`, `MaxDrops`, `MaxCrashes`, `MaxFaults`, `MaxFailures`, `MaxCuts`,
`MaxBans`, `MaxCrossings` and `MaxBlocks` bound only how many there are, never when they come. Three live witnesses in a full mesh with free timers are out of TLC's
reach (more than nine million states without an end), as is `FinalStale` with six blocks.

**Deadlock** is checked in the clocked run. Elsewhere the models do stop: blocks
or timeouts are used up, a node can not be started, has all blocks there are, or two nodes
have given each other up.

**Fairness** is stated in `BftClocked`, `Pipe` and `PeerLinks`. In `BftClocked` a handler runs to
its end and the event loop comes round to every timer, message and job (weak fairness of `Process`,
`TimerFires`, `Work`, `Deliver`), time passes (`Tick`), and a connection that may be opened
again and again is opened (strong fairness of `Reconnect`: a witness that is running a
handler can not do it at that instant). Faults, and what a mempool holds, are never fair.
`Progress` in particular assumes nothing of who proposes or when the others started.
In `Pipe` the worker is a timer, executions end, hold-offs are times that pass,
messages that were not lost with their connection are handled and answered, the node
connects again to its peers (`_reconnectPeers` runs for ever), and peers get every block
(they run the same code). All of it is weak fairness; at most `MaxFaults`
connections are lost or answers late.
In `PeerLinks` `_reconnectPeers` runs for ever, dials end one way or the other, messages arrive
on a connection that stays, restrictions and bans are times that pass, and so is the
lifetime of a connection. Cuts, bans, and failures to dial are never fair.

Every property of a passing run comes with a change of the code that breaks it
(`PROJECT.json`, "mutants"): the operator the change makes stands in the module before
the one it replaces, with a comment that begins "Mutant:".

## What the code does otherwise than it says

Each is a run that TLC ends with a counterexample.

1. **Two blocks on one parent** (`BftFork`). Nothing binds a witness to the block it
   voted for. When timers race the votes, witness A sees a quorum for a block and commits
   it while B's timer has fired; both go on to another round and agree on another
   block on the same parent. `storage/patch.js:141` calls this "definitely error!".
   Delays alone are enough; the timeouts of `config/prod.conf.js` make it unlikely, not
   impossible.
2. **A block rolled back here and final there** (`FinalBranch`). Roll-back takes the whole
   branch, also blocks under the conflict. Such a block may be final at another node, which
   goes on holding what the first one never applies.
3. **A node that never starts again** (`RestartBroken`). The pending blocks are written
   last. After a crash between the patch and that write the list still names blocks that
   are final or were rolled back, and their re-execution throws at every start.

More are known and have no run of their own: those listed with `Execution`, `Mempool` and `Wallet`
above, and these.

- *Executions on what is not stored.* A large contract is served from the cache for ever
  (`storage/storageWithCache.js:21`), and the first execution changes the cached object in place, where
  `node/node.js:1459` means "to load contract data from storage". Without `~stale` TLC finds `ContractIsReplay` violated
  in the instance of `Execution` in three ways: a transaction of the user that was executed locally is
  applied twice by its block; after a call that sent coins and then threw, the next one starts from
  the balance the failed one left, so the contract loses coins it never sent; and when two pending
  blocks, or two transactions of one, call the contract, the second works on a clone from the patch, so that
  once both are applied the next call is executed on what the first one left.
- *Coins that nobody gets.* Of a call that names no receiver of the change "all coins become goes to
  witness" (`node/node.js:1992`). The witness gets what is left over (line 1994); what the
  call cost is lost.

The last applied blocks are written first
(`node/node.js:1588`): after a crash between that and the patch, the start skips those blocks
as applied, and what they spend is lost. (`LastAppliedIsApplied` without
`~torn` fails in the instance of `RestartCrash`.) `RoundAsAgreed` does not hold when timers
are free and the seeds of two accepted blocks are further apart than a sequence of rounds:
`adjustRound` (`conciliums/baseConciliumDefinition.js:156`) does not take over such a round.
With any pending block `_buildMainDag` starts from the pending ones alone
(`node/node.js:1755`), although its comment (line 1745) says "Build DAG of all known blocks!": a
last applied block that no pending one stands on is not in the main dag after a restart.
`_updateLastAppliedBlocks` looks for it there (`node/node.js:1620`) and reads a property of
undefined, so the next block that makes others final is marked bad after it was taken into
the pending graph.

Two more ways not to start again need no crash in an acceptance, although the pending
blocks are written "for restore state after node restart" (`node/node.js:1578`). TLC finds both
when it is led to the blocks named here, on a node that stops once, between two acceptances:

- *On a block rolled back* (`node/node.js:1767`), with four conciliums. Block 1 of concilium 1 and 2
  of concilium 4 stand on Genesis, 3 of concilium 2 on 1, 4 of concilium 1 on both 1 and 2, 5 of
  concilium 3 on 4; blocks 2 and 3 spend the same output. With 5 block 2 is final, and the tip 3,
  which conflicts, is rolled back with block 1 under it. Blocks 4 and 5 stand on 1 and stay pending.
  Every start walks down from them, meets 1 and throws "found bad block".
- *One transaction in two blocks* (`node/node.js:1821`), with six conciliums. Block 1 of concilium 1
  holds the transaction t; 2 of concilium 2 on it and 3 of concilium 3 on Genesis spend the same
  output; 4 of concilium 4 is on 3. Concilium 1 goes on upon 4, where 1 is not, so that t is let in
  again (`node/node.js:1034`) and is in its block 5, too. Blocks 6 and 7 of conciliums 5 and 6 upon 2
  make 1 final. Block 5 does not conflict with it and stays pending, with t purged from its patch.
  Every start executes 5 on the storage, where the output of t is spent, and throws.

Children of a block are queued for the peer
that sent the parent (`node/node.js:2105`), who is blamed for them. `_peerDisconnect`
(`node/node.js:249`) takes back the clock offset of a peer after `_cleanup` (`network/peer.js:428`) has zeroed it.
`_constantMethodCallRpc` (`node/node.js:2303`) uses the one `Application` of the node without the
`transaction` key that executions hold, and resets their coins and contracts. `_getTxForRpc`
(`node/node.js:2295`) calls transactions of stored blocks confirmed. `_createJoinTx`
(`node/witness.js:630`) counts all of an UTXO also when it stops in the middle of its outputs.

## What is proved

`ConciliumProofs` and `BftProofs`, for every number of witnesses, distribution of stake, topology,
seed and bound; `FinalityProofs`, for every set of conciliums, nodes, transactions and homes of
the witnesses, and any number of blocks; `RestartProofs`, for the same and any number of
crashes of the node; `PipelineProofs`, for every graph of blocks, every
set of invalid and of contested ones and any peers; `WalletProofs`, for every set of addresses and transactions;
`PeerLifeProofs`, for two nodes and any number of connections. TLAPS checks every leaf.
`PendingBlocksProofs` has no theorem of a specification but the lemmas about graphs that
`FinalityProofs` rests on. Assumed are the named assumptions of the modules: what the constants are, positive
numbers of witnesses and of rounds in a sequence, links between running witnesses, natural seeds,
a finite set of conciliums, that the parents of a block are blocks with lower numbers, and finite
sets of addresses and transactions.

| Theorem | Says |
|---|---|
| `BftProofs!TypeCorrect` | `Spec => []TypeOK` |
| `Certified` | `Spec => []CommitCertified` |
| `AgreementIsSigned` | an agreement on a block hash selects a quorum of columns that agree on it, for any views |
| `PromiseKept` | `Spec => KeepsPromise`: `Bft` implements `Ballot` |
| `QuorumsMeet` | two quorums have a witness in common, if the quorum is more than half of the weight |
| `ForksHaveCommonVoter` | `Spec => []CommonVoter`, if quorums are majorities: of any two blocks that are committed, some witness voted for both |
| `ForkOnlyByRevoting` | `Spec /\ []OneVotePerParent => []NoFork`, if quorums are majorities |
| `CommitsOnce` | `Spec => []CommitOnce`, if quorums are majorities |
| `FinalityProofs!TypeCorrect` | `Spec => []TypeOK` |
| `Accounted` | `Spec => []AppliedIsAccounted` |
| `PendingStaysApplicable` | `Spec => []PendingApplies`, which excepts the nodes that are `stale` |
| `NeverSpentTwice` | `Spec => []SpentOnce`, with the same exception |
| `SameBlocksSameFinal` | `Spec => []OrderIsIrrelevant` |
| `ForkHasOneOfTwoCauses` | `Spec /\ [](OnOneBranch /\ NoStaleCommit) => KeepsPromise`: `Finality` implements `Ledger` while no concilium leaves its branch or commits a stale patch |
| `RestartTypeCorrect` | `SpecRestart => []TypeOKRestart` |
| `AppliedUpToLast` | `SpecRestart => []LastAppliedIsApplied` |
| `StartsButForTwo` | `SpecRestart => []StartsWhenWhole` |
| `FinalBeforeApplied` | `SpecRestart => StoresWhatIsFinal` |
| `GraphRestored` | `SpecRestart => RestoresGraph` |
| `PendingAppliesAfterRestart` | `SpecRestart => []PendingAppliesWhole` |
| `PipeTypeCorrect` | `Spec => []TypeOK` of `Pipeline` |
| `NoneForgotten` | `Spec => []NothingForgotten` |
| `InOrder` | `Spec => []ExecutedInOrder` |
| `OnceAsked` | `Spec => AskedOnce` |
| `Blamed` | `Spec => BlamedForCause` |
| `WatchKept` | `Spec => []WatchIsKept` |
| `IndexComplete` | `Spec => []IndexIsComplete` |
| `PeersOneLink` | `Spec => []OneLink` |
| `PeersAgree` | `Spec => []BothAgree` |
| `PeersSettle` | `Spec => []SettledIsFull` |

**Consensus.** `CommitCertified` is not inductive: it says nothing of the words under way. Its
strengthening `CertInv` adds `TypeOK` and that *everything ever heard is true*: an accept
vote for `b` said to be of `i`, in a view, in the previous views, on a link or on the
call stack, is one `i` cast (`voted[i]`). The argument follows the life of a vote: `voted`
only grows (`VoteGrows`, `OldCertificates`), every step that moves a word keeps it true
(`TrueNetUpdate`, `TrueBroadcast`, `KeptTrue`), and `_getSignaturesForBlock` on the
previous views returns columns that name real voters, a quorum of them
(`SignersVoted`, `AgreementIsSigned`). `StepCert` has a step per action. `PromiseKept` goes
on from `CertInv`: a step that changes `log` has the certificate `Ballot` asks for, and no
step both votes and commits.

Weights are sums over sets, which recur. `SumIs` shows that a sum is the number of units in what is
weighed, for which the library's theorems on finite sets do the counting: two groups apart weigh no
more than the whole (`ApartWeigh`, `WholeWeight`), so two quorums meet. `getQuorum` makes a quorum more than
half of the weight unless a round-robin definition brings its own, which may be anything:
`MajorityQuorum` says that it does not bring less. From this and the certificates follows
what a fork takes. `NoFork` is violated (finding 1) only because a witness may vote for two
blocks on one parent: were that excluded, no timing, loss or restart would fork a concilium.

`CommitOnce` follows the words, and before them the blocks. `BlocksArriveOnce` says that a witness
gets a block once: as its maker, from one link, as one job, and then it has voted or dropped it; so
nobody votes for a block twice. `WordsComeOnce` says the same of the word of j that i has voted:
i says it, j hears it and says it on, it is on the link to w, w is about to process it, it is in the
views of w, and while it is in one of these places it is in none of the others (`OneWay`). A step
moves it to the next place or loses it (`Moves`), and a word that is `Gone` stays gone. Agreement
takes a quorum of votes, each heard of from a quorum, and `_resetState` drops them all: they are gone
(`AgreedIsGone`, `CommittedForGood`). A second agreement on the block would take two more such
quorums, and would have a voter, and a witness that was heard of it, in common with the first.
`CommittedForGood` is only about the block that is still held: a block that is let go is never held
again, because that takes another vote.

**Finality.** `AppliedIsAccounted` says nothing of patches, and what is applied comes from
them. `AccountInv` adds what a patch holds (`Fits`): the transactions of its block and what the
patches of its parents hold, but for what is in the storage, and nothing else but what belongs to
blocks the node decided of. It is the same for the patch of a block that waits for its commit, with
that nobody knows of this block and nothing stands on it (`Waits`), so that it can be added whatever
happened since. `FinaliseFits` has the argument. What `checkFinality` makes final goes down
(`StableGoesDown`), so the merge of the patches of the top stable blocks holds all of it (`FlowsUp`)
and nothing from above it (`FlowsDown`); what it rolls back goes down in the rest
(`RollbackGoesDown`), so every pending block keeps its parents or they are decided of.

`PendingApplies` follows from `NeatInv`, which holds whatever waits for its commit. A patch
never conflicts with itself and holds those of its parents whole, and the patch of a block that waits
is such a patch upon the parents the block has when it comes; that much is true everywhere. At a
node that is not `stale` no patch conflicts with the storage either. A commit keeps that, or makes
its node `stale`. `FinaliseNeat` shows that making blocks final keeps it: a block that is left has a tip
above it (`TipAbove`) whose patch holds its own; were there a conflict with what is applied, the tip
would have been rolled back and the block with it, unless the tip is the new block, and that one
stands on what is applied.

The recursive functions of `PendingBlocks` (`PathsDown`, `MergeInOrder`) are defined by what they
recur on, and a proof first has to show that there is such a function: `PathsExist` gives the
paths as the sequences that go from parent to parent, `MergesExist` takes the first position with no
function up to it. The rest is induction by a least counterexample (`LeastNat`), since blocks
have higher numbers than their parents.

`OrderIsIrrelevant` compares two nodes, and an invariant that speaks of two nodes would have to
relate all they saw. `OrderInv` says instead what is final for *one* node that had nothing
to roll back, as a function of the blocks it accepted: those that a majority supports in
them (`Supported`: a path down from a tip on which blocks of a majority of the conciliums are above).
`checkFinality` looks at paths down from the new block only and ends each at the first stable
block; that nothing is missed, since what has support stays supported and what is below the
top stable blocks is final already, is the induction. Two nodes with the same blocks then have the same ones final.

`ForkHasOneOfTwoCauses` says what it takes for two nodes to apply transactions that spend one
output. `OnOneBranch` is about the witness of a concilium: the blocks of the concilium it has are final or
one under the other, none of them rolled back. `NoStaleCommit` says that no home of a witness is
`stale`. `BranchInv` is about everybody: whatever a
node has of a concilium its home has too (`AtHome`), what is final has the support of a majority in
what the node has (`Had`), and a patch holds all that is under its block but for what is applied
(`Traced`). Two nodes that apply a transaction each have a majority of conciliums above its block
(`AppliedIsVoted`); the two majorities meet in a concilium, whose home has both blocks of it, on one branch, and
a node that is not `stale` never has two transactions that conflict under one branch (`StoresAgree`).
Both hypotheses are about what the code does: a concilium leaves its branch when two races for outputs
meet in it (finding 2), and a commit may be stale. The theorem is also no more than what it says: TLC finds,
with no concilium off its branch and no stale commit, blocks that are rolled back at one node and final at
another, so `UnwoundFailed` does not follow, only that the nodes agree on what is applied.

**Restart.** Two invariants, since a crash breaks most of what one would like to say. `WeakInv` holds
whatever crashes: for the other nodes it is `AccountIn`, the invariant of `Finality`, of the nodes
that are `Steady`; all that the mortal one has in memory, on disk or still to write is about blocks that
were committed, so that nothing it does disturbs the others (`MortalMoves`). `Books` holds as long as
the node is not `torn`. Between two writes of an acceptance neither memory nor disk is what it should be; with
what the acceptance has still to write added (`FinalSoon`, `UnwoundSoon`, `StoreSoon`) they are:
`Whole` says that the graph could be built again from its blocks alone, and `OnDisk`, `InMemory`,
`ToWrite` say which list names which blocks by how far the writing has come. The heart of `Whole` is
`Exact`: the patch of a pending block holds what the blocks under it brought and is not applied yet, nothing
twice, and nothing else unless a block under it was rolled back.

`RebuiltSame` is the argument of `RestoresGraph`: the rebuilt patch of a block holds no more
than what is under it and not applied, as all of that is executed again, and no less, by `Exact` and induction along
the graph. `StartsUnless` follows the three ways `Starts` can be FALSE and shows that each is
`StandsOnBad` or `PendsApplied`. A conflict between parents is none of them: memory holds the same
patches and merged them before. `LastAppliedIsApplied` is `Settled`, which says of what is
final that everything under it is applied; that is why it does not matter whether something below a last
applied block was rolled back. `PendingAppliesWhole` is `NeatInv` of the other nodes, and for the mortal one
it follows from `Whole`: it makes no blocks, so it never commits a stale patch.

**Wallet.** `WatchIsKept` is about the disk, and a re-indexing takes the table off the disk while it runs.
Its strengthening `WatchInv` adds that whoever is between watching and the end of the index
has the watched addresses in memory, and that a table that has to be loaded is the one on disk;
`StepWatch` has a step per action. `IndexIsComplete` is about outputs, and an index record names a
transaction. `IndexInv` adds where every live output of a watched address is while the
index is built (recorded, about to be written by a caller that found it, or to be scanned for), that
record numbers are given out once (`Numbering`), and that a list of records that a caller works on
misses none that matter (`Listing`).

**Pipeline.** `NothingForgotten` needs little more than itself (`QueueInv`: what is queued is stored, so the
worker can try it). Its argument is in `ProcessKeeps`: every way `_processBlock` ends either
refuses the block, executes it, or leaves a parent behind that is stored or marked as
unknown; and `FinishExecKeeps`: whoever waited for the block just executed is queued.
`ExecutedInOrder` needs what `executing` holds (`OrderInv`): the parents of a block under
execution are executed and not bad, and it is bad only when it fails of itself. A block may be
under execution several times, so the first end may find it bad while the others go on; a block
becomes bad only before it is executed or in the step that adds it, when nothing stands on it yet.

`AskedOnce` and `BlamedForCause` are about steps. `AskInv` says that what is asked for is remembered
as requested or is late, and that only what is late is asked of two peers; `BlameInv` adds that
a block known to be bad is tainted: it fails of itself or stands on one that does. `Tainted` recurs along the graph: `TaintedRecurs` shows that
it satisfies its recursion, as the least set that does.
`PipeTypeCorrect` has one point that is not bookkeeping: `BlocksFromLastKnown` chooses the first level
at which the collecting stops. `LevelsExist` shows that there is the function it recurs by, `LevelsEnd` that it
stops, since levels that grow each time would be more than there are blocks.

**Connections.** The properties hold only when nothing is under way. `PeerInv` says what may
be under way: for each connection the pairs of states of its two ends with the words on the way to
each (`LinkState`, the product of the two handshakes), and for each node that its table holds the one
connection it has registered or none while it dials (`Table`). The proof has a lemma per handler, and
each finds the state of the connection in `LinkState` before and after.

Only model-checked:

- liveness (`Progress`, `StoredIsExecuted`, `StopsLoading`, `Reconnects`), out of the
  prover's reach;
- what is true of the checked instances and not in general: `NoFork` (but see `ForkOnlyByRevoting`), `VotesFollowTurn` and
  `RoundAsAgreed` (timers slower than links), `UnwoundFailed` and `KeepsPromise` of `Finality` (one
  race; but see `ForkHasOneOfTwoCauses`);
- everything about execution and the mempool. What the properties of `Execution` compare with is a
  replay of transactions one after the other, which recurs over data; those of
  `Mempool` are about folds of lists.

## What is not modelled, and the plan

Not modelled at all: the VM that runs contracts, cryptography, encodings and sockets, RPC and
scripts. They are pure computation or I/O; the models take what they return as given.
Left out of modelled parts: the mutex keys of the storage (whether taking several can
deadlock is up to the mutex package), the send queue and the clock offsets of a peer, the exchange of
addresses, the inv of transactions, join transactions, transactions with more than one input,
nested calls of nested calls, delegated calls to cached contracts, and everything only the RPC reads.

What could follow, most important first:

1. The awaits inside the handlers of one node (`createBlock`, `commitBlock`, block
   receipt) with their mutex keys, to show that an acceptance is one step, as `Finality`,
   `Execution` and `Mempool` take it, or when it is not.
2. The reading of the storage inside the handlers of `Pipeline` (a queue entry deleted after
   an await, two copies of one block).
3. `PeerLife`: the send queue when a send fails, clock offsets, the exchange of addresses.
4. Proofs: `LocalsAgree` of `Mempool`; that the operators of `Patch` merge in any order.

## Running it

    tlc -workers 2 -config BftStake.cfg MCBft.tla     # any run: its cfg, its MC module
    tlapm BftProofs.tla                               # the proofs; so the other *Proofs
