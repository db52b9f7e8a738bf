------------------------------ MODULE Execution ------------------------------
(***************************************************************************)
(* What executing blocks does to coins and contracts: _execBlock,          *)
(* _processTx and _processContract of src/node/node.js, Application        *)
(* (src/node/app.js), the patches of the pending blocks, and the storage   *)
(* they are applied to with its cache of contracts                         *)
(* (src/storage/storageWithCache.js).                                      *)
(*                                                                         *)
(* One node gets the blocks of all conciliums as they are made, each on    *)
(* what its maker had seen, and makes them final as in PendingBlocks.  The *)
(* code of a contract is the list of the things it does that matter here:  *)
(*   <<"set">>               it changes its data                           *)
(*   <<"send", n>>           send(somebody, n)                             *)
(*   <<"call", a, steps>>    call(a, ...), which does steps                *)
(*   <<"delegate", a, steps>>  delegatecall(a, ...): steps on the caller   *)
(*   <<"throw">>                                                           *)
(* Calls are one level deep and never of the contract that calls, nor of   *)
(* one twice.  Outputs belong to <<kind, n, k>>: those of transaction n,   *)
(* its k-th internal one, the coinbase of block n.                         *)
(***************************************************************************)
EXTENDS PendingBlocks, Patch

CONSTANTS
  TxOf,        \* TxOf[t]: outs, and the contract call in its first output
  Coins0,      \* the coins in the storage at the start
  Contracts0,  \* the contracts in the storage at the start
  Big,         \* contracts larger than CONTRACT_MIN_CASHING_SIZE
  FeesOf,      \* FeesOf[c]: the fees in the definition of concilium c, by their names
  DefaultFees, \* Constants.fees
  Local,       \* transactions that the node executes itself, too (its users', its proposals')
  MaxTxns,     \* bound: transactions in all blocks
  MaxAhead,    \* bound: blocks made and not received
  MaxBlocks    \* bound: MaxBlocks[T]: blocks ever made, when their transactions are of T

\* addr is "" when the first output is no contract's.  A large contract that code is
\* delegated to would keep the balance of its caller in the cache: left out.
ASSUME ExecutionAssumption ==
  /\ {MaxTxns, MaxAhead} \subseteq Nat
  /\ {"size", "create", "invoke", "send", "storage"} = DOMAIN DefaultFees
  /\ \A c \in Conciliums : DOMAIN FeesOf[c] \subseteq DOMAIN DefaultFees
  /\ \A t \in Txns : {"outs", "creates", "addr", "value", "steps", "change"} = DOMAIN TxOf[t]
  /\ DOMAIN Contracts0 \cup Big \subseteq DOMAIN ConciliumOfContract
  /\ Local \subseteq Txns
  /\ DOMAIN MaxBlocks \subseteq SUBSET Txns /\ \A T \in DOMAIN MaxBlocks : MaxBlocks[T] \in Nat
  /\ \A t \in Txns : \A s \in ToSet(TxOf[t].steps) : s[1] = "delegate" => s[2] \notin Big

VARIABLES
  patch,       \* patch[b]: the patch of pending block b
  store,       \* the storage: coins and contracts
  cache,       \* _cachedContracts
  topStable,   \* _topStable
  final,       \* final blocks
  lost,        \* blocks that were found bad or rolled back
  overtaken,   \* history: a pending block missed what a final one made of a contract
  stale        \* history: a block was executed on a cached contract that is not the stored one

vars == <<made, patch, store, cache, topStable, final, lost, overtaken, stale>>

Pending == DOMAIN patch

Init ==
  /\ made = << >>
  /\ patch = Empty
  /\ store = [coins |-> Coins0, contracts |-> Contracts0]
  /\ cache = Empty
  /\ topStable = {Genesis}
  /\ final = {} /\ lost = {}
  /\ overtaken = FALSE /\ stale = FALSE

-----------------------------------------------------------------------------
(***************************************************************************)
(* Fees.  A transaction has the size of one Kbyte, and a contract that     *)
(* changes its data has them grow by one byte.                             *)
(***************************************************************************)
\* What the definition of the concilium of t says; nothing and zero are the same.
FeeOf(t, kind) ==
  LET own == At(FeesOf[ConciliumOf[t]], kind, 0)
  IN  IF own # 0 THEN own ELSE DefaultFees[kind]

SizeFee(t) == FeeOf(t, "size")
CreateFee(t) == FeeOf(t, "create")
InvokeFee(t) == FeeOf(t, "invoke")
SendFee(t) == FeeOf(t, "send")
StorageFee(t) == FeeOf(t, "storage")

-----------------------------------------------------------------------------
(***************************************************************************)
(* A contract at work.  r.ok: nothing was thrown; r.left: _nCoinsLimit;    *)
(* r.patch: patchThisTx; r.self: the contract whose code runs; r.cache;    *)
(* r.delta: _nDataDelta.                                                   *)
(***************************************************************************)
\* Storage.getContract: large contracts come from the cache and enter it.
StoredContract(disk, cached, addr) == At(cached, addr, disk.contracts[addr])

Exists(base, addr) == addr \in DOMAIN base.contracts \cup DOMAIN store.contracts

\* _getContractByAddr: a clone of what the patch of the block has, or the stored one
ContractByAddr(base, cached, addr) ==
  IF addr \in DOMAIN base.contracts THEN base.contracts[addr]
                                    ELSE StoredContract(store, cached, addr)

\* The object of the cache is the one that was worked on, whatever came of it.
KeepInCache(base, cached, addr, contract) ==
  IF addr \in Big \ DOMAIN base.contracts THEN (addr :> contract) @@ cached ELSE cached

\* _createInternalTx
InternalOf(p, t) == {h \in DOMAIN p.coins : h[1] = "int" /\ h[2] = t}
NextInternal(p, t) == <<"int", t, Cardinality(InternalOf(p, t))>>

\* Application._send and _sendCoins
Send(r, t, n) ==
  LET h == NextInternal(r.patch, t)
      paid == [r EXCEPT !.left = @ - SendFee(t)]
  IN  IF r.left < SendFee(t) THEN [r EXCEPT !.ok = FALSE]
      ELSE IF r.self.balance < n THEN [paid EXCEPT !.ok = FALSE]
      ELSE IF n = 0 THEN paid
      ELSE [paid EXCEPT
              !.patch = SetReceipt(SetUtxo(@, h, 0 :> n), t,
                                   [ok |-> TRUE, used |-> 0, internal |-> {h}]),
              !.self.balance = @ - n]

SimpleStep(r, t, step) ==
  CASE ~r.ok              -> r
    [] step[1] = "send"   -> Send(r, t, step[2])
    [] step[1] = "throw"  -> [r EXCEPT !.ok = FALSE]
    [] step[1] = "set"    -> [r EXCEPT !.changed = TRUE]

RunSteps(r, t, steps) == FoldLeft(LAMBDA q, s : SimpleStep(q, t, s), r, steps)

\* runContract: the data are taken over when nothing was thrown.
Updated(r, t) ==
  IF r.ok /\ r.changed
    THEN [r EXCEPT !.self.data = (t :> At(@, t, 0) + 1) @@ @, !.delta = @ + 1]
    ELSE r

Invoke(r, t) ==
  IF r.left < InvokeFee(t) THEN [r EXCEPT !.ok = FALSE]
                           ELSE [r EXCEPT !.left = @ - InvokeFee(t)]

\* _invokeNestedContract: reads the patch of the block, not that of the transaction.
NestedCall(r, t, base, addr, steps) ==
  IF ~Exists(base, addr) THEN [r EXCEPT !.ok = FALSE]
  ELSE LET start == Invoke([r EXCEPT !.changed = FALSE,
                              !.self = ContractByAddr(base, r.cache, addr)], t)
           end == Updated(RunSteps(start, t, steps), t)
       IN  [end EXCEPT
              !.self = r.self, !.changed = r.changed,
              !.cache = KeepInCache(base, @, addr, end.self),
              !.patch = IF end.ok THEN SetContract(@, addr, end.self) ELSE @]

\* The balance and the data are the caller's, the callee is put into the patch as it is.
DelegateCall(r, t, base, addr, steps) ==
  IF ~Exists(base, addr) THEN [r EXCEPT !.ok = FALSE]
  ELSE LET end == RunSteps(Invoke(r, t), t, steps)
           callee == ContractByAddr(base, r.cache, addr)
       IN  [end EXCEPT
              !.cache = KeepInCache(base, @, addr, callee),
              !.patch = IF end.ok THEN SetContract(@, addr, callee) ELSE @]

Step(r, t, base, step) ==
  CASE r.ok /\ step[1] = "call"     -> NestedCall(r, t, base, step[2], step[3])
    [] r.ok /\ step[1] = "delegate" -> DelegateCall(r, t, base, step[2], step[3])
    [] OTHER                        -> SimpleStep(r, t, step)

RunContract(r, t, base) ==
  Updated(FoldLeft(LAMBDA q, s : Step(q, t, base, s), Invoke(r, t), TxOf[t].steps), t)

-----------------------------------------------------------------------------
(***************************************************************************)
(* _processContract: r as above, limit is nMaxCoins.                       *)
(***************************************************************************)
NewContract == [data |-> Empty, balance |-> 0]

\* createContract: what the constructor does is to set the data, or to throw.
CreateContract(r, t) ==
  IF r.left < CreateFee(t) THEN [r EXCEPT !.ok = FALSE]
  ELSE LET done == RunSteps([r EXCEPT !.left = @ - CreateFee(t)], t, TxOf[t].steps)
       IN  [done EXCEPT !.self = NewContract, !.delta = IF done.ok THEN 1 ELSE 0]

Creates(t) == TxOf[t].creates
AddrOf(t) == TxOf[t].addr

Run(base, p, cached, t, limit) ==
  LET r == [ok |-> TRUE, left |-> limit - SizeFee(t), patch |-> p, cache |-> cached,
            changed |-> FALSE, delta |-> 0,
            self |-> IF Creates(t) THEN NewContract
                                   ELSE ContractByAddr(base, cached, AddrOf(t))]
  IN  IF Creates(t) THEN IF AddrOf(t) \in DOMAIN store.contracts
                           THEN [r EXCEPT !.ok = FALSE] ELSE CreateContract(r, t)
      ELSE IF r.left < InvokeFee(t) \/ ConciliumOfContract[AddrOf(t)] # ConciliumOf[t]
        THEN [r EXCEPT !.ok = FALSE]
      ELSE RunContract(r, t, base)

\* patchThisTx.setContract, contract.deposit: on the object that was put in, if it was
Deposited(p, addr, contract, value) ==
  LET own == addr \notin DOMAIN p.contracts
      q == SetContract(p, addr, contract)
  IN  IF own THEN [q EXCEPT !.contracts[addr].balance = @ + value] ELSE q

\* _createContractChange.  The receipt at hand is the one in the patch unless the
\* call sent coins: then it has been merged into the one _sendCoins had put there.
ContractChange(p, t, limit, used, sent) ==
  LET h == NextInternal(p, t)
      q == SetUtxo(p, h, 0 :> limit - used)
  IN  IF ~TxOf[t].change THEN [patch |-> p, fee |-> limit - used]
      ELSE [fee |-> used,
            patch |-> IF limit = used THEN p
                      ELSE IF sent THEN q
                      ELSE [q EXCEPT !.receipts[t].internal = @ \cup {h}]]

\* Mutant: nothing is given back.
KeepsValue(ok, contract, t, maxCoins) == maxCoins

\* A failure gives the value back if there is a contract: one that was called, or one
\* that was created and whose data are too dear.
MayUse(ok, contract, t, maxCoins) ==
  IF ~ok /\ contract THEN maxCoins + TxOf[t].value ELSE maxCoins

\* What is made of r when the contract has run, "Not enough coins to run contract" too.
Settled(base, r, t, maxCoins) ==
  LET used == maxCoins - r.left + r.delta * StorageFee(t)
      ok == r.ok /\ used <= maxCoins
      value == TxOf[t].value
      limit == MayUse(ok, r.ok \/ ~Creates(t), t, maxCoins)
      noted == SetReceipt(r.patch, t, [ok |-> ok, used |-> used, internal |-> {}])
      done == IF ok THEN Deposited(noted, AddrOf(t), r.self, value) ELSE noted
      after == IF ok THEN [r.self EXCEPT !.balance = @ + value] ELSE r.self
      kept == IF Creates(t) THEN r.cache ELSE KeepInCache(base, r.cache, AddrOf(t), after)
      end == IF used > limit THEN [patch |-> done, fee |-> limit]
                             ELSE ContractChange(done, t, limit, used,
                                                 t \in DOMAIN r.patch.receipts)
  IN  [fails |-> FALSE, patch |-> end.patch, fee |-> end.fee, cache |-> kept]

ProcessContract(base, p, cached, t, maxCoins) ==
  Settled(base, Run(base, p, cached, t, maxCoins), t, maxCoins)

-----------------------------------------------------------------------------
(***************************************************************************)
(* _processTx upon the patch base of the block so far.                     *)
(***************************************************************************)
\* The versions of the outputs in the patch and on disk, merged (getUtxosPatch).
OutputsFor(base, h) ==
  LET disk == [NoPatch EXCEPT
                 !.coins = IF h \in DOMAIN store.coins THEN h :> store.coins[h] ELSE Empty]
  IN  IF h \in DOMAIN base.coins THEN Merge(base, disk, FALSE).coins[h]
                                 ELSE At(disk.coins, h, Empty)

IsContract(base, t) ==
  Creates(t) \/ (TxOf[t].addr # "" /\ Exists(base, TxOf[t].addr))

\* processPayments: all outputs but the contract's, zeros are not kept
Payments(p, t, from) ==
  FoldLeft(LAMBDA q, k : IF TxOf[t].outs[k] = 0 THEN q
                         ELSE CreateCoins(q, <<"tx", t, 0>>, k - 1, TxOf[t].outs[k]),
           p, [j \in 1..(Len(TxOf[t].outs) - from) |-> j + from])

\* The contract is looked up before anything else.
LookedUp(base, cached, t) ==
  IF Creates(t) \/ ~IsContract(base, t) THEN cached
  ELSE KeepInCache(base, cached, AddrOf(t), ContractByAddr(base, cached, AddrOf(t)))

ProcessTx(base, cached, t) ==
  LET h == InputOf[t][1]
      i == InputOf[t][2]
      outputs == OutputsFor(base, h)
      contract == IsContract(base, t)
      from == IF contract THEN 1 ELSE 0
      sent == FoldLeft(+, 0, SubSeq(TxOf[t].outs, from + 1, Len(TxOf[t].outs)))
      remaining == outputs[i] - sent - (IF contract THEN TxOf[t].value ELSE 0)
      p == Payments(SpendCoins(NoPatch, outputs, h, i, t), t, from)
  IN  IF i \notin DOMAIN outputs \/ remaining <= SizeFee(t)
        THEN [fails |-> TRUE, patch |-> NoPatch, fee |-> 0, cache |-> LookedUp(base, cached, t)]
      ELSE IF contract THEN ProcessContract(base, p, cached, t, remaining)
      ELSE [fails |-> FALSE, patch |-> p, fee |-> remaining, cache |-> cached]

\* A contract of t comes from the cache, and the storage has another.
ReadsStale(base, cached, t) ==
  LET called == {AddrOf(t)} \cup {s[2] : s \in {q \in ToSet(TxOf[t].steps) : Len(q) = 3}}
  IN  \E addr \in (called \cap DOMAIN cached) \ DOMAIN base.contracts :
        cached[addr] # store.contracts[addr]

\* _execBlock after its parents are merged: one transaction after the other.
AddTx(r, q) ==
  IF q.fails THEN [r EXCEPT !.fails = TRUE, !.cache = q.cache]
  ELSE [r EXCEPT !.patch = Merge(@, q.patch, TRUE), !.fees = @ + q.fee, !.cache = q.cache]

ExecTx(r, t) ==
  IF r.fails THEN r
  ELSE [AddTx(r, ProcessTx(r.patch, r.cache, t)) EXCEPT
          !.stale = @ \/ ReadsStale(r.patch, r.cache, t)]

\* _processBlockCoinbaseTX
WithCoinbase(p, b, fees) ==
  IF fees = 0 THEN p ELSE CreateCoins(p, <<"cb", b, 0>>, 0, fees)

\* mergePatches: the patch of each pending parent, merged with what came before it
MergePatches(patches, order) ==
  FoldLeft(LAMBDA p, b : IF b \in DOMAIN patches THEN Merge(patches[b], p, FALSE) ELSE p,
           NoPatch, order)

MergeThrows(patches, order) ==
  \E k \in DOMAIN order :
    /\ order[k] \in DOMAIN patches
    /\ MergeFails(patches[order[k]], MergePatches(patches, SubSeq(order, 1, k - 1)))

ExecBlock(c, b, order, txns) ==
  LET start == [fails |-> MergeThrows(patch, order), fees |-> 0, cache |-> cache, stale |-> FALSE,
                patch |-> SetConciliumId(MergePatches(patch, order), c)]
      r == FoldLeft(ExecTx, start, txns)
  IN  [r EXCEPT !.patch = WithCoinbase(@, b, r.fees)]

-----------------------------------------------------------------------------
(***************************************************************************)
(* A concilium makes a block on what its witness has seen: blocks with all *)
(* that is below them, among them its own.  What is final and pending for  *)
(* the witness is told by the transactions of its blocks.                  *)
(***************************************************************************)
\* b and all the blocks below it, the final ones too (kept with b as it is made)
Ancestry(b) == IF b = Genesis THEN {} ELSE {b} \cup made[b].below
TxnsOf(B) == UNION {made[b].txns : b \in B}
History(B) == TxnsOf(UNION {Ancestry(b) : b \in B})

Seen(c) ==
  {V \in SUBSET (Block \ lost) :
     /\ (UNION {made[b].seen \cup {b} : b \in {a \in Block : made[a].concilium = c}}) \ lost
           \subseteq V
     /\ \A b \in V : made[b].parents \subseteq V \cup lost \cup {Genesis}}

FinalFor(V) == FindAlsoStable(V, UNION {FindTopStable(V, v) : v \in V})

PendingFor(V) ==
  LET rest == V \ FinalFor(V)
      unwound == {v \in Tips(rest) : Conflict(History({v}), TxnsOf(FinalFor(V)))}
  IN  rest \ UNION {Below(rest, v) : v \in unwound}

\* getBestParents with pending blocks P, in the order they are merged
BestParentsIn(P, c) ==
  LET histories == [b \in P |-> History({b})]
  IN  {SelectSeq(s, LAMBDA b : b \in MergeInOrder(histories, s)) : s \in SortTips(P, c)}

ParentsOf(c, V) ==
  IF V = {} THEN {<<Genesis>>}
  ELSE IF PendingFor(V) = {} THEN SetToSeqs(Tips(FinalFor(V)))
  ELSE BestParentsIn(PendingFor(V), c)

\* The outputs are there for the witness: created before, and spent by nobody.
Creator(h) == IF h[1] = "tx" /\ h[2] # 0 THEN {h[2]} ELSE {}
Spendable(T, list) ==
  \A k \in DOMAIN list :
    LET before == T \cup {list[j] : j \in 1..(k - 1)}
    IN  /\ Creator(InputOf[list[k]][1]) \subseteq before
        /\ \A t \in before : InputOf[t] # InputOf[list[k]]

\* A transaction of b spends what only a block that is not below b creates.
Rootless(b) == \E t \in made[b].txns : ~(Creator(InputOf[t][1]) \subseteq History({b}))

Used == FoldLeft(LAMBDA n, h : n + Cardinality(h.txns), 0, made)

\* The transactions that have come up, in blocks or by changing a cached contract, are of
\* one set, with which another block may be made.
CameUp == TxnsOf(Block) \cup UNION {DOMAIN cache[addr].data : addr \in DOMAIN cache}
GoOn == {T \in DOMAIN MaxBlocks : CameUp \subseteq T /\ Len(made) < MaxBlocks[T]}

ListsOf(T) ==
  {list \in UNION {[1..n -> T] : n \in 0..(MaxTxns - Used)} : IsInjective(list)}
TxLists(c) == UNION {ListsOf({t \in T : ConciliumOf[t] = c}) : T \in GoOn}

-----------------------------------------------------------------------------
(***************************************************************************)
(* The node accepts the block (_acceptBlock, _processFinalityResults).     *)
(***************************************************************************)
\* applyPatch: empty outputs are deleted, contracts are overwritten.
ApplyPatch(p) ==
  store' = [coins |-> LET all == p.coins @@ store.coins
                      IN  Restrict(all, {h \in DOMAIN all : all[h] # Empty}),
            contracts |-> p.contracts @@ store.contracts]

\* what is left of the patches of B
PatchesLeft(patches, B, apply) == [v \in B |-> Purged(patches[v], apply)]

\* Mutant: branches that do not have what becomes final count as conflicting.
UnwoundAll(rest, patches, b, apply) ==
  UNION {Below(rest, tip) : tip \in Tips(rest) \ {b}}

\* _removeConflictingBranches, with the patches as they are
Unwound(rest, patches, b, apply) ==
  UNION {Below(rest, tip) : tip \in {v \in Tips(rest) \ {b} : MergeFails(patches[v], apply)}}

\* A contract of p has blocks of its concilium among those that become final, and one
\* of the blocks that stay is not above them all.
Overtakes(p, stable, rest) ==
  \E addr \in DOMAIN p.contracts, s \in stable, v \in rest :
    made[s].concilium = ConciliumOfContract[addr] /\ s \notin Ancestry(v)

\* The version of a contract that is purged has the data that are applied and another
\* balance.
LosesBalance(patches, rest, apply) ==
  \E v \in rest : \E addr \in DOMAIN patches[v].contracts \cap DOMAIN apply.contracts :
    /\ patches[v].contracts[addr].data = apply.contracts[addr].data
    /\ patches[v].contracts[addr] # apply.contracts[addr]

AcceptBlock(b, patches) ==
  LET V == DOMAIN patches
      tops == FindTopStable(V, b)
      stable == FindAlsoStable(V, tops)
  IN  IF tops = {}
        THEN /\ patch' = patches
             /\ UNCHANGED <<store, topStable, final, lost, overtaken>>
      ELSE \E order \in SetToSeqs(tops) :
             IF MergeThrows(patches, order)
               THEN /\ patch' = patches /\ lost' = lost \cup {b}
                    /\ UNCHANGED <<store, topStable, final, overtaken>>
             ELSE LET apply == MergePatches(patches, order)
                      rest == V \ stable
                      rollback == Unwound(rest, patches, b, apply)
                  IN  /\ patch' = PatchesLeft(patches, rest \ rollback, apply)
                      /\ ApplyPatch(apply)
                      /\ topStable' = tops
                      /\ final' = final \cup stable
                      /\ lost' = lost \cup rollback
                      /\ overtaken' = \/ overtaken
                                       \/ Overtakes(apply, stable, rest \ rollback)
                                       \/ LosesBalance(patches, rest \ rollback, apply)

\* Blocks the node has not got yet, or waits for the parents of
Coming == Block \ (Pending \cup final \cup lost)

MakeBlock(c) ==
  /\ GoOn # {} /\ Cardinality(Coming) < MaxAhead
  /\ \E V \in Seen(c) : \E order \in ParentsOf(c, V) : \E list \in TxLists(c) :
       /\ Spendable(History(ToSet(order)) \cup TxnsOf(FinalFor(V)), list)
       /\ list = << >> => IsReasonToWitness(PendingFor(V), ToSet(order), c)
       /\ made' = Append(made, [concilium |-> c, parents |-> ToSet(order), order |-> order,
                                txns |-> ToSet(list), list |-> list, coinbase |-> 0, seen |-> V,
                                below |-> UNION {Ancestry(a) : a \in ToSet(order)}])
  /\ UNCHANGED <<patch, store, cache, topStable, final, lost, overtaken, stale>>

\* "Block refer to bad parent", or the execution throws: the cached contracts it worked
\* on stay as they are.
RefuseBlock(b, cached) ==
  /\ lost' = lost \cup {b} /\ cache' = cached
  /\ UNCHANGED <<made, patch, store, topStable, final, overtaken, stale>>

FinishExec(b, r) ==
  IF r.fails THEN RefuseBlock(b, r.cache)
  ELSE /\ AcceptBlock(b, patch @@ (b :> r.patch))
       /\ made' = [made EXCEPT ![b].coinbase = r.fees]
       /\ cache' = r.cache /\ stale' = (stale \/ r.stale)

ReceiveBlock(b) ==
  /\ made[b].parents \cap Coming = {}
  /\ IF made[b].parents \cap lost # {} THEN RefuseBlock(b, cache)
     ELSE FinishExec(b, ExecBlock(made[b].concilium, b, made[b].order, made[b].list))

\* A transaction of the user is executed upon the storage (_acceptLocalTx), one for a
\* block of the node's own upon the best parents (_createBlock).  The patch goes its own
\* way: Mempool has that of the user's, and a block with contracts is executed again
\* before it is accepted.  Bound: t is not tried when a cached contract has its change.
TryLocally(t) ==
  /\ t \in UNION GoOn
  /\ \A addr \in DOMAIN cache : t \notin DOMAIN cache[addr].data
  /\ \E base \in {NoPatch} \cup {MergePatches(patch, s) : s \in BestParentsIn(Pending, ConciliumOf[t])} :
       cache' = ProcessTx(base, cache, t).cache
  /\ UNCHANGED <<made, patch, store, topStable, final, lost, overtaken, stale>>

Next ==
  \/ \E c \in Conciliums : MakeBlock(c)
  \/ \E b \in Coming : ReceiveBlock(b)
  \/ \E t \in Local : TryLocally(t)

Spec == Init /\ [][Next]_vars

-----------------------------------------------------------------------------
(***************************************************************************)
(* What the coins and the contracts should be: the transactions replayed.  *)
(***************************************************************************)
\* the first output of a call belongs to the contract
Paid(t) ==
  LET from == IF TxOf[t].addr # "" THEN 1 ELSE 0
  IN  [k \in {j - 1 : j \in {n \in DOMAIN TxOf[t].outs : n > from /\ TxOf[t].outs[n] # 0}} |->
         TxOf[t].outs[k + 1]]

\* outputs of transactions and of coinbases, each with its amount
Created(T, B) ==
  UNION {{<<<<"tx", t, 0>>, i, Paid(t)[i]>> : i \in DOMAIN Paid(t)} : t \in T}
    \cup {<<<<"cb", b, 0>>, 0, made[b].coinbase>> : b \in {a \in B : made[a].coinbase # 0}}

CoinsIn(coins) == UNION {{<<h, i, coins[h][i]>> : i \in DOMAIN coins[h]} : h \in DOMAIN coins}

Replayed(B) ==
  {o \in CoinsIn(Coins0) \cup Created(TxnsOf(B), B) :
     <<o[1], o[2]>> \notin {InputOf[t] : t \in TxnsOf(B)}}

NotInternal(O) == {o \in O : o[1][1] # "int"}

\* what a transaction of a block on b finds
CoinsSeen(b) ==
  CoinsIn([h \in DOMAIN patch[b].coins \cup DOMAIN store.coins |-> OutputsFor(patch[b], h)])
StateSeen(b, addr) == At(patch[b].contracts @@ store.contracts, addr, NewContract)

\* A call is replayed step by step, up to where its code throws; what else can make it
\* fail is that it is of another concilium, or that its data are too dear.
Starting == {t \in Txns : Creates(t) \/ (AddrOf(t) # "" /\ ConciliumOfContract[AddrOf(t)] = ConciliumOf[t])}
Throwing == {t \in Txns : <<"throw">> \in ToSet(TxOf[t].steps)}

Ran == [t \in Txns |->
  LET steps == TxOf[t].steps
  IN  IF t \notin Starting THEN << >>
      ELSE IF t \in Throwing
        THEN SubSeq(steps, 1, Min({k \in DOMAIN steps : steps[k] = <<"throw">>}) - 1)
      ELSE steps]

\* the steps with the balance and the data of the contract that is called, and those of
\* the contracts it calls
OwnSteps == [t \in Txns |->
  FlattenSeq([k \in DOMAIN Ran[t] |->
    CASE Ran[t][k][1] = "call"     -> << >>
      [] Ran[t][k][1] = "delegate" -> Ran[t][k][3]
      [] OTHER                     -> <<Ran[t][k]>>])]
NestedSteps == [t \in Txns |-> [addr \in DOMAIN ConciliumOfContract |->
  FlattenSeq([k \in DOMAIN Ran[t] |->
    IF Ran[t][k][1] = "call" /\ Ran[t][k][2] = addr THEN Ran[t][k][3] ELSE << >>])]]

Sets(steps) == <<"set">> \in ToSet(steps)
Times(steps, kind) == Len(SelectSeq(steps, LAMBDA s : s[1] = kind))
SentBy(steps) == FoldLeft(LAMBDA n, s : IF s[1] = "send" THEN n + s[2] ELSE n, 0, steps)

\* what t costs (coinsUsed), and what it may cost (nMaxCoins)
Cost == [t \in Txns |->
  LET nested == NestedSteps[t]
      calls == 1 + Times(Ran[t], "call") + Times(Ran[t], "delegate")
      sends == Times(OwnSteps[t], "send")
                 + MapThenSumSet(LAMBDA addr : Times(nested[addr], "send"), DOMAIN nested)
      grows == Cardinality({addr \in DOMAIN nested : Sets(nested[addr])})
                 + (IF Sets(OwnSteps[t]) /\ t \notin Throwing THEN 1 ELSE 0)
  IN  SizeFee(t) + IF Creates(t) THEN CreateFee(t) + StorageFee(t)
                   ELSE IF t \notin Starting THEN 0
                   ELSE InvokeFee(t) * calls + SendFee(t) * sends + StorageFee(t) * grows]
Offered == [t \in Txns |->
  LET h == InputOf[t][1]
  IN  (IF h \in DOMAIN Coins0 THEN Coins0[h] ELSE Paid(h[2]))[InputOf[t][2]]
        - FoldLeft(+, 0, TxOf[t].outs)]

Failing == {t \in Txns : AddrOf(t) # "" /\
              (t \notin Starting \/ t \in Throwing \/ Cost[t] > Offered[t])}

\* what the calls in the blocks of B make of a contract: those that succeed, and what
\* was called by those that fail later
Should(B, addr) ==
  LET T == TxnsOf(B)
      own == {t \in T \ Failing : AddrOf(t) = addr}
      sets == {t \in own : Sets(OwnSteps[t])} \cup {t \in T : Sets(NestedSteps[t][addr])}
  IN  [data |-> [t \in sets |-> 1],
       balance |-> At(Contracts0, addr, NewContract).balance
                     + MapThenSumSet(LAMBDA t : TxOf[t].value - SentBy(OwnSteps[t]), own)
                     - MapThenSumSet(LAMBDA t : SentBy(NestedSteps[t][addr]), T)]

\* Coins out of nothing: a call sends them, and fails before it is charged.
Conjured(T) == MapThenSumSet(LAMBDA t : SentBy(OwnSteps[t]), T \cap Failing)

\* Coins that are nobody's: what a call costs that names no receiver of the change.
NoReceiver == {t \in Txns : AddrOf(t) # "" /\ ~TxOf[t].change}
Uncharged == {t \in NoReceiver : Cost[t] <= Offered[t] + (IF t \in Failing THEN TxOf[t].value ELSE 0)}
Vanished(T) == MapThenSumSet(LAMBDA t : Cost[t], T \cap Uncharged)

\* The blocks of concilium c stand on one another.
InLine(c) ==
  \A a, b \in Block \ lost :
    made[a].concilium = c /\ made[b].concilium = c /\ a < b => a \in Ancestry(b)

Total(O) == MapThenSumSet(LAMBDA o : o[3], O)
Balances(contracts) == MapThenSumSet(LAMBDA a : contracts[a].balance, DOMAIN contracts)
Supply == Total(CoinsIn(Coins0)) + Balances(Contracts0)

-----------------------------------------------------------------------------
(***************************************************************************)
(* Properties.                                                             *)
(***************************************************************************)
\* However blocks were merged, purged and applied (PatchDB.merge, purge, applyPatch), a
\* block upon b finds the outputs that the transactions below b and the final ones have
\* left, no other and each with its amount; so does one upon the storage alone.
CoinsAreReplay ==
  /\ NotInternal(CoinsIn(store.coins)) = Replayed(final)
  /\ \A b \in Pending : NotInternal(CoinsSeen(b)) = Replayed(Ancestry(b) \cup final)

\* Two pending blocks can be merged (PatchDB.merge) exactly when no output is spent by
\* different transactions of theirs, though purge has taken parts of both patches away.
MergeAgrees ==
  \A a, b \in Pending : a < b =>
    (MergeThrows(patch, <<a, b>>) <=> Conflict(History({a}), History({b})))

\* The blocks of honest conciliums are turned down or rolled back (_execBlock,
\* _removeConflictingBranches) for one of two reasons, theirs or of a block upon them:
\* an output they spend is spent by a final transaction, or it was created by one that
\* was final for the maker and is not below them.  None of them is final.
LostForCause ==
  \A b \in lost : b \notin final /\ \E d \in Block :
    /\ b \in Ancestry(d)
    /\ Conflict(History({d}), TxnsOf(final)) \/ Rootless(d)

\* The state of a contract, in the storage and seen from pending block b.
Replays(addr) ==
  /\ At(store.contracts, addr, NewContract) = Should(final, addr)
  /\ \A b \in Pending : StateSeen(b, addr) = Should(Ancestry(b) \cup final, addr)

InLineContracts == {addr \in DOMAIN ConciliumOfContract : InLine(ConciliumOfContract[addr])}

\* The state of a contract is what its calls make of it, none lost and none twice
\* (_processContract, merge, purge), as long as the blocks of its concilium stand on one
\* another, no pending block was overtaken by a final one, and no block was executed on
\* a cached contract that is not the stored one.
ContractIsReplay ==
  ~overtaken /\ ~stale => \A addr \in InLineContracts : Replays(addr)

\* Under the same conditions payments, fees, coinbases, what contracts get, send and give
\* back add up to what there was at the start.  Coins appear only when a call fails after
\* it sent some (_sendCoins: the output stays in the patch, and the balance is that of
\* before), and vanish only with a call that names no receiver of the change
\* (_createContractChange: what it cost is neither fee nor change).
CoinsConserved ==
  ~overtaken /\ ~stale /\ (\A c \in Conciliums : InLine(c)) =>
    /\ Total(CoinsIn(store.coins)) + Balances(store.contracts)
         = Supply + Conjured(TxnsOf(final)) - Vanished(TxnsOf(final))
    /\ \A b \in Pending :
         LET T == TxnsOf(Ancestry(b) \cup final)
         IN  Total(CoinsSeen(b)) + Balances(patch[b].contracts @@ store.contracts)
               = Supply + Conjured(T) - Vanished(T)

=============================================================================
