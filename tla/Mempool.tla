------------------------------- MODULE Mempool -------------------------------
(***************************************************************************)
(* The transactions a node holds (src/node/mempool.js), and what the       *)
(* handlers of transactions and the acceptance of blocks                   *)
(* (src/node/node.js, src/node/witness.js) do to them.                     *)
(*                                                                         *)
(* The node is that of a witness.  Transactions come from peers or from    *)
(* its own user, blocks from all conciliums, each made on what the node    *)
(* had seen when it was made.  Blocks become final, and are rolled back,   *)
(* as in PendingBlocks.  A transaction has one output here.                *)
(***************************************************************************)
EXTENDS PendingBlocks

CONSTANTS
  CreatorOf,   \* CreatorOf[t]: the transaction whose output t spends, or Genesis
  Preferred,   \* the conciliums of the witness (_setPreferredConciliums)
  Own,         \* transactions the user of the node may send
  MaxTxns,     \* MEMPOOL_TX_QTY
  MaxAhead,    \* bound: blocks made and not received
  MaxBlocks    \* bound: blocks ever made

ASSUME MempoolAssumption ==
  /\ {MaxTxns, MaxAhead, MaxBlocks} \subseteq Nat
  /\ CreatorOf \in [Txns -> Txns \cup {Genesis}] /\ Genesis \notin Txns
  /\ Preferred \subseteq Conciliums /\ Own \subseteq Txns

VARIABLES
  patch,       \* patch[b]: the transactions in the patch of pending block b
  topStable,   \* _topStable
  store,       \* the transactions applied to the storage
  final,       \* final blocks
  gone,        \* blocks that were found bad or rolled back
  pool,        \* _mapConcilimTxns: all maps in one sequence, as the entries arrived
  local,       \* _mapLocalTxns, and the file it is dumped to
  bad,         \* _mapBadTxnsHash
  best,        \* the transactions of _objCurrentBestParents, or Nothing
  localPatch,  \* the transactions of _patchLocalTxns, or Nothing
  calling      \* the transaction in _acceptLocalTx, which waits for 'blockExec'

chainVars == <<patch, topStable, store, final, gone>>
poolVars == <<pool, local, bad>>
vars == <<made, chainVars, poolVars, best, localPatch, calling>>

Nothing == {Genesis}   \* a cached value that is not there

Pending == DOMAIN patch
Coming == Block \ (Pending \cup final \cup gone)

Init ==
  /\ made = << >>
  /\ patch = << >> /\ topStable = {Genesis} /\ store = {} /\ final = {} /\ gone = {}
  /\ pool = << >> /\ local = << >> /\ bad = {}
  /\ best = Nothing /\ localPatch = Nothing
  /\ calling = {}

-----------------------------------------------------------------------------
(***************************************************************************)
(* The mempool.  held: [pool, local, bad].                                 *)
(***************************************************************************)
Held == [pool |-> pool, local |-> local, bad |-> bad]

Only(s, C) == SelectSeq(s, LAMBDA t : ConciliumOf[t] \in C)
Without(s, T) == SelectSeq(s, LAMBDA t : t \notin T)

\* _calcSize, _calcPrefferedSize
SizeOf(s, C) == Len(Only(s, C))

HasTx(held, t) == t \in ToSet(held.pool) \cup ToSet(held.local) \cup held.bad

\* Mutant: rounds down.
RoundDown(n, d) == n \div d

\* Math.round of n / d
Round(n, d) == (2 * n + d) \div (2 * d)

\* _purgeMaps: the oldest of each map, in proportion
PurgeMaps(s, C, desired) ==
  LET size == SizeOf(s, C)
      count(c) == Round((size - desired) * SizeOf(s, {c}), size)
      oldest(c) == {Only(s, {c})[k] : k \in {j \in 1..SizeOf(s, {c}) : j <= count(c)}}
  IN  IF size = 0 THEN s ELSE Without(s, UNION {oldest(c) : c \in C})

LimitConstraints(s) ==
  LET preferred == SizeOf(s, Preferred)
      others == Conciliums \ Preferred
      trimmed == (2 * Len(s)) \div 3
  IN  IF Len(s) < MaxTxns THEN s
      ELSE IF Preferred = {} THEN PurgeMaps(s, Conciliums, trimmed)
      ELSE IF preferred < MaxTxns THEN PurgeMaps(s, others, MaxTxns - preferred)
      ELSE Only(PurgeMaps(s, Preferred, trimmed), Preferred)

AddTx(s, t) == Append(LimitConstraints(s), t)

\* A transaction that is there already keeps its place.
AddLocalTx(l, t) == IF t \in ToSet(l) THEN l ELSE Append(l, t)

\* getFinalTxns: all there is of concilium c
FinalTxns(held, c) == Only(held.pool, {c}) \o Only(held.local, {c})

\* removeTxns: of two copies the local one goes.
RemoveTxns(held, list) ==
  FoldLeft(LAMBDA h, t : IF t \in ToSet(h.local)
                           THEN [h EXCEPT !.local = Without(@, {t})]
                           ELSE [h EXCEPT !.pool = Without(@, {t})],
           held, list)

-----------------------------------------------------------------------------
(***************************************************************************)
(* Transactions upon the patches B and the storage S.                      *)
(***************************************************************************)
\* checkTxCollision: there are outputs of t in the storage.
Collides(t, S) == t \in S /\ \A u \in S : CreatorOf[u] # t

\* processTxInputs.  Outputs that are spent on disk are gone from there; the patches
\* may still have them.
FindsInputs(t, B, S) ==
  /\ \A u \in B : InputOf[u] # InputOf[t]
  /\ \/ CreatorOf[t] \in B
     \/ /\ CreatorOf[t] \in S \cup {Genesis}
        /\ \A u \in S : InputOf[u] # InputOf[t]

\* getBestParents for no concilium
BestPatches(patches, tops) ==
  {Merged(patches, B) : B \in BestParents(DOMAIN patches, patches, Genesis, tops)}

\* _ensureBestBlockValid
EnsureBest(patches, tops) == IF best = Nothing THEN BestPatches(patches, tops) ELSE {best}

\* _processReceivedTx, with what _validateTxLight compares to
ProcessReceivedTx(held, t, B, S) ==
  IF HasTx(held, t) THEN held
  ELSE IF Collides(t, S) \/ ~FindsInputs(t, B, S)
    THEN [held EXCEPT !.bad = @ \cup {t}]
  ELSE [held EXCEPT !.pool = AddTx(@, t)]

Becomes(held) == pool' = held.pool /\ local' = held.local /\ bad' = held.bad

\* _handleTxMessage
HandleTx(t) ==
  /\ ~HasTx(Held, t)
  /\ \E B \in EnsureBest(patch, topStable) :
       /\ Becomes(ProcessReceivedTx(Held, t, B, store))
       /\ best' = IF Collides(t, store) THEN best ELSE B
  /\ UNCHANGED <<made, chainVars, localPatch, calling>>

-----------------------------------------------------------------------------
(***************************************************************************)
(* _acceptLocalTx.                                                         *)
(***************************************************************************)
\* One call at a time; in between anything else may happen.
CallLocalTx(t) ==
  /\ calling = {} /\ ~HasTx(Held, t)
  /\ calling' = {t}
  /\ UNCHANGED <<made, chainVars, poolVars, best, localPatch>>

\* _ensureLocalTxnsPatch
EnsureLocal(l) == IF localPatch = Nothing THEN ToSet(l) ELSE localPatch

\* Mutant: accepts what spends an output that another local transaction spends.
MayAddLocalAlways(t, others) == FindsInputs(t, {}, store)

\* _processTx upon the storage alone, and the merge with the other local transactions
MayAddLocal(t, others) == FindsInputs(t, {}, store) /\ ~Conflict({t}, others)

AcceptLocalTx(t) ==
  LET others == EnsureLocal(local)
  IN  /\ t \in calling /\ calling' = {}
      /\ \E B \in EnsureBest(patch, topStable) :
           LET held == ProcessReceivedTx(Held, t, B, store)
           IN  /\ best' = IF HasTx(Held, t) \/ Collides(t, store) THEN best ELSE B
               /\ IF ~HasTx(Held, t) /\ t \in held.bad
                    THEN /\ bad' = held.bad
                         /\ localPatch' = others /\ UNCHANGED local
                  ELSE IF ~MayAddLocal(t, others)
                    THEN localPatch' = others /\ UNCHANGED <<local, bad>>
                  ELSE /\ local' = AddLocalTx(local, t)
                       /\ localPatch' = others \cup {t} /\ UNCHANGED bad
      /\ UNCHANGED <<made, chainVars, pool>>

-----------------------------------------------------------------------------
(***************************************************************************)
(* Blocks.                                                                 *)
(***************************************************************************)
\* The transactions of list one after the other: those that can be executed on base.
Processed(base, list) ==
  FoldLeft(LAMBDA r, t : IF FindsInputs(t, base \cup ToSet(r.good), store)
                           THEN [r EXCEPT !.good = Append(@, t)]
                           ELSE [r EXCEPT !.failed = Append(@, t)],
           [good |-> << >>, failed |-> << >>], list)

NewBlock(c, parents, list) ==
  Append(made, [concilium |-> c, parents |-> parents, list |-> list, txns |-> ToSet(list)])

MayMake == Len(made) < MaxBlocks /\ Cardinality(Coming) < MaxAhead

\* _createBlock, of a concilium of the witness: what fails is removed, whether or not
\* the block is worth anything; it may run out of time.
CreateBlock(c) ==
  LET list == FinalTxns(Held, c)
  IN  /\ MayMake
      /\ \E parents \in BestParents(Pending, patch, c, topStable), n \in 0..Len(list) :
           LET r == Processed(Merged(patch, parents), SubSeq(list, 1, n))
               worth == r.good # << >> \/ IsReasonToWitness(Pending, parents, c)
           IN  /\ n < Len(list) => r.good # << >> /\ Last(r.good) = list[n]
               /\ made' = IF worth THEN NewBlock(c, parents, r.good) ELSE made
               /\ Becomes(RemoveTxns(Held, r.failed))
      /\ UNCHANGED <<chainVars, best, localPatch, calling>>

\* Another witness makes a block on what this node has seen too.
MakeBlock(c) ==
  /\ MayMake
  /\ \E parents \in BestParents(Pending, patch, c, topStable),
        T \in SUBSET {t \in Txns : ConciliumOf[t] = c} :
       \E list \in SetToSeqs(T) :
         /\ Processed(Merged(patch, parents), list).failed = << >>
         /\ T = {} => IsReasonToWitness(Pending, parents, c)
         /\ made' = NewBlock(c, parents, list)
  /\ UNCHANGED <<chainVars, poolVars, best, localPatch, calling>>

\* Mutant: two transactions of each block are left out, not the coinbase alone.
UnwindWithoutFirst(held, blocks, B, S) ==
  FoldLeft(LAMBDA h, t : ProcessReceivedTx(h, t, B, S), held,
           FlattenSeq([k \in DOMAIN blocks |->
                         SubSeq(made[blocks[k]].list, 2, Len(made[blocks[k]].list))]))

\* _unwindBlock of every block, of the transactions of each in their order
Unwind(held, blocks, B, S) ==
  FoldLeft(LAMBDA h, t : ProcessReceivedTx(h, t, B, S), held,
           FlattenSeq([k \in DOMAIN blocks |-> made[blocks[k]].list]))

\* _postAcceptBlock.  A computation of the best parents that is under way ends later
\* and is kept for those of now.
ForgetBest == best' \in {Nothing} \cup EnsureBest(patch, topStable)

\* _acceptBlock, _processFinalityResults.  When the top stable blocks can not be merged
\* the block has been added and is found bad.
AcceptBlock(b, patches) ==
  LET V == DOMAIN patches
      tops == FindTopStable(V, b)
      throws == ConflictAmong(patches, tops)
      apply == Merged(patches, tops)
      stable == FindAlsoStable(V, tops)
      rollback == ConflictingBranches(V \ stable, patches, b, apply)
      left == [v \in V \ (stable \cup rollback) |-> Purge(patches[v], apply)]
      held == RemoveTxns(Held, made[b].list)
  IN  IF tops = {} \/ throws
        THEN /\ patch' = patches
             /\ Becomes(held)
             /\ localPatch' = Nothing
             /\ IF throws THEN UNCHANGED best ELSE ForgetBest
             /\ gone' = IF throws THEN gone \cup {b} ELSE gone
             /\ UNCHANGED <<topStable, store, final>>
      ELSE /\ patch' = left /\ topStable' = tops
           /\ store' = store \cup apply
           /\ final' = final \cup stable /\ gone' = gone \cup rollback
           /\ localPatch' = ToSet(held.local)
           /\ \E blocks \in SetToSeqs(rollback),
                 B \in EnsureBest(left, tops) :
                Becomes(Unwind(held, blocks, B, store'))
           /\ ForgetBest

\* _processBlock, once the parents are executed or found bad
ReceiveBlock(b) ==
  LET base == Merged(patch, made[b].parents)
      fails == \/ made[b].parents \cap gone # {}
               \/ ConflictAmong(patch, made[b].parents)
               \/ \E t \in made[b].txns : Collides(t, store)
               \/ Processed(base, made[b].list).failed # << >>
  IN  /\ made[b].parents \cap Coming = {}
      /\ IF fails
           THEN /\ gone' = gone \cup {b}
                /\ UNCHANGED <<patch, topStable, store, final, poolVars, best, localPatch>>
           ELSE AcceptBlock(b, AddBlock(patch, b, base \cup made[b].txns))
      /\ UNCHANGED <<made, calling>>

-----------------------------------------------------------------------------
\* purgeOutdated: the oldest entries, and any of the bad hashes
PurgeOutdated ==
  /\ \E n \in 0..Len(pool), B \in SUBSET bad :
       /\ n > 0 \/ B # {}
       /\ pool' = SubSeq(pool, n + 1, Len(pool))
       /\ bad' = bad \ B
  /\ UNCHANGED <<made, chainVars, local, best, localPatch, calling>>

\* Only local transactions are on disk.  After the blocks they are loaded and executed.
Restart ==
  LET loaded == SelectSeq(local, LAMBDA t : FindsInputs(t, {}, store))
  IN  /\ pool' = << >> /\ bad' = {} /\ best' = Nothing /\ calling' = {}
      /\ local' = loaded /\ localPatch' = ToSet(loaded)
      /\ UNCHANGED <<made, chainVars>>

Next ==
  \/ \E t \in Txns : HandleTx(t)
  \/ \E t \in Own : CallLocalTx(t) \/ AcceptLocalTx(t)
  \/ \E c \in Preferred : CreateBlock(c)
  \/ \E c \in Conciliums \ Preferred : MakeBlock(c)
  \/ \E b \in Coming : ReceiveBlock(b)
  \/ PurgeOutdated \/ Restart

Spec == Init /\ [][Next]_vars

-----------------------------------------------------------------------------
(***************************************************************************)
(* Properties.                                                             *)
(***************************************************************************)
\* No transaction is twice in the maps of the pool or among the local ones, and a witness
\* of one concilium holds no more than the limit, one that came when it was reached, and
\* what rounding in _purgeMaps leaves, one for every two maps that are trimmed together,
\* whatever was added, removed and unwound (addTx, limitConstraints).
WithinLimit ==
  /\ IsInjective(pool) /\ IsInjective(local)
  /\ ToSet(pool) \cap bad = {}
  /\ Len(pool) <= MaxTxns + (Cardinality(Conciliums \ Preferred) + 1) \div 2

\* The local transactions do not spend one another's outputs: the merge of their patches
\* (_ensureLocalTxnsPatch), which is in the middle of _processFinalityResults, does not
\* throw there.
LocalsAgree == \A t, u \in ToSet(local) : ~Conflict({t}, {u})

\* What was in a block that is rolled back is held again (_unwindBlock): a transaction
\* that can be executed on all best parents, if it was not taken for bad before, the best
\* parents were not computed before the roll-back, and there was room.
RolledBackReturns ==
  [][best = Nothing =>
       \A b \in Pending \cap (gone' \ gone) : \A t \in made[b].txns \ bad :
         (\A B \in BestPatches(patch', topStable') :
            FindsInputs(t, B, store') /\ ~Collides(t, store'))
         => t \in ToSet(pool') \cup ToSet(local') \/ Len(pool') >= MaxTxns]_vars

=============================================================================
