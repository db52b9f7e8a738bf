------------------------------- MODULE Finality -------------------------------
(***************************************************************************)
(* How blocks become final: nodes that accept the blocks of all conciliums *)
(* (the end of Node's block pipeline, src/node/node.js), and conciliums    *)
(* that build on the graph of pending blocks (src/node/witness.js).        *)
(*                                                                         *)
(* A concilium has one witness here, which runs on its home node: what it  *)
(* signs is committed.  Between the making of a block and its commit the   *)
(* node goes on accepting the blocks of others.  Accepting a block is one  *)
(* step.  Which transactions a mempool holds is left open.                 *)
(***************************************************************************)
EXTENDS PendingBlocks

CONSTANTS
  Nodes,       \* the nodes of the network
  Home,        \* Home[c]: the node the witness of c runs on
  MaxBlocks    \* bound: blocks ever made

ASSUME FinalityAssumption ==
  /\ Home \in [Conciliums -> Nodes]
  /\ MaxBlocks \in Nat

VARIABLES
  building,    \* building[c]: the blocks of c that wait for their commit handler
  patch,       \* patch[n]: the patches of the pending blocks of n
  topStable,   \* topStable[n]: _topStable
  final,       \* final[n]: the blocks that are final for n
  unwound,     \* unwound[n]: the blocks n has rolled back
  bad,         \* bad[n]: the blocks n found bad
  store,       \* store[n]: the transactions applied to the storage of n
  stale        \* remembers the nodes that have committed a block whose patch spends what
               \* was spent by what they had applied since it was made

nodeVars == <<patch, topStable, final, unwound, bad, store>>
vars == <<made, building, nodeVars, stale>>

Pending(n) == DOMAIN patch[n]

\* _isBlockExecuted
Executed(n) == Pending(n) \cup final[n] \cup {Genesis}

Init ==
  /\ made = << >>
  /\ building = [c \in Conciliums |-> {}]
  /\ patch = [n \in Nodes |-> << >>]
  /\ topStable = [n \in Nodes |-> {Genesis}]
  /\ final = [n \in Nodes |-> {}]
  /\ unwound = [n \in Nodes |-> {}]
  /\ bad = [n \in Nodes |-> {}]
  /\ store = [n \in Nodes |-> {}]
  /\ stale = {}

-----------------------------------------------------------------------------
(***************************************************************************)
(* _processTx of every transaction of a block, upon the merged patches of  *)
(* its parents: an output that is spent already can not be spent again.    *)
(***************************************************************************)
Spendable(n, base, T) ==
  \A t \in T : \A u \in base \cup store[n] \cup (T \ {t}) : InputOf[t] # InputOf[u]

(***************************************************************************)
(* _acceptBlock, checkFinality, _processFinalityResults.                   *)
(***************************************************************************)
\* Nothing has become stable.
Extend(n, patches) ==
  /\ patch' = [patch EXCEPT ![n] = patches]
  /\ UNCHANGED <<topStable, final, unwound, store>>

\* Mutant: of the top stable blocks one is applied.
CheckFinalityOfOne(b, patches, tops) ==
  LET stable == FindAlsoStable(DOMAIN patches, tops)
      apply == Merged(patches, {Max(tops)})
      rest == DOMAIN patches \ stable
      rollback == ConflictingBranches(rest, patches, b, apply)
  IN  [stable |-> stable, apply |-> apply, rollback |-> rollback,
       patches |-> [v \in rest \ rollback |-> Purge(patches[v], apply)]]

\* checkFinality: what becomes stable with tops, and the graph that is left.
CheckFinality(b, patches, tops) ==
  LET stable == FindAlsoStable(DOMAIN patches, tops)
      apply == Merged(patches, tops)
      rest == DOMAIN patches \ stable
      rollback == ConflictingBranches(rest, patches, b, apply)
  IN  [stable |-> stable, apply |-> apply, rollback |-> rollback,
       patches |-> [v \in rest \ rollback |-> Purge(patches[v], apply)]]

\* _processFinalityResults
Finalise(n, r, tops) ==
  /\ patch' = [patch EXCEPT ![n] = r.patches]
  /\ topStable' = [topStable EXCEPT ![n] = tops]
  /\ final' = [final EXCEPT ![n] = @ \cup r.stable]
  /\ unwound' = [unwound EXCEPT ![n] = @ \cup r.rollback]
  /\ store' = [store EXCEPT ![n] = @ \cup r.apply]

\* The new block has been added when the merge of the top stable blocks throws.
AcceptFails(n, b, p) ==
  LET patches == AddBlock(patch[n], b, p)
  IN  ConflictAmong(patches, FindTopStable(DOMAIN patches, b))

AcceptBlock(n, b, p) ==
  LET patches == AddBlock(patch[n], b, p)
      tops == FindTopStable(DOMAIN patches, b)
  IN  IF tops = {} \/ AcceptFails(n, b, p)
        THEN Extend(n, patches)
        ELSE Finalise(n, CheckFinality(b, patches, tops), tops)

-----------------------------------------------------------------------------
\* The 'createBlock' handler and _createBlock.  Conciliums of one node wait for
\* each other's turn, so one may have passed the check before another commits.
CreateBlock(c) ==
  LET n == Home[c]
  IN  /\ building[c] = {}
      /\ Len(made) < MaxBlocks
      /\ \E parents \in BestParents(Pending(n), patch[n], c, topStable[n]) :
           LET base == Merged(patch[n], parents)
           IN  \E T \in SUBSET {t \in Txns : ConciliumOf[t] = c} :
                 /\ Spendable(n, base, T)
                 /\ T = {} => IsReasonToWitness(Pending(n), parents, c)
                 /\ made' = Append(made,
                              [concilium |-> c, parents |-> parents, txns |-> T])
                 /\ building' = [building EXCEPT ![c] =
                              {[block |-> Len(made) + 1, patch |-> base \cup T]}]
      /\ UNCHANGED <<nodeVars, stale>>

\* The 'commitBlock' handler: the patch is the one the block was made with.
CommitBlock(c) ==
  \E job \in building[c] :
    /\ AcceptBlock(Home[c], job.block, job.patch)
    /\ building' = [building EXCEPT ![c] = {}]
    /\ stale' = IF Conflict(job.patch, store[Home[c]]) THEN stale \cup {Home[c]} ELSE stale
    /\ UNCHANGED <<made, bad>>

\* It does nothing while a block is being received, of a peer that may send any.
DropCommit(c) ==
  /\ building[c] # {}
  /\ building' = [building EXCEPT ![c] = {}]
  /\ UNCHANGED <<made, nodeVars, stale>>

-----------------------------------------------------------------------------
\* Blocks somebody has accepted and n has not heard of.
Unknown(n) ==
  (UNION {Pending(m) \cup final[m] : m \in Nodes})
    \ (Executed(n) \cup unwound[n] \cup bad[n])

\* _blockProcessorExecBlock, once the parents are executed (_canExecuteBlock).
ExecBlock(n, b) ==
  LET base == Merged(patch[n], made[b].parents)
      fails == \/ ConflictAmong(patch[n], made[b].parents)
               \/ ~Spendable(n, base, made[b].txns)
      p == base \cup made[b].txns
  IN  /\ made[b].parents \subseteq Executed(n) \ bad[n]
      /\ IF fails THEN UNCHANGED <<patch, topStable, final, unwound, store>>
                  ELSE AcceptBlock(n, b, p)
      /\ bad' = IF fails \/ AcceptFails(n, b, p)
                   THEN [bad EXCEPT ![n] = @ \cup {b}] ELSE bad

\* "Block refer to bad parent"
RefuseBlock(n, b) ==
  /\ made[b].parents \cap bad[n] # {}
  /\ bad' = [bad EXCEPT ![n] = @ \cup {b}]
  /\ UNCHANGED <<patch, topStable, final, unwound, store>>

ReceiveBlock(n) ==
  /\ \E b \in Unknown(n) : ExecBlock(n, b) \/ RefuseBlock(n, b)
  /\ UNCHANGED <<made, building, stale>>

-----------------------------------------------------------------------------
Next ==
  \/ \E c \in Conciliums : CreateBlock(c) \/ CommitBlock(c) \/ DropCommit(c)
  \/ \E n \in Nodes : ReceiveBlock(n)

Spec == Init /\ [][Next]_vars

-----------------------------------------------------------------------------
(***************************************************************************)
(* Properties.                                                             *)
(***************************************************************************)
TxnsOf(B) == UNION {made[b].txns : b \in B}

Headers == [concilium : Conciliums, parents : SUBSET (0..MaxBlocks), txns : SUBSET Txns]

\* The graph of every node and what it has decided of blocks (PendingBlocksManager,
\* BlockInfo) are about blocks there are.
TypeOK ==
  /\ made \in Seq(Headers)
  /\ building \in [Conciliums -> SUBSET [block : Block, patch : SUBSET Txns]]
  /\ \A n \in Nodes : /\ Pending(n) \subseteq Block
                      /\ \A b \in Pending(n) : patch[n][b] \subseteq Txns
  /\ topStable \in [Nodes -> SUBSET (Block \cup {Genesis})]
  /\ {final, unwound, bad} \subseteq [Nodes -> SUBSET Block]
  /\ store \in [Nodes -> SUBSET Txns]
  /\ stale \in SUBSET Nodes

\* What a pending block holds can still be applied: it does not conflict with what is
\* applied, and holds all that the pending blocks under it hold
\* (_removeConflictingBranches, patch.purge, and the patch a commit comes with).  It may
\* conflict where a commit came with a stale patch: nothing in the code compares that
\* with what was applied while it waited.
PendingApplies ==
  \A n \in Nodes : \A b \in Pending(n) :
    /\ n \notin stale => ~Conflict(patch[n][b], store[n])
    /\ \A a \in Below(Pending(n), b) : patch[n][a] \subseteq patch[n][b]

\* However stale a patch is when it is committed, and whatever is rolled back: no final
\* block is left out of the storage, and nothing is in it that did not come with a block
\* the node has decided of (checkFinality, _removeConflictingBranches, patch.purge).
AppliedIsAccounted ==
  \A n \in Nodes : /\ TxnsOf(final[n]) \subseteq store[n]
                   /\ store[n] \subseteq TxnsOf(final[n] \cup unwound[n])

\* The storage of a node never has one output spent twice, where no commit came with a
\* stale patch (mergePatches, checkFinality).
SpentOnce ==
  \A n \in Nodes \ stale : \A t, u \in store[n] : t # u => InputOf[t] # InputOf[u]

\* A block that a node unwinds "failed to become FINAL": it is not final for anybody
\* (_unwindBlock).
UnwoundFailed == \A m, n \in Nodes : unwound[m] \cap final[n] = {}

\* Nodes that accepted the same blocks, and had none to turn down, agree on which of
\* them are final, in whatever order the blocks came (checkFinality).
OrderIsIrrelevant ==
  \A m, n \in Nodes :
    /\ Executed(m) = Executed(n)
    /\ \A k \in {m, n} : unwound[k] \cup bad[k] = {}
    => final[m] = final[n]

\* What finality promises, of the transactions applied by the nodes.
Promise == INSTANCE Ledger WITH
             Replicas <- Nodes, Transactions <- Txns, Input <- InputOf,
             applied <- store

KeepsPromise == Promise!LedgerSpec

=============================================================================
