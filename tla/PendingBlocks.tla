---------------------------- MODULE PendingBlocks ----------------------------
(***************************************************************************)
(* The graph of pending blocks of one node: PendingBlocksManager           *)
(* (src/node/pendingBlocksManager.js) and what it asks of PatchDB          *)
(* (src/storage/patch.js).                                                 *)
(*                                                                         *)
(* The operators take the set V of vertices, and where they need them the  *)
(* patches of the vertices.  Blocks are numbered as they are made, so the  *)
(* parents of a block have lower numbers.  An edge is in the graph when    *)
(* both its ends are.  A patch is the set of transactions whose spending   *)
(* it holds; coins, contracts and receipts that no other patch touches do  *)
(* not tell patches apart.                                                 *)
(***************************************************************************)
EXTENDS Integers, SequencesExt

CONSTANTS
  Conciliums,    \* the enabled conciliums
  Txns,          \* transactions, each of them spends one output
  InputOf,       \* InputOf[t]: the output it spends
  ConciliumOf    \* ConciliumOf[t]: the concilium whose blocks may hold it

ASSUME PendingAssumption ==
  /\ IsFiniteSet(Conciliums) /\ Conciliums # {}
  /\ DOMAIN InputOf = Txns
  /\ ConciliumOf \in [Txns -> Conciliums]

VARIABLE made   \* made[b]: the header and the transactions of block b

Genesis == 0
Block == DOMAIN made

-----------------------------------------------------------------------------
(***************************************************************************)
(* Patches (PatchDB).                                                      *)
(***************************************************************************)
\* merge throws: one output, spent by two transactions.
Conflict(p, q) == \E t \in p, u \in q : t # u /\ InputOf[t] = InputOf[u]

\* purge: what has been applied to the storage leaves the patch.
Purge(p, applied) == p \ applied

\* mergePatches with the blocks that are not pending left out
ConflictAmong(patches, B) ==
  \E a, b \in B \cap DOMAIN patches : a # b /\ Conflict(patches[a], patches[b])
Merged(patches, B) == UNION {patches[b] : b \in B \cap DOMAIN patches}

\* addBlock: the patches with that of b
AddBlock(patches, b, p) ==
  [v \in DOMAIN patches \cup {b} |-> IF v = b THEN p ELSE patches[v]]

-----------------------------------------------------------------------------
(***************************************************************************)
(* Paths (the dagjs library).                                              *)
(***************************************************************************)
ParentsIn(V, b) == made[b].parents \cap V

Tips(V) == {v \in V : \A u \in V : v \notin made[u].parents}

\* findPathsDown: from b to where the graph ends
PathsDown(V, b) ==
  LET paths[v \in V] ==
        IF ParentsIn(V, v) = {} THEN {<<v>>}
        ELSE {<<v>> \o p : p \in UNION {paths[u] : u \in ParentsIn(V, v)}}
  IN  paths[b]

Below(V, b) == UNION {ToSet(p) : p \in PathsDown(V, b)}

LongestPathLength(V, b) == Max({Len(p) : p \in PathsDown(V, b)})

WitnessesOf(B) == {made[b].concilium : b \in B}

-----------------------------------------------------------------------------
(***************************************************************************)
(* Parents for a new block.                                                *)
(***************************************************************************)
\* getVertexWitnessBelow
VertexWitnessBelow(V, b) ==
  Max({Cardinality(WitnessesOf(ToSet(p))) : p \in PathsDown(V, b)})

OwnTips(V, c) == {v \in Tips(V) : made[v].concilium = c}

\* _sortTips: how good a tip is, first the witnesses it has seen.
Precedes(V, a, b) ==
  \/ VertexWitnessBelow(V, a) > VertexWitnessBelow(V, b)
  \/ /\ VertexWitnessBelow(V, a) = VertexWitnessBelow(V, b)
     /\ LongestPathLength(V, a) > LongestPathLength(V, b)

\* Mutant: the tip of the concilium's own has no precedence.
SortTipsOwnAnywhere(V, c) ==
  {s \in SetToSeqs(Tips(V)) :
     \A i, j \in DOMAIN s : Precedes(V, s[i], s[j]) => i < j}

\* The orders it may come to: equal tips stay as the library lists them.
SortTips(V, c) ==
  {s \in SetToSeqs(Tips(V)) :
     \E own \in OwnTips(V, c) \cup {Genesis} :
       /\ OwnTips(V, c) # {} => own = s[1]
       /\ \A i, j \in DOMAIN s :
            (own \notin {s[i], s[j]} /\ Precedes(V, s[i], s[j])) => i < j}

\* mergePatches with arrSuccessfullyMergedBlocksHashes: what conflicts is skipped.
MergeInOrder(patches, s) ==
  LET upto[k \in 0..Len(s)] ==
        IF k = 0 THEN {}
        ELSE LET B == upto[k - 1]
             IN  IF ConflictAmong(patches, B \cup {s[k]}) THEN B ELSE B \cup {s[k]}
  IN  upto[Len(s)]

\* getBestParents: the sets of parents it may return
BestParents(V, patches, c, topStable) ==
  IF V = {} THEN {topStable}
            ELSE {MergeInOrder(patches, s) : s \in SortTips(V, c)}

\* isReasonToWitness: is an empty block of c on these parents worth it?
IsReasonToWitness(V, parents, c) ==
  \E p \in parents \cap V :
    /\ ~(made[p].concilium = c /\ made[p].txns = {})
    /\ \E b \in Below(V, p) : made[b].txns # {} /\ made[b].concilium # c

-----------------------------------------------------------------------------
(***************************************************************************)
(* Finality: a block is stable when the majority of the conciliums has a   *)
(* block on one path above it.                                             *)
(***************************************************************************)
MajorityOf(n) == n \div 2 + 1

WitnessesSeen(path, k) == Cardinality(WitnessesOf({path[i] : i \in 1..k}))

\* Mutant: blocks are counted, not the conciliums that made them.
StableOnPathByLength(path) ==
  LET m == MajorityOf(Cardinality(Conciliums))
  IN  IF Len(path) >= m THEN {path[m]} ELSE {}

\* _findTopStableForPath: the first block at which a path has seen enough.
StableOnPath(path) ==
  LET enough == {k \in DOMAIN path :
        WitnessesSeen(path, k) >= MajorityOf(Cardinality(Conciliums))}
  IN  IF enough = {} THEN {} ELSE {path[Min(enough)]}

\* Mutant: only one of the longest paths is looked at.
FindTopStableOnOnePath(V, b) ==
  StableOnPath(CHOOSE p \in PathsDown(V, b) : Len(p) = LongestPathLength(V, b))

FindTopStable(V, b) == UNION {StableOnPath(p) : p \in PathsDown(V, b)}

\* Mutant: only the top blocks themselves become stable.
OnlyTopStable(V, tops) == tops

\* Mutant: the parents that left the graph already are counted in.
AlsoStableAndParents(V, tops) ==
  UNION {Below(V, b) \cup made[b].parents : b \in tops}

\* _findAlsoStable: the top stable blocks and all that is under them
FindAlsoStable(V, tops) == UNION {Below(V, b) : b \in tops}

\* Mutant: the tip goes, what it stands on stays.
ConflictingTips(V, patches, new, patchToApply) ==
  {v \in Tips(V) \ {new} : Conflict(patches[v], patchToApply)}

\* _removeConflictingBranches: all that is under a tip that conflicts
ConflictingBranches(V, patches, new, patchToApply) ==
  UNION {Below(V, tip) :
           tip \in {v \in Tips(V) \ {new} : Conflict(patches[v], patchToApply)}}

=============================================================================
