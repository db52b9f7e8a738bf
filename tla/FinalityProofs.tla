---------------------------- MODULE FinalityProofs ----------------------------
(***************************************************************************)
(* Proofs about Finality, for any conciliums, nodes, transactions, homes   *)
(* and number of blocks: of the storage of every node, and of its pending  *)
(* blocks, also where a commit came with a stale patch.                    *)
(***************************************************************************)
EXTENDS Finality, PendingBlocksProofs

\* Blocks come after their parents.
Ordered ==
  /\ made \in Seq(Headers) /\ Len(made) <= MaxBlocks
  /\ \A b \in Block : made[b].parents \subseteq 0..(b - 1)

\* The patch p of block v upon the patches: it has the transactions of v and what the
\* patches of its parents have, but for what is in the storage S; what else it has is
\* among those of K, of decided blocks.
Fits(patches, v, p, S, K) ==
  /\ made[v].txns \subseteq p \cup S
  /\ \A u \in ParentsIn(DOMAIN patches, v) : patches[u] \subseteq p \cup S
  /\ \A t \in p : \/ t \in made[v].txns \cup K
                  \/ \E u \in ParentsIn(DOMAIN patches, v) : t \in patches[u]

AllFit(patches, S, K) == \A v \in DOMAIN patches : Fits(patches, v, patches[v], S, K)

\* The blocks of a node with the patches P, the final blocks F, the unwound ones U.
Known(P, F, U) == DOMAIN P \cup F \cup U \cup {Genesis}

\* A node: P, F, U as above, tops its top stable blocks, S its storage.  It has seen the
\* parents of its pending blocks and decides of a block once; what it applied is of
\* blocks it decided of, and has all that is final.
Sound(P, tops, F, U, S) ==
  /\ DOMAIN P \subseteq Block /\ \A v \in DOMAIN P : P[v] \subseteq Txns
  /\ F \subseteq Block /\ U \subseteq Block /\ S \subseteq Txns
  /\ tops \subseteq F \cup {Genesis}
  /\ \A v \in DOMAIN P : made[v].parents \subseteq Known(P, F, U)
  /\ DOMAIN P \cap (F \cup U) = {} /\ F \cap U = {}
  /\ AllFit(P, S, TxnsOf(F \cup U))
  /\ TxnsOf(F) \subseteq S /\ S \subseteq TxnsOf(F \cup U)

SoundAt(n) == Sound(patch[n], topStable[n], final[n], unwound[n], store[n])

Seen(n) == Known(patch[n], final[n], unwound[n])

DecidedOf(n) == TxnsOf(final[n] \cup unwound[n])

\* A block that waits for its commit: nobody knows of it, nothing stands on it, and its
\* patch fits.
Waits(n, job) ==
  /\ \A m \in Nodes : job.block \notin Seen(m) \cup bad[m]
  /\ \A b \in Block : job.block \notin made[b].parents
  /\ made[job.block].parents \subseteq Seen(n)
  /\ Fits(patch[n], job.block, job.patch, store[n], DecidedOf(n))

IsTable(f) == f = [n \in Nodes |-> f[n]]

Tables ==
  /\ IsTable(patch) /\ IsTable(topStable)
  /\ IsTable(final) /\ IsTable(unwound) /\ IsTable(store)

Shape ==
  /\ Tables
  /\ building \in [Conciliums -> SUBSET [block : Block, patch : SUBSET Txns]]
  /\ bad \in [Nodes -> SUBSET Block]
  /\ stale \in SUBSET Nodes

\* The blocks that wait for their commit, each at one witness.
JobsWait ==
  \A c \in Conciliums : \A job \in building[c] :
    /\ Waits(Home[c], job)
    /\ \A d \in Conciliums : \A k \in building[d] : k.block = job.block => d = c

\* The inductive invariant, of the nodes N: those of all witnesses are among them.
AccountIn(N) ==
  /\ Shape /\ Ordered
  /\ \A n \in N : SoundAt(n)
  /\ \A n \in Nodes : Seen(n) \subseteq Block \cup {Genesis}
  /\ JobsWait

AccountInv == AccountIn(Nodes)

\* The witnesses of every concilium are on nodes of N.
Housed(N) == N \in SUBSET Nodes /\ \A c \in Conciliums : Home[c] \in N

-----------------------------------------------------------------------------
(***************************************************************************)
(* Patches of one graph.                                                   *)
(***************************************************************************)
LEMMA BlocksDescend ==
  ASSUME Ordered, NEW V \in SUBSET Block
  PROVE  Descending(V) /\ V \subseteq 1..Len(made)
<1>1. Block = 1..Len(made) /\ Len(made) \in Nat
  BY DEF Ordered, Block
<1>2. \A v \in V : \A u \in ParentsIn(V, v) : u \in 0..(v - 1)
  BY DEF Ordered, ParentsIn
<1> QED
  BY <1>1, <1>2 DEF Descending

\* A block is added on which no other stands.
LEMMA AddFits ==
  ASSUME NEW patches, NEW b, NEW p, NEW S, NEW K,
         AllFit(patches, S, K), Fits(patches, b, p, S, K), b \notin DOMAIN patches,
         \A v \in DOMAIN patches \cup {b} : b \notin made[v].parents
  PROVE  LET added == AddBlock(patches, b, p)
         IN  /\ DOMAIN added = DOMAIN patches \cup {b}
             /\ AllFit(added, S, K)
             /\ \A v, q : b \notin made[v].parents /\ Fits(patches, v, q, S, K)
                           => Fits(added, v, q, S, K)
<1> DEFINE added == AddBlock(patches, b, p)
<1>1. /\ DOMAIN added = DOMAIN patches \cup {b}
      /\ added[b] = p /\ \A v \in DOMAIN patches : added[v] = patches[v]
  BY DEF AddBlock
<1> HIDE DEF added
<1>2. ASSUME NEW v, b \notin made[v].parents, NEW q, Fits(patches, v, q, S, K)
      PROVE  Fits(added, v, q, S, K)
  <2>1. ParentsIn(DOMAIN added, v) = ParentsIn(DOMAIN patches, v)
    BY <1>1, <1>2 DEF ParentsIn
  <2>2. \A u \in ParentsIn(DOMAIN patches, v) : added[u] = patches[u]
    BY <1>1 DEF ParentsIn
  <2> QED
    BY <1>2, <2>1, <2>2 DEF Fits
<1>3. AllFit(added, S, K)
  BY <1>1, <1>2 DEF AllFit
<1> QED
  BY <1>1, <1>2, <1>3 DEF added

\* What CheckFinality returns when the block b has been added to the patches P.
Result(P, b, tops, stable, apply, rollback, left) ==
  /\ tops = FindTopStable(DOMAIN P, b)
  /\ stable = FindAlsoStable(DOMAIN P, tops)
  /\ apply = Merged(P, tops)
  /\ rollback = ConflictingBranches(DOMAIN P \ stable, P, b, apply)
  /\ DOMAIN left = (DOMAIN P \ stable) \ rollback
  /\ \A v \in DOMAIN left : left[v] = P[v] \ apply

LEMMA Checked ==
  ASSUME NEW P, NEW b, NEW tops, tops = FindTopStable(DOMAIN P, b),
         NEW r, r = CheckFinality(b, P, tops)
  PROVE  Result(P, b, tops, r.stable, r.apply, r.rollback, r.patches)
BY DEF CheckFinality, Purge, Result

\* When something becomes stable: all of it is applied and nothing that is not its own or
\* decided before; what is left of the graph fits the storage that results.
Account(P, S, K, tops, stable, apply, rollback, left) ==
  /\ tops \subseteq stable /\ stable \subseteq DOMAIN P
  /\ rollback \subseteq DOMAIN P \ stable
  /\ TxnsOf(stable) \subseteq S \cup apply
  /\ apply \subseteq TxnsOf(stable) \cup K
  /\ AllFit(left, S \cup apply, K \cup TxnsOf(stable \cup rollback))
  /\ \A v, q : Fits(P, v, q, S, K)
       => Fits(left, v, q, S \cup apply, K \cup TxnsOf(stable \cup rollback))

LEMMA FinaliseFits ==
  ASSUME NEW patches, Descending(DOMAIN patches), NEW b \in DOMAIN patches,
         NEW S, NEW K, AllFit(patches, S, K),
         NEW tops, NEW stable, NEW apply, NEW rollback, NEW left,
         Result(patches, b, tops, stable, apply, rollback, left)
  PROVE  Account(patches, S, K, tops, stable, apply, rollback, left)
<1>0. PICK V : V = DOMAIN patches
  OBVIOUS
<1>1. /\ Descending(V) /\ b \in V /\ tops = FindTopStable(V, b)
      /\ stable = FindAlsoStable(V, tops) /\ apply = Merged(patches, tops)
      /\ rollback = ConflictingBranches(V \ stable, patches, b, apply)
      /\ DOMAIN left = (V \ stable) \ rollback
      /\ \A v \in DOMAIN left : left[v] = patches[v] \ apply
  BY <1>0 DEF Result
<1>17. PICK S2, K2 : S2 = S \cup apply /\ K2 = K \cup TxnsOf(stable \cup rollback)
  OBVIOUS
<1> USE <1>0, <1>1, <1>17
<1> DEFINE D == stable \cup rollback
<1>2. tops \subseteq stable /\ stable \subseteq V /\ DownClosed(V, stable)
  BY StableGoesDown
<1>3. rollback \subseteq V \ stable /\ DownClosed(V \ stable, rollback)
  <2>1. Descending(V \ stable)
    BY PartDescends
  <2> QED
    BY <2>1, RollbackGoesDown
<1>4. DownClosed(V, D)
  <2>1. ASSUME NEW d \in D \cap V, NEW u \in ParentsIn(V, d) PROVE u \in D
    <3>1. u \in V /\ (u \in ParentsIn(V \ stable, d) \/ u \in stable)
      BY <2>1 DEF ParentsIn
    <3>2. CASE d \in stable
      BY <1>2, <2>1, <3>2 DEF DownClosed
    <3>3. CASE d \in rollback
      BY <1>3, <2>1, <3>1, <3>3 DEF DownClosed
    <3> QED
      BY <3>2, <3>3
  <2> HIDE DEF D
  <2> QED
    BY <2>1 DEF DownClosed
<1>5. /\ \A v \in V : made[v].txns \subseteq patches[v] \cup S
      /\ \A v \in V : \A u \in ParentsIn(V, v) : patches[u] \subseteq patches[v] \cup S
      /\ \A v \in V : \A t \in patches[v] :
           t \in made[v].txns \cup K \/ \E u \in ParentsIn(V, v) : t \in patches[u]
  BY DEF AllFit, Fits
<1>6. \A t \in V : \A a \in Below(V, t) : patches[a] \subseteq patches[t] \cup S
  BY <1>5, FlowsUp
<1>7. PICK own : \A v \in V : own[v] = made[v].txns
  <2>1. \A v \in V : [w \in V |-> made[w].txns][v] = made[v].txns
    OBVIOUS
  <2> QED
    BY <2>1
<1>8. ASSUME NEW a \in V PROVE patches[a] \subseteq TxnsOf(Below(V, a)) \cup K
  <2>1. ComesFrom(V, patches, own, K)
    BY <1>5, <1>7 DEF ComesFrom
  <2>2. \A t \in patches[a] : t \in K \/ \E x \in Below(V, a) : t \in own[x]
    BY <2>1, FlowsDown
  <2>3. \A x \in Below(V, a) : own[x] = made[x].txns
    BY <1>7, BelowIn
  <2> QED
    BY <2>2, <2>3 DEF TxnsOf
<1>9. \A B, C : B \subseteq C => TxnsOf(B) \subseteq TxnsOf(C)
  BY DEF TxnsOf
<1>10. apply = UNION {patches[t] : t \in tops}
  BY <1>2 DEF Merged
<1>11. stable = UNION {Below(V, t) : t \in tops}
  BY DEF FindAlsoStable
<1>12. TxnsOf(stable) \subseteq S2
  <2>1. ASSUME NEW a \in stable PROVE made[a].txns \subseteq S2
    <3>1. PICK t \in tops : a \in Below(V, t)
      BY <1>11
    <3>2. t \in V /\ a \in V /\ patches[t] \subseteq apply
      BY <1>2, <1>10
    <3> QED
      BY <1>5, <1>6, <3>1, <3>2
  <2> QED
    BY <2>1 DEF TxnsOf
<1>13. apply \subseteq TxnsOf(stable) \cup K
  <2>1. ASSUME NEW t \in tops PROVE patches[t] \subseteq TxnsOf(stable) \cup K
    <3>1. Below(V, t) \subseteq stable /\ t \in V
      BY <1>2, <1>11
    <3> QED
      BY <1>8, <1>9, <3>1
  <2> QED
    BY <1>10, <2>1
<1>14. ASSUME NEW u \in V \cap D PROVE patches[u] \subseteq K2
  <2>1. PICK E : E = D
    OBVIOUS
  <2>2. DownClosed(V, E) /\ u \in V \cap E
    BY <1>4, <1>14, <2>1
  <2>3. Below(V, u) \subseteq E
    BY <2>2, DownClosedBelow
  <2>4. TxnsOf(Below(V, u)) \subseteq K2
    BY <1>9, <2>1, <2>3
  <2>5. patches[u] \subseteq TxnsOf(Below(V, u)) \cup K
    BY <1>8, <2>2
  <2> QED
    BY <2>4, <2>5
<1>15. ASSUME NEW v, NEW q, Fits(patches, v, q, S, K)
       PROVE  Fits(left, v, q, S2, K2) /\ Fits(left, v, q \ apply, S2, K2)
  <2>1. /\ made[v].txns \subseteq q \cup S
        /\ \A u \in ParentsIn(V, v) : patches[u] \subseteq q \cup S
        /\ \A t \in q : t \in made[v].txns \cup K \/ \E u \in ParentsIn(V, v) : t \in patches[u]
    BY <1>15 DEF Fits
  <2>2. \A u \in ParentsIn(DOMAIN left, v) :
          u \in ParentsIn(V, v) /\ left[u] = patches[u] \ apply
    BY DEF ParentsIn
  <2>3. \A u \in ParentsIn(V, v) : u \in ParentsIn(DOMAIN left, v) \/ u \in V \cap D
    BY DEF ParentsIn
  <2>4. apply \subseteq K2
    BY <1>9, <1>13
  <2>5. ASSUME NEW t \in q, NEW u \in ParentsIn(V, v), t \in patches[u]
        PROVE  t \in K2 \/ \E w \in ParentsIn(DOMAIN left, v) : t \in left[w]
    <3>1. CASE u \in V \cap D
      BY <1>14, <2>5, <3>1
    <3>2. CASE t \in apply
      BY <2>4, <3>2
    <3>3. CASE u \in ParentsIn(DOMAIN left, v) /\ t \notin apply
      <4>1. left[u] = patches[u] \ apply
        BY <2>2, <3>3
      <4>2. t \in left[u]
        BY <2>5, <3>3, <4>1
      <4> QED
        BY <3>3, <4>2
    <3> QED
      BY <2>3, <3>1, <3>2, <3>3
  <2>6. \A u \in ParentsIn(DOMAIN left, v) : left[u] \subseteq (q \ apply) \cup S2
    <3>1. \A u \in ParentsIn(V, v) : patches[u] \subseteq q \cup S
      BY <2>1
    <3>2. ASSUME NEW u \in ParentsIn(DOMAIN left, v) PROVE left[u] \subseteq (q \ apply) \cup S2
      <4>1. patches[u] \subseteq q \cup S /\ left[u] = patches[u] \ apply
        BY <2>2, <3>1
      <4> QED
        BY <4>1
    <3> QED
      BY <3>2
  <2>7. made[v].txns \subseteq (q \ apply) \cup S2
    BY <2>1
  <2>8. \A t \in q : \/ t \in made[v].txns \cup K2
                 \/ \E w \in ParentsIn(DOMAIN left, v) : t \in left[w]
    BY <2>1, <2>5
  <2>9. q \cup S2 = (q \ apply) \cup S2
    OBVIOUS
  <2>10. Fits(left, v, q, S2, K2)
    BY <2>6, <2>7, <2>8, <2>9 DEF Fits
  <2>11. Fits(left, v, q \ apply, S2, K2)
    BY <2>6, <2>7, <2>8, <2>9 DEF Fits
  <2> QED
    BY <2>10, <2>11
<1>16. AllFit(left, S2, K2)
  <2>1. ASSUME NEW v \in DOMAIN left PROVE Fits(left, v, left[v], S2, K2)
    <3>1. v \in V /\ left[v] = patches[v] \ apply
      OBVIOUS
    <3>2. Fits(patches, v, patches[v], S, K)
      BY <3>1 DEF AllFit
    <3> QED
      BY <1>15, <3>1, <3>2
  <2> QED
    BY <2>1 DEF AllFit
<1> QED
  BY <1>2, <1>3, <1>12, <1>13, <1>15, <1>16 DEF Account

-----------------------------------------------------------------------------
(***************************************************************************)
(* What a step does to one node.                                           *)
(***************************************************************************)
\* Making a block does not touch what is known of those there were.
LEMMA StillFits ==
  ASSUME NEW v, made'[v] = made[v], NEW P, NEW p, NEW S, NEW K, Fits(P, v, p, S, K)
  PROVE  Fits(P, v, p, S, K)'
BY DEF Fits, ParentsIn

LEMMA StillTxns ==
  ASSUME NEW B, \A b \in B : made'[b] = made[b]
  PROVE  TxnsOf(B)' = TxnsOf(B)
BY DEF TxnsOf

LEMMA StillSound ==
  ASSUME NEW P, NEW tops, NEW F, NEW U, NEW S, Sound(P, tops, F, U, S),
         Block \subseteq Block', \A b \in Block : made'[b] = made[b]
  PROVE  Sound(P, tops, F, U, S)'
<1>1. TxnsOf(F)' = TxnsOf(F) /\ TxnsOf(F \cup U)' = TxnsOf(F \cup U)
  BY StillTxns DEF Sound
<1>2. AllFit(P, S, TxnsOf(F \cup U))'
  BY <1>1, StillFits DEF Sound, AllFit
<1> QED
  BY <1>1, <1>2 DEF Sound, Known

\* Patches that fit a node with P, F, U and S fit it with P2, F2, U2 and S2.
Keeps(P, F, U, S, P2, F2, U2, S2) ==
  \A v, q : made[v].parents \subseteq Known(P, F, U) /\ Fits(P, v, q, S, TxnsOf(F \cup U))
              => Fits(P2, v, q, S2, TxnsOf(F2 \cup U2))

\* A block is added to the graph.
LEMMA AddSound ==
  ASSUME NEW P, NEW tops, NEW F, NEW U, NEW S, Sound(P, tops, F, U, S),
         NEW b \in Block, b \notin Known(P, F, U), made[b].parents \subseteq Known(P, F, U),
         NEW p, p \subseteq Txns, Fits(P, b, p, S, TxnsOf(F \cup U)),
         b \notin made[b].parents
  PROVE  /\ Sound(AddBlock(P, b, p), tops, F, U, S)
         /\ Known(AddBlock(P, b, p), F, U) = Known(P, F, U) \cup {b}
         /\ b \in DOMAIN AddBlock(P, b, p)
         /\ Keeps(P, F, U, S, AddBlock(P, b, p), F, U, S)
<1> PICK P1, K : P1 = AddBlock(P, b, p) /\ K = TxnsOf(F \cup U)
  OBVIOUS
<1>1. /\ DOMAIN P1 = DOMAIN P \cup {b} /\ P1[b] = p
      /\ \A v \in DOMAIN P : P1[v] = P[v]
  BY DEF AddBlock, Known
<1>2. \A v \in DOMAIN P \cup {b} : b \notin made[v].parents
  BY DEF Sound
<1>3. AllFit(P, S, K) /\ b \notin DOMAIN P
  BY DEF Sound, Known
<1>4. /\ AllFit(P1, S, K)
      /\ \A v, q : b \notin made[v].parents /\ Fits(P, v, q, S, K) => Fits(P1, v, q, S, K)
  BY <1>2, <1>3, AddFits
<1>5. Known(P1, F, U) = Known(P, F, U) \cup {b}
  BY <1>1 DEF Known
<1>6. Sound(P1, tops, F, U, S)
  <2>1. \A v \in DOMAIN P1 : made[v].parents \subseteq Known(P1, F, U)
    BY <1>1, <1>5 DEF Sound
  <2>2. DOMAIN P1 \subseteq Block /\ DOMAIN P1 \cap (F \cup U) = {}
    BY <1>1 DEF Sound, Known
  <2>3. \A v \in DOMAIN P1 : P1[v] \subseteq Txns
    BY <1>1 DEF Sound
  <2> QED
    BY <1>4, <2>1, <2>2, <2>3 DEF Sound
<1>7. Keeps(P, F, U, S, P1, F, U, S)
  BY <1>4 DEF Keeps
<1> QED
  BY <1>1, <1>5, <1>6, <1>7

\* Something becomes stable.
LEMMA FinaliseSound ==
  ASSUME Ordered, NEW P, NEW tops0, NEW F, NEW U, NEW S, Sound(P, tops0, F, U, S),
         NEW b \in DOMAIN P, NEW tops, tops = FindTopStable(DOMAIN P, b),
         NEW r, r = CheckFinality(b, P, tops)
  PROVE  /\ Sound(r.patches, tops, F \cup r.stable, U \cup r.rollback, S \cup r.apply)
         /\ Known(r.patches, F \cup r.stable, U \cup r.rollback) = Known(P, F, U)
         /\ Keeps(P, F, U, S,
                  r.patches, F \cup r.stable, U \cup r.rollback, S \cup r.apply)
<1> PICK K, F2, U2, S2 :
      /\ K = TxnsOf(F \cup U) /\ F2 = F \cup r.stable
      /\ U2 = U \cup r.rollback /\ S2 = S \cup r.apply
  OBVIOUS
<1>1. Result(P, b, tops, r.stable, r.apply, r.rollback, r.patches)
  BY Checked
<1>2. PICK stable, apply, rollback, left :
        stable = r.stable /\ apply = r.apply /\ rollback = r.rollback /\ left = r.patches
  OBVIOUS
<1>3. Descending(DOMAIN P) /\ AllFit(P, S, K)
  BY BlocksDescend DEF Sound
<1>4. PICK K2 : K2 = K \cup TxnsOf(stable \cup rollback)
  OBVIOUS
<1>5. K2 = TxnsOf(F2 \cup U2)
  BY <1>2, <1>4 DEF TxnsOf
<1>6. /\ Result(P, b, tops, stable, apply, rollback, left)
      /\ S2 = S \cup apply
      /\ apply = Merged(P, tops)
      /\ DOMAIN left = (DOMAIN P \ stable) \ rollback
      /\ \A v \in DOMAIN left : left[v] = P[v] \ apply
  BY <1>1, <1>2 DEF Result
<1>7. /\ tops \subseteq stable /\ stable \subseteq DOMAIN P
      /\ rollback \subseteq DOMAIN P \ stable
      /\ TxnsOf(stable) \subseteq S2
      /\ apply \subseteq TxnsOf(stable) \cup K
      /\ AllFit(left, S2, K2)
      /\ \A v, q : Fits(P, v, q, S, K) => Fits(left, v, q, S2, K2)
  <2>1. Result(P, b, tops, stable, apply, rollback, left)
    BY <1>6
  <2>2. Account(P, S, K, tops, stable, apply, rollback, left)
    BY <1>3, <2>1, FinaliseFits
  <2>3. S2 = S \cup apply /\ K2 = K \cup TxnsOf(stable \cup rollback)
    BY <1>4, <1>6
  <2> QED
    BY ONLY <2>2, <2>3 DEF Account
<1>8. Known(left, F2, U2) = Known(P, F, U)
  BY <1>2, <1>6, <1>7 DEF Known
<1>9. Sound(left, tops, F2, U2, S2)
  <2>1. /\ DOMAIN left \subseteq Block
        /\ F2 \subseteq Block /\ U2 \subseteq Block /\ tops \subseteq F2 \cup {Genesis}
    BY <1>2, <1>6, <1>7 DEF Sound
  <2>2. DOMAIN left \cap (F2 \cup U2) = {} /\ F2 \cap U2 = {}
    BY <1>2, <1>6, <1>7 DEF Sound
  <2>3. \A v \in DOMAIN left : left[v] \subseteq Txns
    BY <1>6 DEF Sound
  <2>4. apply \subseteq Txns
    BY <1>6 DEF Sound, Merged
  <2>5. S2 \subseteq Txns
    BY <1>6, <2>4 DEF Sound
  <2>6. \A v \in DOMAIN left : made[v].parents \subseteq Known(left, F2, U2)
    BY <1>6, <1>8 DEF Sound
  <2>7. TxnsOf(F2) = TxnsOf(F) \cup TxnsOf(stable)
    BY <1>2 DEF TxnsOf
  <2>8. TxnsOf(stable) \subseteq K2
    BY <1>4 DEF TxnsOf
  <2>9. TxnsOf(F2) \subseteq S2 /\ S2 \subseteq K2
    BY <1>4, <1>6, <1>7, <2>7, <2>8 DEF Sound
  <2> QED
    BY <1>5, <1>7, <2>1, <2>2, <2>3, <2>5, <2>6, <2>9 DEF Sound
<1>10. Keeps(P, F, U, S, left, F2, U2, S2)
  BY <1>5, <1>7 DEF Keeps
<1> QED
  BY <1>2, <1>8, <1>9, <1>10

\* The other nodes do nothing.
OthersKeep(n) ==
  \A m \in Nodes \ {n} :
    /\ patch'[m] = patch[m] /\ topStable'[m] = topStable[m]
    /\ final'[m] = final[m] /\ unwound'[m] = unwound[m] /\ store'[m] = store[m]

\* _acceptBlock of a block that fits, as its parents do.
LEMMA AcceptKeeps ==
  ASSUME Ordered, Tables, NEW n \in Nodes, SoundAt(n),
         NEW b \in Block, b \notin Seen(n), made[b].parents \subseteq Seen(n),
         NEW p, p \subseteq Txns, Fits(patch[n], b, p, store[n], DecidedOf(n)),
         AcceptBlock(n, b, p), made' = made
  PROVE  /\ Tables' /\ OthersKeep(n) /\ SoundAt(n)'
         /\ Seen(n)' = Seen(n) \cup {b}
         /\ \A v, q : made[v].parents \subseteq Seen(n)
                        /\ Fits(patch[n], v, q, store[n], DecidedOf(n))
              => Fits(patch[n], v, q, store[n], DecidedOf(n))'
<1>1. PICK P1 : P1 = AddBlock(patch[n], b, p)
  OBVIOUS
<1>2. PICK tops : tops = FindTopStable(DOMAIN P1, b)
  OBVIOUS
<1>3. b \notin made[b].parents
  <2>1. b \in Nat /\ made[b].parents \subseteq 0..(b - 1)
    BY DEF Ordered, Block
  <2> QED
    BY <2>1
<1>0. Block \subseteq Block' /\ \A v \in Block : made'[v] = made[v]
  BY DEF Block
<1>4. /\ Sound(P1, topStable[n], final[n], unwound[n], store[n])
      /\ Known(P1, final[n], unwound[n]) = Seen(n) \cup {b}
      /\ b \in DOMAIN P1
      /\ \A v, q : /\ made[v].parents \subseteq Seen(n)
                   /\ Fits(patch[n], v, q, store[n], DecidedOf(n))
                   => Fits(P1, v, q, store[n], DecidedOf(n))
  <2>1. PICK P, t, F, U, S :
          /\ P = patch[n] /\ t = topStable[n] /\ F = final[n] /\ U = unwound[n]
          /\ S = store[n]
    OBVIOUS
  <2>2. /\ Sound(P, t, F, U, S) /\ b \notin Known(P, F, U)
        /\ made[b].parents \subseteq Known(P, F, U) /\ Fits(P, b, p, S, TxnsOf(F \cup U))
        /\ P1 = AddBlock(P, b, p)
    BY <1>1, <2>1 DEF SoundAt, Seen, DecidedOf
  <2>3. /\ Sound(P1, t, F, U, S)
        /\ Known(P1, F, U) = Known(P, F, U) \cup {b}
        /\ b \in DOMAIN P1
        /\ Keeps(P, F, U, S, P1, F, U, S)
    BY <1>3, <2>2, AddSound
  <2> QED
    BY <2>1, <2>3 DEF Seen, DecidedOf, Keeps
<1>5. CASE Extend(n, P1)
  <2>1. /\ patch'[n] = P1 /\ Tables' /\ OthersKeep(n)
        /\ topStable' = topStable /\ final' = final /\ unwound' = unwound /\ store' = store
    BY <1>5 DEF Extend, Tables, IsTable, OthersKeep
  <2>2. SoundAt(n)'
    <3>1. Sound(P1, topStable[n], final[n], unwound[n], store[n])'
      <4>1. PICK t, F, U, S : /\ t = topStable[n] /\ F = final[n]
                              /\ U = unwound[n] /\ S = store[n]
        OBVIOUS
      <4>2. Sound(P1, t, F, U, S)'
        BY <1>0, <1>4, <4>1, StillSound
      <4> QED
        BY <2>1, <4>1, <4>2
    <3> QED
      BY <2>1, <3>1 DEF SoundAt
  <2>3. Seen(n)' = Seen(n) \cup {b}
    BY <1>4, <2>1 DEF Seen, Known
  <2>4. \A v, q : Fits(P1, v, q, store[n], DecidedOf(n))
                    => Fits(patch[n], v, q, store[n], DecidedOf(n))'
    BY <2>1 DEF Fits, DecidedOf, TxnsOf, ParentsIn
  <2> QED
    BY <1>4, <2>1, <2>2, <2>3, <2>4
<1>6. ASSUME NEW r, r = CheckFinality(b, P1, tops), Finalise(n, r, tops)
      PROVE  /\ Tables' /\ OthersKeep(n) /\ SoundAt(n)'
             /\ Seen(n)' = Seen(n) \cup {b}
             /\ \A v, q : made[v].parents \subseteq Seen(n)
                            /\ Fits(patch[n], v, q, store[n], DecidedOf(n))
                  => Fits(patch[n], v, q, store[n], DecidedOf(n))'
  <2>1. /\ patch'[n] = r.patches /\ Tables' /\ OthersKeep(n)
        /\ topStable'[n] = tops /\ final'[n] = final[n] \cup r.stable
        /\ unwound'[n] = unwound[n] \cup r.rollback /\ store'[n] = store[n] \cup r.apply
    BY <1>6 DEF Finalise, Tables, IsTable, OthersKeep
  <2>2. PICK P, F, U, S : /\ P = r.patches /\ F = final[n] \cup r.stable
                          /\ U = unwound[n] \cup r.rollback /\ S = store[n] \cup r.apply
    OBVIOUS
  <2>3. /\ Sound(P, tops, F, U, S)
        /\ Known(P, F, U) = Known(P1, final[n], unwound[n])
        /\ Keeps(P1, final[n], unwound[n], store[n], P, F, U, S)
    <3>1. PICK t, F0, U0, S0 :
            t = topStable[n] /\ F0 = final[n] /\ U0 = unwound[n] /\ S0 = store[n]
      OBVIOUS
    <3>2. /\ Sound(P1, t, F0, U0, S0) /\ b \in DOMAIN P1
          /\ F = F0 \cup r.stable /\ U = U0 \cup r.rollback /\ S = S0 \cup r.apply
      BY <1>4, <2>2, <3>1
    <3>3. /\ Sound(r.patches, tops, F, U, S)
          /\ Known(r.patches, F, U) = Known(P1, F0, U0)
          /\ Keeps(P1, F0, U0, S0, r.patches, F, U, S)
      BY <1>2, <1>6, <3>1, <3>2, FinaliseSound
    <3> QED
      BY <2>2, <3>1, <3>3
  <2>4. SoundAt(n)'
    <3>1. Sound(P, tops, F, U, S)'
      BY <1>0, <2>3, StillSound
    <3> QED
      BY <2>1, <2>2, <3>1 DEF SoundAt
  <2>5. Seen(n)' = Seen(n) \cup {b}
    BY <1>4, <2>1, <2>2, <2>3 DEF Seen, Known
  <2>6. \A v, q : Fits(P, v, q, S, TxnsOf(F \cup U))
                    => Fits(patch[n], v, q, store[n], DecidedOf(n))'
    BY <2>1, <2>2 DEF Fits, DecidedOf, TxnsOf, ParentsIn
  <2>7. \A v, q : /\ made[v].parents \subseteq Seen(n)
                   /\ Fits(P1, v, q, store[n], DecidedOf(n))
                   => Fits(P, v, q, S, TxnsOf(F \cup U))
    BY <1>4, <2>3 DEF Keeps, DecidedOf
  <2> QED
    BY <1>4, <2>1, <2>4, <2>5, <2>6, <2>7
<1>7. \/ Extend(n, P1)
      \/ \E r : r = CheckFinality(b, P1, tops) /\ Finalise(n, r, tops)
  BY <1>1, <1>2 DEF AcceptBlock
<1> QED
  BY <1>5, <1>6, <1>7

\* A patch made of those of the parents and of the block's own transactions fits.
LEMMA MergedFits ==
  ASSUME NEW P, NEW v, NEW S, NEW K, NEW parents, NEW T,
         NEW p, p = Merged(P, parents) \cup T
  PROVE  /\ made[v].parents = parents /\ made[v].txns = T => Fits(P, v, p, S, K)
         /\ made'[v].parents = parents /\ made'[v].txns = T => Fits(P, v, p, S, K)'
<1>1. \A t \in Merged(P, parents) : \E u \in parents \cap DOMAIN P : t \in P[u]
  BY DEF Merged
<1>2. \A u \in parents \cap DOMAIN P : P[u] \subseteq Merged(P, parents)
  BY DEF Merged
<1> QED
  BY <1>1, <1>2 DEF Fits, ParentsIn

\* A block that waits goes on waiting when the node n accepts another one.
LEMMA AcceptWaits ==
  ASSUME Ordered, Tables, NEW n \in Nodes, SoundAt(n),
         NEW b \in Block, b \notin Seen(n), made[b].parents \subseteq Seen(n),
         NEW p, p \subseteq Txns, Fits(patch[n], b, p, store[n], DecidedOf(n)),
         AcceptBlock(n, b, p), made' = made,
         \A m \in Nodes : bad'[m] \subseteq bad[m] \cup {b},
         NEW h \in Nodes, NEW job, Waits(h, job), job.block # b
  PROVE  Waits(h, job)'
<1>1. /\ OthersKeep(n) /\ Seen(n)' = Seen(n) \cup {b}
      /\ \A v, q : made[v].parents \subseteq Seen(n)
                     /\ Fits(patch[n], v, q, store[n], DecidedOf(n))
           => Fits(patch[n], v, q, store[n], DecidedOf(n))'
  BY AcceptKeeps
<1>2. \A m \in Nodes \ {n} : Seen(m)' = Seen(m)
  BY <1>1 DEF OthersKeep, Seen, Known
<1>3. \A m \in Nodes : job.block \notin Seen(m)' \cup bad'[m]
  BY <1>1, <1>2 DEF Waits
<1>4. made[job.block].parents \subseteq Seen(h)'
  BY <1>1, <1>2 DEF Waits
<1>5. Fits(patch[h], job.block, job.patch, store[h], DecidedOf(h))'
  <2>1. CASE h = n
    BY <1>1, <2>1 DEF Waits
  <2>2. CASE h # n
    <3>1. Fits(patch[h], job.block, job.patch, store[h], DecidedOf(h))
      BY DEF Waits
    <3>2. patch'[h] = patch[h] /\ store'[h] = store[h] /\ DecidedOf(h)' = DecidedOf(h)
      BY <1>1, <2>2 DEF OthersKeep, DecidedOf, TxnsOf
    <3> QED
      BY <3>1, <3>2 DEF Fits, ParentsIn
  <2> QED
    BY <2>1, <2>2
<1>6. \A m \in Block' : job.block \notin made'[m].parents
  BY DEF Waits, Block
<1> QED
  BY <1>3, <1>4, <1>5, <1>6 DEF Waits

\* The graph and the storage of a node do not change.
LEMMA IdleSound ==
  ASSUME NEW m \in Nodes, SoundAt(m),
         Block \subseteq Block', \A b \in Block : made'[b] = made[b],
         patch'[m] = patch[m], topStable'[m] = topStable[m],
         final'[m] = final[m], unwound'[m] = unwound[m], store'[m] = store[m]
  PROVE  SoundAt(m)' /\ Seen(m)' = Seen(m) /\ DecidedOf(m)' = DecidedOf(m)
<1>1. PICK P, t, F, U, S : /\ P = patch[m] /\ t = topStable[m] /\ F = final[m]
                           /\ U = unwound[m] /\ S = store[m]
  OBVIOUS
<1>2. Sound(P, t, F, U, S)
  BY <1>1 DEF SoundAt
<1>3. Sound(P, t, F, U, S)'
  BY <1>2, StillSound
<1>4. SoundAt(m)'
  BY <1>1, <1>3 DEF SoundAt
<1>5. \A b \in final[m] \cup unwound[m] : made'[b] = made[b]
  BY DEF SoundAt, Sound
<1> QED
  BY <1>4, <1>5 DEF Seen, Known, DecidedOf, TxnsOf

LEMMA OthersSound ==
  ASSUME NEW N, N \subseteq Nodes, NEW n \in Nodes, OthersKeep(n), \A m \in N : SoundAt(m), made' = made
  PROVE  \A m \in N \ {n} : SoundAt(m)'
<1>1. Block \subseteq Block' /\ \A b \in Block : made'[b] = made[b]
  BY DEF Block
<1>2. ASSUME NEW m \in N \ {n} PROVE SoundAt(m)'
  BY <1>1, IdleSound DEF OthersKeep
<1> QED
  BY <1>2

-----------------------------------------------------------------------------
(***************************************************************************)
(* Every action keeps the account.                                         *)
(***************************************************************************)
LEMMA AccountStarts == Init => AccountInv
<1> SUFFICES ASSUME Init PROVE AccountInv
  OBVIOUS
<1>1. Block = {} /\ made \in Seq(Headers) /\ Len(made) = 0
  BY DEF Init, Block
<1>2. Ordered
  BY <1>1, FinalityAssumption DEF Ordered
<1>3. \A n \in Nodes : SoundAt(n) /\ Seen(n) \subseteq Block \cup {Genesis}
  BY DEF Init, SoundAt, Sound, AllFit, TxnsOf, Seen, Known
<1>4. Shape /\ JobsWait
  BY DEF Init, Shape, Tables, IsTable, JobsWait
<1> QED
  BY <1>2, <1>3, <1>4 DEF AccountInv, AccountIn, JobsWait

\* The concilium c's job is taken, whatever becomes of it.
LEMMA CommitKeeps ==
  ASSUME NEW N, Housed(N), AccountIn(N), NEW c \in Conciliums, CommitBlock(c)
  PROVE  AccountIn(N)'
<1> DEFINE n == Home[c]
<1>1. /\ n \in N /\ n \in Nodes /\ N \subseteq Nodes /\ SoundAt(n)
      /\ Shape /\ Tables /\ Ordered /\ JobsWait
  BY DEF AccountIn, Shape, Housed
<1>2. PICK job \in building[c] : AcceptBlock(n, job.block, job.patch)
  BY DEF CommitBlock
<1>3. made' = made /\ bad' = bad /\ building' = [building EXCEPT ![c] = {}]
  BY DEF CommitBlock
<1>4. job.block \in Block /\ job.patch \subseteq Txns
  BY <1>1, <1>2 DEF Shape
<1>5. Waits(n, job)
  BY <1>1, <1>2 DEF JobsWait
<1>6. /\ job.block \notin Seen(n) /\ made[job.block].parents \subseteq Seen(n)
      /\ Fits(patch[n], job.block, job.patch, store[n], DecidedOf(n))
  BY <1>1, <1>5 DEF Waits
<1> HIDE DEF n
<1>7. Tables' /\ OthersKeep(n) /\ SoundAt(n)' /\ Seen(n)' = Seen(n) \cup {job.block}
  BY <1>1, <1>2, <1>3, <1>4, <1>6, AcceptKeeps
<1>8. /\ \A m \in N : SoundAt(m)'
      /\ \A m \in Nodes : Seen(m)' \subseteq Block' \cup {Genesis}
  <2>1. \A m \in N : SoundAt(m)'
    BY <1>1, <1>3, <1>7, OthersSound DEF AccountIn
  <2>2. \A m \in Nodes \ {n} : Seen(m)' = Seen(m)
    BY <1>7 DEF OthersKeep, Seen, Known
  <2> QED
    BY <1>3, <1>4, <1>7, <2>1, <2>2 DEF AccountIn, Block
<1>9. /\ building' \in [Conciliums -> SUBSET [block : Block, patch : SUBSET Txns]]
      /\ stale' \in SUBSET Nodes
  <2>1. stale' \subseteq stale \cup {Home[c]} /\ Home[c] \in Nodes
    BY FinalityAssumption DEF CommitBlock
  <2> QED
    BY <1>1, <1>3, <2>1 DEF Shape
<1>10. Shape' /\ Ordered'
  BY <1>1, <1>3, <1>7, <1>9 DEF Shape, Ordered, Block
<1>11. ASSUME NEW d \in Conciliums, NEW k \in building'[d]
       PROVE  /\ Waits(Home[d], k)'
              /\ \A e \in Conciliums : \A l \in building'[e] : l.block = k.block => e = d
  <2>1. d # c /\ k \in building[d]
    BY <1>1, <1>3, <1>11 DEF Shape
  <2>2. \A e \in Conciliums : building'[e] \subseteq building[e]
    BY <1>1, <1>3 DEF Shape
  <2>3. k.block # job.block /\ Waits(Home[d], k) /\ Home[d] \in Nodes
    BY <1>1, <1>2, <2>1, FinalityAssumption DEF JobsWait
  <2>4. Waits(Home[d], k)'
    BY <1>1, <1>2, <1>3, <1>4, <1>6, <2>3, AcceptWaits
  <2> QED
    BY <1>1, <2>1, <2>2, <2>4 DEF JobsWait
<1> QED
  BY <1>8, <1>10, <1>11 DEF AccountIn, JobsWait

LEMMA DropKeeps ==
  ASSUME NEW N, Housed(N), AccountIn(N), NEW c \in Conciliums, DropCommit(c)
  PROVE  AccountIn(N)'
<1>1. UNCHANGED <<made, nodeVars, stale>> /\ building' = [building EXCEPT ![c] = {}]
  BY DEF DropCommit
<1>2. Shape'
  BY <1>1 DEF AccountIn, Shape, Tables, IsTable, Block, nodeVars
<1>3. Ordered'
  BY <1>1 DEF AccountIn, Ordered, Block
<1>4. \A m \in N : SoundAt(m)'
  BY <1>1, IdleSound DEF AccountIn, Block, nodeVars, Housed
<1>5. \A d \in Conciliums : building'[d] \subseteq building[d]
  BY <1>1 DEF AccountIn, Shape
<1>6. \A m \in Nodes : Seen(m)' = Seen(m) /\ DecidedOf(m)' = DecidedOf(m)
  BY <1>1 DEF nodeVars, Seen, Known, DecidedOf, TxnsOf
<1>7. ASSUME NEW h \in Nodes, NEW job, Waits(h, job) PROVE Waits(h, job)'
  BY <1>1, <1>6, <1>7 DEF Waits, Fits, ParentsIn, Block, nodeVars
<1> QED
  <2>1. \A m \in Nodes : Seen(m)' \subseteq Block' \cup {Genesis}
    BY <1>1, <1>6 DEF AccountIn, Block
  <2> QED
    BY <1>2, <1>3, <1>4, <1>5, <1>7, <2>1 DEF AccountIn, JobsWait, Housed

\* A block that a node hears of is there, is new to the node, and is known to another.
LEMMA UnknownIs ==
  ASSUME NEW N, Housed(N), AccountIn(N), NEW n \in Nodes, NEW b \in Unknown(n)
  PROVE  b \in Block /\ b \notin Seen(n) /\ \E m \in Nodes : b \in Seen(m)
<1>1. PICK m \in Nodes : b \in Pending(m) \cup final[m]
  BY DEF Unknown
<1>2. b \notin Seen(n)
  <2>1. PICK A : Unknown(n) = A \ (Executed(n) \cup unwound[n] \cup bad[n])
    BY DEF Unknown
  <2>2. b \notin Executed(n) \cup unwound[n]
    BY <2>1
  <2> QED
    BY <2>2 DEF Executed, Seen, Known, Pending
<1>3. b \in Block
  BY <1>1, <1>2 DEF AccountIn, Seen, Known, Pending
<1> QED
  BY <1>1, <1>2, <1>3 DEF Seen, Known, Pending

LEMMA ReceiveKeeps ==
  ASSUME NEW N, Housed(N), AccountIn(N), NEW n \in N, ReceiveBlock(n)
  PROVE  AccountIn(N)'
<1>1. /\ n \in Nodes /\ N \subseteq Nodes /\ SoundAt(n)
      /\ Shape /\ Tables /\ Ordered /\ JobsWait
  BY DEF AccountIn, Shape, Housed
<1>2. made' = made /\ building' = building /\ stale' = stale
  BY DEF ReceiveBlock
<1>3. PICK b \in Unknown(n) : ExecBlock(n, b) \/ RefuseBlock(n, b)
  BY DEF ReceiveBlock
<1>4. PICK m \in Nodes : b \in Seen(m)
  BY <1>1, <1>3, UnknownIs
<1>5. b \in Block /\ b \notin Seen(n)
  BY <1>1, <1>3, UnknownIs
<1>6. /\ \A k \in Nodes : bad'[k] \subseteq bad[k] \cup {b}
      /\ bad' \in [Nodes -> SUBSET Block]
  BY <1>1, <1>3, <1>5 DEF ExecBlock, RefuseBlock, Shape
<1>7. ASSUME NEW c \in Conciliums, NEW job \in building[c] PROVE job.block # b
  BY <1>1, <1>4 DEF JobsWait, Waits
<1>8. CASE UNCHANGED <<patch, topStable, final, unwound, store>>
  <2>1. /\ \A k \in N : SoundAt(k)'
        /\ \A k \in Nodes : Seen(k)' = Seen(k) /\ DecidedOf(k)' = DecidedOf(k)
    <3>1. \A k \in N : SoundAt(k)'
      BY <1>1, <1>2, <1>8, IdleSound DEF AccountIn, Block
    <3> QED
      BY <1>2, <1>8, <3>1 DEF Seen, Known, DecidedOf, TxnsOf
  <2>2. Shape' /\ Ordered'
    BY <1>1, <1>2, <1>6, <1>8 DEF Shape, Tables, IsTable, Ordered, Block
  <2>3. ASSUME NEW h \in Nodes, NEW job, Waits(h, job), job.block # b PROVE Waits(h, job)'
    BY <1>2, <1>6, <1>8, <2>1, <2>3 DEF Waits, Fits, ParentsIn, Block
  <2>4. \A c \in Conciliums : \A job \in building[c] : Waits(Home[c], job)'
    BY <1>1, <1>7, <2>3 DEF JobsWait, Housed
  <2> QED
    BY <1>1, <1>2, <2>1, <2>2, <2>4 DEF AccountIn, JobsWait, Block
<1>9. ASSUME NEW p, p = Merged(patch[n], made[b].parents) \cup made[b].txns,
             made[b].parents \subseteq Executed(n), AcceptBlock(n, b, p)
      PROVE  AccountIn(N)'
  <2>1. Fits(patch[n], b, p, store[n], DecidedOf(n))
    BY <1>9, MergedFits
  <2>2. p \subseteq Txns
    <3>1. made[b].txns \subseteq Txns
      <4>1. made[b] \in Headers
        BY <1>1, <1>5 DEF Ordered, Block
      <4> QED
        BY <4>1 DEF Headers
    <3>2. Merged(patch[n], made[b].parents) \subseteq Txns
      BY <1>1 DEF Merged, SoundAt, Sound
    <3> QED
      BY <1>9, <3>1, <3>2
  <2>3. made[b].parents \subseteq Seen(n)
    BY <1>9 DEF Executed, Seen, Known, Pending
  <2>4. Tables' /\ OthersKeep(n) /\ SoundAt(n)' /\ Seen(n)' = Seen(n) \cup {b}
    BY <1>1, <1>2, <1>5, <1>9, <2>1, <2>2, <2>3, AcceptKeeps
  <2>5. /\ \A k \in N : SoundAt(k)'
        /\ \A k \in Nodes : Seen(k)' \subseteq Block' \cup {Genesis}
    <3>1. \A k \in N : SoundAt(k)'
      BY <1>1, <1>2, <2>4, OthersSound DEF AccountIn
    <3>2. \A k \in Nodes \ {n} : Seen(k)' = Seen(k)
      BY <2>4 DEF OthersKeep, Seen, Known
    <3> QED
      BY <1>2, <1>5, <2>4, <3>1, <3>2 DEF AccountIn, Block
  <2>6. Shape' /\ Ordered'
    BY <1>1, <1>2, <1>6, <2>4 DEF Shape, Ordered, Block
  <2>7. ASSUME NEW c \in Conciliums, NEW job \in building[c] PROVE Waits(Home[c], job)'
    <3>1. Home[c] \in Nodes /\ Waits(Home[c], job) /\ job.block # b
      BY <1>1, <1>7 DEF JobsWait, Housed
    <3> QED
      BY <1>1, <1>2, <1>5, <1>6, <1>9, <2>1, <2>2, <2>3, <3>1, AcceptWaits
  <2> QED
    BY <1>1, <1>2, <2>5, <2>6, <2>7 DEF AccountIn, JobsWait
<1>10. \/ UNCHANGED <<patch, topStable, final, unwound, store>>
       \/ \E p : /\ p = Merged(patch[n], made[b].parents) \cup made[b].txns
                 /\ made[b].parents \subseteq Executed(n) /\ AcceptBlock(n, b, p)
  BY <1>3 DEF ExecBlock, RefuseBlock
<1> QED
  BY <1>8, <1>9, <1>10

\* A block is made: it is new, and its parents are known where it was made.
LEMMA CreateKeeps ==
  ASSUME NEW N, Housed(N), AccountIn(N), NEW c \in Conciliums, CreateBlock(c)
  PROVE  AccountIn(N)'
<1>1. Shape /\ Tables /\ Ordered /\ JobsWait
  BY DEF AccountIn, Shape
<1>2. PICK n : n = Home[c]
  OBVIOUS
<1>3. n \in Nodes /\ n \in N /\ N \subseteq Nodes /\ SoundAt(n)
  BY <1>2 DEF AccountIn, Housed
<1>4. building[c] = {} /\ Len(made) < MaxBlocks /\ UNCHANGED <<nodeVars, stale>>
  BY DEF CreateBlock
<1>5. \E parents \in BestParents(Pending(n), patch[n], c, topStable[n]) :
        \E T \in SUBSET {t \in Txns : ConciliumOf[t] = c} :
          /\ made' = Append(made, [concilium |-> c, parents |-> parents, txns |-> T])
          /\ building' = [building EXCEPT ![c] =
               {[block |-> Len(made) + 1, patch |-> Merged(patch[n], parents) \cup T]}]
  BY <1>2 DEF CreateBlock
<1>6. PICK parents \in BestParents(Pending(n), patch[n], c, topStable[n]) :
        \E T \in SUBSET {t \in Txns : ConciliumOf[t] = c} :
          /\ made' = Append(made, [concilium |-> c, parents |-> parents, txns |-> T])
          /\ building' = [building EXCEPT ![c] =
               {[block |-> Len(made) + 1, patch |-> Merged(patch[n], parents) \cup T]}]
  BY <1>5
<1>7. PICK T \in SUBSET {t \in Txns : ConciliumOf[t] = c} :
          /\ made' = Append(made, [concilium |-> c, parents |-> parents, txns |-> T])
          /\ building' = [building EXCEPT ![c] =
               {[block |-> Len(made) + 1, patch |-> Merged(patch[n], parents) \cup T]}]
  BY <1>6
<1>8. PICK header : header = [concilium |-> c, parents |-> parents, txns |-> T]
  OBVIOUS
<1>9. PICK new : new = Len(made) + 1
  OBVIOUS
<1>10. PICK job : job = [block |-> new, patch |-> Merged(patch[n], parents) \cup T]
  OBVIOUS
<1>11. /\ made' = Append(made, header) /\ building' = [building EXCEPT ![c] = {job}]
       /\ job.block = new /\ job.patch = Merged(patch[n], parents) \cup T
       /\ header.parents = parents /\ header.txns = T /\ T \subseteq Txns
  BY <1>7, <1>8, <1>9, <1>10
<1>12. /\ made \in Seq(Headers) /\ Len(made) \in Nat /\ MaxBlocks \in Nat
       /\ Block = 1..Len(made)
  BY <1>1, FinalityAssumption DEF Ordered, Block
<1>13. parents \subseteq Seen(n) /\ parents \subseteq 0..Len(made)
  <2>1. Pending(n) \subseteq Block /\ IsFiniteSet(Pending(n))
    <3>1. Pending(n) \subseteq Block
      BY <1>3 DEF SoundAt, Sound, Pending
    <3> QED
      <4>1. IsFiniteSet(1..Len(made))
        BY <1>12, FS_Interval
      <4> QED
        BY <1>12, <3>1, <4>1, FS_Subset
  <2>2. parents \subseteq Pending(n) \/ parents = topStable[n]
    BY <1>6, <2>1, BestParentsAre
  <2>3. topStable[n] \subseteq final[n] \cup {Genesis} /\ final[n] \subseteq Block
    BY <1>3 DEF SoundAt, Sound
  <2>4. parents \subseteq Seen(n)
    BY <2>2, <2>3 DEF Seen, Known, Pending
  <2>5. Block \cup {Genesis} \subseteq 0..Len(made)
    BY <1>12 DEF Genesis
  <2> QED
    BY <2>1, <2>2, <2>3, <2>4, <2>5
<1>14. header \in Headers
  <2>1. parents \subseteq 0..MaxBlocks
    BY <1>4, <1>12, <1>13
  <2> QED
    BY <1>8, <1>11, <2>1 DEF Headers
<1>15. /\ made' \in Seq(Headers) /\ Len(made') = new /\ Block' = 1..new
       /\ made'[new] = header /\ \A b \in Block : made'[b] = made[b]
       /\ new \notin Block /\ Block' = Block \cup {new} /\ new # Genesis
  BY <1>9, <1>11, <1>12, <1>14 DEF Block, Genesis
<1>16. \A b \in Block' : made'[b].parents \subseteq 0..(b - 1)
  <2>1. made'[new].parents \subseteq 0..(new - 1)
    BY <1>9, <1>11, <1>12, <1>13, <1>15
  <2> QED
    BY <1>1, <1>15, <2>1 DEF Ordered
<1>17. Ordered'
  BY <1>4, <1>9, <1>12, <1>15, <1>16 DEF Ordered
<1>18. /\ \A m \in N : SoundAt(m)' /\ DecidedOf(m)' = DecidedOf(m)
       /\ \A m \in Nodes : Seen(m)' = Seen(m)
  <2>1. \A m \in Nodes : Seen(m)' = Seen(m)
    BY <1>4 DEF nodeVars, Seen, Known
  <2> QED
    BY <1>3, <1>4, <1>15, <2>1, IdleSound DEF AccountIn, nodeVars
<1>19. Seen(n) \subseteq Block \cup {Genesis}
  BY <1>3 DEF SoundAt, Sound, Seen, Known
<1>20. \A m \in Nodes : new \notin Seen(m) \cup bad[m]
  <2>1. \A m \in Nodes : Seen(m) \subseteq Block \cup {Genesis}
    BY DEF AccountIn
  <2>2. \A m \in Nodes : bad[m] \subseteq Block
    BY <1>1 DEF Shape
  <2> QED
    BY <1>15, <2>1, <2>2
<1>21. \A b \in Block' : new \notin made'[b].parents
  BY <1>9, <1>12, <1>15, <1>16
<1>22. Waits(n, job)'
  <2>1. patch'[n] = patch[n] /\ bad' = bad
    BY <1>4 DEF nodeVars
  <2>2. Merged(patch[n], made'[new].parents) = Merged(patch[n], parents)
    BY <1>11, <1>15
  <2>3. Fits(patch[n], new, job.patch, store[n], DecidedOf(n))'
    <3>1. PICK P, S, K, p : P = patch[n] /\ S = store[n] /\ K = DecidedOf(n) /\ p = job.patch
      OBVIOUS
    <3>2. p = Merged(P, parents) \cup T
      BY <1>11, <3>1
    <3>3. Fits(P, new, p, S, K)'
      BY <1>11, <1>15, <3>2, MergedFits
    <3> QED
      BY <1>3, <1>4, <1>18, <3>1, <3>3 DEF nodeVars
  <2>4. made'[new].parents \subseteq Seen(n)'
    BY <1>3, <1>11, <1>13, <1>15, <1>18
  <2> QED
    BY <1>11, <1>18, <1>20, <1>21, <2>1, <2>3, <2>4 DEF Waits
<1>23. ASSUME NEW d \in Conciliums, NEW k \in building'[d]
       PROVE  /\ Waits(Home[d], k)'
              /\ \A e \in Conciliums : \A l \in building'[e] : l.block = k.block => e = d
  <2>1. \A e \in Conciliums : \A l \in building'[e] :
          (e = c /\ l = job) \/ (e # c /\ l \in building[e] /\ l.block \in Block)
    BY <1>1, <1>11 DEF Shape
  <2>2. CASE d = c /\ k = job
    <3>1. Waits(Home[d], k)'
      BY <1>2, <1>22, <2>2
    <3> QED
      BY <1>11, <1>15, <2>1, <2>2, <3>1
  <2>3. CASE d # c /\ k \in building[d] /\ k.block \in Block
    <3>1. PICK h : h = Home[d] /\ h \in N
      BY DEF Housed
    <3>2. Waits(h, k)
      BY <1>1, <2>3, <3>1 DEF JobsWait
    <3>3. Waits(h, k)'
      <4>1. made'[k.block] = made[k.block]
        BY <1>15, <2>3
      <4>2. Fits(patch[h], k.block, k.patch, store[h], DecidedOf(h))'
        BY <1>4, <1>18, <3>1, <3>2, <4>1 DEF Waits, Fits, ParentsIn, nodeVars
      <4>3. \A b \in Block' : k.block \notin made'[b].parents
        <5>1. k.block \notin parents
          BY <1>13, <2>3, <3>2, <1>1, <1>3 DEF Waits
        <5> QED
          BY <1>11, <1>15, <3>2, <5>1 DEF Waits
      <4>4. bad' = bad
        BY <1>4 DEF nodeVars
      <4> QED
        BY <1>3, <1>18, <3>1, <3>2, <4>1, <4>2, <4>3, <4>4 DEF Waits
    <3>4. \A e \in Conciliums : \A l \in building'[e] : l.block = k.block => e = d
      BY <1>1, <1>11, <1>15, <2>1, <2>3 DEF JobsWait
    <3> QED
      BY <3>1, <3>3, <3>4
  <2> QED
    BY <2>1, <2>2, <2>3
<1>24. Shape'
  <2>1. job \in [block : Block', patch : SUBSET Txns]
    <3>1. Merged(patch[n], parents) \subseteq Txns
      BY <1>3 DEF Merged, SoundAt, Sound
    <3> QED
      BY <1>10, <1>11, <1>15, <3>1
  <2>2. building' \in [Conciliums -> SUBSET [block : Block', patch : SUBSET Txns]]
    BY <1>1, <1>11, <1>15, <2>1 DEF Shape
  <2> QED
    BY <1>1, <1>4, <1>15, <2>2 DEF Shape, Tables, IsTable, nodeVars
<1> QED
  BY <1>15, <1>17, <1>18, <1>23, <1>24 DEF AccountIn, JobsWait

-----------------------------------------------------------------------------
LEMMA AccountSteps == AccountInv /\ [Next]_vars => AccountInv'
<1> SUFFICES ASSUME AccountInv, [Next]_vars PROVE AccountInv'
  OBVIOUS
<1>0. Housed(Nodes)
  BY FinalityAssumption DEF Housed
<1>1. CASE \E c \in Conciliums : CreateBlock(c) \/ CommitBlock(c) \/ DropCommit(c)
  BY <1>0, <1>1, CreateKeeps, CommitKeeps, DropKeeps DEF AccountInv
<1>2. CASE \E n \in Nodes : ReceiveBlock(n)
  BY <1>0, <1>2, ReceiveKeeps DEF AccountInv
<1>3. CASE UNCHANGED vars
  <2>1. \A m \in Nodes : SoundAt(m)'
    BY <1>3, IdleSound DEF AccountInv, AccountIn, vars, nodeVars, Block
  <2>2. \A m \in Nodes : Seen(m)' = Seen(m) /\ DecidedOf(m)' = DecidedOf(m)
    BY <1>3 DEF vars, nodeVars, Seen, Known, DecidedOf, TxnsOf
  <2>3. \A h \in Nodes : \A job : Waits(h, job) => Waits(h, job)'
    BY <1>3, <2>2 DEF Waits, Fits, ParentsIn, Block, vars, nodeVars
  <2>4. Shape' /\ Ordered'
    BY <1>3 DEF AccountInv, AccountIn, Shape, Tables, IsTable, Ordered, Block, vars, nodeVars
  <2> QED
    BY <1>3, <2>1, <2>2, <2>3, <2>4, FinalityAssumption DEF AccountInv, AccountIn, JobsWait, vars, Block
<1> QED
  BY <1>1, <1>2, <1>3 DEF Next

\* Whatever is rolled back and however late a commit comes: all that is final is in the
\* storage, and nothing is in it that did not come with a block the node decided of.
THEOREM Accounted == Spec => []AppliedIsAccounted
<1>1. AccountInv => AppliedIsAccounted
  BY DEF AccountInv, AccountIn, SoundAt, Sound, AppliedIsAccounted
<1> QED
  BY <1>1, AccountStarts, AccountSteps, PTL DEF Spec

\* The graph of every node and what it has decided of blocks are about blocks there are.
THEOREM TypeCorrect == Spec => []TypeOK
<1>1. ASSUME AccountInv PROVE TypeOK
  <2>1. \A n \in Nodes :
          /\ Pending(n) \subseteq Block /\ \A b \in Pending(n) : patch[n][b] \subseteq Txns
          /\ topStable[n] \subseteq Block \cup {Genesis}
          /\ final[n] \subseteq Block /\ unwound[n] \subseteq Block /\ store[n] \subseteq Txns
    BY <1>1 DEF AccountInv, AccountIn, SoundAt, Sound, Pending
  <2>2. /\ topStable \in [Nodes -> SUBSET (Block \cup {Genesis})]
        /\ final \in [Nodes -> SUBSET Block] /\ unwound \in [Nodes -> SUBSET Block]
        /\ store \in [Nodes -> SUBSET Txns]
    BY <1>1, <2>1 DEF AccountInv, AccountIn, Shape, Tables, IsTable
  <2> QED
    BY <1>1, <2>1, <2>2 DEF AccountInv, AccountIn, Shape, Ordered, TypeOK
<1> QED
  BY <1>1, AccountStarts, AccountSteps, PTL DEF Spec

-----------------------------------------------------------------------------
(***************************************************************************)
(* What pending blocks hold can be applied.  A stale commit breaks this of *)
(* the storage of its node, not of the patches among themselves: however   *)
(* late it comes, a patch spends no output twice and has what the patches  *)
(* of its parents have.                                                    *)
(***************************************************************************)
NoConflict(S) == \A t, u \in S : t # u => InputOf[t] # InputOf[u]

\* The patch p of block v can be applied to S and has what the patches of its parents have.
Upon(P, v, p, S) ==
  /\ NoConflict(p \cup S)
  /\ \A u \in ParentsIn(DOMAIN P, v) : P[u] \subseteq p

Neat(P, S) == NoConflict(S) /\ \A v \in DOMAIN P : Upon(P, v, P[v], S)

NeatAt(n) ==
  /\ Neat(patch[n], {})
  /\ n \notin stale => Neat(patch[n], store[n])

\* The inductive invariant, of the nodes N.  What a waiting block was made upon may have
\* been purged or have become final since: its patch has more.
NeatIn(N) ==
  /\ AccountIn(N)
  /\ \A n \in N : NeatAt(n)
  /\ \A c \in Conciliums : \A job \in building[c] :
       Upon(patch[Home[c]], job.block, job.patch, {})

NeatInv == NeatIn(Nodes)

LEMMA NoConflictUnion ==
  ASSUME NEW A, NEW B, NoConflict(A), NoConflict(B), ~Conflict(A, B)
  PROVE  NoConflict(A \cup B)
BY DEF NoConflict, Conflict

LEMMA NoConflictPart ==
  ASSUME NEW A, NoConflict(A), NEW B, B \subseteq A
  PROVE  NoConflict(B)
BY DEF NoConflict

\* Patches that merge can be applied together.
LEMMA MergedNeat ==
  ASSUME NEW P, NEW S, Neat(P, S), NEW B, ~ConflictAmong(P, B)
  PROVE  NoConflict(Merged(P, B) \cup S)
<1>1. ASSUME NEW t \in Merged(P, B) \cup S, NEW u \in Merged(P, B) \cup S, t # u
      PROVE  InputOf[t] # InputOf[u]
  <2>1. \A x \in Merged(P, B) : \E a \in B \cap DOMAIN P : x \in P[a]
    BY DEF Merged
  <2>2. \A a \in B \cap DOMAIN P : NoConflict(P[a] \cup S)
    BY DEF Neat, Upon
  <2>3. CASE t \in S /\ u \in S
    BY <1>1, <2>3 DEF Neat, NoConflict
  <2>4. CASE t \in Merged(P, B) /\ u \in S
    <3>1. PICK a \in B \cap DOMAIN P : t \in P[a]
      BY <2>1, <2>4
    <3> QED
      BY <1>1, <2>2, <2>4, <3>1 DEF NoConflict
  <2>5. CASE t \in S /\ u \in Merged(P, B)
    <3>1. PICK a \in B \cap DOMAIN P : u \in P[a]
      BY <2>1, <2>5
    <3> QED
      BY <1>1, <2>2, <2>5, <3>1 DEF NoConflict
  <2>6. CASE t \in Merged(P, B) /\ u \in Merged(P, B)
    <3>1. PICK a \in B \cap DOMAIN P : t \in P[a]
      BY <2>1, <2>6
    <3>2. PICK e \in B \cap DOMAIN P : u \in P[e]
      BY <2>1, <2>6
    <3>3. CASE a = e
      BY <1>1, <2>2, <3>1, <3>2, <3>3 DEF NoConflict
    <3>4. CASE a # e
      BY <1>1, <3>1, <3>2, <3>4 DEF ConflictAmong, Conflict
    <3> QED
      BY <3>3, <3>4
  <2> QED
    BY <2>3, <2>4, <2>5, <2>6
<1> QED
  BY <1>1 DEF NoConflict

\* What can be spent upon them can be applied with them.
LEMMA SpendNeat ==
  ASSUME NEW n \in Nodes, NEW base, NEW T, NEW S, S \subseteq store[n],
         NoConflict(base \cup S), Spendable(n, base, T)
  PROVE  NoConflict(base \cup T \cup S)
BY DEF NoConflict, Spendable

\* The new block stands on its parents.
LEMMA MergedUpon ==
  ASSUME NEW n \in Nodes, NEW S, S \subseteq store[n], Neat(patch[n], S), NEW parents,
         ~ConflictAmong(patch[n], parents), NEW T,
         Spendable(n, Merged(patch[n], parents), T)
  PROVE  /\ NoConflict(Merged(patch[n], parents) \cup T \cup S)
         /\ \A u \in parents \cap DOMAIN patch[n] :
              patch[n][u] \subseteq Merged(patch[n], parents)
<1>1. NoConflict(Merged(patch[n], parents) \cup T \cup S)
  BY MergedNeat, SpendNeat
<1>2. \A u \in parents \cap DOMAIN patch[n] :
        patch[n][u] \subseteq Merged(patch[n], parents)
  BY DEF Merged
<1> QED
  BY <1>1, <1>2

LEMMA AddNeat ==
  ASSUME NEW P, NEW S, Neat(P, S), NEW b, b \notin DOMAIN P,
         \A v \in DOMAIN P \cup {b} : b \notin made[v].parents,
         NEW p, Upon(P, b, p, S)
  PROVE  Neat(AddBlock(P, b, p), S)
<1>1. PICK P1 : P1 = AddBlock(P, b, p)
  OBVIOUS
<1>2. /\ DOMAIN P1 = DOMAIN P \cup {b} /\ P1[b] = p
      /\ \A v \in DOMAIN P : P1[v] = P[v]
  BY <1>1 DEF AddBlock
<1>3. \A v \in DOMAIN P1 : \A u \in ParentsIn(DOMAIN P1, v) :
        u \in ParentsIn(DOMAIN P, v) /\ P1[u] = P[u]
  BY <1>2 DEF ParentsIn
<1>4. \A v \in DOMAIN P1 : Upon(P, v, P1[v], S)
  BY <1>2 DEF Neat
<1>5. \A v \in DOMAIN P1 : Upon(P1, v, P1[v], S)
  BY <1>3, <1>4 DEF Upon
<1> QED
  BY <1>1, <1>5 DEF Neat

\* What is left of the graph when something becomes stable can be applied after it: a
\* block that is left has a tip above it, and that was not rolled back.
LEMMA FinaliseNeat ==
  ASSUME NEW N \in Nat, NEW P, DOMAIN P \subseteq 0..N, Descending(DOMAIN P),
         NEW S, Neat(P, S), NEW b \in DOMAIN P,
         NEW tops, NEW stable, NEW apply, NEW rollback, NEW left,
         Result(P, b, tops, stable, apply, rollback, left),
         ~ConflictAmong(P, tops)
  PROVE  Neat(left, S \cup apply)
<1>1. PICK V : V = DOMAIN P
  OBVIOUS
<1>2. PICK rest : rest = V \ stable
  OBVIOUS
<1>3. /\ V \subseteq 0..N /\ Descending(V) /\ b \in V /\ tops = FindTopStable(V, b)
      /\ stable = FindAlsoStable(V, tops) /\ apply = Merged(P, tops)
      /\ rollback = ConflictingBranches(rest, P, b, apply)
      /\ DOMAIN left = rest \ rollback
      /\ \A v \in DOMAIN left : left[v] = P[v] \ apply
  BY <1>1, <1>2 DEF Result
<1>4. Descending(rest) /\ rest \in SUBSET (0..N)
  BY <1>2, <1>3, PartDescends
<1>5. /\ rollback \subseteq rest /\ DownClosed(rest, rollback)
      /\ \A v \in Tips(rest) : Conflict(P[v], apply) => v = b \/ v \in rollback
  BY <1>3, <1>4, RollbackGoesDown
<1>6. NoConflict(apply \cup S)
  BY <1>3, MergedNeat
<1>7. \A v \in V : NoConflict(P[v] \cup S)
  BY <1>1 DEF Neat, Upon
<1>8. \A v \in V : \A a \in Below(V, v) : P[a] \subseteq P[v]
  <2>1. \A v \in V : \A u \in ParentsIn(V, v) : P[u] \subseteq P[v] \cup {}
    BY <1>1 DEF Neat, Upon
  <2>2. \A v \in V : \A a \in Below(V, v) : P[a] \subseteq P[v] \cup {}
    BY <1>3, <2>1, FlowsUp
  <2> QED
    BY <2>2
<1>9. \A v \in rest : \A a \in Below(rest, v) : P[a] \subseteq P[v]
  <2>1. \A v \in rest : \A u \in ParentsIn(rest, v) : P[u] \subseteq P[v] \cup {}
    BY <1>1, <1>2 DEF Neat, Upon, ParentsIn
  <2>2. \A v \in rest : \A a \in Below(rest, v) : P[a] \subseteq P[v] \cup {}
    BY <1>4, <2>1, FlowsUp
  <2> QED
    BY <2>2
<1>10. apply \subseteq P[b]
  <2>1. tops \subseteq Below(V, b) /\ Below(V, b) \subseteq V
    BY <1>3, TopStableBelow, BelowIn
  <2> QED
    BY <1>1, <1>3, <1>8, <2>1 DEF Merged
<1>11. ASSUME NEW v \in DOMAIN left PROVE NoConflict(P[v] \cup S \cup apply)
  <2>1. v \in rest /\ v \notin rollback
    BY <1>3
  <2>2. PICK w \in Tips(rest) : v \in Below(rest, w)
    BY <1>4, <2>1, TipAbove
  <2>3. w \in rest /\ w \in V
    BY <1>2, <2>2 DEF Tips
  <2>4. w \notin rollback
    BY <1>4, <1>5, <2>1, <2>2, <2>3, DownClosedBelow
  <2>5. P[v] \subseteq P[w]
    BY <1>9, <2>2, <2>3
  <2>6. NoConflict(P[w] \cup S)
    BY <1>7, <2>3
  <2>7. ~Conflict(P[w], apply)
    <3>1. CASE w = b
      BY <1>10, <2>6, <3>1 DEF NoConflict, Conflict
    <3>2. CASE w # b
      BY <1>5, <2>2, <2>4, <3>2
    <3> QED
      BY <3>1, <3>2
  <2> QED
    BY <1>6, <2>5, <2>6, <2>7 DEF NoConflict, Conflict
<1>12. ASSUME NEW v \in DOMAIN left PROVE Upon(left, v, left[v], S \cup apply)
  <2>1. NoConflict(left[v] \cup (S \cup apply))
    BY <1>3, <1>11 DEF NoConflict
  <2>2. \A u \in ParentsIn(DOMAIN left, v) : left[u] \subseteq left[v]
    <3>1. \A u \in ParentsIn(DOMAIN left, v) : u \in ParentsIn(V, v) /\ u \in DOMAIN left
      BY <1>2, <1>3 DEF ParentsIn
    <3>2. \A u \in ParentsIn(V, v) : P[u] \subseteq P[v]
      BY <1>1, <1>2, <1>3 DEF Neat, Upon
    <3> QED
      BY <1>3, <3>1, <3>2
  <2> QED
    BY <2>1, <2>2 DEF Upon
<1>13. NoConflict(S \cup apply)
  BY <1>6 DEF NoConflict
<1> QED
  BY <1>12, <1>13 DEF Neat

LEMMA StillNeat ==
  ASSUME NEW P, NEW S, Neat(P, S), \A v \in DOMAIN P : made'[v] = made[v]
  PROVE  Neat(P, S)'
BY DEF Neat, Upon, NoConflict, ParentsIn

LEMMA StillUpon ==
  ASSUME NEW P, NEW v, NEW p, NEW S, Upon(P, v, p, S), made'[v] = made[v]
  PROVE  Upon(P, v, p, S)'
BY DEF Upon, NoConflict, ParentsIn

\* _acceptBlock of a block that can be applied.
LEMMA AcceptNeat ==
  ASSUME Ordered, Tables, NEW n \in Nodes, SoundAt(n), Neat(patch[n], store[n]),
         NEW b \in Block, b \notin Seen(n), made[b].parents \subseteq Seen(n),
         NEW p, Upon(patch[n], b, p, store[n]),
         AcceptBlock(n, b, p), made' = made
  PROVE  Neat(patch[n], store[n])'
<1>1. PICK P1 : P1 = AddBlock(patch[n], b, p)
  OBVIOUS
<1>2. PICK tops : tops = FindTopStable(DOMAIN P1, b)
  OBVIOUS
<1>3. b \notin DOMAIN patch[n]
  BY DEF Seen, Known
<1>4. \A v \in DOMAIN patch[n] \cup {b} : b \notin made[v].parents
  <2>1. b \in Nat /\ made[b].parents \subseteq 0..(b - 1)
    BY DEF Ordered, Block
  <2>2. \A v \in DOMAIN patch[n] : made[v].parents \subseteq Seen(n)
    BY DEF SoundAt, Sound, Seen
  <2> QED
    BY <2>1, <2>2
<1>5. Neat(P1, store[n]) /\ DOMAIN P1 = DOMAIN patch[n] \cup {b}
  <2>1. DOMAIN P1 = DOMAIN patch[n] \cup {b}
    BY <1>1 DEF AddBlock
  <2> QED
    BY <1>1, <1>3, <1>4, <2>1, AddNeat
<1>6. DOMAIN P1 \in SUBSET Block /\ b \in DOMAIN P1
  BY <1>5 DEF SoundAt, Sound
<1>7. Descending(DOMAIN P1) /\ DOMAIN P1 \subseteq 0..Len(made) /\ Len(made) \in Nat
  <2>1. Len(made) \in Nat
    BY DEF Ordered
  <2>2. Descending(DOMAIN P1) /\ DOMAIN P1 \subseteq 1..Len(made)
    BY <1>6, BlocksDescend
  <2> QED
    BY <2>1, <2>2
<1>8. CASE Extend(n, P1)
  <2>1. patch'[n] = P1 /\ store'[n] = store[n]
    BY <1>8 DEF Extend, Tables, IsTable
  <2>2. PICK S : S = store[n]
    OBVIOUS
  <2>3. Neat(P1, S)'
    BY <1>5, <2>2, StillNeat
  <2> QED
    BY <2>1, <2>2, <2>3
<1>9. ASSUME NEW r, r = CheckFinality(b, P1, tops), Finalise(n, r, tops),
             ~ConflictAmong(P1, tops)
      PROVE  Neat(patch[n], store[n])'
  <2>1. patch'[n] = r.patches /\ store'[n] = store[n] \cup r.apply
    BY <1>9 DEF Finalise, Tables, IsTable
  <2>2. PICK P, S, A : P = r.patches /\ A = r.apply /\ S = store[n] \cup A
    OBVIOUS
  <2>3. Result(P1, b, tops, r.stable, r.apply, r.rollback, r.patches)
    BY <1>2, <1>9, Checked
  <2>4. Neat(P, S)
    <3>1. PICK stable, rollback : stable = r.stable /\ rollback = r.rollback
      OBVIOUS
    <3>2. Result(P1, b, tops, stable, A, rollback, P)
      BY <2>2, <2>3, <3>1
    <3> QED
      BY <1>5, <1>6, <1>7, <1>9, <2>2, <3>2, FinaliseNeat
  <2>5. Neat(P, S)'
    BY <2>4, StillNeat
  <2> QED
    BY <2>1, <2>2, <2>5
<1>10. \/ Extend(n, P1)
       \/ \E r : /\ r = CheckFinality(b, P1, tops) /\ Finalise(n, r, tops)
                 /\ ~ConflictAmong(P1, tops)
  BY <1>1, <1>2 DEF AcceptBlock, AcceptFails
<1> QED
  BY <1>8, <1>9, <1>10

\* Of the patches alone: what is left of them, and what waits for its commit, stays so.
LEMMA PurgeNeat ==
  ASSUME NEW P, Neat(P, {}), NEW left, DOMAIN left \subseteq DOMAIN P,
         NEW apply, \A v \in DOMAIN left : left[v] = P[v] \ apply
  PROVE  Neat(left, {}) /\ \A v, q : Upon(P, v, q, {}) => Upon(left, v, q, {})
<1>1. ASSUME NEW v, NEW u \in ParentsIn(DOMAIN left, v)
      PROVE  u \in ParentsIn(DOMAIN P, v) /\ left[u] = P[u] \ apply
  BY <1>1 DEF ParentsIn
<1>2. ASSUME NEW v, NEW q, Upon(P, v, q, {}) PROVE Upon(left, v, q, {})
  <2>1. \A u \in ParentsIn(DOMAIN left, v) : left[u] \subseteq q
    BY <1>1, <1>2 DEF Upon
  <2> QED
    BY <1>2, <2>1 DEF Upon
<1>3. ASSUME NEW v \in DOMAIN left PROVE Upon(left, v, left[v], {})
  <2>1. Upon(P, v, P[v], {}) /\ left[v] = P[v] \ apply
    BY DEF Neat
  <2>2. NoConflict(left[v] \cup {})
    BY <2>1 DEF Upon, NoConflict
  <2>3. \A u \in ParentsIn(DOMAIN left, v) : left[u] \subseteq left[v]
    BY <1>1, <2>1 DEF Upon
  <2> QED
    BY <2>2, <2>3 DEF Upon
<1>4. NoConflict({})
  BY DEF NoConflict
<1> QED
  BY <1>2, <1>3, <1>4 DEF Neat

LEMMA AcceptPurges ==
  ASSUME Ordered, Tables, NEW n \in Nodes, SoundAt(n), Neat(patch[n], {}),
         NEW b \in Block, b \notin Seen(n), made[b].parents \subseteq Seen(n),
         NEW p, Upon(patch[n], b, p, {}),
         AcceptBlock(n, b, p), made' = made
  PROVE  /\ Neat(patch[n], {})'
         /\ \A v, q : b \notin made[v].parents /\ Upon(patch[n], v, q, {})
                        => Upon(patch[n], v, q, {})'
<1>1. PICK P, P1 : P = patch[n] /\ P1 = AddBlock(P, b, p)
  OBVIOUS
<1>2. b \notin DOMAIN P
  BY <1>1 DEF Seen, Known
<1>3. \A v \in DOMAIN P \cup {b} : b \notin made[v].parents
  <2>1. \A v \in DOMAIN P : made[v].parents \subseteq Seen(n)
    BY <1>1 DEF SoundAt, Sound, Seen
  <2> QED
    BY <2>1
<1>4. Neat(P1, {})
  BY <1>1, <1>2, <1>3, AddNeat
<1>5. /\ DOMAIN P1 = DOMAIN P \cup {b}
      /\ \A v \in DOMAIN P : P1[v] = P[v]
  BY <1>1, <1>2 DEF AddBlock
<1>6. ASSUME NEW v, NEW q, b \notin made[v].parents, Upon(P, v, q, {})
      PROVE  Upon(P1, v, q, {})
  <2>1. \A u \in ParentsIn(DOMAIN P1, v) : u \in ParentsIn(DOMAIN P, v) /\ P1[u] = P[u]
    BY <1>5, <1>6 DEF ParentsIn
  <2> QED
    BY <1>6, <2>1 DEF Upon
<1>7. PICK left : /\ patch'[n] = left
                  /\ Neat(left, {}) /\ \A v, q : Upon(P1, v, q, {}) => Upon(left, v, q, {})
  <2>1. CASE Extend(n, P1)
    BY <1>4, <2>1 DEF Extend, Tables, IsTable
  <2>2. ASSUME NEW tops, tops = FindTopStable(DOMAIN P1, b),
               NEW r, r = CheckFinality(b, P1, tops), Finalise(n, r, tops)
        PROVE  \E left : /\ patch'[n] = left
                  /\ Neat(left, {}) /\ \A v, q : Upon(P1, v, q, {}) => Upon(left, v, q, {})
    <3>1. patch'[n] = r.patches
      BY <2>2 DEF Finalise, Tables, IsTable
    <3>2. Result(P1, b, tops, r.stable, r.apply, r.rollback, r.patches)
      BY <2>2, Checked
    <3>3. PICK left, apply : left = r.patches /\ apply = r.apply
      OBVIOUS
    <3>4. DOMAIN left \subseteq DOMAIN P1 /\ \A v \in DOMAIN left : left[v] = P1[v] \ apply
      BY <3>2, <3>3 DEF Result
    <3>5. Neat(left, {}) /\ \A v, q : Upon(P1, v, q, {}) => Upon(left, v, q, {})
      BY <1>4, <3>4, PurgeNeat
    <3> QED
      BY <3>1, <3>3, <3>5
  <2> QED
    BY <1>1, <2>1, <2>2 DEF AcceptBlock
<1>8. Neat(left, {})' /\ \A v, q : Upon(left, v, q, {}) => Upon(left, v, q, {})'
  BY <1>7, StillNeat, StillUpon
<1> QED
  BY <1>1, <1>6, <1>7, <1>8

\* With the storage, too, but where the patch is stale.
LEMMA AcceptNeatAt ==
  ASSUME Ordered, Tables, NEW n \in Nodes, SoundAt(n), NeatAt(n),
         NEW b \in Block, b \notin Seen(n), made[b].parents \subseteq Seen(n),
         NEW p, Upon(patch[n], b, p, {}), AcceptBlock(n, b, p), made' = made,
         n \notin stale' => n \notin stale /\ Upon(patch[n], b, p, store[n])
  PROVE  /\ NeatAt(n)'
         /\ \A v, q : b \notin made[v].parents /\ Upon(patch[n], v, q, {})
                        => Upon(patch[n], v, q, {})'
<1>1. /\ Neat(patch[n], {})'
      /\ \A v, q : b \notin made[v].parents /\ Upon(patch[n], v, q, {})
                     => Upon(patch[n], v, q, {})'
  BY AcceptPurges DEF NeatAt
<1>2. n \notin stale' => Neat(patch[n], store[n])'
  BY AcceptNeat DEF NeatAt
<1> QED
  BY <1>1, <1>2 DEF NeatAt

\* The node does nothing.
LEMMA IdleNeat ==
  ASSUME NEW m \in Nodes, SoundAt(m), NeatAt(m), \A b \in Block : made'[b] = made[b],
         patch'[m] = patch[m], store'[m] = store[m], stale \subseteq stale'
  PROVE  NeatAt(m)'
<1>1. PICK P, S : P = patch[m] /\ S = store[m]
  OBVIOUS
<1>2. \A v \in DOMAIN P : made'[v] = made[v]
  BY <1>1 DEF SoundAt, Sound
<1>3. Neat(P, {})' /\ (m \notin stale => Neat(P, S)')
  BY <1>1, <1>2, StillNeat DEF NeatAt
<1> QED
  BY <1>1, <1>3 DEF NeatAt

\* A block that waits goes on waiting when the node n takes the block b in.
LEMMA AcceptLeavesJobs ==
  ASSUME NEW N, Housed(N), AccountIn(N), NEW n \in Nodes, NEW b \in Block, b \notin Seen(n),
         OthersKeep(n), made' = made,
         \A v, q : b \notin made[v].parents /\ Upon(patch[n], v, q, {})
                     => Upon(patch[n], v, q, {})',
         NEW d \in Conciliums, NEW k \in building[d],
         Upon(patch[Home[d]], k.block, k.patch, {})
  PROVE  Upon(patch[Home[d]], k.block, k.patch, {})'
<1>1. PICK h : h = Home[d] /\ h \in Nodes
  BY FinalityAssumption
<1>2. made[k.block].parents \subseteq Seen(h)
  BY <1>1 DEF AccountIn, JobsWait, Waits
<1>3. CASE h = n
  BY <1>1, <1>2, <1>3
<1>4. CASE h # n
  <2>1. patch'[h] = patch[h]
    BY <1>1, <1>4 DEF OthersKeep
  <2> QED
    BY <1>1, <2>1 DEF Upon, NoConflict, ParentsIn
<1> QED
  BY <1>3, <1>4

-----------------------------------------------------------------------------
LEMMA NeatStarts == Init => NeatInv
<1> SUFFICES ASSUME Init PROVE NeatInv
  OBVIOUS
<1>1. \A n \in Nodes : NeatAt(n)
  BY DEF Init, NeatAt, Neat, NoConflict
<1> QED
  BY <1>1, AccountStarts DEF Init, NeatInv, NeatIn, AccountInv

\* The patch of a commit is neat; the storage may have changed since it was made.
LEMMA NeatCommit ==
  ASSUME NEW N, Housed(N), NeatIn(N), NEW c \in Conciliums, CommitBlock(c)
  PROVE  NeatIn(N)'
<1>1. PICK n : n = Home[c] /\ n \in N /\ n \in Nodes
  BY DEF Housed
<1>2. AccountIn(N) /\ SoundAt(n) /\ Shape /\ Tables /\ Ordered /\ NeatAt(n)
  BY <1>1 DEF NeatIn, AccountIn, Shape
<1>3. PICK job \in building[c] :
        /\ AcceptBlock(n, job.block, job.patch)
        /\ stale' = IF Conflict(job.patch, store[n]) THEN stale \cup {n} ELSE stale
  BY <1>1 DEF CommitBlock
<1>4. made' = made /\ building' = [building EXCEPT ![c] = {}]
  BY DEF CommitBlock
<1>5. Waits(n, job) /\ Upon(patch[n], job.block, job.patch, {})
  BY <1>1, <1>3 DEF NeatIn, AccountIn, JobsWait
<1>6. /\ job.block \in Block /\ job.patch \subseteq Txns
      /\ job.block \notin Seen(n) /\ made[job.block].parents \subseteq Seen(n)
      /\ Fits(patch[n], job.block, job.patch, store[n], DecidedOf(n))
  BY <1>1, <1>2, <1>3, <1>5 DEF Shape, Waits
<1>7. ASSUME n \notin stale' PROVE n \notin stale /\ Upon(patch[n], job.block, job.patch, store[n])
  <2>1. n \notin stale /\ ~Conflict(job.patch, store[n])
    BY <1>3, <1>7
  <2>2. NoConflict(job.patch) /\ NoConflict(store[n])
    BY <1>2, <1>5, <2>1 DEF NeatAt, Neat, Upon, NoConflict
  <2>3. NoConflict(job.patch \cup store[n])
    BY <2>1, <2>2, NoConflictUnion
  <2> QED
    BY <1>5, <2>1, <2>3 DEF Upon
<1>8. /\ NeatAt(n)'
      /\ \A v, q : job.block \notin made[v].parents /\ Upon(patch[n], v, q, {})
                     => Upon(patch[n], v, q, {})'
  BY <1>1, <1>2, <1>3, <1>4, <1>5, <1>6, <1>7, AcceptNeatAt
<1>9. OthersKeep(n)
  BY <1>1, <1>2, <1>3, <1>4, <1>6, AcceptKeeps
<1>10. ASSUME NEW m \in N PROVE NeatAt(m)'
  <2>1. CASE m # n
    <3>1. m \in Nodes /\ SoundAt(m) /\ NeatAt(m) /\ stale \subseteq stale'
      BY <1>3 DEF NeatIn, AccountIn, Housed
    <3> QED
      BY <1>4, <1>9, <2>1, <3>1, IdleNeat DEF OthersKeep
  <2> QED
    BY <1>8, <2>1
<1>11. ASSUME NEW d \in Conciliums, NEW k \in building'[d]
       PROVE  Upon(patch[Home[d]], k.block, k.patch, {})'
  <2>1. k \in building[d]
    BY <1>2, <1>4, <1>11 DEF Shape
  <2>2. Upon(patch[Home[d]], k.block, k.patch, {})
    BY <2>1 DEF NeatIn
  <2> QED
    BY <1>1, <1>2, <1>4, <1>6, <1>8, <1>9, <2>1, <2>2, AcceptLeavesJobs
<1> QED
  BY <1>2, <1>10, <1>11, CommitKeeps DEF NeatIn

LEMMA NeatDrop ==
  ASSUME NEW N, Housed(N), NeatIn(N), NEW c \in Conciliums, DropCommit(c)
  PROVE  NeatIn(N)'
<1>1. UNCHANGED <<made, nodeVars, stale>> /\ building' = [building EXCEPT ![c] = {}]
  BY DEF DropCommit
<1>2. \A d \in Conciliums : building'[d] \subseteq building[d]
  BY <1>1 DEF NeatIn, AccountIn, Shape
<1>3. \A m \in N : NeatAt(m)'
  BY <1>1, IdleNeat DEF NeatIn, AccountIn, Housed, nodeVars
<1>4. ASSUME NEW d \in Conciliums, NEW k \in building'[d]
      PROVE  Upon(patch[Home[d]], k.block, k.patch, {})'
  <2>1. Upon(patch[Home[d]], k.block, k.patch, {})
    BY <1>2, <1>4 DEF NeatIn
  <2> QED
    BY <1>1, <2>1 DEF Upon, NoConflict, ParentsIn, nodeVars
<1> QED
  BY <1>3, <1>4, DropKeeps DEF NeatIn

\* A received block can be applied upon its parents.
LEMMA ReceivedUpon ==
  ASSUME NEW n \in Nodes, NeatAt(n), NEW b,
         NEW p, p = Merged(patch[n], made[b].parents) \cup made[b].txns,
         ~ConflictAmong(patch[n], made[b].parents),
         Spendable(n, Merged(patch[n], made[b].parents), made[b].txns)
  PROVE  /\ Upon(patch[n], b, p, {})
         /\ n \notin stale => Upon(patch[n], b, p, store[n])
<1>1. PICK B, T : B = made[b].parents /\ T = made[b].txns
  OBVIOUS
<1>2. ASSUME NEW S, S \subseteq store[n], Neat(patch[n], S) PROVE Upon(patch[n], b, p, S)
  <2>1. /\ NoConflict(Merged(patch[n], B) \cup T \cup S)
        /\ \A u \in B \cap DOMAIN patch[n] : patch[n][u] \subseteq Merged(patch[n], B)
    BY <1>1, <1>2, MergedUpon
  <2> QED
    BY <1>1, <2>1 DEF Upon, ParentsIn
<1> QED
  BY <1>2 DEF NeatAt

LEMMA NeatReceive ==
  ASSUME NEW N, Housed(N), NeatIn(N), NEW n \in N, ReceiveBlock(n)
  PROVE  NeatIn(N)'
<1>1. /\ AccountIn(N) /\ n \in Nodes /\ N \subseteq Nodes /\ SoundAt(n)
      /\ Shape /\ Tables /\ Ordered /\ NeatAt(n)
  BY DEF NeatIn, AccountIn, Shape, Housed
<1>2. made' = made /\ building' = building /\ stale' = stale
  BY DEF ReceiveBlock
<1>3. PICK b \in Unknown(n) : ExecBlock(n, b) \/ RefuseBlock(n, b)
  BY DEF ReceiveBlock
<1>4. b \in Block /\ b \notin Seen(n)
  BY <1>1, <1>3, UnknownIs
<1>5. CASE UNCHANGED <<patch, topStable, final, unwound, store>>
  <2>1. \A m \in N : NeatAt(m)'
    BY <1>2, <1>5, IdleNeat DEF NeatIn, AccountIn, Housed
  <2>2. ASSUME NEW c \in Conciliums, NEW job \in building[c]
        PROVE  Upon(patch[Home[c]], job.block, job.patch, {})'
    <3>1. Upon(patch[Home[c]], job.block, job.patch, {})
      BY DEF NeatIn
    <3> QED
      BY <1>2, <1>5, <3>1 DEF Upon, NoConflict, ParentsIn
  <2> QED
    BY <1>2, <2>1, <2>2, ReceiveKeeps DEF NeatIn
<1>6. ASSUME NEW p, p = Merged(patch[n], made[b].parents) \cup made[b].txns,
             made[b].parents \subseteq Executed(n), AcceptBlock(n, b, p),
             ~ConflictAmong(patch[n], made[b].parents),
             Spendable(n, Merged(patch[n], made[b].parents), made[b].txns)
      PROVE  NeatIn(N)'
  <2>1. /\ Upon(patch[n], b, p, {})
        /\ n \notin stale => Upon(patch[n], b, p, store[n])
    BY <1>1, <1>6, ReceivedUpon
  <2>2. Fits(patch[n], b, p, store[n], DecidedOf(n))
    BY <1>6, MergedFits
  <2>3. p \subseteq Txns
    <3>1. made[b].txns \subseteq Txns
      <4>1. made[b] \in Headers
        BY <1>1, <1>4 DEF Ordered, Block
      <4> QED
        BY <4>1 DEF Headers
    <3>2. Merged(patch[n], made[b].parents) \subseteq Txns
      BY <1>1 DEF Merged, SoundAt, Sound
    <3> QED
      BY <1>6, <3>1, <3>2
  <2>4. made[b].parents \subseteq Seen(n)
    BY <1>6 DEF Executed, Seen, Known, Pending
  <2>5. /\ NeatAt(n)'
        /\ \A v, q : b \notin made[v].parents /\ Upon(patch[n], v, q, {})
                       => Upon(patch[n], v, q, {})'
    BY <1>1, <1>2, <1>4, <1>6, <2>1, <2>4, AcceptNeatAt
  <2>6. OthersKeep(n)
    BY <1>1, <1>2, <1>4, <1>6, <2>2, <2>3, <2>4, AcceptKeeps
  <2>7. ASSUME NEW m \in N PROVE NeatAt(m)'
    <3>1. CASE m # n
      <4>1. m \in Nodes /\ SoundAt(m) /\ NeatAt(m)
        BY <1>1 DEF NeatIn, AccountIn
      <4> QED
        BY <1>2, <2>6, <3>1, <4>1, IdleNeat DEF OthersKeep
    <3> QED
      BY <2>5, <3>1
  <2>8. ASSUME NEW c \in Conciliums, NEW job \in building'[c]
        PROVE  Upon(patch[Home[c]], job.block, job.patch, {})'
    <3>1. job \in building[c] /\ Upon(patch[Home[c]], job.block, job.patch, {})
      BY <1>2, <2>8 DEF NeatIn
    <3> QED
      BY <1>1, <1>2, <1>4, <2>5, <2>6, <3>1, AcceptLeavesJobs
  <2> QED
    BY <1>2, <2>7, <2>8, ReceiveKeeps DEF NeatIn
<1>7. \/ UNCHANGED <<patch, topStable, final, unwound, store>>
      \/ \E p : /\ p = Merged(patch[n], made[b].parents) \cup made[b].txns
                /\ made[b].parents \subseteq Executed(n) /\ AcceptBlock(n, b, p)
                /\ ~ConflictAmong(patch[n], made[b].parents)
                /\ Spendable(n, Merged(patch[n], made[b].parents), made[b].txns)
  BY <1>3 DEF ExecBlock, RefuseBlock
<1> QED
  BY <1>5, <1>6, <1>7

\* The patch of a block that is made is of what is there.
LEMMA NeatCreate ==
  ASSUME NEW N, Housed(N), NeatIn(N), NEW c \in Conciliums, CreateBlock(c)
  PROVE  NeatIn(N)'
<1>1. AccountIn(N) /\ AccountIn(N)' /\ Shape /\ Ordered /\ Shape'
  BY CreateKeeps DEF NeatIn, AccountIn
<1>2. PICK n : n = Home[c] /\ n \in N /\ n \in Nodes
  BY DEF Housed
<1>3. UNCHANGED <<nodeVars, stale>>
  BY DEF CreateBlock
<1>4. SoundAt(n) /\ NeatAt(n)
  BY <1>1, <1>2 DEF NeatIn, AccountIn
<1>5. PICK parents \in BestParents(Pending(n), patch[n], c, topStable[n]) :
        \E T \in SUBSET {t \in Txns : ConciliumOf[t] = c} :
          /\ Spendable(n, Merged(patch[n], parents), T)
          /\ made' = Append(made, [concilium |-> c, parents |-> parents, txns |-> T])
          /\ building' = [building EXCEPT ![c] =
               {[block |-> Len(made) + 1, patch |-> Merged(patch[n], parents) \cup T]}]
  BY <1>2 DEF CreateBlock
<1>6. PICK T \in SUBSET {t \in Txns : ConciliumOf[t] = c} :
          /\ Spendable(n, Merged(patch[n], parents), T)
          /\ made' = Append(made, [concilium |-> c, parents |-> parents, txns |-> T])
          /\ building' = [building EXCEPT ![c] =
               {[block |-> Len(made) + 1, patch |-> Merged(patch[n], parents) \cup T]}]
  BY <1>5
<1>7. PICK header, new, job :
        /\ header = [concilium |-> c, parents |-> parents, txns |-> T]
        /\ new = Len(made) + 1
        /\ job = [block |-> new, patch |-> Merged(patch[n], parents) \cup T]
  OBVIOUS
<1>8. /\ made' = Append(made, header) /\ building' = [building EXCEPT ![c] = {job}]
      /\ job.block = new /\ job.patch = Merged(patch[n], parents) \cup T
      /\ header.parents = parents
  BY <1>6, <1>7
<1>9. made'[new].parents = parents /\ \A b \in Block : made'[b] = made[b]
  BY <1>1, <1>7, <1>8 DEF Ordered, Block
<1>10. ~ConflictAmong(patch[n], parents)
  <2>1. Block = 1..Len(made) /\ Len(made) \in Nat
    BY <1>1 DEF Ordered, Block
  <2>2. Pending(n) \subseteq Block
    BY <1>4 DEF SoundAt, Sound, Pending
  <2>3. IsFiniteSet(Pending(n))
    <3>1. IsFiniteSet(1..Len(made))
      BY <2>1, FS_Interval
    <3> QED
      BY <2>1, <2>2, <3>1, FS_Subset
  <2>4. \/ Pending(n) = {}
        \/ ~ConflictAmong(patch[n], parents)
    BY <1>5, <2>3, BestParentsAre
  <2> QED
    BY <2>4 DEF ConflictAmong, Pending
<1>11. Upon(patch[n], new, job.patch, {})'
  <2>1. PICK p : p = job.patch
    OBVIOUS
  <2>2. /\ NoConflict(p \cup {})
        /\ \A u \in parents \cap DOMAIN patch[n] : patch[n][u] \subseteq p
    <3>1. /\ NoConflict(Merged(patch[n], parents) \cup T \cup {})
          /\ \A u \in parents \cap DOMAIN patch[n] :
               patch[n][u] \subseteq Merged(patch[n], parents)
      BY <1>2, <1>4, <1>6, <1>10, MergedUpon DEF NeatAt
    <3> QED
      BY <1>8, <2>1, <3>1
  <2>3. patch'[n] = patch[n]
    BY <1>3 DEF nodeVars
  <2> QED
    BY <1>9, <2>1, <2>2, <2>3 DEF Upon, ParentsIn, NoConflict
<1>12. \A m \in N : NeatAt(m)'
  BY <1>1, <1>3, <1>9, IdleNeat DEF NeatIn, AccountIn, Housed, nodeVars
<1>13. \A d \in Conciliums : building'[d] = IF d = c THEN {job} ELSE building[d]
  BY <1>1, <1>8 DEF Shape
<1>14. ASSUME NEW d \in Conciliums, NEW k \in building'[d]
       PROVE  Upon(patch[Home[d]], k.block, k.patch, {})'
  <2>1. CASE d = c
    <3>1. k = job /\ Home[d] = n
      BY <1>2, <1>13, <1>14, <2>1
    <3> QED
      BY <1>8, <1>11, <3>1
  <2>2. CASE d # c
    <3>1. k \in building[d] /\ k.block \in Block
      BY <1>1, <1>13, <1>14, <2>2 DEF Shape
    <3>2. PICK P, b, p : P = patch[Home[d]] /\ b = k.block /\ p = k.patch
      OBVIOUS
    <3>3. Upon(P, b, p, {})
      BY <3>1, <3>2 DEF NeatIn
    <3>4. Upon(P, b, p, {})'
      BY <1>9, <3>1, <3>2, <3>3, StillUpon
    <3> QED
      BY <1>3, <3>2, <3>4 DEF nodeVars
  <2> QED
    BY <2>1, <2>2
<1> QED
  BY <1>1, <1>12, <1>14 DEF NeatIn

-----------------------------------------------------------------------------
LEMMA NeatSteps == NeatInv /\ [Next]_vars => NeatInv'
<1> SUFFICES ASSUME NeatInv, [Next]_vars PROVE NeatInv'
  OBVIOUS
<1>0. Housed(Nodes)
  BY FinalityAssumption DEF Housed
<1>1. CASE \E c \in Conciliums : CreateBlock(c) \/ CommitBlock(c) \/ DropCommit(c)
  BY <1>0, <1>1, NeatCreate, NeatCommit, NeatDrop DEF NeatInv
<1>2. CASE \E n \in Nodes : ReceiveBlock(n)
  BY <1>0, <1>2, NeatReceive DEF NeatInv
<1>3. CASE UNCHANGED vars
  <2>1. \A n \in Nodes : NeatAt(n)'
    BY <1>3, IdleNeat DEF NeatInv, NeatIn, AccountIn, vars, nodeVars
  <2>2. ASSUME NEW c \in Conciliums, NEW job \in building[c]
        PROVE  Upon(patch[Home[c]], job.block, job.patch, {})'
    <3>1. Upon(patch[Home[c]], job.block, job.patch, {})
      BY DEF NeatInv, NeatIn
    <3> QED
      BY <1>3, <3>1 DEF Upon, NoConflict, ParentsIn, vars, nodeVars
  <2>3. AccountInv'
    BY AccountSteps DEF NeatInv, NeatIn, AccountInv
  <2> QED
    BY <1>3, <2>1, <2>2, <2>3 DEF NeatInv, NeatIn, AccountInv, vars
<1> QED
  BY <1>1, <1>2, <1>3 DEF Next

LEMMA NeatHolds == Spec => []NeatInv
<1>1. NeatInv /\ [Next]_vars => NeatInv'
  BY NeatSteps
<1> QED
  BY <1>1, NeatStarts, PTL DEF Spec

\* What a pending block holds can still be applied, where no commit came with a stale
\* patch; wherever, it holds all that the pending blocks under it hold.
THEOREM PendingStaysApplicable == Spec => []PendingApplies
<1>1. ASSUME NeatInv PROVE PendingApplies
  <2>1. ASSUME NEW n \in Nodes, NEW b \in Pending(n)
        PROVE  /\ n \notin stale => ~Conflict(patch[n][b], store[n])
               /\ \A a \in Below(Pending(n), b) : patch[n][a] \subseteq patch[n][b]
    <3>1. /\ SoundAt(n) /\ Ordered /\ Neat(patch[n], {})
          /\ n \notin stale => Neat(patch[n], store[n])
      BY <1>1 DEF NeatInv, NeatIn, NeatAt, AccountIn
    <3>2. Descending(Pending(n))
      BY <3>1, BlocksDescend DEF SoundAt, Sound, Pending
    <3>3. n \notin stale => NoConflict(patch[n][b] \cup store[n])
      BY <3>1 DEF Neat, Upon, Pending
    <3>4. PICK f : f = patch[n]
      OBVIOUS
    <3>5. \A v \in Pending(n) : \A u \in ParentsIn(Pending(n), v) : f[u] \subseteq f[v] \cup {}
      BY <3>1, <3>4 DEF Neat, Upon, Pending
    <3>6. \A a \in Below(Pending(n), b) : f[a] \subseteq f[b] \cup {}
      BY <3>2, <3>5, FlowsUp
    <3>7. n \notin stale => ~Conflict(patch[n][b], store[n])
      BY <3>3 DEF NoConflict, Conflict
    <3> QED
      BY <3>4, <3>6, <3>7
  <2> QED
    BY <2>1 DEF PendingApplies
<1> QED
  BY <1>1, NeatHolds, PTL

\* Where no commit came with a stale patch: the storage of a node never has an output
\* spent twice, whatever waited for its commit while blocks were accepted.
THEOREM NeverSpentTwice == Spec => []SpentOnce
<1>1. NeatInv => SpentOnce
  BY DEF NeatInv, NeatIn, NeatAt, Neat, NoConflict, SpentOnce
<1> QED
  BY <1>1, NeatHolds, PTL

-----------------------------------------------------------------------------
(***************************************************************************)
(* What is final for a node that had to roll back nothing is what is       *)
(* supported in the blocks it accepted: it does not depend on the order    *)
(* they came in, nor on how late a commit comes.                           *)
(***************************************************************************)
Accepted(n) == Pending(n) \cup final[n]

OrderAt(n) ==
  /\ \A v \in final[n] : made[v].parents \subseteq Seen(n)
  /\ unwound[n] = {} => final[n] = Supported(Accepted(n))

OrderInv == NeatInv /\ \A n \in Nodes : OrderAt(n)

\* The blocks of the graph are blocks of conciliums.
LEMMA MadeByConciliums ==
  ASSUME Ordered, NEW E \in SUBSET Block
  PROVE  OfConciliums(E)
<1>1. \A v \in E : made[v] \in Headers
  BY DEF Ordered, Block
<1> QED
  BY <1>1 DEF Headers, OfConciliums

\* The merge of the top stable blocks does not throw: b holds what they hold.
LEMMA TopsMerge ==
  ASSUME NEW P, Descending(DOMAIN P), NEW S, Neat(P, S), NEW b \in DOMAIN P
  PROVE  ~ConflictAmong(P, FindTopStable(DOMAIN P, b))
<1>1. \A v \in DOMAIN P : \A u \in ParentsIn(DOMAIN P, v) : P[u] \subseteq P[v] \cup {}
  BY DEF Neat, Upon
<1>2. PICK V : V = DOMAIN P
  OBVIOUS
<1>3. \A a \in Below(V, b) : P[a] \subseteq P[b] \cup {}
  <2>1. \A v \in V : \A a \in Below(V, v) : P[a] \subseteq P[v] \cup {}
    BY <1>1, <1>2, FlowsUp
  <2> QED
    BY <1>2, <2>1
<1>4. FindTopStable(V, b) \subseteq Below(V, b)
  BY <1>2, TopStableBelow
<1>5. NoConflict(P[b] \cup S)
  BY DEF Neat, Upon
<1> QED
  BY <1>2, <1>3, <1>4, <1>5 DEF ConflictAmong, Conflict, NoConflict

\* _acceptBlock and checkFinality.
LEMMA AcceptOrders ==
  ASSUME Ordered, Tables, NEW n \in Nodes, SoundAt(n), Neat(patch[n], {}),
         NEW b \in Block, b \notin Seen(n), made[b].parents \subseteq Seen(n),
         NEW p, Upon(patch[n], b, p, {}), p \subseteq Txns,
         Fits(patch[n], b, p, store[n], DecidedOf(n)),
         AcceptBlock(n, b, p), made' = made, OrderAt(n)
  PROVE  OrderAt(n)'
<1>1. PICK P, F, U, P1, tops :
        /\ P = patch[n] /\ F = final[n] /\ U = unwound[n]
        /\ P1 = AddBlock(P, b, p) /\ tops = FindTopStable(DOMAIN P1, b)
  OBVIOUS
<1>2. PICK E : E = DOMAIN P \cup F
  OBVIOUS
<1>3. /\ DOMAIN P1 = DOMAIN P \cup {b} /\ DOMAIN P \subseteq Block /\ F \subseteq Block
      /\ DOMAIN P \cap F = {} /\ b \notin E /\ Accepted(n) = E
      /\ \A v \in E : made[v].parents \subseteq Seen(n)
  <2>1. \A v \in DOMAIN P : made[v].parents \subseteq Seen(n)
    BY <1>1 DEF SoundAt, Sound, Seen
  <2> QED
    BY <1>1, <1>2, <2>1 DEF AddBlock, SoundAt, Sound, Seen, Known, OrderAt, Accepted, Pending
<1>4. b \notin made[b].parents
  BY DEF Seen
<1>5. Seen(n)' = Seen(n) \cup {b}
  BY AcceptKeeps
<1>6. Neat(P1, {})
  <2>1. \A v \in DOMAIN P \cup {b} : b \notin made[v].parents
    BY <1>2, <1>3, <1>4
  <2>2. b \notin DOMAIN P
    BY <1>2, <1>3
  <2> QED
    BY <1>1, <2>1, <2>2, AddNeat
<1>7. Descending(DOMAIN P1)
  BY <1>3, BlocksDescend
<1>8. ~ConflictAmong(P1, tops)
  BY <1>1, <1>3, <1>6, <1>7, TopsMerge
<1>9. U = {} => Supported(E \cup {b}) = F \cup FindAlsoStable(DOMAIN P1, tops)
  <2>1. SUFFICES ASSUME U = {} PROVE Supported(E \cup {b}) = F \cup FindAlsoStable(DOMAIN P1, tops)
    OBVIOUS
  <2>2. PICK E2, V : E2 = E \cup {b} /\ V = DOMAIN P1
    OBVIOUS
  <2>3. E2 \subseteq Block
    BY <1>2, <1>3, <2>2
  <2>4. Descending(E2) /\ OfConciliums(E2)
    BY <2>3, BlocksDescend, MadeByConciliums
  <2>5. \A v \in E2 : b \notin made[v].parents
    BY <1>3, <1>4, <2>2
  <2>6. V \cup F = E2 /\ V \cap F = {} /\ b \in V
    BY <1>2, <1>3, <2>2
  <2>7. F = Supported(E)
    BY <1>1, <1>3, <2>1 DEF OrderAt
  <2>8. Supported(E2) = F \cup FindAlsoStable(V, FindTopStable(V, b))
    BY <1>3, <2>2, <2>4, <2>5, <2>6, <2>7, SupportGrows
  <2> QED
    BY <1>1, <2>2, <2>8
<1>10. CASE tops = {} /\ Extend(n, P1)
  <2>1. patch'[n] = P1 /\ final' = final /\ unwound' = unwound
    BY <1>10 DEF Extend, Tables, IsTable
  <2>2. FindAlsoStable(DOMAIN P1, tops) = {}
    BY <1>10 DEF FindAlsoStable
  <2>3. Accepted(n)' = E \cup {b}
    BY <1>1, <1>2, <1>3, <2>1 DEF Accepted, Pending
  <2>4. Supported(Accepted(n))' = Supported(E \cup {b})
    BY <2>3 DEF Supported, Way, SeesEnough, WitnessesSeen, WitnessesOf, ParentsIn
  <2> QED
    BY <1>1, <1>5, <1>9, <2>1, <2>2, <2>4 DEF OrderAt
<1>11. ASSUME NEW r, r = CheckFinality(b, P1, tops), Finalise(n, r, tops)
       PROVE  OrderAt(n)'
  <2>1. Result(P1, b, tops, r.stable, r.apply, r.rollback, r.patches)
    BY <1>1, <1>11, Checked
  <2>2. /\ patch'[n] = r.patches /\ final'[n] = F \cup r.stable
        /\ unwound'[n] = U \cup r.rollback
    BY <1>1, <1>11 DEF Finalise, Tables, IsTable
  <2>3. r.stable \subseteq DOMAIN P1 /\ r.stable = FindAlsoStable(DOMAIN P1, tops)
    BY <1>3, <1>7, <2>1, StableGoesDown DEF Result
  <2>4. \A v \in final'[n] : made'[v].parents \subseteq Seen(n)'
    BY <1>2, <1>3, <1>5, <2>2, <2>3
  <2>5. ASSUME unwound'[n] = {} PROVE final'[n] = Supported(Accepted(n))'
    <3>1. U = {} /\ r.rollback = {}
      BY <2>2, <2>5
    <3>2. DOMAIN r.patches = DOMAIN P1 \ r.stable
      BY <2>1, <3>1 DEF Result
    <3>3. Accepted(n)' = E \cup {b}
      BY <1>2, <1>3, <2>2, <2>3, <3>2 DEF Accepted, Pending
    <3>4. Supported(Accepted(n))' = Supported(E \cup {b})
      BY <3>3 DEF Supported, Way, SeesEnough, WitnessesSeen, WitnessesOf, ParentsIn
    <3> QED
      BY <1>9, <2>2, <2>3, <3>1, <3>4
  <2> QED
    BY <2>4, <2>5 DEF OrderAt
<1>12. \/ tops = {} /\ Extend(n, P1)
       \/ \E r : r = CheckFinality(b, P1, tops) /\ Finalise(n, r, tops)
  BY <1>1, <1>8 DEF AcceptBlock, AcceptFails
<1> QED
  BY <1>10, <1>11, <1>12

\* The node does nothing.
LEMMA IdleOrder ==
  ASSUME NEW m \in Nodes, SoundAt(m), OrderAt(m),
         \A b \in Block : made'[b] = made[b],
         patch'[m] = patch[m], final'[m] = final[m], unwound'[m] = unwound[m]
  PROVE  OrderAt(m)'
<1>1. PICK E : E = Accepted(m)
  OBVIOUS
<1>2. E \subseteq Block /\ final[m] \subseteq E
  BY <1>1 DEF SoundAt, Sound, Accepted, Pending
<1>3. Supported(E)' = Supported(E)
  BY <1>2, StillSupported
<1>4. Accepted(m)' = E
  BY <1>1 DEF Accepted, Pending
<1>5. Supported(Accepted(m))' = Supported(E)
  BY <1>3, <1>4
<1>6. Seen(m)' = Seen(m)
  BY DEF Seen, Known
<1> QED
  BY <1>1, <1>2, <1>5, <1>6 DEF OrderAt

LEMMA OthersOrder ==
  ASSUME OrderInv, NEW n \in Nodes, OthersKeep(n), made' = made, OrderAt(n)'
  PROVE  \A m \in Nodes : OrderAt(m)'
<1>1. ASSUME NEW m \in Nodes, m # n PROVE OrderAt(m)'
  <2>1. SoundAt(m) /\ OrderAt(m)
    BY DEF OrderInv, NeatInv, NeatIn, NeatAt, AccountInv, AccountIn
  <2> QED
    BY <1>1, <2>1, IdleOrder DEF OthersKeep
<1> QED
  BY <1>1

LEMMA OrderCommit ==
  ASSUME OrderInv, NEW c \in Conciliums, CommitBlock(c)
  PROVE  \A m \in Nodes : OrderAt(m)'
<1>1. PICK n : n = Home[c] /\ n \in Nodes
  BY FinalityAssumption
<1>2. /\ AccountInv /\ SoundAt(n) /\ Shape /\ Tables /\ Ordered
      /\ NeatAt(n) /\ Neat(patch[n], {}) /\ OrderAt(n)
  BY <1>1 DEF OrderInv, NeatInv, NeatIn, NeatAt, AccountInv, AccountIn, Shape
<1>3. PICK job \in building[c] : AcceptBlock(n, job.block, job.patch)
  BY <1>1 DEF CommitBlock
<1>4. made' = made
  BY DEF CommitBlock
<1>5. Waits(n, job) /\ Upon(patch[n], job.block, job.patch, {})
  BY <1>1, <1>3 DEF OrderInv, NeatInv, NeatIn, NeatAt, AccountInv, AccountIn, JobsWait
<1>6. /\ job.block \in Block /\ job.patch \subseteq Txns
      /\ job.block \notin Seen(n) /\ made[job.block].parents \subseteq Seen(n)
      /\ Fits(patch[n], job.block, job.patch, store[n], DecidedOf(n))
  BY <1>1, <1>2, <1>3, <1>5 DEF Shape, Waits
<1>7. OthersKeep(n)
  BY <1>1, <1>2, <1>3, <1>4, <1>6, AcceptKeeps
<1>8. OrderAt(n)'
  BY <1>1, <1>2, <1>3, <1>4, <1>5, <1>6, AcceptOrders
<1> QED
  BY <1>1, <1>4, <1>7, <1>8, OthersOrder

LEMMA OrderReceive ==
  ASSUME OrderInv, NEW n \in Nodes, ReceiveBlock(n)
  PROVE  \A m \in Nodes : OrderAt(m)'
<1>1. /\ AccountInv /\ SoundAt(n) /\ Shape /\ Tables /\ Ordered
      /\ NeatAt(n) /\ Neat(patch[n], {}) /\ OrderAt(n)
  BY DEF OrderInv, NeatInv, NeatIn, NeatAt, AccountInv, AccountIn, Shape
<1>2. made' = made
  BY DEF ReceiveBlock
<1>3. PICK b \in Unknown(n) : ExecBlock(n, b) \/ RefuseBlock(n, b)
  BY DEF ReceiveBlock
<1>4. b \in Block /\ b \notin Seen(n)
  <2>1. Housed(Nodes) /\ AccountIn(Nodes)
    BY <1>1, FinalityAssumption DEF Housed, AccountInv
  <2> QED
    BY <1>3, <2>1, UnknownIs
<1>5. CASE UNCHANGED <<patch, topStable, final, unwound, store>>
  BY <1>2, <1>5, IdleOrder DEF OrderInv, NeatInv, NeatIn, NeatAt, AccountInv, AccountIn
<1>6. ASSUME NEW p, p = Merged(patch[n], made[b].parents) \cup made[b].txns,
             made[b].parents \subseteq Executed(n), AcceptBlock(n, b, p),
             ~ConflictAmong(patch[n], made[b].parents),
             Spendable(n, Merged(patch[n], made[b].parents), made[b].txns)
      PROVE  \A m \in Nodes : OrderAt(m)'
  <2>1. Upon(patch[n], b, p, {})
    BY <1>1, <1>6, ReceivedUpon
  <2>2. Fits(patch[n], b, p, store[n], DecidedOf(n))
    BY <1>6, MergedFits
  <2>3. p \subseteq Txns
    <3>1. made[b] \in Headers
      BY <1>1, <1>4 DEF Ordered, Block
    <3>2. Merged(patch[n], made[b].parents) \subseteq Txns
      BY <1>1 DEF Merged, SoundAt, Sound
    <3> QED
      BY <1>6, <3>1, <3>2 DEF Headers
  <2>4. made[b].parents \subseteq Seen(n)
    BY <1>6 DEF Executed, Seen, Known, Pending
  <2>5. OthersKeep(n)
    BY <1>1, <1>2, <1>4, <1>6, <2>2, <2>3, <2>4, AcceptKeeps
  <2>6. OrderAt(n)'
    BY <1>1, <1>2, <1>4, <1>6, <2>1, <2>2, <2>3, <2>4, AcceptOrders
  <2> QED
    BY <1>2, <2>5, <2>6, OthersOrder
<1>7. \/ UNCHANGED <<patch, topStable, final, unwound, store>>
      \/ \E p : /\ p = Merged(patch[n], made[b].parents) \cup made[b].txns
                /\ made[b].parents \subseteq Executed(n) /\ AcceptBlock(n, b, p)
                /\ ~ConflictAmong(patch[n], made[b].parents)
                /\ Spendable(n, Merged(patch[n], made[b].parents), made[b].txns)
  BY <1>3 DEF ExecBlock, RefuseBlock
<1> QED
  BY <1>5, <1>6, <1>7

LEMMA OrderStarts == Init => OrderInv
<1> SUFFICES ASSUME Init PROVE OrderInv
  OBVIOUS
<1>1. ASSUME NEW n \in Nodes PROVE OrderAt(n)
  <2>1. final[n] = {} /\ Accepted(n) = {}
    BY DEF Init, Accepted, Pending
  <2> QED
    BY <2>1 DEF OrderAt, Supported
<1> QED
  BY <1>1, NeatStarts DEF OrderInv

LEMMA OrderSteps == OrderInv /\ [Next]_vars => OrderInv'
<1> SUFFICES ASSUME OrderInv, [Next]_vars PROVE OrderInv'
  OBVIOUS
<1>1. NeatInv'
  BY NeatSteps DEF OrderInv
<1>2. \A m \in Nodes : SoundAt(m) /\ OrderAt(m)
  BY DEF OrderInv, NeatInv, NeatIn, NeatAt, AccountInv, AccountIn
<1>3. CASE \E c \in Conciliums : CreateBlock(c)
  <2>1. PICK header : made' = Append(made, header)
    BY <1>3 DEF CreateBlock
  <2>2. \A b \in Block : made'[b] = made[b]
    BY <2>1 DEF OrderInv, NeatInv, NeatIn, NeatAt, AccountInv, AccountIn, Ordered, Block
  <2>3. UNCHANGED nodeVars
    BY <1>3 DEF CreateBlock
  <2> QED
    BY <1>1, <1>2, <2>2, <2>3, IdleOrder DEF OrderInv, nodeVars
<1>4. CASE \E c \in Conciliums : CommitBlock(c)
  BY <1>1, <1>4, OrderCommit DEF OrderInv
<1>5. CASE \E c \in Conciliums : DropCommit(c)
  BY <1>1, <1>2, <1>5, IdleOrder DEF OrderInv, DropCommit, nodeVars
<1>6. CASE \E n \in Nodes : ReceiveBlock(n)
  BY <1>1, <1>6, OrderReceive DEF OrderInv
<1>7. CASE UNCHANGED vars
  BY <1>1, <1>2, <1>7, IdleOrder DEF OrderInv, vars, nodeVars
<1> QED
  BY <1>3, <1>4, <1>5, <1>6, <1>7 DEF Next

\* Nodes that accepted the same blocks, and had none to turn down, agree on which of them
\* are final, in whatever order the blocks came and however late their own were committed.
THEOREM SameBlocksSameFinal == Spec => []OrderIsIrrelevant
<1>1. ASSUME OrderInv PROVE OrderIsIrrelevant
  <2>1. ASSUME NEW m \in Nodes, NEW n \in Nodes, Executed(m) = Executed(n),
               \A k \in {m, n} : unwound[k] \cup bad[k] = {}
        PROVE  final[m] = final[n]
    <3>1. \A k \in {m, n} : final[k] = Supported(Accepted(k))
      BY <1>1, <2>1 DEF OrderInv, OrderAt
    <3>2. \A k \in {m, n} : Accepted(k) \subseteq Block /\ Executed(k) = Accepted(k) \cup {Genesis}
      BY <1>1 DEF OrderInv, NeatInv, NeatIn, NeatAt, AccountInv, AccountIn, SoundAt, Sound, Accepted, Executed, Pending
    <3>3. Genesis \notin Block
      BY <1>1 DEF OrderInv, NeatInv, NeatIn, NeatAt, AccountInv, AccountIn, Ordered, Block, Genesis
    <3>4. Accepted(m) = Accepted(n)
      BY <2>1, <3>2, <3>3
    <3> QED
      BY <3>1, <3>4
  <2> QED
    BY <2>1 DEF OrderIsIrrelevant
<1>2. OrderInv /\ [Next]_vars => OrderInv'
  BY OrderSteps
<1> QED
  BY <1>1, <1>2, OrderStarts, PTL DEF Spec

-----------------------------------------------------------------------------
(***************************************************************************)
(* What is below a block, in a part of the graph and as blocks are made.   *)
(***************************************************************************)
LEMMA BelowPart ==
  ASSUME NEW V, Descending(V), NEW W \in SUBSET V
  PROVE  \A b \in W : Below(W, b) \subseteq Below(V, b)
<1> SUFFICES ASSUME NEW b \in W PROVE Below(W, b) \subseteq Below(V, b)
  OBVIOUS
<1>1. PICK D : D = Below(V, b)
  OBVIOUS
<1>2. Descending(W)
  BY PartDescends
<1>3. b \in D /\ DownClosed(V, D)
  BY <1>1, BelowIn, ParentsBelow
<1>4. DownClosed(W, D)
  BY <1>3 DEF DownClosed, ParentsIn
<1> QED
  BY <1>1, <1>2, <1>3, <1>4, DownClosedBelow

\* Below a block there are itself and what is below its parents.
BelowRule ==
  \A V : Descending(V) => \A b \in V :
    Below(V, b) = {b} \cup UNION {Below(V, u) : u \in ParentsIn(V, b)}

LEMMA BelowRuleStays == BelowRule /\ BelowRule'
<1>1. BelowRule
  BY BelowRecurs DEF BelowRule
<1> QED
  BY <1>1, PTL

\* Making a block does not touch what is below those there were.
LEMMA StillBelow ==
  ASSUME Ordered, Ordered', Block \subseteq Block', \A b \in Block : made'[b] = made[b]
  PROVE  \A b \in Block : Below(Block, b)' = Below(Block, b)
<1> DEFINE T == {b \in Block : Below(Block, b)' # Below(Block, b)}
<1>1. SUFFICES ASSUME T # {} PROVE FALSE
  OBVIOUS
<1>2. Descending(Block)
  BY BlocksDescend
<1>3. /\ Block = 1..Len(made) /\ Block' = 1..Len(made')
      /\ Len(made) \in Nat /\ Len(made') \in Nat
  BY DEF Ordered, Block
<1>4. Descending(Block)'
  <2>1. \A v \in Block' : \A u \in made'[v].parents \cap Block' : u < v
    <3>1. \A v \in Block' : made'[v].parents \subseteq 0..(v - 1)
      BY DEF Ordered
    <3> QED
      BY <1>3, <3>1
  <2> QED
    BY <1>3, <2>1 DEF Descending, ParentsIn
<1>5. T \in SUBSET Nat
  BY <1>3
<1>6. PICK b \in T : \A a \in T : b <= a
  BY <1>1, <1>5, LeastNat
<1>7. b \in Block /\ b \in Block' /\ b \in Nat
  BY <1>3
<1>8. made[b].parents \subseteq 0..(b - 1)
  BY <1>7 DEF Ordered
<1>9. ParentsIn(Block, b)' = ParentsIn(Block, b)
  <2>1. \A u \in made[b].parents : u \in Block' <=> u \in Block
    BY <1>3, <1>7, <1>8
  <2>2. made'[b].parents = made[b].parents
    BY <1>7
  <2> QED
    BY <2>1, <2>2 DEF ParentsIn
<1>10. \A u \in ParentsIn(Block, b) : Below(Block, u)' = Below(Block, u)
  <2>1. \A u \in ParentsIn(Block, b) : u \in Block /\ u < b /\ u \in Nat
    BY <1>2, <1>3, <1>7 DEF Descending, ParentsIn
  <2> QED
    BY <1>6, <1>7, <2>1
<1>11. Below(Block, b) = {b} \cup UNION {Below(Block, u) : u \in ParentsIn(Block, b)}
  BY <1>2, <1>7, BelowRuleStays DEF BelowRule
<1>12. Below(Block, b)' = {b} \cup UNION {Below(Block, u)' : u \in ParentsIn(Block, b)'}
  <2>1. (\A V : Descending(V) => \A c \in V :
          Below(V, c) = {c} \cup UNION {Below(V, u) : u \in ParentsIn(V, c)})'
    BY BelowRuleStays DEF BelowRule
  <2>2. (\A c \in Block :
          Below(Block, c) = {c} \cup UNION {Below(Block, u) : u \in ParentsIn(Block, c)})'
    BY <1>4, <2>1
  <2> QED
    BY <1>7, <2>2
<1>13. Below(Block, b)' = Below(Block, b)
  <2>1. {Below(Block, u)' : u \in ParentsIn(Block, b)} = {Below(Block, u) : u \in ParentsIn(Block, b)}
    BY <1>10
  <2> QED
    BY <1>9, <1>11, <1>12, <2>1
<1> QED
  BY <1>6, <1>13

-----------------------------------------------------------------------------
(***************************************************************************)
(* Two nodes apply transactions that spend one output only if a concilium  *)
(* has left the branch it built on or has committed a stale patch.         *)
(***************************************************************************)
BlocksOf(c) == {b \in Block : made[b].concilium = c}

\* No concilium has left a branch: none of its blocks was rolled back at its witness, and
\* the pending ones stand on each other.
OnOneBranch ==
  \A c \in Conciliums :
    /\ BlocksOf(c) \cap unwound[Home[c]] = {}
    /\ \A a, b \in BlocksOf(c) \cap Pending(Home[c]) :
         a \in Below(Pending(Home[c]), b) \/ b \in Below(Pending(Home[c]), a)

\* No concilium has committed a patch that spends what was applied where it runs.
NoStaleCommit == \A c \in Conciliums : Home[c] \notin stale

\* What b and the blocks under it hold.
Under(b) == TxnsOf(Below(Block, b))

\* p, the patch of b, is what b and the blocks under it hold, but for what is in S.
Holds(p, b, S) == p \subseteq Under(b) /\ Under(b) \subseteq p \cup S

\* So are all patches, and the storage S is what the final blocks F hold.
Traced(P, F, S) ==
  /\ \A v \in DOMAIN P : Holds(P[v], v, S)
  /\ \A f \in F : Under(f) \subseteq S
  /\ S \subseteq UNION {Under(f) : f \in F}

LEMMA UnderRule ==
  ASSUME Ordered, NEW b \in Block
  PROVE  Under(b) = made[b].txns \cup UNION {Under(u) : u \in ParentsIn(Block, b)}
<1>1. Below(Block, b) = {b} \cup UNION {Below(Block, u) : u \in ParentsIn(Block, b)}
  BY BlocksDescend, BelowRecurs
<1> QED
  BY <1>1 DEF Under, TxnsOf

LEMMA UnderBelow ==
  ASSUME Ordered, NEW V \in SUBSET Block, NEW b \in V, NEW a \in Below(V, b)
  PROVE  a \in V /\ Under(a) \subseteq Under(b)
<1>1. Descending(Block) /\ Descending(V)
  BY BlocksDescend
<1>2. a \in V
  BY <1>1, BelowIn
<1>3. a \in Below(Block, b)
  BY <1>1, BelowPart
<1>4. Below(Block, a) \subseteq Below(Block, b)
  BY <1>1, <1>3, BelowBelow
<1> QED
  BY <1>2, <1>4 DEF Under, TxnsOf

\* Making a block does not touch what is under those there were.
LEMMA StillUnder ==
  ASSUME Ordered, Ordered', Block \subseteq Block', \A b \in Block : made'[b] = made[b]
  PROVE  \A b \in Block : Under(b)' = Under(b)
<1> SUFFICES ASSUME NEW b \in Block PROVE Under(b)' = Under(b)
  OBVIOUS
<1>1. Below(Block, b)' = Below(Block, b)
  BY StillBelow
<1>2. Below(Block, b) \subseteq Block
  BY BlocksDescend, BelowIn
<1> QED
  BY <1>1, <1>2 DEF Under, TxnsOf

\* A block upon what its maker or its receiver has.
LEMMA MergedHolds ==
  ASSUME Ordered, NEW P, NEW F, NEW S, Traced(P, F, S), DOMAIN P \subseteq Block, F \subseteq Block,
         NEW B, B \cap Block \subseteq DOMAIN P \cup F, NEW T
  PROVE  LET above == T \cup UNION {Under(u) : u \in B \cap Block}
             p == Merged(P, B) \cup T
         IN  p \subseteq above /\ above \subseteq p \cup S
<1>1. \A u \in B \cap DOMAIN P : /\ P[u] \subseteq Under(u) /\ Under(u) \subseteq P[u] \cup S
                                 /\ P[u] \subseteq Merged(P, B) /\ u \in B \cap Block
  BY DEF Traced, Holds, Merged
<1>2. Merged(P, B) \subseteq UNION {Under(u) : u \in B \cap Block}
  BY <1>1 DEF Merged
<1>3. \A u \in B \cap Block : Under(u) \subseteq Merged(P, B) \cup S
  BY <1>1 DEF Traced
<1> QED
  BY <1>2, <1>3

LEMMA AddTraced ==
  ASSUME NEW P, NEW F, NEW S, Traced(P, F, S), NEW b, NEW p, Holds(p, b, S)
  PROVE  Traced(AddBlock(P, b, p), F, S)
BY DEF Traced, AddBlock

LEMMA FinaliseTraced ==
  ASSUME Ordered, NEW P, NEW F, NEW S, Traced(P, F, S), DOMAIN P \subseteq Block,
         NEW b \in DOMAIN P, NEW tops, tops = FindTopStable(DOMAIN P, b),
         NEW r, r = CheckFinality(b, P, tops)
  PROVE  Traced(r.patches, F \cup r.stable, S \cup r.apply)
<1>1. PICK V, stable, apply, rollback, left :
        /\ V = DOMAIN P /\ stable = r.stable /\ apply = r.apply /\ rollback = r.rollback
        /\ left = r.patches
  OBVIOUS
<1>2. Result(P, b, tops, stable, apply, rollback, left)
  BY <1>1, Checked
<1>3. /\ stable = UNION {Below(V, t) : t \in tops} /\ apply = Merged(P, tops)
      /\ DOMAIN left = (V \ stable) \ rollback
      /\ \A v \in DOMAIN left : left[v] = P[v] \ apply
  BY <1>1, <1>2 DEF Result, FindAlsoStable
<1>4. tops \subseteq V /\ tops \subseteq stable
  <2>1. Descending(V) /\ b \in V /\ tops = FindTopStable(V, b)
    BY <1>1, BlocksDescend
  <2>2. stable = FindAlsoStable(V, tops)
    BY <1>1, <1>2 DEF Result
  <2> QED
    BY <2>1, <2>2, StableGoesDown
<1>5. \A t \in tops : /\ P[t] \subseteq apply
                      /\ P[t] \subseteq Under(t) /\ Under(t) \subseteq P[t] \cup S
  BY <1>1, <1>3, <1>4 DEF Merged, Traced, Holds
<1>6. \A v \in DOMAIN left : Holds(left[v], v, S \cup apply)
  BY <1>1, <1>3 DEF Traced, Holds
<1>7. \A f \in stable : Under(f) \subseteq S \cup apply
  <2>1. SUFFICES ASSUME NEW t \in tops, NEW f \in Below(V, t) PROVE Under(f) \subseteq S \cup apply
    BY <1>3
  <2>2. Under(f) \subseteq Under(t)
    BY <1>1, <1>4, UnderBelow
  <2> QED
    BY <1>5, <2>2
<1>8. apply \subseteq UNION {Under(f) : f \in stable}
  <2>1. \A x \in apply : \E t \in tops : x \in P[t]
    BY <1>3 DEF Merged
  <2> QED
    BY <1>4, <1>5, <2>1
<1>9. Traced(left, F \cup stable, S \cup apply)
  <2>1. \A f \in F \cup stable : Under(f) \subseteq S \cup apply
    BY <1>7 DEF Traced
  <2>2. S \cup apply \subseteq UNION {Under(f) : f \in F \cup stable}
    BY <1>8 DEF Traced
  <2> QED
    BY <1>6, <2>1, <2>2 DEF Traced
<1> QED
  BY <1>1, <1>9

-----------------------------------------------------------------------------
(***************************************************************************)
(* What becomes final has the support of a majority.                       *)
(***************************************************************************)
LEMMA SupportWider ==
  ASSUME NEW E, NEW V \in SUBSET E
  PROVE  Supported(V) \subseteq Supported(E)
BY WayWider DEF Supported

LEMMA StableSupported ==
  ASSUME Ordered, NEW V \in SUBSET Block, NEW b \in V
  PROVE  FindAlsoStable(V, FindTopStable(V, b)) \subseteq Supported(V)
<1>1. PICK tops : tops = FindTopStable(V, b)
  OBVIOUS
<1>2. Descending(V) /\ OfConciliums(V)
  BY BlocksDescend, MadeByConciliums
<1>3. DownClosed(V, Supported(V))
  BY <1>2, SupportGoesDown
<1>4. \A t \in tops : t \in V /\ t \in Supported(V)
  BY <1>1, <1>2, TopStableIs DEF Supported
<1>5. \A t \in tops : Below(V, t) \subseteq Supported(V)
  <2>1. PICK D : D = Supported(V)
    OBVIOUS
  <2> QED
    BY <1>2, <1>3, <1>4, <2>1, DownClosedBelow
<1> QED
  BY <1>1, <1>5 DEF FindAlsoStable

\* A majority of the conciliums has built on it.
LEMMA Voters ==
  ASSUME Ordered, NEW E \in SUBSET Block, NEW f \in Supported(E)
  PROVE  \E W \in SUBSET Conciliums :
           /\ Cardinality(W) >= MajorityOf(Cardinality(Conciliums))
           /\ \A c \in W : \E x \in E : made[x].concilium = c /\ f \in Below(Block, x)
<1>1. PICK p : Way(E, p) /\ SeesEnough(p, Len(p)) /\ f = p[Len(p)]
  BY DEF Supported
<1>2. \A i \in 1..Len(p) : p[i] \in E
  BY <1>1 DEF Way
<1>3. PICK W : W = WitnessesOf({p[i] : i \in 1..Len(p)})
  OBVIOUS
<1>4. Cardinality(W) >= MajorityOf(Cardinality(Conciliums))
  BY <1>1, <1>3 DEF SeesEnough, WitnessesSeen
<1>5. W \subseteq Conciliums
  <2>1. OfConciliums(E)
    BY MadeByConciliums
  <2> QED
    BY <1>2, <1>3, <2>1 DEF OfConciliums, WitnessesOf
<1>6. Descending(Block) /\ Way(Block, p)
  BY <1>1, BlocksDescend, WayWider
<1>7. ASSUME NEW c \in W PROVE \E x \in E : made[x].concilium = c /\ f \in Below(Block, x)
  <2>1. PICK i \in 1..Len(p) : c = made[p[i]].concilium
    BY <1>3 DEF WitnessesOf
  <2>2. PICK x, D : x = p[i] /\ D = Below(Block, x)
    OBVIOUS
  <2>3. x \in E /\ x \in Block
    BY <1>2, <2>2
  <2>4. x \in D /\ DownClosed(Block, D)
    BY <1>6, <2>2, <2>3, BelowIn, ParentsBelow
  <2>5. p[Len(p)] \in D
    BY <1>6, <2>2, <2>4, WayStays
  <2> QED
    BY <1>1, <2>1, <2>2, <2>3, <2>5
<1> QED
  BY <1>4, <1>5, <1>7

LEMMA MajoritiesMeet ==
  ASSUME NEW A \in SUBSET Conciliums, NEW B \in SUBSET Conciliums,
         Cardinality(A) >= MajorityOf(Cardinality(Conciliums)),
         Cardinality(B) >= MajorityOf(Cardinality(Conciliums))
  PROVE  A \cap B # {}
<1> SUFFICES ASSUME A \cap B = {} PROVE FALSE
  OBVIOUS
<1>1. IsFiniteSet(Conciliums) /\ IsFiniteSet(A) /\ IsFiniteSet(B) /\ IsFiniteSet(A \cup B)
  BY PendingAssumption, FS_Subset, FS_Union
<1>2. Cardinality(A \cup B) = Cardinality(A) + Cardinality(B)
  <2>1. Cardinality(A \cup B) = Cardinality(A) + Cardinality(B) - Cardinality(A \cap B)
    BY <1>1, FS_Union
  <2>2. Cardinality(A \cap B) = 0
    BY FS_EmptySet
  <2>3. Cardinality(A) \in Nat /\ Cardinality(B) \in Nat
    BY <1>1, FS_CardinalityType
  <2> QED
    BY <2>1, <2>2, <2>3
<1>3. Cardinality(A \cup B) <= Cardinality(Conciliums)
  BY <1>1, FS_Subset
<1>4. /\ Cardinality(A) \in Nat /\ Cardinality(B) \in Nat /\ Cardinality(Conciliums) \in Nat
  BY <1>1, FS_CardinalityType
<1> QED
  BY <1>2, <1>3, <1>4 DEF MajorityOf

-----------------------------------------------------------------------------
(***************************************************************************)
(* The inductive invariant.                                                *)
(***************************************************************************)
\* The blocks of a node.
Had(n) == Pending(n) \cup final[n] \cup unwound[n]

TracedAt(n) ==
  /\ Traced(patch[n], final[n], store[n])
  /\ final[n] \subseteq Supported(Had(n))

\* A block that waits for its commit holds what is under it.
JobsHold ==
  \A c \in Conciliums : \A job \in building[c] :
    /\ made[job.block].concilium = c
    /\ Holds(job.patch, job.block, store[Home[c]])

\* What anybody has of a concilium, its witness has.
AtHome == \A n \in Nodes : \A b \in Had(n) : b \in Had(Home[made[b].concilium])

BranchInv == NeatInv /\ (\A n \in Nodes : TracedAt(n)) /\ JobsHold /\ AtHome

LEMMA HadIn ==
  ASSUME NEW n \in Nodes, SoundAt(n), Ordered
  PROVE  /\ Had(n) \in SUBSET Block /\ Pending(n) \subseteq Block /\ final[n] \subseteq Block
         /\ Had(n) = Seen(n) \ {Genesis}
<1>1. Genesis \notin Block
  BY DEF Ordered, Block, Genesis
<1> QED
  BY <1>1 DEF SoundAt, Sound, Had, Seen, Known, Pending

\* Blocks are made, at most; the storage grows, at most.
LEMMA StillHolds ==
  ASSUME NEW b, Under(b)' = Under(b), NEW p, NEW S, Holds(p, b, S), NEW S2, S \subseteq S2
  PROVE  Holds(p, b, S2)'
BY DEF Holds

LEMMA StillTraced ==
  ASSUME \A b \in Block : Under(b)' = Under(b),
         NEW P, NEW F, NEW S, Traced(P, F, S), DOMAIN P \subseteq Block, F \subseteq Block
  PROVE  Traced(P, F, S)'
<1>1. \A v \in DOMAIN P : Holds(P[v], v, S)'
  BY DEF Traced, Holds
<1>2. \A f \in F : Under(f)' \subseteq S
  BY DEF Traced
<1>3. S \subseteq UNION {Under(f)' : f \in F}
  BY DEF Traced
<1> QED
  BY <1>1, <1>2, <1>3 DEF Traced

\* The node does nothing.
LEMMA IdleTraced ==
  ASSUME Ordered, \A b \in Block : made'[b] = made[b] /\ Under(b)' = Under(b),
         NEW m \in Nodes, SoundAt(m), TracedAt(m),
         patch'[m] = patch[m], final'[m] = final[m], unwound'[m] = unwound[m],
         store'[m] = store[m]
  PROVE  TracedAt(m)' /\ Had(m)' = Had(m)
<1>1. PICK P, F, S, E : P = patch[m] /\ F = final[m] /\ S = store[m] /\ E = Had(m)
  OBVIOUS
<1>2. E \subseteq Block /\ DOMAIN P \subseteq Block /\ F \subseteq Block
  BY <1>1, HadIn DEF Pending
<1>3. Traced(P, F, S)'
  BY <1>1, <1>2, StillTraced DEF TracedAt
<1>4. Supported(E)' = Supported(E)
  BY <1>2, StillSupported
<1>5. Had(m)' = E
  BY <1>1 DEF Had, Pending
<1>6. Supported(Had(m))' = Supported(E)
  BY <1>4, <1>5
<1> QED
  BY <1>1, <1>3, <1>5, <1>6 DEF TracedAt

\* _acceptBlock and checkFinality.
LEMMA AcceptTraces ==
  ASSUME Ordered, Tables, NEW n \in Nodes, SoundAt(n), TracedAt(n),
         NEW b \in Block, b \notin Seen(n),
         NEW p, Holds(p, b, store[n]), AcceptBlock(n, b, p),
         made' = made, \A x \in Block : Under(x)' = Under(x)
  PROVE  TracedAt(n)' /\ Had(n)' = Had(n) \cup {b} /\ store[n] \subseteq store'[n]
<1>1. PICK P, F, U, S, P1, tops :
        /\ P = patch[n] /\ F = final[n] /\ U = unwound[n] /\ S = store[n]
        /\ P1 = AddBlock(P, b, p) /\ tops = FindTopStable(DOMAIN P1, b)
  OBVIOUS
<1>2. PICK E, V : E = Had(n) \cup {b} /\ V = DOMAIN P1
  OBVIOUS
<1>3. /\ V = DOMAIN P \cup {b} /\ V \in SUBSET Block /\ F \subseteq Block
      /\ E \in SUBSET Block /\ E = V \cup F \cup U /\ V \in SUBSET E /\ b \in V
  BY <1>1, <1>2, HadIn DEF AddBlock, Had, Pending
<1>4. Traced(P1, F, S)
  BY <1>1, AddTraced DEF TracedAt
<1>5. F \subseteq Supported(E)
  BY <1>1, <1>2, <1>3, SupportWider DEF TracedAt
<1>6. PICK stable : stable = FindAlsoStable(V, tops)
  OBVIOUS
<1>7. stable \subseteq Supported(E) /\ stable \subseteq V
  <2>1. Descending(V)
    BY <1>3, BlocksDescend
  <2> QED
    BY <1>1, <1>2, <1>3, <1>6, <2>1, StableSupported, SupportWider, StableGoesDown
<1>8. ASSUME NEW P2, NEW F2, NEW S2, Traced(P2, F2, S2), DOMAIN P2 \subseteq Block,
             F2 \subseteq Supported(E), F2 \subseteq Block,
             patch'[n] = P2, final'[n] = F2, store'[n] = S2,
             DOMAIN P2 \cup F2 \cup unwound'[n] = E
      PROVE  TracedAt(n)' /\ Had(n)' = E
  <2>1. Traced(P2, F2, S2)'
    BY <1>8, StillTraced
  <2>2. Supported(E)' = Supported(E)
    BY <1>3, StillSupported
  <2>3. Had(n)' = E
    BY <1>8 DEF Had, Pending
  <2>4. Supported(Had(n))' = Supported(E)
    BY <2>2, <2>3
  <2> QED
    BY <1>8, <2>1, <2>3, <2>4 DEF TracedAt
<1>9. CASE Extend(n, P1)
  <2>1. patch'[n] = P1 /\ final'[n] = F /\ store'[n] = S /\ unwound'[n] = U
    BY <1>1, <1>9 DEF Extend, Tables, IsTable
  <2> QED
    BY <1>1, <1>2, <1>3, <1>4, <1>5, <1>8, <2>1
<1>10. ASSUME NEW r, r = CheckFinality(b, P1, tops), Finalise(n, r, tops)
       PROVE  TracedAt(n)' /\ Had(n)' = E /\ store[n] \subseteq store'[n]
  <2>1. /\ patch'[n] = r.patches /\ final'[n] = F \cup r.stable
        /\ unwound'[n] = U \cup r.rollback /\ store'[n] = S \cup r.apply
    BY <1>1, <1>10 DEF Finalise, Tables, IsTable
  <2>2. Result(P1, b, tops, r.stable, r.apply, r.rollback, r.patches)
    BY <1>1, <1>10, Checked
  <2>3. /\ r.stable = stable /\ DOMAIN r.patches = (V \ stable) \ r.rollback
        /\ r.rollback \subseteq V \ stable
    <3>1. r.stable = stable /\ DOMAIN r.patches = (V \ stable) \ r.rollback
      BY <1>2, <1>6, <2>2 DEF Result
    <3>2. Descending(V \ stable)
      BY <1>3, BlocksDescend
    <3>3. PICK back, apply : back = r.rollback /\ apply = r.apply
      OBVIOUS
    <3>4. back = ConflictingBranches(V \ stable, P1, b, apply)
      BY <1>2, <2>2, <3>1, <3>3 DEF Result
    <3>5. back \subseteq V \ stable
      BY <3>2, <3>4, RollbackGoesDown
    <3> QED
      BY <3>1, <3>3, <3>5
  <2>4. Traced(r.patches, F \cup r.stable, S \cup r.apply)
    BY <1>1, <1>2, <1>3, <1>4, <1>10, FinaliseTraced
  <2>5. PICK P2, F2, S2 : P2 = r.patches /\ F2 = F \cup r.stable /\ S2 = S \cup r.apply
    OBVIOUS
  <2>6. DOMAIN P2 \cup F2 \cup unwound'[n] = E
    BY <1>3, <1>7, <2>1, <2>3, <2>5
  <2>7. /\ DOMAIN P2 \subseteq Block /\ F2 \subseteq Supported(E) /\ F2 \subseteq Block
    BY <1>3, <1>5, <1>7, <2>3, <2>5
  <2>8. TracedAt(n)' /\ Had(n)' = E
    BY <1>8, <2>1, <2>4, <2>5, <2>6, <2>7
  <2> QED
    BY <1>1, <2>1, <2>8
<1>11. Extend(n, P1) \/ \E r : r = CheckFinality(b, P1, tops) /\ Finalise(n, r, tops)
  BY <1>1 DEF AcceptBlock
<1>12. CASE Extend(n, P1)
  <2>1. store'[n] = store[n]
    BY <1>12 DEF Extend
  <2> QED
    BY <1>2, <1>9, <1>12, <2>1
<1> QED
  BY <1>2, <1>10, <1>11, <1>12

LEMMA BranchMembers ==
  ASSUME BranchInv
  PROVE  /\ Ordered /\ Shape /\ Tables /\ Housed(Nodes) /\ AccountIn(Nodes)
         /\ \A n \in Nodes : SoundAt(n) /\ TracedAt(n) /\ NeatAt(n)
BY FinalityAssumption
DEF BranchInv, NeatInv, NeatIn, NeatAt, AccountIn, Shape, Housed

\* No block is made.
LEMMA SameUnder ==
  ASSUME Ordered, made' = made
  PROVE  Block' = Block /\ \A b \in Block : made'[b] = made[b] /\ Under(b)' = Under(b)
<1>1. Block' = Block
  BY DEF Block
<1>2. Ordered'
  BY <1>1 DEF Ordered
<1> QED
  BY <1>1, <1>2, StillUnder

\* A node takes a block in; those that wait for their commit stay what they are.
LEMMA TakenIn ==
  ASSUME BranchInv, NEW n \in Nodes, NEW b \in Block, made' = made,
         \A m \in Nodes : TracedAt(m)' /\ store[m] \subseteq store'[m],
         \A m \in Nodes : Had(m)' = IF m = n THEN Had(m) \cup {b} ELSE Had(m),
         Home[made[b].concilium] = n \/ b \in Had(Home[made[b].concilium]),
         \A c \in Conciliums : building'[c] \subseteq building[c]
  PROVE  JobsHold' /\ AtHome'
<1>1. Ordered /\ Shape
  BY BranchMembers
<1>2. Block' = Block /\ \A a \in Block : made'[a] = made[a] /\ Under(a)' = Under(a)
  BY <1>1, SameUnder
<1>3. ASSUME NEW c \in Conciliums, NEW job \in building'[c]
      PROVE  made'[job.block].concilium = c /\ Holds(job.patch, job.block, store[Home[c]])'
  <2>1. job \in building[c] /\ job.block \in Block
    BY <1>1, <1>3 DEF Shape
  <2>2. PICK a, p, S, S2 : /\ a = job.block /\ p = job.patch
                           /\ S = store[Home[c]] /\ S2 = store'[Home[c]]
    OBVIOUS
  <2>3. made[a].concilium = c /\ Holds(p, a, S)
    BY <2>1, <2>2 DEF BranchInv, JobsHold
  <2>4. S \subseteq S2
    BY <2>2, FinalityAssumption
  <2>5. Holds(p, a, S2)'
    BY <1>2, <2>1, <2>2, <2>3, <2>4, StillHolds
  <2> QED
    BY <2>2, <2>3, <2>5
<1>4. JobsHold'
  BY <1>3 DEF JobsHold
<1>5. \A m \in Nodes : \A a \in Had(m) : a \in Block /\ Home[made[a].concilium] \in Nodes
  <2>1. ASSUME NEW m \in Nodes, NEW a \in Had(m)
        PROVE  a \in Block /\ Home[made[a].concilium] \in Nodes
    <3>1. a \in Block
      BY <1>1, BranchMembers, HadIn
    <3>2. made[a].concilium \in Conciliums
      BY <1>1, <3>1, MadeByConciliums DEF OfConciliums
    <3> QED
      BY <3>1, <3>2, FinalityAssumption
  <2> QED
    BY <2>1
<1>6. Home[made[b].concilium] \in Nodes
  BY <1>1, MadeByConciliums, FinalityAssumption DEF OfConciliums
<1>7. ASSUME NEW m \in Nodes, NEW a \in Had(m)'
      PROVE  a \in Had(Home[made[a].concilium])'
  <2>1. PICK h : h = Home[made[a].concilium]
    OBVIOUS
  <2>2. h \in Nodes /\ a \in Had(h) \cup (IF h = n THEN {b} ELSE {})
    <3>1. CASE a = b
      BY <1>6, <2>1, <3>1
    <3>2. CASE a \in Had(m)
      BY <1>5, <2>1, <3>2 DEF BranchInv, AtHome
    <3> QED
      BY <1>7, <3>1, <3>2
  <2>3. Had(h)' = IF h = n THEN Had(h) \cup {b} ELSE Had(h)
    BY <2>2
  <2>4. a \in Had(h)'
    BY <2>2, <2>3
  <2> QED
    BY <2>1, <2>4 DEF Had, Pending
<1>8. AtHome'
  BY <1>7 DEF AtHome
<1> QED
  BY <1>4, <1>8

\* No node takes a block in.
LEMMA IdleBranch ==
  ASSUME BranchInv, made' = made, UNCHANGED <<patch, final, unwound, store>>,
         \A c \in Conciliums : building'[c] \subseteq building[c]
  PROVE  (\A m \in Nodes : TracedAt(m)') /\ JobsHold' /\ AtHome'
<1>1. Ordered /\ Shape /\ \A m \in Nodes : SoundAt(m) /\ TracedAt(m)
  BY BranchMembers
<1>2. Block' = Block /\ \A a \in Block : made'[a] = made[a] /\ Under(a)' = Under(a)
  BY <1>1, SameUnder
<1>3. \A m \in Nodes : TracedAt(m)' /\ Had(m)' = Had(m)
  BY <1>1, <1>2, IdleTraced
<1>4. AtHome'
  BY DEF BranchInv, AtHome, Had, Pending
<1>5. ASSUME NEW c \in Conciliums, NEW job \in building'[c]
      PROVE  made'[job.block].concilium = c /\ Holds(job.patch, job.block, store[Home[c]])'
  <2>1. job \in building[c] /\ job.block \in Block
    BY <1>1, <1>5 DEF Shape
  <2>2. PICK a, p, S : a = job.block /\ p = job.patch /\ S = store[Home[c]]
    OBVIOUS
  <2>3. made[a].concilium = c /\ Holds(p, a, S)
    BY <2>1, <2>2 DEF BranchInv, JobsHold
  <2>4. Holds(p, a, S)'
    BY <1>2, <2>1, <2>2, <2>3, StillHolds
  <2> QED
    BY <2>2, <2>3, <2>4
<1>6. JobsHold'
  BY <1>5 DEF JobsHold
<1> QED
  BY <1>3, <1>4, <1>6

LEMMA OthersTraced ==
  ASSUME BranchInv, NEW n \in Nodes, OthersKeep(n), made' = made
  PROVE  \A m \in Nodes \ {n} : TracedAt(m)' /\ Had(m)' = Had(m) /\ store'[m] = store[m]
<1>1. Ordered
  BY BranchMembers
<1>2. \A b \in Block : made'[b] = made[b] /\ Under(b)' = Under(b)
  BY <1>1, SameUnder
<1>3. ASSUME NEW m \in Nodes \ {n} PROVE TracedAt(m)' /\ Had(m)' = Had(m)
  <2>1. SoundAt(m) /\ TracedAt(m)
    BY BranchMembers
  <2> QED
    BY <1>1, <1>2, <2>1, IdleTraced DEF OthersKeep
<1> QED
  BY <1>3 DEF OthersKeep

\* What is the whole of an accepted block, at its home or elsewhere.
LEMMA BranchAccept ==
  ASSUME BranchInv, NEW n \in Nodes, NEW b \in Block, b \notin Seen(n),
         made[b].parents \subseteq Seen(n),
         NEW p, p \subseteq Txns, Fits(patch[n], b, p, store[n], DecidedOf(n)),
         Holds(p, b, store[n]), AcceptBlock(n, b, p), made' = made,
         Home[made[b].concilium] = n \/ b \in Had(Home[made[b].concilium]),
         \A c \in Conciliums : building'[c] \subseteq building[c]
  PROVE  (\A m \in Nodes : TracedAt(m)') /\ JobsHold' /\ AtHome'
<1>1. Ordered /\ Tables /\ SoundAt(n) /\ TracedAt(n)
  BY BranchMembers
<1>2. OthersKeep(n)
  BY <1>1, AcceptKeeps
<1>3. \A a \in Block : Under(a)' = Under(a)
  BY <1>1, SameUnder
<1>4. TracedAt(n)' /\ Had(n)' = Had(n) \cup {b} /\ store[n] \subseteq store'[n]
  BY <1>1, <1>3, AcceptTraces
<1>5. \A m \in Nodes \ {n} : TracedAt(m)' /\ Had(m)' = Had(m) /\ store'[m] = store[m]
  BY <1>2, OthersTraced
<1>6. /\ \A m \in Nodes : TracedAt(m)' /\ store[m] \subseteq store'[m]
      /\ \A m \in Nodes : Had(m)' = IF m = n THEN Had(m) \cup {b} ELSE Had(m)
  BY <1>4, <1>5
<1> QED
  BY <1>6, TakenIn

LEMMA BranchCommit ==
  ASSUME BranchInv, NEW c \in Conciliums, CommitBlock(c)
  PROVE  (\A m \in Nodes : TracedAt(m)') /\ JobsHold' /\ AtHome'
<1>1. PICK n : n = Home[c] /\ n \in Nodes
  BY FinalityAssumption
<1>2. Shape /\ AccountIn(Nodes)
  BY BranchMembers
<1>3. PICK job \in building[c] : AcceptBlock(n, job.block, job.patch)
  BY <1>1 DEF CommitBlock
<1>4. made' = made /\ building' = [building EXCEPT ![c] = {}]
  BY DEF CommitBlock
<1>5. Waits(n, job) /\ made[job.block].concilium = c /\ Holds(job.patch, job.block, store[n])
  BY <1>1, <1>2, <1>3 DEF AccountIn, JobsWait, BranchInv, JobsHold
<1>6. /\ job.block \in Block /\ job.patch \subseteq Txns
      /\ job.block \notin Seen(n) /\ made[job.block].parents \subseteq Seen(n)
      /\ Fits(patch[n], job.block, job.patch, store[n], DecidedOf(n))
  BY <1>1, <1>2, <1>3, <1>5 DEF Shape, Waits
<1>7. \A d \in Conciliums : building'[d] \subseteq building[d]
  BY <1>2, <1>4 DEF Shape
<1> QED
  BY <1>1, <1>3, <1>4, <1>5, <1>6, <1>7, BranchAccept

\* The patch of a received block is that of its parents and its own.
LEMMA BranchReceive ==
  ASSUME BranchInv, NEW n \in Nodes, ReceiveBlock(n)
  PROVE  (\A m \in Nodes : TracedAt(m)') /\ JobsHold' /\ AtHome'
<1>1. /\ AccountIn(Nodes) /\ Housed(Nodes) /\ SoundAt(n) /\ TracedAt(n) /\ Shape /\ Ordered
  BY BranchMembers
<1>2. made' = made /\ building' = building
  BY DEF ReceiveBlock
<1>3. PICK b \in Unknown(n) : ExecBlock(n, b) \/ RefuseBlock(n, b)
  BY DEF ReceiveBlock
<1>4. b \in Block /\ b \notin Seen(n) /\ \E m \in Nodes : b \in Seen(m)
  BY <1>1, <1>3, UnknownIs
<1>5. b \in Had(Home[made[b].concilium])
  <2>1. PICK m \in Nodes : b \in Seen(m)
    BY <1>4
  <2>2. Genesis \notin Block
    BY <1>1 DEF Ordered, Block, Genesis
  <2>3. b \in Had(m)
    BY <1>4, <2>1, <2>2 DEF Seen, Had, Known, Pending
  <2> QED
    BY <2>3 DEF BranchInv, AtHome
<1>6. CASE UNCHANGED <<patch, topStable, final, unwound, store>>
  BY <1>2, <1>6, IdleBranch
<1>7. ASSUME NEW p, p = Merged(patch[n], made[b].parents) \cup made[b].txns,
             made[b].parents \subseteq Executed(n), AcceptBlock(n, b, p)
      PROVE  (\A m \in Nodes : TracedAt(m)') /\ JobsHold' /\ AtHome'
  <2>1. Fits(patch[n], b, p, store[n], DecidedOf(n))
    BY <1>7, MergedFits
  <2>2. p \subseteq Txns
    <3>1. made[b] \in Headers
      BY <1>1, <1>4 DEF Ordered, Block
    <3>2. Merged(patch[n], made[b].parents) \subseteq Txns
      BY <1>1 DEF Merged, SoundAt, Sound
    <3> QED
      BY <1>7, <3>1, <3>2 DEF Headers
  <2>3. made[b].parents \subseteq Seen(n)
    BY <1>7 DEF Executed, Seen, Known, Pending
  <2>4. Holds(p, b, store[n])
    <3>1. PICK P, F, S, B, T : /\ P = patch[n] /\ F = final[n] /\ S = store[n]
                               /\ B = made[b].parents /\ T = made[b].txns
      OBVIOUS
    <3>2. Traced(P, F, S) /\ DOMAIN P \subseteq Block /\ F \subseteq Block
      BY <1>1, <3>1, HadIn DEF TracedAt, Pending
    <3>3. B \cap Block \subseteq DOMAIN P \cup F
      <4>1. Genesis \notin Block
        BY <1>1 DEF Ordered, Block, Genesis
      <4> QED
        BY <1>7, <3>1, <4>1 DEF Executed, Pending
    <3>4. PICK above : above = T \cup UNION {Under(u) : u \in B \cap Block}
      OBVIOUS
    <3>5. p \subseteq above /\ above \subseteq p \cup S
      BY <1>1, <1>7, <3>1, <3>2, <3>3, <3>4, MergedHolds
    <3>6. Under(b) = above
      BY <1>1, <1>4, <3>1, <3>4, UnderRule DEF ParentsIn
    <3> QED
      BY <3>1, <3>5, <3>6 DEF Holds
  <2> QED
    BY <1>2, <1>4, <1>5, <1>7, <2>1, <2>2, <2>3, <2>4, BranchAccept
<1>8. \/ UNCHANGED <<patch, topStable, final, unwound, store>>
      \/ \E p : /\ p = Merged(patch[n], made[b].parents) \cup made[b].txns
                /\ made[b].parents \subseteq Executed(n) /\ AcceptBlock(n, b, p)
  BY <1>3 DEF ExecBlock, RefuseBlock
<1> QED
  BY <1>6, <1>7, <1>8

\* A block is made upon what its witness has.
LEMMA BranchCreate ==
  ASSUME BranchInv, NeatInv', NEW c \in Conciliums, CreateBlock(c)
  PROVE  (\A m \in Nodes : TracedAt(m)') /\ JobsHold' /\ AtHome'
<1>1. /\ Ordered /\ Shape /\ Ordered' /\ Shape'
      /\ \A m \in Nodes : SoundAt(m) /\ TracedAt(m)
  BY BranchMembers DEF NeatInv, NeatIn, NeatAt, AccountIn
<1>2. PICK n : n = Home[c] /\ n \in Nodes
  BY FinalityAssumption
<1>3. UNCHANGED nodeVars
  BY DEF CreateBlock
<1>4. PICK parents \in BestParents(Pending(n), patch[n], c, topStable[n]) :
        \E T \in SUBSET {t \in Txns : ConciliumOf[t] = c} :
          /\ made' = Append(made, [concilium |-> c, parents |-> parents, txns |-> T])
          /\ building' = [building EXCEPT ![c] =
               {[block |-> Len(made) + 1, patch |-> Merged(patch[n], parents) \cup T]}]
  BY <1>2 DEF CreateBlock
<1>5. PICK T \in SUBSET {t \in Txns : ConciliumOf[t] = c} :
          /\ made' = Append(made, [concilium |-> c, parents |-> parents, txns |-> T])
          /\ building' = [building EXCEPT ![c] =
               {[block |-> Len(made) + 1, patch |-> Merged(patch[n], parents) \cup T]}]
  BY <1>4
<1>6. PICK P, F, S, new, p, header, job :
        /\ P = patch[n] /\ F = final[n] /\ S = store[n]
        /\ new = Len(made) + 1 /\ p = Merged(P, parents) \cup T
        /\ header = [concilium |-> c, parents |-> parents, txns |-> T]
        /\ job = [block |-> new, patch |-> p]
  OBVIOUS
<1>7. /\ made' = Append(made, header) /\ building' = [building EXCEPT ![c] = {job}]
      /\ job.block = new /\ job.patch = p
      /\ header.concilium = c /\ header.parents = parents /\ header.txns = T
  BY <1>5, <1>6
<1>8. /\ Block = 1..Len(made) /\ Block' = 1..Len(made') /\ Len(made') = new
      /\ Len(made) \in Nat /\ new \in Block' /\ new \notin Block
      /\ Block' = Block \cup {new}
      /\ made'[new] = header /\ \A b \in Block : made'[b] = made[b]
  BY <1>1, <1>6, <1>7 DEF Ordered, Block
<1>9. \A b \in Block : Under(b)' = Under(b)
  BY <1>1, <1>8, StillUnder
<1>10. ASSUME NEW m \in Nodes PROVE TracedAt(m)' /\ Had(m)' = Had(m)
  BY <1>1, <1>3, <1>8, <1>9, IdleTraced DEF nodeVars
<1>11. AtHome'
  <2>1. \A m \in Nodes : \A b \in Had(m) : made'[b] = made[b]
    BY <1>1, <1>8, HadIn
  <2>2. UNCHANGED <<patch, final, unwound>>
    BY <1>3 DEF nodeVars
  <2> QED
    BY <2>1, <2>2 DEF BranchInv, AtHome, Had, Pending
<1>12. parents \cap Block \subseteq DOMAIN P \cup F
  <2>1. Pending(n) \subseteq Block /\ topStable[n] \subseteq F \cup {Genesis}
    BY <1>1, <1>2, <1>6 DEF SoundAt, Sound, Pending
  <2>2. IsFiniteSet(Pending(n))
    <3>1. IsFiniteSet(1..Len(made))
      BY <1>8, FS_Interval
    <3> QED
      BY <1>8, <2>1, <3>1, FS_Subset
  <2>3. parents = topStable[n] \/ parents \subseteq Pending(n)
    BY <2>2, BestParentsAre
  <2>4. Genesis \notin Block
    BY <1>8 DEF Genesis
  <2> QED
    BY <1>6, <2>1, <2>3, <2>4 DEF Pending
<1>13. new \notin parents
  BY <1>1, <1>7, <1>8 DEF Ordered
<1>14. Holds(p, new, S)'
  <2>1. Traced(P, F, S) /\ DOMAIN P \subseteq Block /\ F \subseteq Block
    BY <1>1, <1>2, <1>6, HadIn DEF TracedAt, Pending
  <2>2. PICK above : above = T \cup UNION {Under(u) : u \in parents \cap Block}
    OBVIOUS
  <2>3. p \subseteq above /\ above \subseteq p \cup S
    <3>1. Ordered /\ p = Merged(P, parents) \cup T
      BY <1>1, <1>6
    <3> QED
      BY ONLY <1>12, <2>1, <2>2, <3>1, MergedHolds
  <2>4. ParentsIn(Block, new)' = parents \cap Block
    BY <1>7, <1>8, <1>13 DEF ParentsIn
  <2>5. Under(new)' = above
    <3>1. Descending(Block)'
      <4>1. \A v \in Block' : \A u \in made'[v].parents \cap Block' : u < v
        <5>1. \A v \in Block' : made'[v].parents \subseteq 0..(v - 1)
          BY <1>1 DEF Ordered
        <5> QED
          BY <1>8, <5>1
      <4> QED
        BY <1>8, <4>1 DEF Descending, ParentsIn
    <3>2. Below(Block, new)' = {new} \cup UNION {Below(Block, u)' : u \in ParentsIn(Block, new)'}
      <4>1. (\A V : Descending(V) => \A b \in V :
              Below(V, b) = {b} \cup UNION {Below(V, u) : u \in ParentsIn(V, b)})'
        BY BelowRuleStays DEF BelowRule
      <4>2. (\A b \in Block :
              Below(Block, b) = {b} \cup UNION {Below(Block, u) : u \in ParentsIn(Block, b)})'
        BY <3>1, <4>1
      <4> QED
        BY <1>8, <4>2
    <3>3. Under(new)' = UNION {made'[b].txns : b \in Below(Block, new)'}
      BY DEF Under, TxnsOf
    <3>4. \A u \in Block : Under(u)' = UNION {made'[b].txns : b \in Below(Block, u)'}
      BY DEF Under, TxnsOf
    <3>5. Under(new)' = made'[new].txns \cup UNION {Under(u)' : u \in parents \cap Block}
      BY <2>4, <3>2, <3>3, <3>4
    <3> QED
      BY <1>7, <1>8, <1>9, <2>2, <3>5
  <2> QED
    BY <2>3, <2>5 DEF Holds
<1>15. ASSUME NEW d \in Conciliums, NEW k \in building'[d]
       PROVE  made'[k.block].concilium = d /\ Holds(k.patch, k.block, store[Home[d]])'
  <2>1. building'[d] = IF d = c THEN {job} ELSE building[d]
    BY <1>1, <1>7 DEF Shape
  <2>2. store' = store
    BY <1>3 DEF nodeVars
  <2>3. CASE d = c
    <3>1. k.block = new /\ k.patch = p /\ store'[Home[d]] = S
      BY <1>2, <1>6, <1>7, <2>1, <2>2, <2>3
    <3> QED
      BY <1>7, <1>8, <1>14, <2>3, <3>1
  <2>4. CASE d # c
    <3>1. k \in building[d] /\ k.block \in Block
      BY <1>1, <2>1, <2>4 DEF Shape
    <3>2. PICK a, q, R : a = k.block /\ q = k.patch /\ R = store[Home[d]]
      OBVIOUS
    <3>3. made[a].concilium = d /\ Holds(q, a, R)
      BY <3>1, <3>2 DEF BranchInv, JobsHold
    <3>4. Holds(q, a, R)'
      BY <1>9, <3>1, <3>2, <3>3, StillHolds
    <3> QED
      BY <1>8, <2>2, <3>1, <3>2, <3>3, <3>4
  <2> QED
    BY <2>3, <2>4
<1>16. JobsHold'
  BY <1>15 DEF JobsHold
<1> QED
  BY <1>10, <1>11, <1>16

LEMMA BranchStarts == Init => BranchInv
<1> SUFFICES ASSUME Init PROVE BranchInv
  OBVIOUS
<1>1. ASSUME NEW n \in Nodes PROVE TracedAt(n) /\ Had(n) = {}
  BY DEF Init, TracedAt, Traced, Had, Pending
<1>2. JobsHold
  BY DEF Init, JobsHold
<1> QED
  BY <1>1, <1>2, NeatStarts DEF BranchInv, AtHome

LEMMA BranchSteps == BranchInv /\ [Next]_vars => BranchInv'
<1> SUFFICES ASSUME BranchInv, [Next]_vars PROVE BranchInv'
  OBVIOUS
<1>1. NeatInv'
  BY NeatSteps DEF BranchInv
<1>2. Shape
  BY BranchMembers
<1>3. CASE \E c \in Conciliums : CreateBlock(c)
  BY <1>1, <1>3, BranchCreate DEF BranchInv
<1>4. CASE \E c \in Conciliums : CommitBlock(c)
  BY <1>1, <1>4, BranchCommit DEF BranchInv
<1>5. CASE \E c \in Conciliums : DropCommit(c)
  <2>1. \A c \in Conciliums : building'[c] \subseteq building[c]
    BY <1>2, <1>5 DEF DropCommit, Shape
  <2> QED
    BY <1>1, <1>5, <2>1, IdleBranch DEF BranchInv, DropCommit, nodeVars
<1>6. CASE \E n \in Nodes : ReceiveBlock(n)
  BY <1>1, <1>6, BranchReceive DEF BranchInv
<1>7. CASE UNCHANGED vars
  BY <1>1, <1>7, IdleBranch DEF BranchInv, vars, nodeVars
<1> QED
  BY <1>3, <1>4, <1>5, <1>6, <1>7 DEF Next

-----------------------------------------------------------------------------
(***************************************************************************)
(* Storages of two nodes.                                                  *)
(***************************************************************************)
\* What a node has applied, a majority of the conciliums has built on.
LEMMA AppliedIsVoted ==
  ASSUME BranchInv, NEW n \in Nodes, NEW t \in store[n]
  PROVE  \E W \in SUBSET Conciliums :
           /\ Cardinality(W) >= MajorityOf(Cardinality(Conciliums))
           /\ \A c \in W : \E x \in BlocksOf(c) \cap Had(Home[c]) : t \in Under(x)
<1>1. Ordered /\ SoundAt(n) /\ TracedAt(n)
  BY BranchMembers
<1>2. PICK E : E = Had(n) /\ E \in SUBSET Block
  BY <1>1, HadIn
<1>3. PICK f \in final[n] : t \in Under(f)
  BY <1>1 DEF TracedAt, Traced
<1>4. f \in Supported(E) /\ f \in Block
  BY <1>1, <1>2, <1>3, HadIn DEF TracedAt
<1>5. PICK W \in SUBSET Conciliums :
        /\ Cardinality(W) >= MajorityOf(Cardinality(Conciliums))
        /\ \A c \in W : \E x \in E : made[x].concilium = c /\ f \in Below(Block, x)
  BY <1>1, <1>2, <1>4, Voters
<1>6. ASSUME NEW c \in W
      PROVE  \E x \in BlocksOf(c) \cap Had(Home[c]) : t \in Under(x)
  <2>1. PICK x \in E : made[x].concilium = c /\ f \in Below(Block, x)
    BY <1>5
  <2>2. x \in BlocksOf(c) \cap Had(Home[c])
    BY <1>2, <2>1 DEF BranchInv, AtHome, BlocksOf
  <2>3. Under(f) \subseteq Under(x)
    BY <1>1, <1>2, <2>1, UnderBelow
  <2> QED
    BY <1>3, <2>2, <2>3
<1> QED
  BY <1>5, <1>6

LEMMA StoresAgree ==
  ASSUME BranchInv, OnOneBranch, NoStaleCommit
  PROVE  \A m, n \in Nodes : \A t \in store[m], u \in store[n] : t # u => InputOf[t] # InputOf[u]
<1>1. SUFFICES ASSUME NEW m \in Nodes, NEW n \in Nodes,
                      NEW t \in store[m], NEW u \in store[n], t # u
               PROVE  InputOf[t] # InputOf[u]
  OBVIOUS
<1>2. PICK A \in SUBSET Conciliums :
        /\ Cardinality(A) >= MajorityOf(Cardinality(Conciliums))
        /\ \A c \in A : \E x \in BlocksOf(c) \cap Had(Home[c]) : t \in Under(x)
  BY AppliedIsVoted
<1>3. PICK B \in SUBSET Conciliums :
        /\ Cardinality(B) >= MajorityOf(Cardinality(Conciliums))
        /\ \A c \in B : \E x \in BlocksOf(c) \cap Had(Home[c]) : u \in Under(x)
  BY AppliedIsVoted
<1>4. PICK c \in A \cap B : TRUE
  BY <1>2, <1>3, MajoritiesMeet
<1>5. PICK h : h = Home[c] /\ h \in Nodes
  BY FinalityAssumption
<1>6. PICK x, y : /\ x \in BlocksOf(c) \cap Had(h) /\ t \in Under(x)
                  /\ y \in BlocksOf(c) \cap Had(h) /\ u \in Under(y)
  BY <1>2, <1>3, <1>4, <1>5
<1>7. x \in Pending(h) \cup final[h] /\ y \in Pending(h) \cup final[h]
  BY <1>5, <1>6 DEF OnOneBranch, Had
<1>8. Ordered /\ SoundAt(h) /\ TracedAt(h) /\ Neat(patch[h], store[h])
  BY <1>5, BranchMembers DEF NoStaleCommit, NeatAt
<1>9. Pending(h) \in SUBSET Block
  BY <1>5, <1>8, HadIn
<1>10. /\ NoConflict(store[h]) /\ \A v \in Pending(h) : NoConflict(patch[h][v] \cup store[h])
  BY <1>8 DEF Neat, Upon, Pending
<1>11. /\ \A v \in Pending(h) : Under(v) \subseteq patch[h][v] \cup store[h]
       /\ \A f \in final[h] : Under(f) \subseteq store[h]
  BY <1>8 DEF TracedAt, Traced, Holds, Pending
<1>12. CASE x \in final[h] \/ y \in final[h]
  <2>1. \/ t \in store[h] /\ u \in store[h]
        \/ \E v \in Pending(h) : t \in patch[h][v] \cup store[h] /\ u \in patch[h][v] \cup store[h]
    BY <1>6, <1>7, <1>11, <1>12
  <2> QED
    BY <1>1, <1>10, <2>1 DEF NoConflict
<1>13. ASSUME NEW v \in Pending(h), NEW w \in Below(Pending(h), v), {x, y} = {v, w}
       PROVE  InputOf[t] # InputOf[u]
  <2>1. Under(w) \subseteq Under(v)
    BY <1>8, <1>9, UnderBelow
  <2>2. t \in patch[h][v] \cup store[h] /\ u \in patch[h][v] \cup store[h]
    BY <1>6, <1>11, <1>13, <2>1
  <2> QED
    BY <1>1, <1>10, <2>2 DEF NoConflict
<1>14. CASE x \in Pending(h) /\ y \in Pending(h)
  <2>1. y \in Below(Pending(h), x) \/ x \in Below(Pending(h), y)
    BY <1>5, <1>6, <1>14 DEF OnOneBranch
  <2> QED
    BY <1>13, <1>14, <2>1
<1> QED
  BY <1>7, <1>12, <1>14

-----------------------------------------------------------------------------
(***************************************************************************)
(* Nodes implement the ledger.                                             *)
(***************************************************************************)
OneLedger ==
  \A m, n \in Nodes : \A t \in store[m], u \in store[n] : t # u => InputOf[t] # InputOf[u]

LEMMA LedgerSteps ==
  ASSUME BranchInv, BranchInv', OneLedger', [Next]_vars
  PROVE  [Promise!LedgerNext]_store
<1>1. SUFFICES ASSUME store' # store PROVE Promise!LedgerNext
  OBVIOUS
<1>2. PICK n \in Nodes : \E T : store' = [store EXCEPT ![n] = @ \cup T]
  <2>1. ASSUME NEW n \in Nodes, NEW b, NEW p, AcceptBlock(n, b, p)
        PROVE  \E T : store' = [store EXCEPT ![n] = @ \cup T]
    BY <1>1, <2>1 DEF AcceptBlock, Extend, Finalise
  <2>2. CASE \E c \in Conciliums : CommitBlock(c)
    BY <2>1, <2>2, FinalityAssumption DEF CommitBlock
  <2>3. CASE \E n \in Nodes : ReceiveBlock(n)
    BY <1>1, <2>1, <2>3 DEF ReceiveBlock, ExecBlock, RefuseBlock
  <2> QED
    BY <1>1, <2>2, <2>3 DEF Next, vars, nodeVars, CreateBlock, DropCommit
<1>3. PICK T : store' = [store EXCEPT ![n] = @ \cup T]
  BY <1>2
<1>4. store = [m \in Nodes |-> store[m]] /\ store' = [m \in Nodes |-> store'[m]]
  <2>1. Tables /\ Tables'
    BY DEF BranchInv, NeatInv, NeatIn, NeatAt, AccountIn, Shape
  <2> QED
    BY <2>1 DEF Tables, IsTable
<1>5. /\ T \subseteq store'[n] /\ \A m \in Nodes : store[m] \subseteq store'[m]
  BY <1>3, <1>4
<1>6. T \subseteq Txns
  <2>1. store'[n] \subseteq Txns
    BY DEF BranchInv, NeatInv, NeatIn, NeatAt, AccountIn, SoundAt, Sound
  <2> QED
    BY <1>5, <2>1
<1>7. Promise!Compatible(T \cup UNION {store[m] : m \in Nodes})
  <2>1. \A t \in T \cup UNION {store[m] : m \in Nodes} : \E m \in Nodes : t \in store'[m]
    BY <1>5
  <2> QED
    BY <2>1 DEF Promise!Compatible, OneLedger
<1> QED
  BY <1>3, <1>6, <1>7 DEF Promise!LedgerNext, Promise!Apply

\* Two nodes apply transactions that spend one output only if a concilium has left its
\* branch, one of its blocks rolled back or a new one not made upon its last
\* (_findTopStableForPath, _removeConflictingBranches, _sortTips), or a commit came with a
\* stale patch (the 'commitBlock' handler).
THEOREM ForkHasOneOfTwoCauses ==
  Spec /\ [](OnOneBranch /\ NoStaleCommit) => KeepsPromise
<1>1. Init => Promise!LedgerInit
  BY DEF Init, Promise!LedgerInit
<1>2. BranchInv /\ OnOneBranch /\ NoStaleCommit => OneLedger
  BY StoresAgree DEF OneLedger
<1>3. BranchInv /\ BranchInv' /\ OneLedger' /\ [Next]_vars => [Promise!LedgerNext]_store
  BY LedgerSteps
<1>4. BranchInv /\ [Next]_vars => BranchInv'
  BY BranchSteps
<1> QED
  BY <1>1, <1>2, <1>3, <1>4, BranchStarts, PTL DEF Spec, KeepsPromise, Promise!LedgerSpec
=============================================================================
