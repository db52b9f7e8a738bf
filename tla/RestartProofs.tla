----------------------------- MODULE RestartProofs -----------------------------
(***************************************************************************)
(* Proofs about Restart, for any conciliums, nodes, transactions, homes,   *)
(* number of blocks and of crashes: what a node that crashes keeps of the  *)
(* graph, and what it makes of it when it starts again.                    *)
(***************************************************************************)
EXTENDS Restart, FinalityProofs

-----------------------------------------------------------------------------
(***************************************************************************)
(* The graph that a start rebuilds (_rebuildPending).                      *)
(***************************************************************************)
IsRun(V, f) == f = [b \in V |-> made[b].txns \cup UNION {f[a] : a \in ParentsIn(V, b)}]

LEMMA TxnsBelow ==
  ASSUME NEW V, Descending(V), NEW b \in V
  PROVE  TxnsOf(Below(V, b)) =
           made[b].txns \cup UNION {TxnsOf(Below(V, a)) : a \in ParentsIn(V, b)}
<1>1. Below(V, b) = {b} \cup UNION {Below(V, u) : u \in ParentsIn(V, b)}
  BY BelowRecurs
<1> QED
  BY <1>1 DEF TxnsOf

LEMMA RunExists ==
  ASSUME NEW V, Descending(V)
  PROVE  \E f : IsRun(V, f)
<1> DEFINE f == [b \in V |-> TxnsOf(Below(V, b))]
<1>1. \A b \in V : \A a \in ParentsIn(V, b) : f[a] = TxnsOf(Below(V, a))
  BY DEF ParentsIn
<1>2. \A b \in V : f[b] = made[b].txns \cup UNION {f[a] : a \in ParentsIn(V, b)}
  <2> SUFFICES ASSUME NEW b \in V
               PROVE  f[b] = made[b].txns \cup UNION {f[a] : a \in ParentsIn(V, b)}
    OBVIOUS
  <2>1. {f[a] : a \in ParentsIn(V, b)} = {TxnsOf(Below(V, a)) : a \in ParentsIn(V, b)}
    BY <1>1
  <2>2. f[b] = TxnsOf(Below(V, b))
    OBVIOUS
  <2> HIDE DEF f
  <2> QED
    BY <2>1, <2>2, TxnsBelow
<1>3. f = [b \in V |-> f[b]]
  OBVIOUS
<1> HIDE DEF f
<1>4. IsRun(V, f)
  BY <1>2, <1>3 DEF IsRun
<1> QED
  BY <1>4

IsMap(f) == f = [v \in DOMAIN f |-> f[v]]

\* Every pending block has the transactions of all the pending blocks below it.
LEMMA RebuiltIs ==
  ASSUME Descending(ToRun)
  PROVE  /\ DOMAIN Rebuilt = ToRun /\ IsMap(Rebuilt)
         /\ \A b \in ToRun : Rebuilt[b] = TxnsOf(Below(ToRun, b))
<1>1. PICK V : V = ToRun
  OBVIOUS
<1> DEFINE f == CHOOSE g : IsRun(V, g)
<1>2. IsRun(V, f)
  BY <1>1, RunExists, Zenon
<1>3. Rebuilt = f
  BY <1>1 DEF Rebuilt, IsRun
<1> HIDE DEF f
<1>4. /\ DOMAIN f = V
      /\ \A b \in V : f[b] = made[b].txns \cup UNION {f[a] : a \in ParentsIn(V, b)}
  BY <1>2 DEF IsRun
<1> DEFINE T == {b \in V : f[b] # TxnsOf(Below(V, b))}
<1>5. T = {}
  <2>1. SUFFICES ASSUME T # {} PROVE FALSE
    OBVIOUS
  <2>2. Descending(V) /\ T \in SUBSET Nat
    BY <1>1 DEF Descending
  <2>3. PICK b \in T : \A a \in T : b <= a
    BY <2>1, <2>2, LeastNat
  <2>4. \A a \in ParentsIn(V, b) : a \in V /\ a < b /\ a \in Nat /\ b \in Nat
    BY <2>2 DEF Descending, ParentsIn
  <2>5. \A a \in ParentsIn(V, b) : f[a] = TxnsOf(Below(V, a))
    BY <2>3, <2>4
  <2>6. {f[a] : a \in ParentsIn(V, b)} = {TxnsOf(Below(V, a)) : a \in ParentsIn(V, b)}
    BY <2>5
  <2>7. f[b] = made[b].txns \cup UNION {f[a] : a \in ParentsIn(V, b)}
    BY <1>4, <2>3
  <2>8. b \in V
    BY <2>3
  <2> HIDE DEF T
  <2>9. TxnsOf(Below(V, b)) =
          made[b].txns \cup UNION {TxnsOf(Below(V, a)) : a \in ParentsIn(V, b)}
    BY <2>2, <2>8, TxnsBelow
  <2>10. f[b] = TxnsOf(Below(V, b))
    BY <2>6, <2>7, <2>9
  <2> USE DEF T
  <2> QED
    BY <2>3, <2>10
<1>6. IsMap(f)
  BY <1>2 DEF IsRun, IsMap
<1> QED
  BY <1>1, <1>3, <1>4, <1>5, <1>6

-----------------------------------------------------------------------------
(***************************************************************************)
(* A graph that can be built again from the blocks in it.                  *)
(***************************************************************************)
\* p, the patch of v, has what its blocks brought and is not applied yet, once; and
\* nothing else as long as no block under v was rolled back.
Exact(P, v, p, U, S) ==
  /\ p \cap S = {}
  /\ TxnsOf(Below(Block, v)) \subseteq p \cup S
  /\ \A u \in ParentsIn(DOMAIN P, v) : P[u] \cap made[v].txns = {}
  /\ Below(Block, v) \cap U = {} =>
       \A t \in p : t \in made[v].txns \/ \E u \in ParentsIn(DOMAIN P, v) : t \in P[u]

\* Everything final is applied, with all that is below.
Settled(F, U, S) ==
  \A f \in F : /\ made[f].parents \subseteq F \cup U \cup {Genesis}
               /\ TxnsOf(Below(Block, f)) \subseteq S

Whole(P, tops, F, U, S) ==
  /\ Sound(P, tops, F, U, S) /\ Neat(P, S) /\ Settled(F, U, S)
  /\ \A u \in U : made[u].parents \subseteq Known(P, F, U)
  /\ \A v \in DOMAIN P : Exact(P, v, P[v], U, S)

\* Making blocks does not touch it.
LEMMA StillExact ==
  ASSUME Ordered, Ordered', Block \subseteq Block', \A b \in Block : made'[b] = made[b],
         NEW P, NEW v \in Block, NEW p, NEW U, NEW S, Exact(P, v, p, U, S)
  PROVE  Exact(P, v, p, U, S)'
<1>1. Below(Block, v)' = Below(Block, v)
  BY StillBelow
<1>2. Below(Block, v) \subseteq Block
  BY BlocksDescend, BelowIn
<1>3. TxnsOf(Below(Block, v))' = TxnsOf(Below(Block, v))
  BY <1>1, <1>2 DEF TxnsOf
<1>4. made'[v] = made[v] /\ ParentsIn(DOMAIN P, v)' = ParentsIn(DOMAIN P, v)
  BY DEF ParentsIn
<1> QED
  BY <1>1, <1>3, <1>4 DEF Exact

LEMMA StillWhole ==
  ASSUME Ordered, Ordered', Block \subseteq Block', \A b \in Block : made'[b] = made[b],
         NEW P, NEW tops, NEW F, NEW U, NEW S, Whole(P, tops, F, U, S)
  PROVE  Whole(P, tops, F, U, S)'
<1>1. DOMAIN P \subseteq Block /\ F \subseteq Block /\ U \subseteq Block
  BY DEF Whole, Sound
<1>2. Sound(P, tops, F, U, S)'
  BY StillSound DEF Whole
<1>3. Neat(P, S)'
  BY <1>1, StillNeat DEF Whole
<1>4. Settled(F, U, S)'
  <2> SUFFICES ASSUME NEW f \in F
               PROVE  /\ made'[f].parents \subseteq F \cup U \cup {Genesis}
                      /\ TxnsOf(Below(Block, f))' \subseteq S
    BY DEF Settled
  <2>1. Below(Block, f)' = Below(Block, f) /\ Below(Block, f) \subseteq Block
    BY <1>1, StillBelow, BlocksDescend, BelowIn
  <2>2. TxnsOf(Below(Block, f))' = TxnsOf(Below(Block, f))
    BY <2>1 DEF TxnsOf
  <2> QED
    BY <1>1, <2>2 DEF Whole, Settled
<1>5. \A u \in U : made'[u].parents \subseteq Known(P, F, U)
  BY <1>1 DEF Whole
<1>6. Known(P, F, U)' = Known(P, F, U)
  BY DEF Known
<1>7. \A v \in DOMAIN P : Exact(P, v, P[v], U, S)'
  BY <1>1, StillExact DEF Whole
<1> QED
  BY <1>2, <1>3, <1>4, <1>5, <1>6, <1>7 DEF Whole

\* A block on blocks that are pending or final.
LEMMA ExactAdd ==
  ASSUME Ordered, NEW n \in Nodes, NEW P, NEW S, S = store[n], NEW tops, NEW F, NEW U,
         Whole(P, tops, F, U, S),
         NEW b \in Block, made[b].parents \subseteq DOMAIN P \cup F \cup {Genesis},
         NEW base, base = Merged(P, made[b].parents),
         Spendable(n, base, made[b].txns)
  PROVE  Exact(P, b, base \cup made[b].txns, U, S)
<1> DEFINE p == base \cup made[b].txns
<1>1. \A t \in made[b].txns : t \notin base /\ t \notin S
  BY DEF Spendable
<1>2. \A u \in ParentsIn(DOMAIN P, b) : P[u] \subseteq base
  BY DEF Merged, ParentsIn
<1>3. \A v \in DOMAIN P : P[v] \cap S = {} /\ TxnsOf(Below(Block, v)) \subseteq P[v] \cup S
  BY DEF Whole, Exact
<1>4. \A t \in base : \E u \in ParentsIn(DOMAIN P, b) : t \in P[u]
  BY DEF Merged, ParentsIn
<1>5. p \cap S = {}
  BY <1>1, <1>3, <1>4 DEF ParentsIn
<1>6. TxnsOf(Below(Block, b)) \subseteq p \cup S
  <2>1. TxnsOf(Below(Block, b)) =
          made[b].txns \cup UNION {TxnsOf(Below(Block, a)) : a \in ParentsIn(Block, b)}
    BY BlocksDescend, TxnsBelow
  <2>2. \A a \in ParentsIn(Block, b) : TxnsOf(Below(Block, a)) \subseteq p \cup S
    <3> SUFFICES ASSUME NEW a \in ParentsIn(Block, b)
                 PROVE  TxnsOf(Below(Block, a)) \subseteq p \cup S
      OBVIOUS
    <3>1. a \in Block /\ a \in made[b].parents /\ a # Genesis
      BY DEF ParentsIn, Block, Genesis, Ordered
    <3>2. CASE a \in F
      BY <3>2 DEF Whole, Settled
    <3>3. CASE a \in DOMAIN P
      BY <1>2, <1>3, <3>1, <3>3 DEF ParentsIn
    <3> QED
      BY <3>1, <3>2, <3>3
  <2> QED
    BY <2>1, <2>2
<1>7. \A u \in ParentsIn(DOMAIN P, b) : P[u] \cap made[b].txns = {}
  BY <1>1, <1>2
<1> QED
  BY <1>4, <1>5, <1>6, <1>7 DEF Exact

LEMMA WholeMore ==
  ASSUME NEW P, NEW tops, NEW F, NEW U, NEW S, Whole(P, tops, F, U, S),
         NEW b \in Block, b \notin Known(P, F, U), made[b].parents \subseteq Known(P, F, U),
         NEW p, p \subseteq Txns, Fits(P, b, p, S, TxnsOf(F \cup U)), Upon(P, b, p, S),
         Exact(P, b, p, U, S), NEW Q, Q = AddBlock(P, b, p)
  PROVE  /\ Whole(Q, tops, F, U, S)
         /\ DOMAIN Q = DOMAIN P \cup {b} /\ Known(Q, F, U) = Known(P, F, U) \cup {b}
<1>1. Sound(P, tops, F, U, S) /\ Neat(P, S) /\ Settled(F, U, S)
  BY DEF Whole
<1>2. b \notin made[b].parents /\ \A v \in DOMAIN P : b \notin made[v].parents
  BY <1>1 DEF Sound
<1>3. /\ Sound(Q, tops, F, U, S)
      /\ Known(Q, F, U) = Known(P, F, U) \cup {b}
      /\ b \in DOMAIN Q
      /\ Keeps(P, F, U, S, Q, F, U, S)
  BY <1>1, <1>2, AddSound
<1>4. b \notin DOMAIN P
  BY DEF Known
<1>5. /\ DOMAIN Q = DOMAIN P \cup {b} /\ Q[b] = p
      /\ \A v \in DOMAIN P : Q[v] = P[v]
  BY <1>4 DEF AddBlock
<1>6. Neat(Q, S)
  BY <1>1, <1>2, <1>4, AddNeat
<1>7. \A u \in U : made[u].parents \subseteq Known(Q, F, U)
  BY <1>3 DEF Whole
<1>8. \A v \in DOMAIN P : Exact(P, v, P[v], U, S)
  BY DEF Whole
<1>9. \A v \in DOMAIN Q : Exact(P, v, Q[v], U, S)
  BY <1>5, <1>8
<1>10. \A v \in DOMAIN Q : Exact(Q, v, Q[v], U, S)
  <2> SUFFICES ASSUME NEW v \in DOMAIN Q
               PROVE  Exact(Q, v, Q[v], U, S)
    OBVIOUS
  <2>1. ParentsIn(DOMAIN Q, v) = ParentsIn(DOMAIN P, v)
    BY <1>2, <1>5 DEF ParentsIn
  <2>2. \A u \in ParentsIn(DOMAIN P, v) : Q[u] = P[u]
    BY <1>5 DEF ParentsIn
  <2>3. PICK q : q = Q[v]
    OBVIOUS
  <2>4. Exact(P, v, q, U, S)
    BY <1>9, <2>3
  <2>5. /\ q \cap S = {}
        /\ TxnsOf(Below(Block, v)) \subseteq q \cup S
    BY <2>4 DEF Exact
  <2>6. \A u \in ParentsIn(DOMAIN Q, v) : Q[u] \cap made[v].txns = {}
    BY <2>1, <2>2, <2>4 DEF Exact
  <2>7. Below(Block, v) \cap U = {} =>
         \A t \in q : t \in made[v].txns \/ \E u \in ParentsIn(DOMAIN Q, v) : t \in Q[u]
    <3> SUFFICES ASSUME Below(Block, v) \cap U = {}, NEW t \in q, t \notin made[v].txns
                 PROVE  \E u \in ParentsIn(DOMAIN Q, v) : t \in Q[u]
      OBVIOUS
    <3>1. \E u \in ParentsIn(DOMAIN P, v) : t \in P[u]
      BY <2>4 DEF Exact
    <3> QED
      BY <2>1, <2>2, <3>1
  <2>8. Exact(Q, v, q, U, S)
    BY <2>5, <2>6, <2>7 DEF Exact
  <2> QED
    BY <2>3, <2>8
<1>11. Whole(Q, tops, F, U, S)
  BY <1>1, <1>3, <1>6, <1>7, <1>10 DEF Whole
<1> QED
  BY <1>3, <1>5, <1>11

LEMMA WholeAdd ==
  ASSUME Ordered, NEW n \in Nodes, NEW P, P = patch[n], NEW S, S = store[n],
         NEW tops, NEW F, NEW U, Whole(P, tops, F, U, S),
         NEW b \in Block, b \notin Known(P, F, U),
         made[b].parents \subseteq DOMAIN P \cup F \cup {Genesis}, made[b].txns \subseteq Txns,
         ~ConflictAmong(P, made[b].parents),
         NEW base, base = Merged(P, made[b].parents), Spendable(n, base, made[b].txns),
         NEW Q, Q = AddBlock(P, b, base \cup made[b].txns)
  PROVE  Whole(Q, tops, F, U, S)
<1>1. PICK p : p = base \cup made[b].txns
  OBVIOUS
<1>2. Sound(P, tops, F, U, S) /\ Neat(P, S)
  BY DEF Whole
<1>3. made[b].parents \subseteq Known(P, F, U)
  BY DEF Known
<1>4. p \subseteq Txns
  BY <1>1, <1>2 DEF Merged, Sound
<1>5. Fits(P, b, p, S, TxnsOf(F \cup U))
  BY <1>1, MergedFits
<1>6. Upon(P, b, p, S)
  <2>1. /\ NoConflict(p \cup S)
        /\ \A u \in made[b].parents \cap DOMAIN P : P[u] \subseteq base
    BY <1>1, <1>2, MergedUpon
  <2> QED
    BY <1>1, <2>1 DEF Upon, ParentsIn
<1>7. Exact(P, b, p, U, S)
  BY <1>1, ExactAdd
<1> QED
  BY <1>1, <1>3, <1>4, <1>5, <1>6, <1>7, WholeMore

-----------------------------------------------------------------------------
(***************************************************************************)
(* What becomes final leaves the graph whole.                              *)
(***************************************************************************)
\* What is stable is below a top, and applied with it.
LEMMA StableApplied ==
  ASSUME NEW P, Descending(DOMAIN P), NEW S, Neat(P, S), NEW b \in DOMAIN P,
         NEW tops, NEW stable, NEW apply, NEW rollback, NEW left,
         Result(P, b, tops, stable, apply, rollback, left)
  PROVE  \A v \in stable : v \in DOMAIN P /\ P[v] \subseteq apply
<1> SUFFICES ASSUME NEW v \in stable PROVE v \in DOMAIN P /\ P[v] \subseteq apply
  OBVIOUS
<1>1. PICK V : V = DOMAIN P
  OBVIOUS
<1>2. Descending(V) /\ tops = FindTopStable(V, b) /\ b \in V
  BY <1>1 DEF Result
<1>3. tops \subseteq V
  BY <1>2, TopStableBelow, BelowIn
<1>4. PICK t \in tops : v \in Below(V, t)
  BY <1>1 DEF Result, FindAlsoStable
<1>5. v \in V
  BY <1>2, <1>3, <1>4, BelowIn
<1>6. \A w \in V : \A u \in ParentsIn(V, w) : P[u] \subseteq P[w] \cup {}
  BY <1>1 DEF Neat, Upon
<1>7. P[v] \subseteq P[t] \cup {}
  BY <1>2, <1>3, <1>4, <1>6, FlowsUp
<1>8. P[t] \subseteq apply
  BY <1>1, <1>3 DEF Result, Merged
<1> QED
  BY <1>1, <1>5, <1>7, <1>8

\* What finality made of a graph is whole too, and what it applies was in blocks.
Finalises(P, tops, F, U, S, r) ==
  /\ Whole(r.patches, tops, F \cup r.stable, U \cup r.rollback, S \cup r.apply)
  /\ Known(r.patches, F \cup r.stable, U \cup r.rollback) = Known(P, F, U)
  /\ r.apply \subseteq TxnsOf(F \cup r.stable \cup U)

LEMMA WholeFinalise ==
  ASSUME Ordered, NEW P, NEW tops0, NEW F, NEW U, NEW S, Whole(P, tops0, F, U, S),
         NEW b \in DOMAIN P, NEW tops, tops = FindTopStable(DOMAIN P, b),
         NEW r, r = CheckFinality(b, P, tops)
  PROVE  Finalises(P, tops, F, U, S, r)
<1> DEFINE V == DOMAIN P
<1>1. PICK stable, apply, rollback, left :
        /\ stable = r.stable /\ apply = r.apply
        /\ rollback = r.rollback /\ left = r.patches
  OBVIOUS
<1>2. Result(P, b, tops, stable, apply, rollback, left)
  BY <1>1, Checked
<1>3. Sound(P, tops0, F, U, S) /\ Neat(P, S) /\ Settled(F, U, S)
  BY DEF Whole
<1>4. V \subseteq Block /\ Descending(V) /\ V \subseteq 1..Len(made) /\ Len(made) \in Nat
  BY <1>3, BlocksDescend DEF Sound, Ordered
<1>5. /\ Sound(left, tops, F \cup stable, U \cup rollback, S \cup apply)
      /\ Known(left, F \cup stable, U \cup rollback) = Known(P, F, U)
  BY <1>1, <1>3, FinaliseSound
<1>6. Account(P, S, TxnsOf(F \cup U), tops, stable, apply, rollback, left)
  BY <1>2, <1>3, <1>4, FinaliseFits DEF Sound
<1>7. Neat(left, S \cup apply)
  <2>1. ~ConflictAmong(P, tops)
    BY <1>3, <1>4, TopsMerge
  <2>2. DOMAIN P \subseteq 0..Len(made)
    BY <1>4
  <2> QED
    BY <1>2, <1>3, <1>4, <2>1, <2>2, FinaliseNeat
<1>8. /\ stable \subseteq V /\ rollback \subseteq V \ stable
      /\ DOMAIN left = (V \ stable) \ rollback
      /\ \A v \in DOMAIN left : left[v] = P[v] \ apply
  BY <1>2, <1>6 DEF Account, Result
<1>9. \A v \in stable : P[v] \subseteq apply
  BY <1>2, <1>3, <1>4, StableApplied
<1>10. \A v \in V : Exact(P, v, P[v], U, S) /\ made[v].parents \subseteq Known(P, F, U)
  BY <1>3 DEF Whole, Sound
<1>11. Settled(F \cup stable, U \cup rollback, S \cup apply)
  <2> SUFFICES ASSUME NEW f \in stable
               PROVE  /\ made[f].parents \subseteq F \cup stable \cup (U \cup rollback) \cup {Genesis}
                      /\ TxnsOf(Below(Block, f)) \subseteq S \cup apply
    BY <1>3 DEF Settled
  <2>1. ParentsIn(V, f) \subseteq stable
    <3>1. tops = FindTopStable(V, b) /\ stable = FindAlsoStable(V, tops)
      BY <1>2 DEF Result
    <3>2. DownClosed(V, stable)
      BY <1>4, <3>1, StableGoesDown
    <3> QED
      BY <1>8, <3>2 DEF DownClosed
  <2>2. made[f].parents \subseteq Known(P, F, U)
    BY <1>8, <1>10
  <2>3. TxnsOf(Below(Block, f)) \subseteq P[f] \cup S
    BY <1>8, <1>10 DEF Exact
  <2> QED
    BY <1>9, <2>1, <2>2, <2>3 DEF Known, ParentsIn
<1>12. \A u \in U \cup rollback :
         made[u].parents \subseteq Known(left, F \cup stable, U \cup rollback)
  BY <1>5, <1>8, <1>10 DEF Whole
<1>13. \A v \in DOMAIN left : Exact(left, v, left[v], U \cup rollback, S \cup apply)
  <2> SUFFICES ASSUME NEW v \in DOMAIN left
               PROVE  Exact(left, v, left[v], U \cup rollback, S \cup apply)
    OBVIOUS
  <2>1. v \in V /\ left[v] = P[v] \ apply /\ v \in Block
    BY <1>4, <1>8
  <2>2. Exact(P, v, P[v], U, S)
    BY <1>10, <2>1
  <2>3. ParentsIn(DOMAIN left, v) = ParentsIn(V, v) \ (stable \cup rollback)
    BY <1>8 DEF ParentsIn
  <2>4. /\ left[v] \cap (S \cup apply) = {}
        /\ TxnsOf(Below(Block, v)) \subseteq left[v] \cup (S \cup apply)
    BY <2>1, <2>2 DEF Exact
  <2>5. \A u \in ParentsIn(DOMAIN left, v) : left[u] \cap made[v].txns = {}
    <3>1. \A u \in ParentsIn(DOMAIN left, v) : left[u] \subseteq P[u]
      BY <1>8 DEF ParentsIn
    <3> QED
      BY <2>2, <2>3, <3>1 DEF Exact
  <2>6. ASSUME Below(Block, v) \cap (U \cup rollback) = {}, NEW t \in left[v]
        PROVE  t \in made[v].txns \/ \E u \in ParentsIn(DOMAIN left, v) : t \in left[u]
    <3>1. t \in P[v] /\ t \notin apply
      BY <2>1
    <3>2. CASE \E u \in ParentsIn(V, v) : t \in P[u]
      <4>1. PICK u \in ParentsIn(V, v) : t \in P[u]
        BY <3>2
      <4>2. u \notin stable
        BY <1>9, <3>1, <4>1
      <4>3. u \notin rollback
        <5>1. u \in ParentsIn(Block, v)
          BY <1>4, <4>1 DEF ParentsIn
        <5>2. u \in Below(Block, v)
          BY <2>1, <5>1, BlocksDescend, BelowIn, ParentsBelow DEF DownClosed
        <5> QED
          BY <2>6, <5>2
      <4>4. u \in ParentsIn(DOMAIN left, v)
        BY <2>3, <4>1, <4>2, <4>3
      <4>5. t \in left[u]
        BY <1>8, <3>1, <4>1, <4>4 DEF ParentsIn
      <4> QED
        BY <4>4, <4>5
    <3> QED
      BY <2>2, <2>6, <3>1, <3>2 DEF Exact
  <2> QED
    BY <2>4, <2>5, <2>6 DEF Exact
<1>14. apply \subseteq TxnsOf(F \cup stable \cup U)
  BY <1>6 DEF Account, TxnsOf
<1>15. Whole(left, tops, F \cup stable, U \cup rollback, S \cup apply)
  BY <1>5, <1>7, <1>11, <1>12, <1>13 DEF Whole
<1> QED
  BY <1>1, <1>5, <1>14, <1>15 DEF Finalises

-----------------------------------------------------------------------------
(***************************************************************************)
(* What holds whatever crashes: the other nodes go on as in Finality, and  *)
(* everything the mortal one keeps is about blocks that are committed.     *)
(***************************************************************************)
Steady == Nodes \ {Mortal}

\* The blocks that wait for no commit handler.
Committed == {b \in Block : \A c \in Conciliums : \A k \in building[c] : k.block # b}

Mine ==
  /\ DOMAIN info \subseteq Committed /\ known \subseteq Committed
  /\ queue \subseteq Committed /\ pendingKeys \subseteq Committed
  /\ lastApplied \in [Conciliums -> Committed \cup {Genesis}]
  /\ Pending(Mortal) \subseteq Committed /\ final[Mortal] \subseteq Committed
  /\ unwound[Mortal] \subseteq Committed /\ bad[Mortal] \subseteq Committed
  /\ topStable[Mortal] \subseteq Committed \cup {Genesis}
  /\ IsMap(patch[Mortal])
  /\ \A v \in Pending(Mortal) : patch[Mortal][v] \subseteq Txns
  /\ store[Mortal] \subseteq Txns

Jobs(C) == [block : C, stage : {"last", "final", "bad", "pending"}, tops : SUBSET C,
            stable : SUBSET C, apply : SUBSET Txns, rollback : SUBSET C]

Work ==
  /\ job \subseteq Jobs(Committed) /\ \A j \in job : job = {j}
  /\ status \in {"up", "down", "broken"} /\ crashes \in 0..MaxCrashes /\ torn \in BOOLEAN
  /\ \A b \in DOMAIN info : info[b] \in {"inFlight", "final", "bad"}
  /\ status # "up" => job = {} /\ queue = {}

WeakInv == AccountIn(Steady) /\ Mine /\ Work

LEMMA SteadyHoused == Housed(Steady) /\ Mortal \in Nodes /\ Mortal \notin Steady /\ Steady \subseteq Nodes
  BY RestartAssumption, FinalityAssumption DEF Housed, Steady

LEMMA WeakStarts == InitRestart => WeakInv
<1> SUFFICES ASSUME InitRestart PROVE WeakInv
  OBVIOUS
<1>1. Init
  BY DEF InitRestart
<1>2. AccountIn(Steady)
  <2>1. AccountInv
    BY <1>1, AccountStarts
  <2> QED
    BY <2>1, SteadyHoused DEF AccountInv, AccountIn
<1>3. made = << >> /\ Block = {}
  BY <1>1 DEF Init, Block
<1>4. patch[Mortal] = << >> /\ Pending(Mortal) = {}
  BY <1>1, SteadyHoused DEF Init, Pending
<1>5. IsMap(patch[Mortal])
  BY <1>4 DEF IsMap
<1>6. /\ topStable[Mortal] = {Genesis} /\ final[Mortal] = {} /\ unwound[Mortal] = {}
      /\ bad[Mortal] = {} /\ store[Mortal] = {}
  BY <1>1, SteadyHoused DEF Init
<1>7. /\ status = "up" /\ known = {} /\ queue = {} /\ job = {} /\ info = << >>
      /\ lastApplied = [c \in Conciliums |-> Genesis] /\ pendingKeys = {}
      /\ crashes = 0 /\ torn = FALSE
  BY DEF InitRestart
<1>8. DOMAIN info = {}
  BY <1>7
<1>9. Mine
  BY <1>4, <1>5, <1>6, <1>7, <1>8 DEF Mine
<1>10. Work
  <2>1. crashes \in 0..MaxCrashes
    BY <1>7, RestartAssumption
  <2>2. torn \in BOOLEAN /\ status \in {"up", "down", "broken"}
    BY <1>7
  <2> QED
    BY <1>7, <1>8, <2>1, <2>2 DEF Work
<1> QED
  BY <1>2, <1>9, <1>10 DEF WeakInv

-----------------------------------------------------------------------------
\* A step of the mortal node does not disturb the others.
LEMMA MortalAlone ==
  ASSUME WeakInv, Mine', made' = made, building' = building, Shape', OthersKeep(Mortal),
         \A m \in Steady : bad'[m] = bad[m]
  PROVE  AccountIn(Steady)'
<1>1. AccountIn(Steady)
  BY DEF WeakInv
<1>2. Ordered' /\ Block' = Block /\ Committed' = Committed
  BY <1>1 DEF AccountIn, Ordered, Block, Committed
<1>3. \A n \in Steady : /\ SoundAt(n)' /\ Seen(n)' = Seen(n) /\ DecidedOf(n)' = DecidedOf(n)
                        /\ patch'[n] = patch[n] /\ store'[n] = store[n]
  <2> SUFFICES ASSUME NEW n \in Steady
               PROVE  /\ SoundAt(n)' /\ Seen(n)' = Seen(n) /\ DecidedOf(n)' = DecidedOf(n)
                      /\ patch'[n] = patch[n] /\ store'[n] = store[n]
    OBVIOUS
  <2>1. /\ patch'[n] = patch[n] /\ topStable'[n] = topStable[n]
        /\ final'[n] = final[n] /\ unwound'[n] = unwound[n] /\ store'[n] = store[n]
    BY DEF OthersKeep, Steady
  <2>2. SoundAt(n) /\ n \in Nodes
    BY <1>1, SteadyHoused DEF AccountIn
  <2> QED
    BY <1>2, <2>1, <2>2, IdleSound
<1>4. Seen(Mortal)' \cup bad'[Mortal] \subseteq Committed \cup {Genesis}
  BY <1>2 DEF Mine, Seen, Known, Pending
<1>5. \A n \in Nodes : Seen(n)' \subseteq Block' \cup {Genesis}
  BY <1>1, <1>2, <1>3, <1>4 DEF AccountIn, Steady, Committed
<1>6. JobsWait'
  <2> SUFFICES ASSUME NEW c \in Conciliums, NEW k \in building[c]
               PROVE  /\ Waits(Home[c], k)'
                      /\ \A d \in Conciliums : \A i \in building[d] : i.block = k.block => d = c
    BY DEF JobsWait
  <2>1. /\ Waits(Home[c], k)
        /\ \A d \in Conciliums : \A i \in building[d] : i.block = k.block => d = c
    BY <1>1 DEF AccountIn, JobsWait
  <2>2. Home[c] \in Steady
    BY SteadyHoused DEF Housed
  <2>3. k.block \in Block
    BY <1>1 DEF AccountIn, Shape
  <2>4. k.block \notin Committed /\ k.block # Genesis
    BY <1>1, <2>3 DEF Committed, AccountIn, Ordered, Block, Genesis
  <2>5. \A m \in Nodes : k.block \notin (Seen(m)' \cup bad'[m])
    BY <1>3, <1>4, <2>1, <2>4 DEF Steady, Waits
  <2>6. Fits(patch[Home[c]], k.block, k.patch, store[Home[c]], DecidedOf(Home[c]))'
    <3>1. PICK P, S, K : /\ P = patch[Home[c]] /\ S = store[Home[c]] /\ K = DecidedOf(Home[c])
      OBVIOUS
    <3>2. P = patch'[Home[c]] /\ S = store'[Home[c]] /\ K = DecidedOf(Home[c])'
      BY <1>3, <2>2, <3>1
    <3>3. Fits(P, k.block, k.patch, S, K)
      BY <2>1, <3>1 DEF Waits
    <3>4. Fits(P, k.block, k.patch, S, K)'
      BY <3>3, StillFits
    <3> QED
      BY <3>2, <3>4
  <2>7. made'[k.block].parents \subseteq Seen(Home[c])'
    BY <1>3, <2>1, <2>2 DEF Waits
  <2>8. \A b \in Block' : k.block \notin made'[b].parents
    BY <1>2, <2>1 DEF Waits
  <2> QED
    BY <2>1, <2>5, <2>6, <2>7, <2>8 DEF Waits
<1> QED
  BY <1>2, <1>3, <1>5, <1>6 DEF AccountIn

-----------------------------------------------------------------------------
\* What a step of the others leaves alone.
LeavesMortal ==
  /\ patch'[Mortal] = patch[Mortal] /\ topStable'[Mortal] = topStable[Mortal]
  /\ final'[Mortal] = final[Mortal] /\ unwound'[Mortal] = unwound[Mortal]
  /\ store'[Mortal] = store[Mortal] /\ bad'[Mortal] = bad[Mortal]
  /\ UNCHANGED restartVars
  /\ Block \subseteq Block' /\ \A b \in Block : made'[b] = made[b]
  /\ Committed \subseteq Committed'

LEMMA AcceptElsewhere ==
  ASSUME Tables, NEW n \in Nodes, NEW b, NEW p, AcceptBlock(n, b, p)
  PROVE  OthersKeep(n)
<1> DEFINE patches == AddBlock(patch[n], b, p)
           tops == FindTopStable(DOMAIN patches, b)
           r == CheckFinality(b, patches, tops)
<1>1. Extend(n, patches) \/ Finalise(n, r, tops)
  BY DEF AcceptBlock
<1> HIDE DEF patches, tops, r
<1>2. CASE Extend(n, patches)
  BY <1>2 DEF Extend, OthersKeep, Tables, IsTable
<1>3. CASE Finalise(n, r, tops)
  BY <1>3 DEF Finalise, OthersKeep, Tables, IsTable
<1> QED
  BY <1>1, <1>2, <1>3

LEMMA OthersLeave ==
  ASSUME WeakInv, Others
  PROVE  AccountIn(Steady)' /\ LeavesMortal
<1>1. AccountIn(Steady) /\ Tables
  BY DEF WeakInv, AccountIn, Shape
<1>2. made \in Seq(Headers) /\ Block = 1..Len(made) /\ Len(made) \in Nat
      /\ building \in [Conciliums -> SUBSET [block : Block, patch : SUBSET Txns]]
  BY <1>1 DEF AccountIn, Ordered, Block, Shape
<1>3. UNCHANGED restartVars
  BY DEF Others
<1>4. ASSUME NEW c \in Conciliums, CreateBlock(c)
      PROVE  AccountIn(Steady)' /\ LeavesMortal
  <2>1. AccountIn(Steady)'
    BY <1>1, <1>4, CreateKeeps, SteadyHoused
  <2>2. UNCHANGED nodeVars
    BY <1>4 DEF CreateBlock
  <2>3. PICK header, p :
          /\ made' = Append(made, header)
          /\ building' = [building EXCEPT ![c] = {[block |-> Len(made) + 1, patch |-> p]}]
    BY <1>4 DEF CreateBlock
  <2>4. Block' = 1..(Len(made) + 1) /\ \A b \in Block : made'[b] = made[b]
    <3>1. /\ DOMAIN Append(made, header) = 1..(Len(made) + 1)
          /\ \A i \in 1..Len(made) : Append(made, header)[i] = made[i]
      BY <1>2
    <3> QED
      BY <1>2, <2>3, <3>1 DEF Block
  <2>5. Committed \subseteq Committed'
    <3> SUFFICES ASSUME NEW b \in Committed, NEW d \in Conciliums, NEW k \in building'[d]
                 PROVE  k.block # b
      BY <1>2, <2>4 DEF Committed
    <3>1. b \in 1..Len(made) /\ \A k2 \in building[d] : k2.block # b
      BY <1>2 DEF Committed
    <3>2. k \in building[d] \/ k.block = Len(made) + 1
      BY <1>2, <2>3
    <3> QED
      BY <1>2, <3>1, <3>2
  <2> QED
    BY <1>2, <1>3, <2>1, <2>2, <2>4, <2>5 DEF LeavesMortal, nodeVars
<1>5. ASSUME NEW c \in Conciliums, CommitBlock(c)
      PROVE  AccountIn(Steady)' /\ LeavesMortal
  <2>1. AccountIn(Steady)'
    BY <1>1, <1>5, CommitKeeps, SteadyHoused
  <2>2. PICK k \in building[c] : AcceptBlock(Home[c], k.block, k.patch)
    BY <1>5 DEF CommitBlock
  <2>3. /\ building' = [building EXCEPT ![c] = {}]
        /\ UNCHANGED <<made, bad>>
    BY <1>5 DEF CommitBlock
  <2>4. OthersKeep(Home[c]) /\ Mortal \in Nodes \ {Home[c]}
    BY <1>1, <2>2, AcceptElsewhere, SteadyHoused DEF Housed, Steady
  <2>5. Block' = Block /\ Committed \subseteq Committed'
    BY <1>2, <2>3 DEF Committed, Block
  <2> QED
    BY <1>3, <2>1, <2>3, <2>4, <2>5 DEF LeavesMortal, OthersKeep
<1>6. ASSUME NEW n \in Nodes \ {Mortal}, ReceiveBlock(n)
      PROVE  AccountIn(Steady)' /\ LeavesMortal
  <2>1. AccountIn(Steady)'
    BY <1>1, <1>6, ReceiveKeeps, SteadyHoused DEF Steady
  <2>2. UNCHANGED <<made, building, stale>>
    BY <1>6 DEF ReceiveBlock
  <2>3. PICK b : ExecBlock(n, b) \/ RefuseBlock(n, b)
    BY <1>6 DEF ReceiveBlock
  <2>4. OthersKeep(n)
    <3>1. CASE UNCHANGED <<patch, topStable, final, unwound, store>>
      BY <3>1 DEF OthersKeep
    <3>2. CASE \E p : AcceptBlock(n, b, p)
      BY <1>1, <3>2, AcceptElsewhere
    <3> QED
      BY <2>3, <3>1, <3>2 DEF ExecBlock, RefuseBlock
  <2>5. bad'[Mortal] = bad[Mortal]
    <3>1. bad \in [Nodes -> SUBSET Block]
      BY <1>1 DEF AccountIn, Shape
    <3>2. bad' = bad \/ \E B : bad' = [bad EXCEPT ![n] = B]
      BY <2>3 DEF ExecBlock, RefuseBlock
    <3> QED
      BY <3>1, <3>2, SteadyHoused
  <2>6. Block' = Block /\ Committed' = Committed
    BY <2>2 DEF Committed, Block
  <2>7. Mortal \in Nodes \ {n}
    BY SteadyHoused
  <2> QED
    BY <1>3, <2>1, <2>2, <2>4, <2>5, <2>6, <2>7 DEF LeavesMortal, OthersKeep
<1> QED
  BY <1>4, <1>5, <1>6 DEF Others

LEMMA OthersWeak ==
  ASSUME WeakInv, Others
  PROVE  WeakInv'
<1>1. AccountIn(Steady)' /\ LeavesMortal
  BY OthersLeave
<1>2. /\ status' = status /\ known' = known /\ queue' = queue /\ job' = job
      /\ info' = info /\ lastApplied' = lastApplied /\ pendingKeys' = pendingKeys
      /\ crashes' = crashes /\ torn' = torn
  BY <1>1 DEF LeavesMortal, restartVars
<1>3. Committed \subseteq Committed'
  BY <1>1 DEF LeavesMortal
<1>4. Mine'
  <2>1. /\ DOMAIN info' \subseteq Committed' /\ known' \subseteq Committed'
        /\ queue' \subseteq Committed' /\ pendingKeys' \subseteq Committed'
    BY <1>2, <1>3 DEF WeakInv, Mine
  <2>2. lastApplied' \in [Conciliums -> Committed' \cup {Genesis}]
    BY <1>2, <1>3 DEF WeakInv, Mine
  <2>3. /\ DOMAIN patch'[Mortal] \subseteq Committed' /\ final'[Mortal] \subseteq Committed'
        /\ unwound'[Mortal] \subseteq Committed' /\ bad'[Mortal] \subseteq Committed'
        /\ topStable'[Mortal] \subseteq Committed' \cup {Genesis}
        /\ store'[Mortal] \subseteq Txns
    BY <1>1, <1>3 DEF WeakInv, Mine, LeavesMortal, Pending
  <2>4. /\ IsMap(patch'[Mortal])
        /\ \A v \in DOMAIN patch'[Mortal] : patch'[Mortal][v] \subseteq Txns
    <3>1. IsMap(patch[Mortal]) /\ \A v \in DOMAIN patch[Mortal] : patch[Mortal][v] \subseteq Txns
      BY DEF WeakInv, Mine, Pending
    <3>2. patch'[Mortal] = patch[Mortal]
      BY <1>1 DEF LeavesMortal
    <3> QED
      BY <3>1, <3>2
  <2> QED
    BY <2>1, <2>2, <2>3, <2>4 DEF Mine, Pending, IsMap
<1>5. Jobs(Committed) \subseteq Jobs(Committed')
  BY <1>3 DEF Jobs
<1>6. Work'
  BY <1>2, <1>5 DEF WeakInv, Work, Jobs
<1> QED
  BY <1>1, <1>4, <1>6 DEF WeakInv

-----------------------------------------------------------------------------
(***************************************************************************)
(* Every step of the mortal node.                                          *)
(***************************************************************************)
LEMMA OfIs ==
  ASSUME NEW f, IsTable(f), NEW value
  PROVE  /\ IsTable(Of(f, value)) /\ Of(f, value)[Mortal] = value
         /\ \A m \in Nodes \ {Mortal} : Of(f, value)[m] = f[m]
  BY SteadyHoused DEF IsTable, Of

\* f is as before, or has a new value for the mortal node.
Updates(f, g) == g = f \/ \E value : g = Of(f, value)

LEMMA UpdatesIs ==
  ASSUME NEW f, NEW g, IsTable(f), Updates(f, g)
  PROVE  IsTable(g) /\ \A m \in Nodes \ {Mortal} : g[m] = f[m]
  BY OfIs DEF Updates

MortalMoves ==
  /\ UNCHANGED <<made, building, stale>> /\ Shape' /\ OthersKeep(Mortal)
  /\ \A m \in Steady : bad'[m] = bad[m]
  /\ Block' = Block /\ Committed' = Committed /\ Ordered'

LEMMA Moves ==
  ASSUME WeakInv, UNCHANGED <<made, building, stale>>,
         Updates(patch, patch'), Updates(topStable, topStable'), Updates(final, final'),
         Updates(unwound, unwound'), Updates(store, store'),
         bad' = bad \/ \E B \in SUBSET Block : bad' = Of(bad, B)
  PROVE  MortalMoves
<1>1. AccountIn(Steady) /\ Shape /\ Ordered
  BY DEF WeakInv, AccountIn
<1>2. /\ IsTable(patch) /\ IsTable(topStable) /\ IsTable(final)
      /\ IsTable(unwound) /\ IsTable(store)
  BY <1>1 DEF Shape, Tables
<1>3. bad \in [Nodes -> SUBSET Block]
  BY <1>1 DEF Shape
<1>4. Block' = Block /\ Committed' = Committed /\ Ordered'
  BY <1>1 DEF Block, Committed, Ordered
<1>5. Tables'
  BY <1>2, UpdatesIs DEF Tables, IsTable
<1>6. OthersKeep(Mortal)
  BY <1>2, UpdatesIs DEF OthersKeep
<1>7. /\ bad' \in [Nodes -> SUBSET Block]
      /\ \A m \in Steady : bad'[m] = bad[m]
  BY <1>3, SteadyHoused DEF Of
<1>8. building' \in [Conciliums -> SUBSET [block : Block', patch : SUBSET Txns]]
  BY <1>1, <1>4 DEF Shape
<1>9. Shape'
  BY <1>1, <1>4, <1>5, <1>7, <1>8 DEF Shape
<1> QED
  BY <1>4, <1>6, <1>7, <1>9 DEF MortalMoves

LEMMA MovesWeak ==
  ASSUME WeakInv, MortalMoves, Mine', Work'
  PROVE  WeakInv'
  BY MortalAlone DEF MortalMoves, WeakInv

\* The tables of what the mortal node keeps.
LEMMA MortalTables ==
  ASSUME WeakInv
  PROVE  /\ IsTable(patch) /\ IsTable(topStable) /\ IsTable(final)
         /\ IsTable(unwound) /\ IsTable(store)
         /\ bad \in [Nodes -> SUBSET Block] /\ IsTable(bad)
         /\ Ordered /\ Committed \subseteq Block
  BY DEF WeakInv, AccountIn, Shape, Tables, IsTable, Committed

-----------------------------------------------------------------------------
LEMMA HearOfWeak ==
  ASSUME WeakInv, HearOf
  PROVE  WeakInv' /\ MortalMoves
<1>1. MortalMoves
  BY Moves DEF HearOf, vars, nodeVars, Updates
<1>0. PICK b \in UNION {Pending(m) \cup final[m] : m \in Nodes \ {Mortal}} :
        /\ b \notin known \cup DOMAIN info
        /\ known' = known \cup {b} /\ queue' = queue \cup {b}
        /\ info' = [a \in DOMAIN info \cup {b} |-> IF a = b THEN "inFlight" ELSE info[a]]
  BY DEF HearOf
<1>2. PICK m \in Nodes \ {Mortal} :
        /\ b \in Pending(m) \cup final[m] /\ b \notin known \cup DOMAIN info
        /\ known' = known \cup {b} /\ queue' = queue \cup {b}
        /\ info' = [a \in DOMAIN info \cup {b} |-> IF a = b THEN "inFlight" ELSE info[a]]
  BY <1>0
<1>3. /\ UNCHANGED <<vars, status, job, lastApplied, pendingKeys, crashes, torn>>
      /\ status = "up"
  BY DEF HearOf, Idle
<1>4. b \in Committed
  <2>1. AccountIn(Steady) /\ m \in Steady
    BY <1>2 DEF WeakInv, Steady
  <2>2. b \in Seen(m) /\ b \in Block
    BY <1>2, <2>1 DEF AccountIn, SoundAt, Sound, Seen, Known, Pending
  <2> QED
    BY <1>2, <2>1, <2>2 DEF Committed, AccountIn, JobsWait, Waits
<1>5. /\ DOMAIN info' = DOMAIN info \cup {b} /\ info'[b] = "inFlight"
      /\ \A a \in DOMAIN info : info'[a] = info[a]
  BY <1>2
<1>6. Committed' = Committed
  BY <1>1 DEF MortalMoves
<1>7. Mine'
  BY <1>2, <1>3, <1>4, <1>5, <1>6 DEF WeakInv, Mine, vars, nodeVars, Pending, IsMap
<1>8. Work'
  BY <1>3, <1>5, <1>6 DEF WeakInv, Work, Jobs
<1> QED
  BY <1>1, <1>7, <1>8, MovesWeak

LEMMA RecallWeak ==
  ASSUME WeakInv, Recall
  PROVE  WeakInv' /\ MortalMoves
<1>1. MortalMoves
  BY Moves DEF Recall, vars, nodeVars, Updates
<1>2. PICK a \in DOMAIN info : known' = known \cup {a} /\ queue' = queue \cup {a}
  BY DEF Recall
<1>3. UNCHANGED <<vars, status, job, disk, crashes, torn>> /\ status = "up"
  BY DEF Recall, Idle
<1>4. Committed' = Committed
  BY <1>1 DEF MortalMoves
<1>5. Mine'
  BY <1>2, <1>3, <1>4 DEF WeakInv, Mine, vars, nodeVars, disk, Pending, IsMap
<1>6. Work'
  BY <1>3, <1>4 DEF WeakInv, Work, Jobs, disk
<1> QED
  BY <1>1, <1>5, <1>6, MovesWeak

-----------------------------------------------------------------------------
\* What checkFinality returns is about the blocks of the graph it is given.
Within(C, tops, r) ==
  /\ tops \subseteq C /\ r.stable \subseteq C /\ r.rollback \subseteq C
  /\ r.apply \subseteq Txns /\ DOMAIN r.patches \subseteq C /\ IsMap(r.patches)
  /\ \A v \in DOMAIN r.patches : r.patches[v] \subseteq Txns

LEMMA CheckedWithin ==
  ASSUME Ordered, NEW P, NEW C \in SUBSET Block, DOMAIN P \subseteq C,
         \A v \in DOMAIN P : P[v] \subseteq Txns, NEW b \in DOMAIN P,
         NEW tops, tops = FindTopStable(DOMAIN P, b), NEW r, r = CheckFinality(b, P, tops)
  PROVE  Within(C, tops, r)
<1>1. PICK V : V = DOMAIN P
  OBVIOUS
<1>2. Descending(V) /\ b \in V /\ V \subseteq C
  BY <1>1, BlocksDescend
<1>3. PICK stable, apply, rollback, left :
        stable = r.stable /\ apply = r.apply /\ rollback = r.rollback /\ left = r.patches
  OBVIOUS
<1>4. Result(P, b, tops, stable, apply, rollback, left)
  BY <1>3, Checked
<1>5. tops = FindTopStable(V, b) /\ stable = FindAlsoStable(V, tops)
  BY <1>1, <1>4 DEF Result
<1>6. tops \subseteq stable /\ stable \subseteq V
  BY <1>2, <1>5, StableGoesDown
<1>7. rollback \subseteq V
  <2>1. rollback = ConflictingBranches(V \ stable, P, b, apply) /\ Descending(V \ stable)
    BY <1>1, <1>2, <1>4, PartDescends DEF Result
  <2> QED
    BY <2>1, RollbackGoesDown
<1>8. apply \subseteq Txns
  BY <1>4 DEF Result, Merged
<1>9. /\ DOMAIN left \subseteq V
      /\ \A v \in DOMAIN left : left[v] \subseteq Txns
  BY <1>1, <1>4 DEF Result
<1>10. IsMap(left)
  BY <1>3 DEF CheckFinality, IsMap
<1> QED
  BY <1>2, <1>3, <1>6, <1>7, <1>8, <1>9, <1>10 DEF Within

\* The four ends of an execution.
Refused(b) == BlockBad(b) /\ UNCHANGED <<patch, topStable, job>>

Stuck(b, Q) == patch' = Of(patch, Q) /\ BlockBad(b) /\ UNCHANGED <<topStable, job>>

Extended(b, Q) ==
  /\ patch' = Of(patch, Q)
  /\ job' = {[block |-> b, stage |-> "pending", tops |-> {},
              stable |-> {}, apply |-> {}, rollback |-> {}]}
  /\ UNCHANGED <<topStable, bad, info>>

Finalised(b, tops, r) ==
  /\ patch' = Of(patch, r.patches)
  /\ topStable' = Of(topStable, tops)
  /\ job' = {[block |-> b, stage |-> "last", tops |-> tops,
              stable |-> r.stable, apply |-> r.apply, rollback |-> r.rollback]}
  /\ UNCHANGED <<bad, info>>

Executes(b) ==
  /\ made[b].parents \subseteq Executed(Mortal) \cup bad[Mortal]
  /\ queue' = (queue \ {b}) \cup Children(b)
  /\ \/ Fails(b) /\ Refused(b)
     \/ /\ ~Fails(b)
        /\ \E base, p, Q, tops, r :
             /\ base = Merged(patch[Mortal], made[b].parents)
             /\ p = base \cup made[b].txns
             /\ Q = AddBlock(patch[Mortal], b, p) /\ tops = FindTopStable(DOMAIN Q, b)
             /\ r = CheckFinality(b, Q, tops)
             /\ \/ ConflictAmong(Q, tops) /\ Stuck(b, Q)
                \/ tops = {} /\ Extended(b, Q)
                \/ tops # {} /\ Finalised(b, tops, r)

LEMMA ExecuteIs ==
  ASSUME Execute
  PROVE  /\ \E b \in queue : Executes(b)
         /\ status = "up" /\ job = {}
         /\ UNCHANGED <<made, building, stale, final, unwound, store, status, known,
                        lastApplied, pendingKeys, crashes, torn>>
<1>1. PICK b \in queue :
        /\ made[b].parents \subseteq Executed(Mortal) \cup bad[Mortal]
        /\ IF Fails(b)
             THEN BlockBad(b) /\ UNCHANGED <<patch, topStable, job>>
             ELSE Accept(b, Merged(patch[Mortal], made[b].parents) \cup made[b].txns)
        /\ queue' = (queue \ {b}) \cup Children(b)
  BY DEF Execute
<1>2. CASE Fails(b)
  BY <1>1, <1>2 DEF Execute, Executes, Refused, Idle
<1>3. CASE ~Fails(b)
  <2>1. PICK base, p, Q, tops, r :
          /\ base = Merged(patch[Mortal], made[b].parents)
          /\ p = base \cup made[b].txns
          /\ Q = AddBlock(patch[Mortal], b, p) /\ tops = FindTopStable(DOMAIN Q, b)
          /\ r = CheckFinality(b, Q, tops)
    OBVIOUS
  <2>2. Accept(b, p)
    BY <1>1, <1>3, <2>1
  <2>3. AcceptFails(Mortal, b, p) <=> ConflictAmong(Q, tops)
    BY <2>1 DEF AcceptFails
  <2>4. \/ ConflictAmong(Q, tops) /\ Stuck(b, Q)
        \/ tops = {} /\ Extended(b, Q)
        \/ tops # {} /\ Finalised(b, tops, r)
    BY <2>1, <2>2, <2>3 DEF Accept, Stuck, Extended, Finalised
  <2>5. Executes(b)
    BY <1>1, <1>3, <2>1, <2>4 DEF Executes
  <2> QED
    BY <2>5 DEF Execute, Idle
<1> QED
  BY <1>2, <1>3

LEMMA ExecuteMoves ==
  ASSUME WeakInv, Execute
  PROVE  MortalMoves
<1>1. PICK b \in queue : Executes(b)
  BY ExecuteIs
<1>2. b \in Block
  BY MortalTables DEF WeakInv, Mine
<1>3. bad[Mortal] \cup {b} \in SUBSET Block
  BY <1>2, MortalTables DEF WeakInv, Mine
<1>4. bad' = bad \/ \E B \in SUBSET Block : bad' = Of(bad, B)
  BY <1>1, <1>3 DEF Executes, Refused, Stuck, Extended, Finalised, BlockBad
<1>5. Updates(patch, patch') /\ Updates(topStable, topStable')
  BY <1>1 DEF Executes, Refused, Stuck, Extended, Finalised, Updates
<1>6. UNCHANGED <<made, building, stale, final, unwound, store>>
  BY ExecuteIs
<1> QED
  BY <1>4, <1>5, <1>6, Moves DEF Updates

\* The graph with the new block in it.
Adds(b, C, Q) ==
  /\ b \in DOMAIN Q /\ DOMAIN Q \subseteq C /\ IsMap(Q)
  /\ \A v \in DOMAIN Q : Q[v] \subseteq Txns

LEMMA ExecuteAdds ==
  ASSUME WeakInv, NEW b \in queue, Executes(b)
  PROVE  \/ Refused(b)
         \/ \E Q, tops, r :
              /\ Adds(b, Committed, Q)
              /\ tops = FindTopStable(DOMAIN Q, b) /\ r = CheckFinality(b, Q, tops)
              /\ Stuck(b, Q) \/ Extended(b, Q) \/ Finalised(b, tops, r)
<1>1. CASE Refused(b)
  BY <1>1
<1>2. CASE ~Refused(b)
  <2>1. PICK base, p, Q, tops, r :
           /\ base = Merged(patch[Mortal], made[b].parents)
           /\ p = base \cup made[b].txns
           /\ Q = AddBlock(patch[Mortal], b, p) /\ tops = FindTopStable(DOMAIN Q, b)
           /\ r = CheckFinality(b, Q, tops)
           /\ Stuck(b, Q) \/ Extended(b, Q) \/ Finalised(b, tops, r)
    BY <1>2 DEF Executes
  <2>2. b \in Committed /\ b \in Block
    BY MortalTables DEF WeakInv, Mine
  <2>3. /\ DOMAIN patch[Mortal] \subseteq Committed
        /\ \A v \in DOMAIN patch[Mortal] : patch[Mortal][v] \subseteq Txns
    BY DEF WeakInv, Mine, Pending
  <2>4. p \subseteq Txns
    <3>1. made[b] \in Headers
      BY <2>2, MortalTables DEF Ordered, Block
    <3>2. made[b].txns \subseteq Txns
      BY <3>1 DEF Headers
    <3>3. base \subseteq Txns
      BY <2>1, <2>3 DEF Merged
    <3> QED
      BY <2>1, <3>2, <3>3
  <2>5. /\ DOMAIN Q = DOMAIN patch[Mortal] \cup {b} /\ Q[b] = p /\ IsMap(Q)
        /\ \A v \in DOMAIN Q \ {b} : v \in DOMAIN patch[Mortal] /\ Q[v] = patch[Mortal][v]
    BY <2>1 DEF AddBlock, IsMap
  <2>6. Adds(b, Committed, Q)
    BY <2>2, <2>3, <2>4, <2>5 DEF Adds
  <2> QED
    BY <2>1, <2>6
<1> QED
  BY <1>1, <1>2

\* The graph that is left, and the job.
LEMMA ExecuteLeaves ==
  ASSUME WeakInv, Execute, NEW b \in queue, Executes(b), NEW C, C = Committed
  PROVE  /\ DOMAIN patch'[Mortal] \subseteq C /\ IsMap(patch'[Mortal])
         /\ \A v \in DOMAIN patch'[Mortal] : patch'[Mortal][v] \subseteq Txns
         /\ topStable'[Mortal] \subseteq C \cup {Genesis}
         /\ job' = {} \/ \E j \in Jobs(C) : job' = {j}
<1>1. /\ IsTable(patch) /\ IsTable(topStable) /\ Ordered
      /\ C \in SUBSET Block /\ b \in C
  BY MortalTables DEF WeakInv, Mine
<1>2. /\ DOMAIN patch[Mortal] \subseteq C /\ IsMap(patch[Mortal])
      /\ \A v \in DOMAIN patch[Mortal] : patch[Mortal][v] \subseteq Txns
      /\ topStable[Mortal] \subseteq C \cup {Genesis}
  BY DEF WeakInv, Mine, Pending
<1>3. job = {}
  BY ExecuteIs
<1>4. CASE Refused(b)
  BY <1>2, <1>3, <1>4 DEF Refused
<1>5. ASSUME NEW Q, NEW tops, NEW r, Adds(b, C, Q),
             tops = FindTopStable(DOMAIN Q, b), r = CheckFinality(b, Q, tops),
             Stuck(b, Q) \/ Extended(b, Q) \/ Finalised(b, tops, r)
      PROVE  /\ DOMAIN patch'[Mortal] \subseteq C /\ IsMap(patch'[Mortal])
             /\ \A v \in DOMAIN patch'[Mortal] : patch'[Mortal][v] \subseteq Txns
             /\ topStable'[Mortal] \subseteq C \cup {Genesis}
             /\ job' = {} \/ \E j \in Jobs(C) : job' = {j}
  <2>1. CASE Stuck(b, Q)
    <3>1. patch'[Mortal] = Q /\ topStable' = topStable /\ job' = job
      BY <1>1, <2>1, OfIs DEF Stuck
    <3> QED
      BY <1>2, <1>3, <1>5, <3>1 DEF Adds
  <2>2. CASE Extended(b, Q)
    <3>1. patch'[Mortal] = Q /\ topStable' = topStable
      BY <1>1, <2>2, OfIs DEF Extended
    <3>2. PICK j : job' = {j} /\ j = [block |-> b, stage |-> "pending", tops |-> {},
                                      stable |-> {}, apply |-> {}, rollback |-> {}]
      BY <2>2 DEF Extended
    <3>3. j \in Jobs(C)
      BY <1>1, <3>2 DEF Jobs
    <3> QED
      BY <1>2, <1>5, <3>1, <3>2, <3>3 DEF Adds
  <2>3. CASE Finalised(b, tops, r)
    <3>1. Within(C, tops, r)
      BY <1>1, <1>5, CheckedWithin DEF Adds
    <3>2. patch'[Mortal] = r.patches /\ topStable'[Mortal] = tops
      BY <1>1, <2>3, OfIs DEF Finalised
    <3>3. PICK j : job' = {j} /\ j = [block |-> b, stage |-> "last", tops |-> tops,
                        stable |-> r.stable, apply |-> r.apply, rollback |-> r.rollback]
      BY <2>3 DEF Finalised
    <3>4. j \in Jobs(C)
      BY <1>1, <3>1, <3>3 DEF Jobs, Within
    <3> QED
      BY <3>1, <3>2, <3>3, <3>4 DEF Within
  <2> QED
    BY <1>5, <2>1, <2>2, <2>3
<1> QED
  BY <1>4, <1>5, ExecuteAdds

LEMMA ExecuteWeak ==
  ASSUME WeakInv, Execute
  PROVE  WeakInv' /\ MortalMoves
<1>1. MortalMoves
  BY ExecuteMoves
<1>2. PICK b \in queue : Executes(b)
  BY ExecuteIs
<1>3. /\ status = "up" /\ job = {}
      /\ UNCHANGED <<made, building, stale, final, unwound, store, status, known,
                     lastApplied, pendingKeys, crashes, torn>>
  BY ExecuteIs
<1>4. PICK C : C = Committed /\ C = Committed'
  BY <1>1 DEF MortalMoves
<1>5. /\ DOMAIN patch'[Mortal] \subseteq C /\ IsMap(patch'[Mortal])
      /\ \A v \in DOMAIN patch'[Mortal] : patch'[Mortal][v] \subseteq Txns
      /\ topStable'[Mortal] \subseteq C \cup {Genesis}
      /\ job' = {} \/ \E j \in Jobs(C) : job' = {j}
  BY <1>2, <1>4, ExecuteLeaves
<1>6. queue' \subseteq C
  <2>1. queue' \subseteq queue \cup known
    BY <1>2 DEF Executes, Children
  <2> QED
    BY <1>4, <2>1 DEF WeakInv, Mine
<1>7. /\ DOMAIN info' = DOMAIN info
      /\ \A a \in DOMAIN info : info'[a] \in {"inFlight", "final", "bad"}
  BY <1>2 DEF Executes, Refused, Stuck, Extended, Finalised, BlockBad, WeakInv, Work
<1>8. bad'[Mortal] \subseteq C
  <2>1. bad' = bad \/ bad' = Of(bad, bad[Mortal] \cup {b})
    BY <1>2 DEF Executes, Refused, Stuck, Extended, Finalised, BlockBad
  <2>2. bad'[Mortal] \subseteq bad[Mortal] \cup {b}
    BY <2>1, MortalTables, OfIs
  <2> QED
    BY <1>4, <2>2 DEF WeakInv, Mine
<1>9. Mine'
  BY <1>3, <1>4, <1>5, <1>6, <1>7, <1>8 DEF WeakInv, Mine, Pending
<1>10. Work'
  BY <1>3, <1>4, <1>5, <1>7 DEF WeakInv, Work
<1> QED
  BY <1>1, <1>9, <1>10, MovesWeak

-----------------------------------------------------------------------------
LEMMA WriteLastAppliedWeak ==
  ASSUME WeakInv, WriteLastApplied
  PROVE  WeakInv' /\ MortalMoves
<1>1. PICK j \in job :
        \/ /\ lastApplied' \in
                {f \in [Conciliums -> j.tops \cup Applied \cup {Genesis}] :
                   \A c \in Conciliums :
                     LET own == {t \in j.tops : made[t].concilium = c}
                     IN  IF own = {} THEN f[c] = lastApplied[c] ELSE f[c] \in own}
           /\ job' = {[j EXCEPT !.stage = "final"]}
           /\ UNCHANGED <<bad, info>>
        \/ BlockBad(j.block) /\ job' = {} /\ UNCHANGED lastApplied
  BY DEF WriteLastApplied, At, Then
<1>2. /\ UNCHANGED <<made, building, stale, patch, topStable, final, unwound, store,
                     status, known, queue, pendingKeys, crashes, torn>>
      /\ status = "up"
  BY DEF WriteLastApplied, At
<1>3. j \in Jobs(Committed)
  BY DEF WeakInv, Work
<1>4. bad' = bad \/ bad' = Of(bad, bad[Mortal] \cup {j.block})
  BY <1>1 DEF BlockBad
<1>5. bad' = bad \/ \E B \in SUBSET Block : bad' = Of(bad, B)
  <2>1. bad[Mortal] \cup {j.block} \in SUBSET Block
    BY <1>3, MortalTables DEF WeakInv, Mine, Jobs
  <2> QED
    BY <1>4, <2>1
<1>6. MortalMoves
  BY <1>2, <1>5, Moves DEF Updates
<1>7. PICK C : C = Committed /\ C = Committed'
  BY <1>6 DEF MortalMoves
<1>8. bad'[Mortal] \subseteq C
  <2>1. bad'[Mortal] \subseteq bad[Mortal] \cup {j.block}
    BY <1>4, MortalTables, OfIs
  <2> QED
    BY <1>3, <1>7, <2>1 DEF WeakInv, Mine, Jobs
<1>9. lastApplied' \in [Conciliums -> C \cup {Genesis}]
  <2>1. Applied \subseteq C /\ j.tops \subseteq C
    BY <1>3, <1>7 DEF WeakInv, Mine, Jobs, Applied
  <2>2. lastApplied \in [Conciliums -> C \cup {Genesis}]
    BY <1>7 DEF WeakInv, Mine
  <2>3. lastApplied' = lastApplied \/ lastApplied' \in [Conciliums -> j.tops \cup Applied \cup {Genesis}]
    BY <1>1
  <2> QED
    BY <2>1, <2>2, <2>3
<1>10. /\ DOMAIN info' = DOMAIN info
       /\ \A a \in DOMAIN info : info'[a] \in {"inFlight", "final", "bad"}
  BY <1>1 DEF BlockBad, WeakInv, Work
<1>11. job' = {} \/ \E k \in Jobs(C) : job' = {k}
  <2>1. [j EXCEPT !.stage = "final"] \in Jobs(C)
    BY <1>3, <1>7 DEF Jobs
  <2> QED
    BY <1>1, <2>1
<1>12. Mine'
  BY <1>2, <1>7, <1>8, <1>9, <1>10 DEF WeakInv, Mine, Pending, IsMap
<1>13. Work'
  BY <1>2, <1>7, <1>10, <1>11 DEF WeakInv, Work
<1> QED
  BY <1>6, <1>12, <1>13, MovesWeak

LEMMA WriteFinalWeak ==
  ASSUME WeakInv, WriteFinal
  PROVE  WeakInv' /\ MortalMoves
<1>1. PICK j \in job, b \in Block :
        /\ b \in j.stable
        /\ final' = Of(final, final[Mortal] \cup {b})
        /\ info' = [info EXCEPT ![b] = "final"]
        /\ job' = {[j EXCEPT !.stable = @ \ {b}]}
  <2>1. \A j \in job : j.stable \subseteq Block
    BY MortalTables DEF WeakInv, Work, Jobs
  <2> QED
    BY <2>1 DEF WriteFinal, At
<1>2. UNCHANGED <<made, building, stale, patch, topStable, bad, unwound, store,
                  status, known, queue, lastApplied, pendingKeys, crashes, torn>>
      /\ status = "up"
  BY DEF WriteFinal, At
<1>3. MortalMoves
  BY <1>1, <1>2, Moves DEF Updates
<1>4. PICK C : C = Committed /\ C = Committed'
  BY <1>3 DEF MortalMoves
<1>5. j \in Jobs(C)
  BY <1>4 DEF WeakInv, Work
<1>6. final'[Mortal] \subseteq C
  <2>1. final'[Mortal] = final[Mortal] \cup {b}
    BY <1>1, MortalTables, OfIs
  <2> QED
    BY <1>1, <1>4, <1>5, <2>1 DEF WeakInv, Mine, Jobs
<1>7. /\ DOMAIN info' = DOMAIN info
      /\ \A a \in DOMAIN info : info'[a] \in {"inFlight", "final", "bad"}
  BY <1>1 DEF WeakInv, Work
<1>8. \E k \in Jobs(C) : job' = {k}
  <2>1. [j EXCEPT !.stable = @ \ {b}] \in Jobs(C)
    BY <1>5 DEF Jobs
  <2> QED
    BY <1>1, <2>1
<1>9. Mine'
  BY <1>2, <1>4, <1>6, <1>7 DEF WeakInv, Mine, Pending, IsMap
<1>10. Work'
  BY <1>2, <1>4, <1>7, <1>8 DEF WeakInv, Work
<1> QED
  BY <1>3, <1>9, <1>10, MovesWeak

LEMMA WritePatchWeak ==
  ASSUME WeakInv, WritePatch
  PROVE  WeakInv' /\ MortalMoves
<1>1. PICK j \in job :
        /\ store' = Of(store, store[Mortal] \cup j.apply)
        /\ unwound' = Of(unwound, unwound[Mortal] \cup j.rollback)
        /\ known' = known \ j.rollback
        /\ job' = {[j EXCEPT !.stage = "bad"]}
  BY DEF WritePatch, At, Then
<1>2. UNCHANGED <<made, building, stale, patch, topStable, final, bad, status, queue, info,
                  lastApplied, pendingKeys, crashes, torn>>
      /\ status = "up"
  BY DEF WritePatch, At
<1>3. MortalMoves
  BY <1>1, <1>2, Moves DEF Updates
<1>4. PICK C : C = Committed /\ C = Committed'
  BY <1>3 DEF MortalMoves
<1>5. j \in Jobs(C)
  BY <1>4 DEF WeakInv, Work
<1>6. unwound'[Mortal] \subseteq C /\ store'[Mortal] \subseteq Txns
  <2>1. /\ unwound'[Mortal] = unwound[Mortal] \cup j.rollback
        /\ store'[Mortal] = store[Mortal] \cup j.apply
    BY <1>1, MortalTables, OfIs
  <2> QED
    BY <1>4, <1>5, <2>1 DEF WeakInv, Mine, Jobs
<1>7. \E k \in Jobs(C) : job' = {k}
  <2>1. [j EXCEPT !.stage = "bad"] \in Jobs(C)
    BY <1>5 DEF Jobs
  <2> QED
    BY <1>1, <2>1
<1>8. Mine'
  BY <1>1, <1>2, <1>4, <1>6 DEF WeakInv, Mine, Pending, IsMap
<1>9. Work'
  BY <1>2, <1>4, <1>7 DEF WeakInv, Work
<1> QED
  BY <1>3, <1>8, <1>9, MovesWeak

LEMMA WriteBadWeak ==
  ASSUME WeakInv, WriteBad
  PROVE  WeakInv' /\ MortalMoves
<1>0. PICK j \in job : \E b \in j.rollback :
        /\ info' = [info EXCEPT ![b] = "bad"]
        /\ job' = {[j EXCEPT !.rollback = @ \ {b}]}
  BY DEF WriteBad, At
<1>1. PICK b \in j.rollback :
        /\ j \in job /\ b \in j.rollback
        /\ info' = [info EXCEPT ![b] = "bad"]
        /\ job' = {[j EXCEPT !.rollback = @ \ {b}]}
  BY <1>0
<1>2. UNCHANGED <<vars, status, known, queue, lastApplied, pendingKeys, crashes, torn>>
      /\ status = "up"
  BY DEF WriteBad, At
<1>3. MortalMoves
  BY <1>2, Moves DEF Updates, vars, nodeVars
<1>4. PICK C : C = Committed /\ C = Committed'
  BY <1>3 DEF MortalMoves
<1>5. j \in Jobs(C)
  BY <1>4 DEF WeakInv, Work
<1>6. /\ DOMAIN info' = DOMAIN info
      /\ \A a \in DOMAIN info : info'[a] \in {"inFlight", "final", "bad"}
  BY <1>1 DEF WeakInv, Work
<1>7. \E k \in Jobs(C) : job' = {k}
  <2>1. [j EXCEPT !.rollback = @ \ {b}] \in Jobs(C)
    BY <1>5 DEF Jobs
  <2> QED
    BY <1>1, <2>1
<1>8. Mine'
  BY <1>2, <1>4, <1>6 DEF WeakInv, Mine, Pending, vars, nodeVars, IsMap
<1>9. Work'
  BY <1>2, <1>4, <1>6, <1>7 DEF WeakInv, Work
<1> QED
  BY <1>3, <1>8, <1>9, MovesWeak

LEMMA WritePendingWeak ==
  ASSUME WeakInv, WritePending
  PROVE  WeakInv' /\ MortalMoves
<1>1. /\ pendingKeys' = Pending(Mortal) /\ job' = {} /\ status = "up"
      /\ UNCHANGED <<vars, status, known, queue, info, lastApplied, crashes, torn>>
  BY DEF WritePending, At
<1>2. MortalMoves
  BY <1>1, Moves DEF Updates, vars, nodeVars
<1>3. PICK C : C = Committed /\ C = Committed'
  BY <1>2 DEF MortalMoves
<1>4. Mine'
  BY <1>1, <1>3 DEF WeakInv, Mine, Pending, vars, nodeVars, IsMap
<1>5. Work'
  BY <1>1, <1>3 DEF WeakInv, Work
<1> QED
  BY <1>2, <1>4, <1>5, MovesWeak

-----------------------------------------------------------------------------
LEMMA CrashWeak ==
  ASSUME WeakInv, Crash
  PROVE  WeakInv' /\ MortalMoves
<1>1. /\ crashes < MaxCrashes /\ crashes' = crashes + 1
      /\ torn' = (torn \/ job # {})
      /\ status' = "down" /\ job' = {} /\ queue' = {}
      /\ UNCHANGED <<vars, known, info, lastApplied, pendingKeys>>
  BY DEF Crash
<1>2. MortalMoves
  BY <1>1, Moves DEF Updates, vars, nodeVars
<1>3. PICK C : C = Committed /\ C = Committed'
  BY <1>2 DEF MortalMoves
<1>4. Mine'
  BY <1>1, <1>3 DEF WeakInv, Mine, Pending, vars, nodeVars, IsMap
<1>5. crashes' \in 0..MaxCrashes
  BY <1>1, RestartAssumption DEF WeakInv, Work
<1>6. torn' \in BOOLEAN
  BY <1>1
<1>7. Work'
  BY <1>1, <1>3, <1>5, <1>6 DEF WeakInv, Work
<1> QED
  BY <1>2, <1>4, <1>7, MovesWeak

\* What is under a committed block is committed.
LEMMA CommittedBelow ==
  ASSUME WeakInv
  PROVE  /\ \A b \in Committed : Below(Block, b) \subseteq Committed
         /\ Applied \subseteq Committed /\ MainDag \subseteq Committed
<1>1. AccountIn(Steady) /\ Ordered
  BY DEF WeakInv, AccountIn
<1>2. Descending(Block)
  BY <1>1, BlocksDescend
<1>3. DownClosed(Block, Committed)
  <2> SUFFICES ASSUME NEW d \in Committed \cap Block, NEW u \in ParentsIn(Block, d),
                      NEW c \in Conciliums, NEW k \in building[c]
               PROVE  k.block # u
    BY DEF DownClosed, Committed, ParentsIn
  <2>1. k.block \notin made[d].parents
    BY <1>1 DEF AccountIn, JobsWait, Waits
  <2> QED
    BY <2>1 DEF ParentsIn
<1>4. \A b \in Block \cap Committed : Below(Block, b) \subseteq Committed
  BY <1>2, <1>3, DownClosedBelow
<1>5. \A b \in Committed : Below(Block, b) \subseteq Committed
  BY <1>4 DEF Committed
<1>6. Applied \subseteq Committed /\ pendingKeys \subseteq Committed
  BY DEF WeakInv, Mine, Applied
<1>7. MainDag \subseteq Committed
  BY <1>5, <1>6 DEF MainDag
<1> QED
  BY <1>5, <1>6, <1>7

LEMMA RebuiltWeak ==
  ASSUME WeakInv
  PROVE  /\ Descending(ToRun) /\ ToRun \subseteq Committed
         /\ DOMAIN Rebuilt = ToRun /\ IsMap(Rebuilt)
         /\ \A b \in ToRun : Rebuilt[b] = TxnsOf(Below(ToRun, b)) /\ Rebuilt[b] \subseteq Txns
<1>1. ToRun \subseteq Committed /\ ToRun \subseteq Block
  BY MortalTables DEF WeakInv, Mine, ToRun
<1>2. Descending(ToRun)
  BY <1>1, MortalTables, BlocksDescend
<1>3. /\ DOMAIN Rebuilt = ToRun /\ IsMap(Rebuilt)
      /\ \A b \in ToRun : Rebuilt[b] = TxnsOf(Below(ToRun, b))
  BY <1>2, RebuiltIs
<1>4. \A b \in ToRun : TxnsOf(Below(ToRun, b)) \subseteq Txns
  <2>1. \A b \in Block : made[b].txns \subseteq Txns
    <3>1. \A b \in Block : made[b] \in Headers
      BY MortalTables DEF Ordered, Block
    <3> QED
      BY <3>1 DEF Headers
  <2>2. \A b \in ToRun : Below(ToRun, b) \subseteq Block
    BY <1>1, <1>2, BelowIn
  <2> QED
    BY <2>1, <2>2 DEF TxnsOf
<1> QED
  BY <1>1, <1>2, <1>3, <1>4

LEMMA StartAgainWeak ==
  ASSUME WeakInv, StartAgain
  PROVE  WeakInv' /\ MortalMoves
<1>1. /\ status = "down" /\ status' = "up" /\ known' = MainDag
      /\ patch' = Of(patch, Rebuilt)
      /\ topStable' = Of(topStable, IF Applied = {} THEN {Genesis} ELSE Applied)
      /\ final' = Of(final, {b \in MainDag : info[b] = "final"})
      /\ bad' = Of(bad, {})
      /\ torn' = (torn \/ ~(FinalOnDisk \subseteq MainDag))
      /\ UNCHANGED <<made, building, stale, unwound, queue, job, disk, crashes>>
  BY DEF StartAgain
<1>2. MortalMoves
  <2>1. Updates(store, store') /\ UNCHANGED <<made, building, stale>>
    BY <1>1 DEF disk, Updates
  <2>2. /\ Updates(patch, patch') /\ Updates(topStable, topStable')
        /\ Updates(final, final') /\ Updates(unwound, unwound')
    BY <1>1 DEF Updates
  <2>3. \E B \in SUBSET Block : bad' = Of(bad, B)
    BY <1>1
  <2> QED
    BY <2>1, <2>2, <2>3, Moves
<1>3. PICK C : C = Committed /\ C = Committed'
  BY <1>2 DEF MortalMoves
<1>4. /\ info' = info /\ lastApplied' = lastApplied /\ pendingKeys' = pendingKeys
      /\ store' = store
  BY <1>1 DEF disk
<1>5. /\ patch'[Mortal] = Rebuilt
      /\ topStable'[Mortal] = IF Applied = {} THEN {Genesis} ELSE Applied
      /\ final'[Mortal] = {b \in MainDag : info[b] = "final"} /\ bad'[Mortal] = {}
  BY <1>1, MortalTables, OfIs
<1>6. Applied \subseteq C /\ MainDag \subseteq C
  BY <1>3, CommittedBelow
<1>7. /\ DOMAIN patch'[Mortal] \subseteq C /\ IsMap(patch'[Mortal])
      /\ \A v \in DOMAIN patch'[Mortal] : patch'[Mortal][v] \subseteq Txns
  <2>1. /\ ToRun \subseteq C /\ DOMAIN Rebuilt = ToRun /\ IsMap(Rebuilt)
        /\ \A b \in ToRun : Rebuilt[b] \subseteq Txns
    BY <1>3, RebuiltWeak
  <2> QED
    BY <1>5, <2>1
<1>8. /\ topStable'[Mortal] \subseteq C \cup {Genesis} /\ final'[Mortal] \subseteq C
      /\ bad'[Mortal] \subseteq C
  BY <1>5, <1>6
<1>9. Mine'
  BY <1>1, <1>3, <1>4, <1>6, <1>7, <1>8 DEF WeakInv, Mine, Pending
<1>10. torn' \in BOOLEAN
  BY <1>1 DEF WeakInv, Work
<1>11. Work'
  BY <1>1, <1>3, <1>4, <1>10 DEF WeakInv, Work
<1> QED
  BY <1>2, <1>9, <1>11, MovesWeak

LEMMA FailToStartWeak ==
  ASSUME WeakInv, FailToStart
  PROVE  WeakInv' /\ MortalMoves
<1>1. /\ status = "down" /\ status' = "broken"
      /\ UNCHANGED <<vars, known, queue, job, info, lastApplied, pendingKeys, crashes, torn>>
  BY DEF FailToStart
<1>2. MortalMoves
  BY <1>1, Moves DEF Updates, vars, nodeVars
<1>3. PICK C : C = Committed /\ C = Committed'
  BY <1>2 DEF MortalMoves
<1>4. Mine'
  BY <1>1, <1>3 DEF WeakInv, Mine, Pending, vars, nodeVars, IsMap
<1>5. Work'
  BY <1>1, <1>3 DEF WeakInv, Work
<1> QED
  BY <1>2, <1>4, <1>5, MovesWeak

LEMMA IdleWeak ==
  ASSUME WeakInv, UNCHANGED allVars
  PROVE  WeakInv'
<1>1. UNCHANGED vars /\ UNCHANGED restartVars
  BY DEF allVars
<1>2. MortalMoves
  BY <1>1, Moves DEF Updates, vars, nodeVars
<1>3. PICK C : C = Committed /\ C = Committed'
  BY <1>2 DEF MortalMoves
<1>4. Mine'
  BY <1>1, <1>3 DEF WeakInv, Mine, Pending, vars, nodeVars, restartVars, IsMap
<1>5. Work'
  BY <1>1, <1>3 DEF WeakInv, Work, restartVars
<1> QED
  BY <1>2, <1>4, <1>5, MovesWeak

LEMMA WeakSteps == WeakInv /\ [NextRestart]_allVars => WeakInv'
  BY OthersWeak, HearOfWeak, RecallWeak, ExecuteWeak, WriteLastAppliedWeak, WriteFinalWeak,
     WritePatchWeak, WriteBadWeak, WritePendingWeak, CrashWeak, StartAgainWeak,
     FailToStartWeak, IdleWeak DEF NextRestart

LEMMA WeakHolds == SpecRestart => []WeakInv
  BY WeakStarts, WeakSteps, PTL DEF SpecRestart

\* Whatever a crash leaves on the disk and a start makes of it is about blocks that were
\* made, and no more than one acceptance is ever under way (_rebuildBlockDb, _acceptBlock).
THEOREM RestartTypeCorrect == SpecRestart => []TypeOKRestart
<1>1. WeakInv => TypeOKRestart
  <2> SUFFICES ASSUME WeakInv PROVE TypeOKRestart
    OBVIOUS
  <2>1. TypeOK
    <3>1. AccountIn(Steady)
      BY DEF WeakInv
    <3>2. \A n \in Nodes :
            /\ Pending(n) \subseteq Block /\ \A b \in Pending(n) : patch[n][b] \subseteq Txns
            /\ topStable[n] \subseteq Block \cup {Genesis}
            /\ final[n] \subseteq Block /\ unwound[n] \subseteq Block /\ store[n] \subseteq Txns
      <4>1. \A n \in Steady :
              /\ Pending(n) \subseteq Block /\ \A b \in Pending(n) : patch[n][b] \subseteq Txns
              /\ topStable[n] \subseteq Block \cup {Genesis}
              /\ final[n] \subseteq Block /\ unwound[n] \subseteq Block /\ store[n] \subseteq Txns
        BY <3>1 DEF AccountIn, SoundAt, Sound, Pending
      <4>2. /\ Pending(Mortal) \subseteq Block /\ \A b \in Pending(Mortal) : patch[Mortal][b] \subseteq Txns
            /\ topStable[Mortal] \subseteq Block \cup {Genesis}
            /\ final[Mortal] \subseteq Block /\ unwound[Mortal] \subseteq Block
            /\ store[Mortal] \subseteq Txns
        BY MortalTables DEF WeakInv, Mine
      <4> QED
        BY <4>1, <4>2 DEF Steady
    <3>3. /\ topStable \in [Nodes -> SUBSET (Block \cup {Genesis})]
          /\ final \in [Nodes -> SUBSET Block] /\ unwound \in [Nodes -> SUBSET Block]
          /\ store \in [Nodes -> SUBSET Txns]
      BY <3>2, MortalTables DEF IsTable
    <3>4. made \in Seq(Headers) /\ building \in [Conciliums -> SUBSET [block : Block, patch : SUBSET Txns]]
          /\ bad \in [Nodes -> SUBSET Block] /\ stale \in SUBSET Nodes
      BY <3>1 DEF AccountIn, Ordered, Shape
    <3> QED
      BY <3>2, <3>3, <3>4 DEF TypeOK
  <2>2. Committed \subseteq Block
    BY MortalTables
  <2>3. job \subseteq Job /\ Cardinality(job) <= 1
    <3>1. job \subseteq Job
      BY <2>2 DEF WeakInv, Work, Jobs, Job
    <3>2. job = {} \/ \E j \in job : job = {j}
      BY DEF WeakInv, Work
    <3> QED
      BY <3>1, <3>2, FS_EmptySet, FS_Singleton
  <2> QED
    BY <2>1, <2>2, <2>3 DEF WeakInv, Mine, Work, TypeOKRestart
<1> QED
  BY <1>1, WeakHolds, PTL

-----------------------------------------------------------------------------
(***************************************************************************)
(* What holds as long as no crash has torn the node: with what the job     *)
(* will write added to what is written, the graph is whole and the books   *)
(* on disk and in memory agree.                                            *)
(***************************************************************************)
FinalSoon == final[Mortal] \cup UNION {j.stable : j \in job}
UnwoundSoon == unwound[Mortal] \cup UNION {j.rollback : j \in job}
StoreSoon == store[Mortal] \cup UNION {j.apply : j \in job}

WholeSoon == Whole(patch[Mortal], topStable[Mortal], FinalSoon, UnwoundSoon, StoreSoon)

Decided == Pending(Mortal) \cup FinalSoon \cup UnwoundSoon

OnDisk ==
  /\ FinalOnDisk = final[Mortal] /\ Applied \subseteq FinalSoon
  /\ known \subseteq DOMAIN info /\ UnwoundSoon \subseteq DOMAIN info
  /\ \A u \in UnwoundSoon : info[u] = "bad" \/ \E j \in job : u \in j.rollback
  /\ job = {} => pendingKeys = Pending(Mortal)

InMemory ==
  /\ Pending(Mortal) \subseteq known /\ FinalSoon \subseteq known
  /\ queue \subseteq known /\ queue \cap Decided = {}
  /\ \A x \in known : info[x] = "bad" => x \in bad[Mortal]

\* What is left to write, by how far it has come.
ToWrite ==
  \A j \in job :
    /\ j.stage \in {"last", "final"} =>
         /\ j.tops \subseteq FinalSoon
         /\ j.apply \subseteq TxnsOf(FinalSoon \cup unwound[Mortal])
    /\ j.stage \in {"bad", "pending"} =>
         /\ j.stable = {} /\ j.apply \subseteq store[Mortal]
         /\ j.rollback \subseteq unwound[Mortal] /\ j.rollback \cap known = {}

ForCause == status = "broken" => StandsOnBad \/ PendsApplied

Books == WholeSoon /\ OnDisk /\ InMemory /\ ToWrite /\ ForCause

RestartInv == WeakInv /\ (~torn => Books)

LEMMA SoonIs ==
  /\ job = {} => FinalSoon = final[Mortal] /\ UnwoundSoon = unwound[Mortal] /\ StoreSoon = store[Mortal]
  /\ \A j : job = {j} => /\ FinalSoon = final[Mortal] \cup j.stable
                         /\ UnwoundSoon = unwound[Mortal] \cup j.rollback
                         /\ StoreSoon = store[Mortal] \cup j.apply
  BY DEF FinalSoon, UnwoundSoon, StoreSoon

LEMMA SoonWillBe ==
  /\ job' = {} => FinalSoon' = final'[Mortal] /\ UnwoundSoon' = unwound'[Mortal] /\ StoreSoon' = store'[Mortal]
  /\ \A j : job' = {j} => /\ FinalSoon' = final'[Mortal] \cup j.stable
                          /\ UnwoundSoon' = unwound'[Mortal] \cup j.rollback
                          /\ StoreSoon' = store'[Mortal] \cup j.apply
  BY DEF FinalSoon, UnwoundSoon, StoreSoon

LEMMA SoonSound ==
  ASSUME Books
  PROVE  /\ Sound(patch[Mortal], topStable[Mortal], FinalSoon, UnwoundSoon, StoreSoon)
         /\ Neat(patch[Mortal], StoreSoon) /\ Settled(FinalSoon, UnwoundSoon, StoreSoon)
         /\ FinalSoon \subseteq Block /\ UnwoundSoon \subseteq Block /\ Pending(Mortal) \subseteq Block
         /\ Pending(Mortal) \cap FinalSoon = {} /\ Pending(Mortal) \cap UnwoundSoon = {}
         /\ FinalSoon \cap UnwoundSoon = {}
<1>1. PICK P, F, U, S : P = patch[Mortal] /\ F = FinalSoon /\ U = UnwoundSoon /\ S = StoreSoon
  OBVIOUS
<1>2. Whole(P, topStable[Mortal], F, U, S) /\ DOMAIN P = Pending(Mortal)
  BY <1>1 DEF Books, WholeSoon, Pending
<1>3. Sound(P, topStable[Mortal], F, U, S) /\ Neat(P, S) /\ Settled(F, U, S)
  BY <1>2 DEF Whole
<1>4. /\ F \subseteq Block /\ U \subseteq Block /\ DOMAIN P \subseteq Block
      /\ DOMAIN P \cap F = {} /\ DOMAIN P \cap U = {} /\ F \cap U = {}
  BY <1>3 DEF Sound
<1> QED
  BY <1>1, <1>2, <1>3, <1>4

\* Nothing changes but for the blocks that are made.
Same(tops) ==
  /\ patch'[Mortal] = patch[Mortal] /\ topStable'[Mortal] = tops
  /\ FinalSoon' = FinalSoon /\ UnwoundSoon' = UnwoundSoon /\ StoreSoon' = StoreSoon

LEMMA SameWhole ==
  ASSUME Books, Ordered, Ordered', Block \subseteq Block', \A b \in Block : made'[b] = made[b],
         NEW tops, tops = topStable[Mortal] \/ tops \subseteq FinalSoon \cup {Genesis}, Same(tops)
  PROVE  WholeSoon'
<1>1. PICK P, T, F, U, S : /\ P = patch[Mortal] /\ F = FinalSoon /\ U = UnwoundSoon
                           /\ S = StoreSoon /\ T = topStable[Mortal]
  OBVIOUS
<1>2. /\ P = patch'[Mortal] /\ F = FinalSoon' /\ U = UnwoundSoon' /\ S = StoreSoon'
      /\ tops = topStable'[Mortal]
  BY <1>1 DEF Same
<1>3. Whole(P, T, F, U, S)
  BY <1>1 DEF Books, WholeSoon
<1>4. tops \subseteq F \cup {Genesis}
  BY <1>1, <1>3 DEF Whole, Sound
<1>5. Whole(P, tops, F, U, S)
  BY <1>3, <1>4 DEF Whole, Sound
<1>6. Whole(P, tops, F, U, S)'
  BY <1>5, StillWhole
<1> QED
  BY <1>2, <1>6 DEF WholeSoon

LEMMA BooksStart == InitRestart => RestartInv
<1> SUFFICES ASSUME InitRestart PROVE Books
  BY WeakStarts DEF RestartInv
<1>1. Init
  BY DEF InitRestart
<1>2. /\ patch[Mortal] = << >> /\ topStable[Mortal] = {Genesis} /\ final[Mortal] = {}
      /\ unwound[Mortal] = {} /\ store[Mortal] = {}
  BY <1>1, SteadyHoused DEF Init
<1>3. /\ status = "up" /\ known = {} /\ queue = {} /\ job = {} /\ info = << >>
      /\ lastApplied = [c \in Conciliums |-> Genesis] /\ pendingKeys = {}
  BY DEF InitRestart
<1>4. FinalSoon = {} /\ UnwoundSoon = {} /\ StoreSoon = {}
  BY <1>2, <1>3, SoonIs
<1>5. DOMAIN patch[Mortal] = {} /\ DOMAIN info = {}
  BY <1>2, <1>3
<1>6. WholeSoon
  <2>1. PICK P, F, U, S, T : /\ P = patch[Mortal] /\ F = FinalSoon /\ U = UnwoundSoon
                             /\ S = StoreSoon /\ T = topStable[Mortal]
    OBVIOUS
  <2>2. DOMAIN P = {} /\ F = {} /\ U = {} /\ S = {} /\ T = {Genesis}
    BY <1>2, <1>4, <1>5, <2>1
  <2>3. Sound(P, T, F, U, S)
    BY <2>2 DEF Sound, AllFit, TxnsOf
  <2>4. Neat(P, S) /\ Settled(F, U, S)
    BY <2>2 DEF Neat, Settled, NoConflict
  <2>5. Whole(P, T, F, U, S)
    BY <2>2, <2>3, <2>4 DEF Whole
  <2> QED
    BY <2>1, <2>5 DEF WholeSoon
<1>7. OnDisk
  <2>1. FinalOnDisk = {} /\ Applied = {}
    BY <1>3, <1>5 DEF FinalOnDisk, Applied
  <2> QED
    BY <1>2, <1>3, <1>4, <1>5, <2>1 DEF OnDisk, Pending
<1>8. InMemory /\ ToWrite /\ ForCause
  BY <1>3, <1>4, <1>5 DEF InMemory, ToWrite, ForCause, Pending
<1> QED
  BY <1>6, <1>7, <1>8 DEF Books

\* The main DAG, and what is under it, is not touched by what others make.
LEMMA StillMainDag ==
  ASSUME WeakInv, Ordered', Block \subseteq Block', \A b \in Block : made'[b] = made[b],
         pendingKeys' = pendingKeys, lastApplied' = lastApplied
  PROVE  MainDag' = MainDag /\ TxnsOf(pendingKeys)' = TxnsOf(pendingKeys)
<1>1. Ordered /\ Block \subseteq Block' /\ \A b \in Block : made'[b] = made[b]
  BY MortalTables
<1>2. pendingKeys' = pendingKeys /\ lastApplied' = lastApplied
  OBVIOUS
<1>3. pendingKeys \subseteq Block /\ Applied \subseteq Block
  BY MortalTables, CommittedBelow DEF WeakInv, Mine
<1>4. Applied' = Applied
  BY <1>2 DEF Applied
<1>5. \A b \in Block : Below(Block, b)' = Below(Block, b)
  BY <1>1, StillBelow
<1>6. PICK K : K = (IF pendingKeys # {} THEN pendingKeys ELSE Applied)
  OBVIOUS
<1>7. {Below(Block, b)' : b \in K} = {Below(Block, b) : b \in K}
  BY <1>3, <1>5, <1>6
<1>8. MainDag' = UNION {Below(Block, b)' : b \in K} /\ MainDag = UNION {Below(Block, b) : b \in K}
  BY <1>2, <1>4, <1>6 DEF MainDag
<1> QED
  BY <1>1, <1>2, <1>3, <1>7, <1>8 DEF TxnsOf

LEMMA OthersBooks ==
  ASSUME WeakInv, Others, Books
  PROVE  Books'
<1>1. AccountIn(Steady)' /\ LeavesMortal
  BY OthersLeave
<1>2. /\ Ordered /\ Ordered' /\ Block \subseteq Block' /\ \A b \in Block : made'[b] = made[b]
  BY <1>1, MortalTables DEF AccountIn, LeavesMortal
<1>3. /\ status' = status /\ known' = known /\ queue' = queue /\ job' = job
      /\ info' = info /\ lastApplied' = lastApplied /\ pendingKeys' = pendingKeys
      /\ patch'[Mortal] = patch[Mortal] /\ topStable'[Mortal] = topStable[Mortal]
      /\ final'[Mortal] = final[Mortal] /\ unwound'[Mortal] = unwound[Mortal]
      /\ store'[Mortal] = store[Mortal] /\ bad'[Mortal] = bad[Mortal]
  BY <1>1 DEF LeavesMortal, restartVars
<1>4. FinalSoon' = FinalSoon /\ UnwoundSoon' = UnwoundSoon /\ StoreSoon' = StoreSoon
  BY <1>3 DEF FinalSoon, UnwoundSoon, StoreSoon
<1>5. Same(topStable[Mortal])
  BY <1>3, <1>4 DEF Same
<1>6. WholeSoon'
  BY <1>2, <1>5, SameWhole
<1>7. Pending(Mortal)' = Pending(Mortal) /\ Decided' = Decided
  BY <1>3, <1>4 DEF Pending, Decided
<1>8. FinalOnDisk' = FinalOnDisk /\ Applied' = Applied
  BY <1>3 DEF FinalOnDisk, Applied
<1>9. OnDisk'
  BY <1>3, <1>4, <1>7, <1>8 DEF Books, OnDisk
<1>10. InMemory'
  BY <1>3, <1>4, <1>7 DEF Books, InMemory
<1>11. ToWrite'
  <2>1. FinalSoon \cup unwound[Mortal] \subseteq Block
    BY SoonSound, MortalTables DEF WeakInv, Mine
  <2>2. TxnsOf(FinalSoon \cup unwound[Mortal])' = TxnsOf(FinalSoon \cup unwound[Mortal])
    BY <1>2, <1>3, <1>4, <2>1 DEF TxnsOf
  <2> QED
    BY <1>3, <1>4, <2>2 DEF Books, ToWrite
<1>12. ForCause'
  <2>1. MainDag' = MainDag /\ TxnsOf(pendingKeys)' = TxnsOf(pendingKeys)
    BY <1>2, <1>3, StillMainDag
  <2> QED
    BY <1>3, <2>1 DEF Books, ForCause, StandsOnBad, PendsApplied
<1> QED
  BY <1>6, <1>9, <1>10, <1>11, <1>12 DEF Books

LEMMA HearOfBooks ==
  ASSUME WeakInv, Books, HearOf
  PROVE  Books'
<1>1. PICK b :
        /\ b \notin known \cup DOMAIN info
        /\ known' = known \cup {b} /\ queue' = queue \cup {b}
        /\ info' = [a \in DOMAIN info \cup {b} |-> IF a = b THEN "inFlight" ELSE info[a]]
  BY DEF HearOf
<1>2. /\ made' = made /\ patch' = patch /\ topStable' = topStable /\ final' = final
      /\ unwound' = unwound /\ store' = store /\ bad' = bad
      /\ status' = status /\ job' = job /\ lastApplied' = lastApplied
      /\ pendingKeys' = pendingKeys /\ status = "up" /\ job = {}
  BY DEF HearOf, Idle, vars, nodeVars
<1>3. FinalSoon' = FinalSoon /\ UnwoundSoon' = UnwoundSoon /\ StoreSoon' = StoreSoon
  BY <1>2 DEF FinalSoon, UnwoundSoon, StoreSoon
<1>4. WholeSoon'
  <2>1. Ordered /\ Ordered' /\ Block' = Block
    BY <1>2, MortalTables DEF Ordered, Block
  <2>2. Same(topStable[Mortal])
    BY <1>2, <1>3 DEF Same
  <2> QED
    BY <1>2, <2>1, <2>2, SameWhole
<1>5. /\ DOMAIN info' = DOMAIN info \cup {b} /\ info'[b] = "inFlight"
      /\ \A a \in DOMAIN info : info'[a] = info[a]
  BY <1>1
<1>6. Pending(Mortal)' = Pending(Mortal) /\ Decided' = Decided /\ Applied' = Applied
  BY <1>2, <1>3 DEF Pending, Decided, Applied
<1>7. b \notin Decided
  BY <1>1 DEF Decided, Books, InMemory, OnDisk
<1>8. FinalOnDisk' = FinalOnDisk
  BY <1>1, <1>5 DEF FinalOnDisk
<1>9. OnDisk'
  BY <1>1, <1>2, <1>3, <1>5, <1>6, <1>8 DEF Books, OnDisk
<1>10. InMemory'
  BY <1>1, <1>2, <1>3, <1>5, <1>6, <1>7 DEF Books, InMemory, OnDisk
<1>11. ToWrite' /\ ForCause'
  BY <1>2 DEF ToWrite, ForCause
<1> QED
  BY <1>4, <1>9, <1>10, <1>11 DEF Books

LEMMA RecallBooks ==
  ASSUME WeakInv, Books, Recall
  PROVE  Books'
<1>1. PICK a \in DOMAIN info \ Executed(Mortal) :
        /\ info[a] # "bad"
        /\ known' = known \cup {a} /\ queue' = queue \cup {a}
  BY DEF Recall
<1>2. /\ made' = made /\ patch' = patch /\ topStable' = topStable /\ final' = final
      /\ unwound' = unwound /\ store' = store /\ bad' = bad /\ info' = info
      /\ status' = status /\ job' = job /\ lastApplied' = lastApplied
      /\ pendingKeys' = pendingKeys /\ status = "up" /\ job = {}
  BY DEF Recall, Idle, vars, nodeVars, disk
<1>3. FinalSoon' = FinalSoon /\ UnwoundSoon' = UnwoundSoon /\ StoreSoon' = StoreSoon
  BY <1>2 DEF FinalSoon, UnwoundSoon, StoreSoon
<1>4. WholeSoon'
  <2>1. Ordered /\ Ordered' /\ Block' = Block
    BY <1>2, MortalTables DEF Ordered, Block
  <2>2. Same(topStable[Mortal])
    BY <1>2, <1>3 DEF Same
  <2> QED
    BY <1>2, <2>1, <2>2, SameWhole
<1>5. Pending(Mortal)' = Pending(Mortal) /\ Decided' = Decided /\ Applied' = Applied
  BY <1>2, <1>3 DEF Pending, Decided, Applied
<1>6. a \notin Decided
  <2>1. a \notin Pending(Mortal) /\ a \notin final[Mortal]
    BY <1>1 DEF Executed
  <2>2. a \notin FinalSoon
    BY <1>2, <2>1, SoonIs
  <2>3. a \notin UnwoundSoon
    BY <1>1, <1>2 DEF Books, OnDisk
  <2> QED
    BY <2>1, <2>2, <2>3 DEF Decided
<1>7. FinalOnDisk' = FinalOnDisk
  BY <1>2 DEF FinalOnDisk
<1>8. OnDisk'
  BY <1>1, <1>2, <1>3, <1>5, <1>7 DEF Books, OnDisk
<1>9. InMemory'
  BY <1>1, <1>2, <1>3, <1>5, <1>6 DEF Books, InMemory
<1>10. ToWrite' /\ ForCause'
  BY <1>2 DEF ToWrite, ForCause
<1> QED
  BY <1>4, <1>8, <1>9, <1>10 DEF Books

-----------------------------------------------------------------------------
LEMMA StageIs ==
  ASSUME NEW C, NEW j \in Jobs(C), NEW s
  PROVE  LET k == [j EXCEPT !.stage = s]
         IN  /\ k.stage = s /\ k.tops = j.tops /\ k.stable = j.stable
             /\ k.apply = j.apply /\ k.rollback = j.rollback
  BY DEF Jobs

LEMMA WriteLastAppliedBooks ==
  ASSUME WeakInv, Books, WriteLastApplied
  PROVE  Books'
<1>1. Applied \subseteq known
  BY DEF Books, OnDisk, InMemory
<1>2. PICK j \in job :
        /\ j.stage = "last"
        /\ lastApplied' \in [Conciliums -> j.tops \cup Applied \cup {Genesis}]
        /\ job' = {[j EXCEPT !.stage = "final"]}
        /\ UNCHANGED <<bad, info>>
  BY <1>1 DEF WriteLastApplied, At, Then
<1>3. /\ made' = made /\ patch' = patch /\ topStable' = topStable /\ final' = final
      /\ unwound' = unwound /\ store' = store /\ status' = status /\ known' = known
      /\ queue' = queue /\ pendingKeys' = pendingKeys /\ status = "up"
  BY DEF WriteLastApplied, At
<1>4. job = {j} /\ j \in Jobs(Committed)
  BY DEF WeakInv, Work
<1>5. PICK k : /\ k = [j EXCEPT !.stage = "final"] /\ job' = {k} /\ k.stage = "final"
               /\ k.tops = j.tops /\ k.stable = j.stable /\ k.apply = j.apply
               /\ k.rollback = j.rollback
  <2>1. PICK k : k = [j EXCEPT !.stage = "final"] /\ job' = {k}
    BY <1>2
  <2>2. /\ k.stage = "final" /\ k.tops = j.tops /\ k.stable = j.stable
        /\ k.apply = j.apply /\ k.rollback = j.rollback
    BY <1>4, <2>1, StageIs
  <2> QED
    BY <2>1, <2>2
<1>6. FinalSoon' = FinalSoon /\ UnwoundSoon' = UnwoundSoon /\ StoreSoon' = StoreSoon
  <2>1. /\ FinalSoon = final[Mortal] \cup j.stable
        /\ UnwoundSoon = unwound[Mortal] \cup j.rollback
        /\ StoreSoon = store[Mortal] \cup j.apply
    BY <1>4, SoonIs
  <2>2. /\ FinalSoon' = final'[Mortal] \cup k.stable
        /\ UnwoundSoon' = unwound'[Mortal] \cup k.rollback
        /\ StoreSoon' = store'[Mortal] \cup k.apply
    BY <1>5, SoonWillBe
  <2> QED
    BY <1>3, <1>5, <2>1, <2>2
<1>7. WholeSoon'
  <2>1. Ordered /\ Ordered' /\ Block' = Block
    BY <1>3, MortalTables DEF Ordered, Block
  <2>2. Same(topStable[Mortal])
    BY <1>3, <1>6 DEF Same
  <2> QED
    BY <1>3, <2>1, <2>2, SameWhole
<1>8. Pending(Mortal)' = Pending(Mortal) /\ Decided' = Decided /\ FinalOnDisk' = FinalOnDisk
  BY <1>2, <1>3, <1>6 DEF Pending, Decided, FinalOnDisk
<1>9. /\ j.tops \subseteq FinalSoon
      /\ j.apply \subseteq TxnsOf(FinalSoon \cup unwound[Mortal])
  BY <1>2 DEF Books, ToWrite
<1>10. Applied' \subseteq FinalSoon
  BY <1>2, <1>9 DEF Applied, Books, OnDisk
<1>11. OnDisk'
  BY <1>2, <1>3, <1>4, <1>5, <1>6, <1>8, <1>10 DEF Books, OnDisk
<1>12. InMemory'
  BY <1>2, <1>3, <1>6, <1>8 DEF Books, InMemory
<1>13. ToWrite'
  <2>1. TxnsOf(FinalSoon \cup unwound[Mortal])' = TxnsOf(FinalSoon \cup unwound[Mortal])
    BY <1>3, <1>6 DEF TxnsOf
  <2> QED
    BY <1>5, <1>6, <1>9, <2>1 DEF ToWrite
<1>14. ForCause'
  BY <1>3 DEF ForCause
<1> QED
  BY <1>7, <1>11, <1>12, <1>13, <1>14 DEF Books

LEMMA WriteFinalBooks ==
  ASSUME WeakInv, Books, WriteFinal
  PROVE  Books'
<1>0. PICK j \in job : \E b \in j.stable :
        /\ j.stage = "final"
        /\ final' = Of(final, final[Mortal] \cup {b})
        /\ info' = [info EXCEPT ![b] = "final"]
        /\ job' = {[j EXCEPT !.stable = @ \ {b}]}
  BY DEF WriteFinal, At
<1>1. PICK b \in j.stable :
        /\ j \in job /\ b \in j.stable /\ j.stage = "final"
        /\ final' = Of(final, final[Mortal] \cup {b})
        /\ info' = [info EXCEPT ![b] = "final"]
        /\ job' = {[j EXCEPT !.stable = @ \ {b}]}
  BY <1>0
<1>2. /\ made' = made /\ patch' = patch /\ topStable' = topStable
      /\ unwound' = unwound /\ store' = store /\ status' = status /\ known' = known
      /\ queue' = queue /\ pendingKeys' = pendingKeys /\ lastApplied' = lastApplied
      /\ bad' = bad /\ status = "up"
  BY DEF WriteFinal, At
<1>3. job = {j} /\ j \in Jobs(Committed)
  BY DEF WeakInv, Work
<1>4. PICK k : /\ k = [j EXCEPT !.stable = @ \ {b}] /\ job' = {k} /\ k.stage = "final"
               /\ k.tops = j.tops /\ k.stable = j.stable \ {b} /\ k.apply = j.apply
               /\ k.rollback = j.rollback
  <2>1. PICK k : k = [j EXCEPT !.stable = @ \ {b}] /\ job' = {k}
    BY <1>1
  <2>2. /\ k.stage = j.stage /\ k.tops = j.tops /\ k.stable = j.stable \ {b}
        /\ k.apply = j.apply /\ k.rollback = j.rollback
    BY <1>3, <2>1 DEF Jobs
  <2> QED
    BY <1>1, <2>1, <2>2
<1>5. final'[Mortal] = final[Mortal] \cup {b}
  BY <1>1, MortalTables, OfIs
<1>6. FinalSoon' = FinalSoon /\ UnwoundSoon' = UnwoundSoon /\ StoreSoon' = StoreSoon
  <2>1. /\ FinalSoon = final[Mortal] \cup j.stable
        /\ UnwoundSoon = unwound[Mortal] \cup j.rollback
        /\ StoreSoon = store[Mortal] \cup j.apply
    BY <1>3, SoonIs
  <2>2. /\ FinalSoon' = final'[Mortal] \cup k.stable
        /\ UnwoundSoon' = unwound'[Mortal] \cup k.rollback
        /\ StoreSoon' = store'[Mortal] \cup k.apply
    BY <1>4, SoonWillBe
  <2> QED
    BY <1>1, <1>2, <1>4, <1>5, <2>1, <2>2
<1>7. WholeSoon'
  <2>1. Ordered /\ Ordered' /\ Block' = Block
    BY <1>2, MortalTables DEF Ordered, Block
  <2>2. Same(topStable[Mortal])
    BY <1>2, <1>6 DEF Same
  <2> QED
    BY <1>2, <2>1, <2>2, SameWhole
<1>8. Pending(Mortal)' = Pending(Mortal) /\ Decided' = Decided /\ Applied' = Applied
  BY <1>2, <1>6 DEF Pending, Decided, Applied
<1>9. b \in FinalSoon /\ b \in DOMAIN info
  <2>1. b \in FinalSoon
    BY <1>1, <1>3, SoonIs
  <2> QED
    BY <2>1 DEF Books, OnDisk, InMemory
<1>10. /\ DOMAIN info' = DOMAIN info /\ info'[b] = "final"
       /\ \A a \in DOMAIN info \ {b} : info'[a] = info[a]
  BY <1>1, <1>9
<1>11. FinalOnDisk' = FinalOnDisk \cup {b}
  BY <1>9, <1>10 DEF FinalOnDisk
<1>12. b \notin UnwoundSoon
  BY <1>9, SoonSound
<1>13. OnDisk'
  <2>1. \A u \in UnwoundSoon' : info'[u] = "bad" \/ \E i \in job' : u \in i.rollback
    BY <1>3, <1>4, <1>6, <1>10, <1>12 DEF Books, OnDisk
  <2> QED
    BY <1>2, <1>4, <1>5, <1>6, <1>8, <1>10, <1>11, <2>1 DEF Books, OnDisk
<1>14. InMemory'
  BY <1>2, <1>6, <1>8, <1>9, <1>10 DEF Books, InMemory, OnDisk
<1>15. ToWrite'
  <2>1. TxnsOf(FinalSoon \cup unwound[Mortal])' = TxnsOf(FinalSoon \cup unwound[Mortal])
    BY <1>2, <1>6 DEF TxnsOf
  <2>2. /\ j.tops \subseteq FinalSoon
        /\ j.apply \subseteq TxnsOf(FinalSoon \cup unwound[Mortal])
    BY <1>1 DEF Books, ToWrite
  <2> QED
    BY <1>4, <1>6, <2>1, <2>2 DEF ToWrite
<1>16. ForCause'
  BY <1>2 DEF ForCause
<1> QED
  BY <1>7, <1>13, <1>14, <1>15, <1>16 DEF Books

LEMMA WritePatchBooks ==
  ASSUME WeakInv, Books, WritePatch
  PROVE  Books'
<1>1. PICK j \in job :
        /\ j.stage = "final" /\ j.stable = {}
        /\ store' = Of(store, store[Mortal] \cup j.apply)
        /\ unwound' = Of(unwound, unwound[Mortal] \cup j.rollback)
        /\ known' = known \ j.rollback
        /\ job' = {[j EXCEPT !.stage = "bad"]}
  BY DEF WritePatch, At, Then
<1>2. /\ made' = made /\ patch' = patch /\ topStable' = topStable /\ final' = final
      /\ info' = info /\ status' = status /\ queue' = queue /\ bad' = bad
      /\ pendingKeys' = pendingKeys /\ lastApplied' = lastApplied /\ status = "up"
  BY DEF WritePatch, At
<1>3. job = {j} /\ j \in Jobs(Committed)
  BY DEF WeakInv, Work
<1>4. PICK k : /\ k = [j EXCEPT !.stage = "bad"] /\ job' = {k} /\ k.stage = "bad"
               /\ k.tops = j.tops /\ k.stable = {} /\ k.apply = j.apply
               /\ k.rollback = j.rollback
  <2>1. PICK k : k = [j EXCEPT !.stage = "bad"] /\ job' = {k}
    BY <1>1
  <2>2. /\ k.stage = "bad" /\ k.tops = j.tops /\ k.stable = j.stable
        /\ k.apply = j.apply /\ k.rollback = j.rollback
    BY <1>3, <2>1, StageIs
  <2> QED
    BY <1>1, <2>1, <2>2
<1>5. /\ store'[Mortal] = store[Mortal] \cup j.apply
      /\ unwound'[Mortal] = unwound[Mortal] \cup j.rollback
  BY <1>1, MortalTables, OfIs
<1>6. /\ FinalSoon = final[Mortal] \cup j.stable
      /\ UnwoundSoon = unwound[Mortal] \cup j.rollback
      /\ StoreSoon = store[Mortal] \cup j.apply
  BY <1>3, SoonIs
<1>7. FinalSoon' = FinalSoon /\ UnwoundSoon' = UnwoundSoon /\ StoreSoon' = StoreSoon
  <2>1. /\ FinalSoon' = final'[Mortal] \cup k.stable
        /\ UnwoundSoon' = unwound'[Mortal] \cup k.rollback
        /\ StoreSoon' = store'[Mortal] \cup k.apply
    BY <1>4, SoonWillBe
  <2> QED
    BY <1>1, <1>2, <1>4, <1>5, <1>6, <2>1
<1>8. WholeSoon'
  <2>1. Ordered /\ Ordered' /\ Block' = Block
    BY <1>2, MortalTables DEF Ordered, Block
  <2>2. Same(topStable[Mortal])
    BY <1>2, <1>7 DEF Same
  <2> QED
    BY <1>2, <2>1, <2>2, SameWhole
<1>9. /\ Pending(Mortal)' = Pending(Mortal) /\ Decided' = Decided /\ Applied' = Applied
      /\ FinalOnDisk' = FinalOnDisk
  BY <1>2, <1>7 DEF Pending, Decided, Applied, FinalOnDisk
<1>10. OnDisk'
  <2>1. known' \subseteq DOMAIN info'
    BY <1>1, <1>2 DEF Books, OnDisk
  <2>2. \A u \in UnwoundSoon' : info'[u] = "bad" \/ \E i \in job' : u \in i.rollback
    BY <1>2, <1>3, <1>4, <1>7 DEF Books, OnDisk
  <2> QED
    BY <1>2, <1>4, <1>7, <1>9, <2>1, <2>2 DEF Books, OnDisk
<1>11. InMemory'
  <2>1. j.rollback \subseteq UnwoundSoon /\ UnwoundSoon \subseteq Decided
    BY <1>6 DEF Decided
  <2>2. /\ Pending(Mortal) \cap j.rollback = {} /\ FinalSoon \cap j.rollback = {}
        /\ queue \cap j.rollback = {}
    BY <2>1, SoonSound DEF Books, InMemory
  <2> QED
    BY <1>1, <1>2, <1>7, <1>9, <2>2 DEF Books, InMemory
<1>12. ToWrite'
  BY <1>1, <1>4, <1>5 DEF ToWrite
<1>13. ForCause'
  BY <1>2 DEF ForCause
<1> QED
  BY <1>8, <1>10, <1>11, <1>12, <1>13 DEF Books

LEMMA WriteBadBooks ==
  ASSUME WeakInv, Books, WriteBad
  PROVE  Books'
<1>0. PICK j \in job : \E b \in j.rollback :
        /\ j.stage = "bad"
        /\ info' = [info EXCEPT ![b] = "bad"]
        /\ job' = {[j EXCEPT !.rollback = @ \ {b}]}
  BY DEF WriteBad, At
<1>1. PICK b \in j.rollback :
        /\ j \in job /\ b \in j.rollback
        /\ j.stage = "bad"
        /\ info' = [info EXCEPT ![b] = "bad"]
        /\ job' = {[j EXCEPT !.rollback = @ \ {b}]}
  BY <1>0
<1>2. /\ made' = made /\ patch' = patch /\ topStable' = topStable /\ final' = final
      /\ unwound' = unwound /\ store' = store /\ bad' = bad
      /\ status' = status /\ queue' = queue /\ known' = known
      /\ pendingKeys' = pendingKeys /\ lastApplied' = lastApplied /\ status = "up"
  BY DEF WriteBad, At, vars, nodeVars
<1>3. job = {j} /\ j \in Jobs(Committed)
  BY DEF WeakInv, Work
<1>4. PICK k : /\ k = [j EXCEPT !.rollback = @ \ {b}] /\ job' = {k} /\ k.stage = "bad"
               /\ k.tops = j.tops /\ k.stable = j.stable /\ k.apply = j.apply
               /\ k.rollback = j.rollback \ {b}
  <2>1. PICK k : k = [j EXCEPT !.rollback = @ \ {b}] /\ job' = {k}
    BY <1>1
  <2>2. /\ k.stage = j.stage /\ k.tops = j.tops /\ k.rollback = j.rollback \ {b}
        /\ k.apply = j.apply /\ k.stable = j.stable
    BY <1>3, <2>1 DEF Jobs
  <2> QED
    BY <1>1, <2>1, <2>2
<1>5. /\ j.stable = {} /\ j.apply \subseteq store[Mortal]
      /\ j.rollback \subseteq unwound[Mortal] /\ j.rollback \cap known = {}
  BY <1>1 DEF Books, ToWrite
<1>6. /\ FinalSoon = final[Mortal] \cup j.stable
      /\ UnwoundSoon = unwound[Mortal] \cup j.rollback
      /\ StoreSoon = store[Mortal] \cup j.apply
  BY <1>3, SoonIs
<1>7. FinalSoon' = FinalSoon /\ UnwoundSoon' = UnwoundSoon /\ StoreSoon' = StoreSoon
  <2>1. /\ FinalSoon' = final'[Mortal] \cup k.stable
        /\ UnwoundSoon' = unwound'[Mortal] \cup k.rollback
        /\ StoreSoon' = store'[Mortal] \cup k.apply
    BY <1>4, SoonWillBe
  <2> QED
    BY <1>2, <1>4, <1>5, <1>6, <2>1
<1>8. WholeSoon'
  <2>1. Ordered /\ Ordered' /\ Block' = Block
    BY <1>2, MortalTables DEF Ordered, Block
  <2>2. Same(topStable[Mortal])
    BY <1>2, <1>7 DEF Same
  <2> QED
    BY <1>2, <2>1, <2>2, SameWhole
<1>9. Pending(Mortal)' = Pending(Mortal) /\ Decided' = Decided /\ Applied' = Applied
  BY <1>2, <1>7 DEF Pending, Decided, Applied
<1>10. b \in UnwoundSoon /\ b \in DOMAIN info /\ b \notin known
  BY <1>1, <1>5, <1>6 DEF Books, OnDisk
<1>11. /\ DOMAIN info' = DOMAIN info /\ info'[b] = "bad"
       /\ \A a \in DOMAIN info \ {b} : info'[a] = info[a]
  BY <1>1, <1>10
<1>12. FinalOnDisk' = FinalOnDisk
  <2>1. b \notin FinalOnDisk
    BY <1>5, <1>6, <1>10, SoonSound DEF Books, OnDisk
  <2> QED
    BY <1>10, <1>11, <2>1 DEF FinalOnDisk
<1>13. OnDisk'
  <2>1. \A u \in UnwoundSoon' : info'[u] = "bad" \/ \E i \in job' : u \in i.rollback
    <3> SUFFICES ASSUME NEW u \in UnwoundSoon, u # b
                 PROVE  info'[u] = "bad" \/ u \in k.rollback
      BY <1>4, <1>7, <1>11
    <3>1. info[u] = "bad" \/ u \in j.rollback
      BY <1>3 DEF Books, OnDisk
    <3>2. u \in DOMAIN info
      BY DEF Books, OnDisk
    <3> QED
      BY <1>4, <1>11, <3>1, <3>2
  <2> QED
    BY <1>2, <1>4, <1>7, <1>9, <1>11, <1>12, <2>1 DEF Books, OnDisk
<1>14. InMemory'
  BY <1>2, <1>7, <1>9, <1>10, <1>11 DEF Books, InMemory, OnDisk
<1>15. ToWrite'
  BY <1>2, <1>4, <1>5 DEF ToWrite
<1>16. ForCause'
  BY <1>2 DEF ForCause
<1> QED
  BY <1>8, <1>13, <1>14, <1>15, <1>16 DEF Books

LEMMA WritePendingBooks ==
  ASSUME WeakInv, Books, WritePending
  PROVE  Books'
<1>1. PICK j \in job : j.stage \in {"bad", "pending"} /\ j.rollback = {}
  BY DEF WritePending, At
<1>2. /\ made' = made /\ patch' = patch /\ topStable' = topStable /\ final' = final
      /\ unwound' = unwound /\ store' = store /\ bad' = bad /\ info' = info
      /\ status' = status /\ queue' = queue /\ known' = known
      /\ pendingKeys' = Pending(Mortal) /\ job' = {} /\ lastApplied' = lastApplied
      /\ status = "up"
  BY DEF WritePending, At, vars, nodeVars
<1>3. job = {j}
  BY DEF WeakInv, Work
<1>4. j.stable = {} /\ j.apply \subseteq store[Mortal]
  BY <1>1 DEF Books, ToWrite
<1>5. /\ FinalSoon = final[Mortal] \cup j.stable
      /\ UnwoundSoon = unwound[Mortal] \cup j.rollback
      /\ StoreSoon = store[Mortal] \cup j.apply
  BY <1>3, SoonIs
<1>6. FinalSoon' = FinalSoon /\ UnwoundSoon' = UnwoundSoon /\ StoreSoon' = StoreSoon
  <2>1. /\ FinalSoon' = final'[Mortal] /\ UnwoundSoon' = unwound'[Mortal]
        /\ StoreSoon' = store'[Mortal]
    BY <1>2, SoonWillBe
  <2> QED
    BY <1>1, <1>2, <1>4, <1>5, <2>1
<1>7. WholeSoon'
  <2>1. Ordered /\ Ordered' /\ Block' = Block
    BY <1>2, MortalTables DEF Ordered, Block
  <2>2. Same(topStable[Mortal])
    BY <1>2, <1>6 DEF Same
  <2> QED
    BY <1>2, <2>1, <2>2, SameWhole
<1>8. /\ Pending(Mortal)' = Pending(Mortal) /\ Decided' = Decided /\ Applied' = Applied
      /\ FinalOnDisk' = FinalOnDisk
  BY <1>2, <1>6 DEF Pending, Decided, Applied, FinalOnDisk
<1>9. OnDisk'
  <2>1. \A u \in UnwoundSoon : info[u] = "bad"
    BY <1>1, <1>3 DEF Books, OnDisk
  <2> QED
    BY <1>2, <1>6, <1>8, <2>1 DEF Books, OnDisk
<1>10. InMemory'
  BY <1>2, <1>6, <1>8 DEF Books, InMemory
<1>11. ToWrite' /\ ForCause'
  BY <1>2 DEF ToWrite, ForCause
<1> QED
  BY <1>7, <1>9, <1>10, <1>11 DEF Books

LEMMA CrashBooks ==
  ASSUME WeakInv, Books, Crash, ~torn'
  PROVE  Books'
<1>1. job = {} /\ job' = {} /\ status' = "down" /\ queue' = {}
  BY DEF Crash
<1>2. /\ made' = made /\ patch' = patch /\ topStable' = topStable /\ final' = final
      /\ unwound' = unwound /\ store' = store /\ bad' = bad /\ info' = info
      /\ known' = known /\ pendingKeys' = pendingKeys /\ lastApplied' = lastApplied
  BY DEF Crash, vars, nodeVars
<1>3. FinalSoon' = FinalSoon /\ UnwoundSoon' = UnwoundSoon /\ StoreSoon' = StoreSoon
  BY <1>1, <1>2, SoonIs, SoonWillBe
<1>4. WholeSoon'
  <2>1. Ordered /\ Ordered' /\ Block' = Block
    BY <1>2, MortalTables DEF Ordered, Block
  <2>2. Same(topStable[Mortal])
    BY <1>2, <1>3 DEF Same
  <2> QED
    BY <1>2, <2>1, <2>2, SameWhole
<1>5. /\ Pending(Mortal)' = Pending(Mortal) /\ Decided' = Decided /\ Applied' = Applied
      /\ FinalOnDisk' = FinalOnDisk
  BY <1>2, <1>3 DEF Pending, Decided, Applied, FinalOnDisk
<1>6. OnDisk'
  BY <1>1, <1>2, <1>3, <1>5 DEF Books, OnDisk
<1>7. InMemory'
  BY <1>1, <1>2, <1>3, <1>5 DEF Books, InMemory
<1>8. ToWrite' /\ ForCause'
  BY <1>1 DEF ToWrite, ForCause
<1> QED
  BY <1>4, <1>6, <1>7, <1>8 DEF Books

-----------------------------------------------------------------------------
\* What comes to wait after b has been executed is not decided of, nor b.
LEMMA QueueFresh ==
  ASSUME WeakInv, Books, job = {}, NEW b \in queue
  PROVE  /\ b \in Block /\ b \in known /\ b \in DOMAIN info /\ b \notin Decided
         /\ Children(b) \subseteq known /\ Children(b) \cap (Decided \cup {b}) = {}
<1>1. b \in Block /\ b \in known /\ b \in DOMAIN info /\ b \notin Decided
  BY MortalTables DEF WeakInv, Mine, Books, InMemory, OnDisk
<1>2. b \notin Children(b)
  <2>1. made[b].parents \subseteq 0..(b - 1) /\ b \in Nat
    BY <1>1, MortalTables DEF Ordered, Block
  <2> QED
    BY <2>1 DEF Children
<1>3. ASSUME NEW a \in Children(b)
      PROVE  a \notin Decided
  <2>1. a \in known /\ a \notin Executed(Mortal) /\ a \notin bad[Mortal]
    BY <1>3 DEF Children
  <2>2. a \notin Pending(Mortal) /\ a \notin FinalSoon
    BY <2>1, SoonIs DEF Executed
  <2>3. a \notin UnwoundSoon
    BY <2>1 DEF Books, OnDisk, InMemory
  <2> QED
    BY <2>2, <2>3 DEF Decided
<1> QED
  BY <1>1, <1>2, <1>3 DEF Children

\* A block that fails is marked bad.
LEMMA RefusedBooks ==
  ASSUME WeakInv, Books, Execute, NEW b \in queue, Executes(b), Refused(b)
  PROVE  Books'
<1>1. /\ made' = made /\ final' = final /\ unwound' = unwound /\ store' = store
      /\ status' = status /\ known' = known /\ lastApplied' = lastApplied
      /\ pendingKeys' = pendingKeys /\ status = "up" /\ job = {}
  BY ExecuteIs
<1>2. /\ patch' = patch /\ topStable' = topStable /\ job' = job
      /\ bad' = Of(bad, bad[Mortal] \cup {b}) /\ info' = [info EXCEPT ![b] = "bad"]
      /\ queue' = (queue \ {b}) \cup Children(b)
  BY DEF Refused, BlockBad, Executes
<1>3. /\ b \in Block /\ b \in known /\ b \in DOMAIN info /\ b \notin Decided
      /\ Children(b) \subseteq known /\ Children(b) \cap (Decided \cup {b}) = {}
  BY <1>1, QueueFresh
<1>4. bad'[Mortal] = bad[Mortal] \cup {b}
  BY <1>2, MortalTables, OfIs
<1>5. FinalSoon' = FinalSoon /\ UnwoundSoon' = UnwoundSoon /\ StoreSoon' = StoreSoon
  BY <1>1, <1>2 DEF FinalSoon, UnwoundSoon, StoreSoon
<1>6. WholeSoon'
  <2>1. Ordered /\ Ordered' /\ Block' = Block
    BY <1>1, MortalTables DEF Ordered, Block
  <2>2. Same(topStable[Mortal])
    BY <1>2, <1>5 DEF Same
  <2> QED
    BY <1>1, <2>1, <2>2, SameWhole
<1>7. Pending(Mortal)' = Pending(Mortal) /\ Decided' = Decided /\ Applied' = Applied
  BY <1>1, <1>2, <1>5 DEF Pending, Decided, Applied
<1>8. /\ DOMAIN info' = DOMAIN info /\ info'[b] = "bad"
      /\ \A a \in DOMAIN info \ {b} : info'[a] = info[a]
  BY <1>2, <1>3
<1>9. FinalOnDisk' = FinalOnDisk
  <2>1. b \notin FinalOnDisk
    BY <1>1, <1>3, SoonIs DEF Books, OnDisk, Decided
  <2> QED
    BY <1>3, <1>8, <2>1 DEF FinalOnDisk
<1>10. OnDisk'
  <2>1. \A u \in UnwoundSoon : info'[u] = "bad"
    BY <1>1, <1>3, <1>8 DEF Books, OnDisk, Decided
  <2> QED
    BY <1>1, <1>2, <1>5, <1>7, <1>8, <1>9, <2>1 DEF Books, OnDisk
<1>11. InMemory'
  <2>1. queue' \subseteq known' /\ queue' \cap Decided' = {}
    BY <1>1, <1>2, <1>3, <1>7 DEF Books, InMemory
  <2>2. \A x \in known' : info'[x] = "bad" => x \in bad'[Mortal]
    BY <1>1, <1>4, <1>8 DEF Books, InMemory, OnDisk
  <2> QED
    BY <1>1, <1>5, <1>7, <2>1, <2>2 DEF Books, InMemory
<1>12. ToWrite' /\ ForCause'
  BY <1>1, <1>2 DEF ToWrite, ForCause
<1> QED
  BY <1>6, <1>10, <1>11, <1>12 DEF Books

\* A block that does not fail is added to the graph.
LEMMA AddWhole ==
  ASSUME WeakInv, Books, job = {}, NEW b \in queue,
         made[b].parents \subseteq Executed(Mortal) \cup bad[Mortal], ~Fails(b),
         NEW Q, Q = AddBlock(patch[Mortal], b,
                             Merged(patch[Mortal], made[b].parents) \cup made[b].txns)
  PROVE  /\ Whole(Q, topStable[Mortal], FinalSoon, UnwoundSoon, StoreSoon)
         /\ DOMAIN Q = Pending(Mortal) \cup {b}
         /\ ~ConflictAmong(Q, FindTopStable(DOMAIN Q, b))
<1>1. PICK T, F, U : T = topStable[Mortal] /\ F = FinalSoon /\ U = UnwoundSoon
  OBVIOUS
<1>2. F = final[Mortal] /\ StoreSoon = store[Mortal] /\ Mortal \in Nodes /\ Ordered
  BY <1>1, SoonIs, MortalTables, SteadyHoused
<1>3. Whole(patch[Mortal], T, F, U, store[Mortal])
  BY <1>1, <1>2 DEF Books, WholeSoon
<1>4. b \in Block /\ b \notin Decided
  BY QueueFresh
<1>5. b \notin Known(patch[Mortal], F, U)
  BY <1>1, <1>2, <1>4 DEF Known, Decided, Pending, Genesis, Ordered, Block
<1>6. made[b].parents \subseteq Pending(Mortal) \cup F \cup {Genesis}
  BY <1>2 DEF Fails, Executed
<1>7. made[b].txns \subseteq Txns
  <2>1. made[b] \in Headers
    BY <1>2, <1>4 DEF Ordered, Block
  <2> QED
    BY <2>1 DEF Headers
<1>8. /\ ~ConflictAmong(patch[Mortal], made[b].parents)
      /\ Spendable(Mortal, Merged(patch[Mortal], made[b].parents), made[b].txns)
  BY DEF Fails
<1>9. Whole(Q, T, F, U, store[Mortal]) /\ DOMAIN Q = Pending(Mortal) \cup {b}
  <2>1. PICK P, S, base : /\ P = patch[Mortal] /\ S = store[Mortal]
                          /\ base = Merged(P, made[b].parents)
    OBVIOUS
  <2>2. DOMAIN P = Pending(Mortal) /\ DOMAIN Q = Pending(Mortal) \cup {b}
    BY <2>1 DEF AddBlock, Pending
  <2>3. /\ Whole(P, T, F, U, S) /\ b \notin Known(P, F, U)
        /\ made[b].parents \subseteq DOMAIN P \cup F \cup {Genesis}
    BY <1>3, <1>5, <1>6, <2>1, <2>2
  <2>4. /\ ~ConflictAmong(P, made[b].parents) /\ Spendable(Mortal, base, made[b].txns)
        /\ Q = AddBlock(P, b, base \cup made[b].txns)
    BY <1>8, <2>1
  <2>5. Whole(Q, T, F, U, S)
    BY <1>2, <1>4, <1>7, <2>1, <2>3, <2>4, WholeAdd
  <2> QED
    BY <2>1, <2>2, <2>5
<1>10. Neat(Q, store[Mortal])
  BY <1>9 DEF Whole
<1>11. DOMAIN Q \subseteq Block
  BY <1>4, <1>9, SoonSound
<1>12. Descending(DOMAIN Q) /\ b \in DOMAIN Q
  BY <1>2, <1>9, <1>11, BlocksDescend
<1>13. ~ConflictAmong(Q, FindTopStable(DOMAIN Q, b))
  BY <1>10, <1>12, TopsMerge
<1> QED
  BY <1>1, <1>2, <1>9, <1>13

LEMMA ExtendedBooks ==
  ASSUME WeakInv, Books, Execute, NEW b \in queue, Executes(b), NEW Q, Extended(b, Q),
         Whole(Q, topStable[Mortal], FinalSoon, UnwoundSoon, StoreSoon),
         DOMAIN Q = Pending(Mortal) \cup {b}
  PROVE  Books'
<1>1. /\ made' = made /\ final' = final /\ unwound' = unwound /\ store' = store
      /\ status' = status /\ known' = known /\ lastApplied' = lastApplied
      /\ pendingKeys' = pendingKeys /\ status = "up" /\ job = {}
  BY ExecuteIs
<1>2. /\ topStable' = topStable /\ bad' = bad /\ info' = info
      /\ queue' = (queue \ {b}) \cup Children(b)
  BY DEF Extended, Executes
<1>3. PICK j : job' = {j} /\ j = [block |-> b, stage |-> "pending", tops |-> {},
                                  stable |-> {}, apply |-> {}, rollback |-> {}]
  BY DEF Extended
<1>4. j.stage = "pending" /\ j.stable = {} /\ j.apply = {} /\ j.rollback = {}
  BY <1>3
<1>5. patch'[Mortal] = Q
  BY MortalTables, OfIs DEF Extended
<1>6. FinalSoon' = FinalSoon /\ UnwoundSoon' = UnwoundSoon /\ StoreSoon' = StoreSoon
  <2>1. /\ FinalSoon' = final'[Mortal] \cup j.stable
        /\ UnwoundSoon' = unwound'[Mortal] \cup j.rollback
        /\ StoreSoon' = store'[Mortal] \cup j.apply
    BY <1>3, SoonWillBe
  <2> QED
    BY <1>1, <1>4, <2>1, SoonIs
<1>7. /\ b \in Block /\ b \in known /\ b \in DOMAIN info /\ b \notin Decided
      /\ Children(b) \subseteq known /\ Children(b) \cap (Decided \cup {b}) = {}
  BY <1>1, QueueFresh
<1>8. WholeSoon'
  <2>1. Ordered /\ Ordered' /\ Block' = Block
    BY <1>1, MortalTables DEF Ordered, Block
  <2>2. PICK T, F, U, S : /\ F = FinalSoon /\ U = UnwoundSoon /\ S = StoreSoon
                          /\ T = topStable[Mortal]
    OBVIOUS
  <2>3. Whole(Q, T, F, U, S)
    BY <2>2
  <2>4. Whole(Q, T, F, U, S)'
    BY <1>1, <2>1, <2>3, StillWhole
  <2> QED
    BY <1>2, <1>5, <1>6, <2>2, <2>4 DEF WholeSoon
<1>9. Pending(Mortal)' = Pending(Mortal) \cup {b} /\ Decided' = Decided \cup {b}
  BY <1>5, <1>6 DEF Pending, Decided
<1>10. Applied' = Applied /\ FinalOnDisk' = FinalOnDisk
  BY <1>1, <1>2 DEF Applied, FinalOnDisk
<1>11. OnDisk'
  BY <1>1, <1>2, <1>3, <1>6, <1>10 DEF Books, OnDisk
<1>12. InMemory'
  BY <1>1, <1>2, <1>6, <1>7, <1>9 DEF Books, InMemory
<1>13. ToWrite'
  BY <1>3, <1>4 DEF ToWrite
<1>14. ForCause'
  BY <1>1 DEF ForCause
<1> QED
  BY <1>8, <1>11, <1>12, <1>13, <1>14 DEF Books

LEMMA FinalisedBooks ==
  ASSUME WeakInv, Books, Execute, NEW b \in queue, Executes(b), NEW Q, NEW tops, NEW r,
         tops = FindTopStable(DOMAIN Q, b), r = CheckFinality(b, Q, tops),
         Finalised(b, tops, r), IsMap(Q), \A v \in DOMAIN Q : Q[v] \subseteq Txns,
         Whole(Q, topStable[Mortal], FinalSoon, UnwoundSoon, StoreSoon),
         DOMAIN Q = Pending(Mortal) \cup {b}
  PROVE  Books'
<1>1. /\ made' = made /\ final' = final /\ unwound' = unwound /\ store' = store
      /\ status' = status /\ known' = known /\ lastApplied' = lastApplied
      /\ pendingKeys' = pendingKeys /\ status = "up" /\ job = {}
  BY ExecuteIs
<1>2. /\ bad' = bad /\ info' = info
      /\ queue' = (queue \ {b}) \cup Children(b)
  BY DEF Finalised, Executes
<1>3. PICK j : job' = {j} /\ j = [block |-> b, stage |-> "last", tops |-> tops,
                stable |-> r.stable, apply |-> r.apply, rollback |-> r.rollback]
  BY DEF Finalised
<1>4. /\ j.stage = "last" /\ j.tops = tops /\ j.stable = r.stable /\ j.apply = r.apply
      /\ j.rollback = r.rollback
  BY <1>3
<1>5. patch'[Mortal] = r.patches /\ topStable'[Mortal] = tops
  BY MortalTables, OfIs DEF Finalised
<1>6. PICK F, U, S, T : /\ F = FinalSoon /\ U = UnwoundSoon /\ S = StoreSoon
                        /\ T = topStable[Mortal]
  OBVIOUS
<1>7. F = final[Mortal] /\ U = unwound[Mortal] /\ S = store[Mortal]
  BY <1>1, <1>6, SoonIs
<1>8. /\ FinalSoon' = F \cup r.stable /\ UnwoundSoon' = U \cup r.rollback
      /\ StoreSoon' = S \cup r.apply
  <2>1. /\ FinalSoon' = final'[Mortal] \cup j.stable
        /\ UnwoundSoon' = unwound'[Mortal] \cup j.rollback
        /\ StoreSoon' = store'[Mortal] \cup j.apply
    BY <1>3, SoonWillBe
  <2> QED
    BY <1>1, <1>4, <1>7, <2>1
<1>9. /\ b \in Block /\ b \in known /\ b \in DOMAIN info /\ b \notin Decided
      /\ Children(b) \subseteq known /\ Children(b) \cap (Decided \cup {b}) = {}
  BY <1>1, QueueFresh
<1>10. Ordered /\ Ordered' /\ Block' = Block
  BY <1>1, MortalTables DEF Ordered, Block
<1>11. /\ Whole(Q, T, F, U, S) /\ b \in DOMAIN Q /\ DOMAIN Q \in SUBSET Block
       /\ DOMAIN Q \subseteq known
  BY <1>6, <1>9, SoonSound DEF Books, InMemory
<1>12. Finalises(Q, tops, F, U, S, r)
  BY <1>10, <1>11, WholeFinalise
<1>13. Within(DOMAIN Q, tops, r)
  BY <1>10, <1>11, CheckedWithin
<1>14. WholeSoon'
  <2>1. PICK P2, F2, U2, S2 : /\ P2 = r.patches /\ F2 = F \cup r.stable
                              /\ U2 = U \cup r.rollback /\ S2 = S \cup r.apply
    OBVIOUS
  <2>2. Whole(P2, tops, F2, U2, S2)
    BY <1>12, <2>1 DEF Finalises
  <2>3. Whole(P2, tops, F2, U2, S2)'
    BY <1>1, <1>10, <2>2, StillWhole
  <2> QED
    BY <1>5, <1>8, <2>1, <2>3 DEF WholeSoon
<1>15. Decided' \subseteq Decided \cup {b}
  <2>1. /\ DOMAIN r.patches \subseteq DOMAIN Q /\ r.stable \subseteq DOMAIN Q
        /\ r.rollback \subseteq DOMAIN Q
    BY <1>13 DEF Within
  <2>2. Decided' = DOMAIN r.patches \cup (F \cup r.stable) \cup (U \cup r.rollback)
    BY <1>5, <1>8 DEF Decided, Pending
  <2>3. Decided = Pending(Mortal) \cup F \cup U
    BY <1>6 DEF Decided
  <2> QED
    BY <2>1, <2>2, <2>3
<1>16. Applied' = Applied /\ FinalOnDisk' = FinalOnDisk
  BY <1>1, <1>2 DEF Applied, FinalOnDisk
<1>17. OnDisk'
  <2>1. UnwoundSoon' \subseteq DOMAIN info
    BY <1>6, <1>8, <1>11, <1>13 DEF Within, Books, OnDisk
  <2>2. \A u \in UnwoundSoon' : info[u] = "bad" \/ u \in j.rollback
    BY <1>1, <1>4, <1>6, <1>8 DEF Books, OnDisk
  <2> QED
    BY <1>1, <1>2, <1>3, <1>6, <1>8, <1>16, <2>1, <2>2 DEF Books, OnDisk
<1>18. InMemory'
  <2>1. DOMAIN r.patches \subseteq known /\ F \cup r.stable \subseteq known
    BY <1>6, <1>11, <1>13 DEF Within, Books, InMemory
  <2>2. queue' \subseteq known /\ queue' \cap Decided' = {}
    BY <1>2, <1>9, <1>15 DEF Books, InMemory
  <2> QED
    BY <1>1, <1>2, <1>5, <1>8, <2>1, <2>2 DEF Books, InMemory, Pending
<1>19. ToWrite'
  <2>1. tops \subseteq F \cup r.stable
    <3>1. tops \subseteq F \cup r.stable \cup {Genesis}
      BY <1>12 DEF Finalises, Whole, Sound
    <3>2. tops \subseteq Block
      BY <1>11, <1>13 DEF Within
    <3>3. Genesis \notin Block
      BY <1>10 DEF Genesis, Block, Ordered
    <3> QED
      BY <3>1, <3>2, <3>3
  <2>2. TxnsOf(F \cup r.stable \cup U)' = TxnsOf(F \cup r.stable \cup U)
    BY <1>1 DEF TxnsOf
  <2>3. FinalSoon' \cup unwound'[Mortal] = F \cup r.stable \cup U
    BY <1>1, <1>7, <1>8
  <2>4. j.apply \subseteq TxnsOf(FinalSoon \cup unwound[Mortal])'
    BY <1>4, <1>12, <2>2, <2>3 DEF Finalises
  <2> QED
    BY <1>3, <1>4, <1>8, <2>1, <2>4 DEF ToWrite
<1>20. ForCause'
  BY <1>1 DEF ForCause
<1> QED
  BY <1>14, <1>17, <1>18, <1>19, <1>20 DEF Books

LEMMA ExecuteBooks ==
  ASSUME WeakInv, Books, Execute
  PROVE  Books'
<1>1. PICK b \in queue : Executes(b)
  BY ExecuteIs
<1>2. job = {}
  BY ExecuteIs
<1>3. CASE Fails(b)
  BY <1>1, <1>3, RefusedBooks DEF Executes
<1>4. CASE ~Fails(b)
  <2>1. PICK base, p, Q, tops, r :
          /\ base = Merged(patch[Mortal], made[b].parents)
          /\ p = base \cup made[b].txns
          /\ Q = AddBlock(patch[Mortal], b, p) /\ tops = FindTopStable(DOMAIN Q, b)
          /\ r = CheckFinality(b, Q, tops)
          /\ \/ ConflictAmong(Q, tops) /\ Stuck(b, Q)
             \/ tops = {} /\ Extended(b, Q)
             \/ tops # {} /\ Finalised(b, tops, r)
    BY <1>1, <1>4 DEF Executes
  <2>2. /\ Whole(Q, topStable[Mortal], FinalSoon, UnwoundSoon, StoreSoon)
        /\ DOMAIN Q = Pending(Mortal) \cup {b}
        /\ ~ConflictAmong(Q, tops)
    BY <1>1, <1>2, <1>4, <2>1, AddWhole DEF Executes
  <2>3. CASE Extended(b, Q)
    BY <1>1, <2>2, <2>3, ExtendedBooks
  <2>4. CASE Finalised(b, tops, r)
    <3>1. IsMap(Q)
      BY <2>1 DEF AddBlock, IsMap
    <3>2. \A v \in DOMAIN Q : Q[v] \subseteq Txns
      BY <2>2 DEF Whole, Sound
    <3> QED
      BY <1>1, <2>1, <2>2, <2>4, <3>1, <3>2, FinalisedBooks
  <2> QED
    BY <2>1, <2>2, <2>3, <2>4
<1> QED
  BY <1>3, <1>4

-----------------------------------------------------------------------------
(***************************************************************************)
(* Start: what is read from the disk is the graph that was in memory.      *)
(***************************************************************************)
\* The main DAG has only blocks that were decided of, and all that is pending.
LEMMA MainDagDecided ==
  ASSUME WeakInv, Books, job = {}
  PROVE  /\ MainDag \subseteq Decided /\ Decided \subseteq DOMAIN info
         /\ ToRun = Pending(Mortal) /\ Pending(Mortal) = pendingKeys
         /\ Pending(Mortal) \subseteq Block
         /\ \A v \in Pending(Mortal) : v \in Below(Block, v) /\ Below(Block, v) \subseteq MainDag
<1>1. PICK P, F, U, S : P = patch[Mortal] /\ F = FinalSoon /\ U = UnwoundSoon /\ S = StoreSoon
  OBVIOUS
<1>2. Whole(P, topStable[Mortal], F, U, S) /\ DOMAIN P = Pending(Mortal)
  BY <1>1 DEF Books, WholeSoon, Pending
<1>3. /\ F \subseteq Block /\ U \subseteq Block /\ DOMAIN P \subseteq Block
      /\ DOMAIN P \cap F = {}
  BY <1>2 DEF Whole, Sound
<1>4. pendingKeys = DOMAIN P /\ Applied \subseteq F
  BY <1>1, <1>2 DEF Books, OnDisk
<1>5. Ordered /\ Descending(Block)
  BY MortalTables, BlocksDescend
<1>6. Decided = DOMAIN P \cup F \cup U
  BY <1>1, <1>2 DEF Decided
<1>7. DownClosed(Block, Decided)
  <2>1. /\ \A v \in DOMAIN P : made[v].parents \subseteq Known(P, F, U)
        /\ \A f \in F : made[f].parents \subseteq F \cup U \cup {Genesis}
        /\ \A u \in U : made[u].parents \subseteq Known(P, F, U)
    BY <1>2 DEF Whole, Sound, Settled
  <2>2. Genesis \notin Block
    BY <1>5 DEF Genesis, Block, Ordered
  <2> QED
    BY <1>6, <2>1, <2>2 DEF DownClosed, ParentsIn, Known
<1>8. \A b \in Decided : Below(Block, b) \subseteq Decided
  <2>1. \A b \in Block \cap Decided : Below(Block, b) \subseteq Decided
    BY <1>5, <1>7, DownClosedBelow
  <2> QED
    BY <1>3, <1>6, <2>1
<1>9. MainDag \subseteq Decided
  <2>1. pendingKeys \subseteq Decided /\ Applied \subseteq Decided
    BY <1>4, <1>6
  <2> QED
    BY <1>8, <2>1 DEF MainDag
<1>10. Decided \subseteq DOMAIN info
  BY <1>1, <1>2, <1>6 DEF Books, OnDisk, InMemory
<1>11. ToRun = DOMAIN P
  BY <1>3, <1>4 DEF ToRun
<1>12. \A v \in DOMAIN P : v \in Below(Block, v) /\ Below(Block, v) \subseteq MainDag
  BY <1>3, <1>4, <1>5, BelowIn DEF MainDag
<1> QED
  BY <1>2, <1>3, <1>4, <1>9, <1>10, <1>11, <1>12

\* Every patch is built as it was, when nothing was rolled back under a pending block
\* and nothing in one is applied already.
LEMMA RebuiltSame ==
  ASSUME WeakInv, Books, job = {}, ~StandsOnBad,
         \A a \in Pending(Mortal) : made[a].txns \cap store[Mortal] = {}
  PROVE  Rebuilt = patch[Mortal]
<1>1. PICK P, F, U, S : P = patch[Mortal] /\ F = FinalSoon /\ U = UnwoundSoon /\ S = StoreSoon
  OBVIOUS
<1>2. Whole(P, topStable[Mortal], F, U, S) /\ DOMAIN P = Pending(Mortal) /\ S = store[Mortal]
  BY <1>1, SoonIs DEF Books, WholeSoon, Pending
<1>3. PICK V : V = Pending(Mortal)
  OBVIOUS
<1>4. /\ MainDag \subseteq Decided /\ Decided \subseteq DOMAIN info
      /\ ToRun = V /\ V = pendingKeys /\ V \subseteq Block
      /\ \A v \in V : v \in Below(Block, v) /\ Below(Block, v) \subseteq MainDag
  BY <1>3, MainDagDecided
<1>5. Ordered /\ Descending(Block) /\ Descending(V)
  BY <1>4, MortalTables, BlocksDescend
<1>6. /\ DOMAIN Rebuilt = V /\ IsMap(Rebuilt)
      /\ \A v \in V : Rebuilt[v] = TxnsOf(Below(V, v))
  BY <1>4, RebuiltWeak
<1>7. \A v \in V : Exact(P, v, P[v], U, S)
  BY <1>2, <1>3 DEF Whole
<1>8. \A v \in V : Below(Block, v) \cap U = {}
  <2>1. \A u \in U : info[u] = "bad"
    BY <1>1 DEF Books, OnDisk
  <2> QED
    BY <1>4, <2>1 DEF StandsOnBad
<1>9. \A v \in V : v \in Below(V, v) /\ Below(V, v) \subseteq V /\ Below(V, v) \subseteq Below(Block, v)
  BY <1>4, <1>5, BelowIn, BelowPart
<1>10. \A v \in V : Rebuilt[v] \subseteq P[v]
  <2> SUFFICES ASSUME NEW v \in V, NEW t \in Rebuilt[v] PROVE t \in P[v]
    OBVIOUS
  <2>1. PICK a \in Below(V, v) : t \in made[a].txns
    BY <1>6 DEF TxnsOf
  <2>2. t \in TxnsOf(Below(Block, v)) /\ t \notin S
    BY <1>2, <1>3, <1>9, <2>1 DEF TxnsOf
  <2> QED
    BY <1>7, <2>2 DEF Exact
<1>11. PICK own : \A v \in V : own[v] = made[v].txns
  <2>1. \A v \in V : [w \in V |-> made[w].txns][v] = made[v].txns
    OBVIOUS
  <2> QED
    BY <2>1
<1>12. ComesFrom(V, P, own, {})
  <2>1. \A v \in V : \A t \in P[v] : t \in made[v].txns \/ \E u \in ParentsIn(V, v) : t \in P[u]
    BY <1>2, <1>3, <1>7, <1>8 DEF Exact
  <2> QED
    BY <1>11, <2>1 DEF ComesFrom
<1>13. \A v \in V : P[v] \subseteq Rebuilt[v]
  <2> SUFFICES ASSUME NEW v \in V, NEW t \in P[v] PROVE t \in Rebuilt[v]
    OBVIOUS
  <2>1. PICK a \in Below(V, v) : t \in own[a]
    BY <1>5, <1>12, FlowsDown
  <2>2. t \in made[a].txns
    BY <1>9, <1>11, <2>1
  <2> QED
    BY <1>6, <2>1, <2>2 DEF TxnsOf
<1>14. IsMap(P)
  BY <1>1 DEF WeakInv, Mine, IsMap
<1>15. \A v \in V : Rebuilt[v] = P[v]
  BY <1>10, <1>13
<1> QED
  <2>1. PICK R : R = Rebuilt
    OBVIOUS
  <2>2. R = [v \in V |-> R[v]] /\ P = [v \in V |-> P[v]] /\ \A v \in V : R[v] = P[v]
    BY <1>2, <1>3, <1>6, <1>14, <1>15, <2>1 DEF IsMap
  <2>3. [v \in V |-> R[v]] = [v \in V |-> P[v]]
    BY <2>2
  <2>4. R = P
    BY <2>2, <2>3
  <2> QED
    BY <1>1, <2>1, <2>4

\* The start that finds all that was final.
LEMMA StartsSame ==
  ASSUME WeakInv, Books, StartAgain, ~torn'
  PROVE  /\ patch'[Mortal] = patch[Mortal] /\ final'[Mortal] = final[Mortal]
         /\ FinalOnDisk = final[Mortal] /\ final[Mortal] \subseteq MainDag /\ ~StandsOnBad
<1>1. /\ status = "down" /\ Starts /\ patch' = Of(patch, Rebuilt)
      /\ final' = Of(final, {b \in MainDag : info[b] = "final"})
      /\ torn' = (torn \/ ~(FinalOnDisk \subseteq MainDag))
  BY DEF StartAgain
<1>2. job = {}
  BY <1>1 DEF WeakInv, Work
<1>3. /\ MainDag \subseteq DOMAIN info /\ ToRun = Pending(Mortal)
  BY <1>2, MainDagDecided
<1>4. ~StandsOnBad
  BY <1>1 DEF Starts, StandsOnBad
<1>5. \A a \in Pending(Mortal) : made[a].txns \cap store[Mortal] = {}
  BY <1>1, <1>3 DEF Starts, Spendable
<1>6. Rebuilt = patch[Mortal]
  BY <1>2, <1>4, <1>5, RebuiltSame
<1>7. FinalOnDisk = final[Mortal] /\ FinalOnDisk \subseteq MainDag
  BY <1>1 DEF Books, OnDisk
<1>8. {b \in MainDag : info[b] = "final"} = FinalOnDisk
  BY <1>3, <1>7 DEF FinalOnDisk
<1>9. patch'[Mortal] = Rebuilt /\ final'[Mortal] = {b \in MainDag : info[b] = "final"}
  BY <1>1, MortalTables, OfIs
<1> QED
  BY <1>4, <1>6, <1>7, <1>8, <1>9

LEMMA StartAgainBooks ==
  ASSUME WeakInv, Books, StartAgain, ~torn'
  PROVE  Books'
<1>1. /\ status = "down" /\ status' = "up" /\ known' = MainDag
      /\ topStable' = Of(topStable, IF Applied = {} THEN {Genesis} ELSE Applied)
      /\ made' = made /\ unwound' = unwound /\ queue' = queue /\ job' = job
      /\ info' = info /\ lastApplied' = lastApplied /\ pendingKeys' = pendingKeys
      /\ store' = store
  BY DEF StartAgain, disk
<1>2. job = {} /\ queue = {}
  BY <1>1 DEF WeakInv, Work
<1>3. /\ patch'[Mortal] = patch[Mortal] /\ final'[Mortal] = final[Mortal]
      /\ FinalOnDisk = final[Mortal] /\ final[Mortal] \subseteq MainDag /\ ~StandsOnBad
  BY StartsSame
<1>4. /\ MainDag \subseteq Decided /\ Decided \subseteq DOMAIN info
      /\ Pending(Mortal) = pendingKeys
      /\ \A v \in Pending(Mortal) : v \in Below(Block, v) /\ Below(Block, v) \subseteq MainDag
  BY <1>2, MainDagDecided
<1>5. FinalSoon' = FinalSoon /\ UnwoundSoon' = UnwoundSoon /\ StoreSoon' = StoreSoon
  BY <1>1, <1>2, <1>3, SoonIs, SoonWillBe
<1>6. PICK tops : /\ tops = IF Applied = {} THEN {Genesis} ELSE Applied
                  /\ topStable'[Mortal] = tops
  <2>1. PICK tops : tops = IF Applied = {} THEN {Genesis} ELSE Applied
    OBVIOUS
  <2>2. topStable' = Of(topStable, tops)
    BY <1>1, <2>1
  <2>3. IsTable(topStable)
    BY MortalTables
  <2>4. topStable'[Mortal] = tops
    BY <2>2, <2>3, OfIs
  <2> QED
    BY <2>1, <2>4
<1>7. WholeSoon'
  <2>1. Ordered /\ Ordered' /\ Block' = Block
    BY <1>1, MortalTables DEF Ordered, Block
  <2>2. Same(tops)
    BY <1>3, <1>5, <1>6 DEF Same
  <2>3. tops \subseteq FinalSoon \cup {Genesis}
    BY <1>6 DEF Books, OnDisk
  <2> QED
    BY <1>1, <2>1, <2>2, <2>3, SameWhole
<1>8. /\ Pending(Mortal)' = Pending(Mortal) /\ Applied' = Applied
      /\ FinalOnDisk' = FinalOnDisk
  BY <1>1, <1>3 DEF Pending, Applied, FinalOnDisk
<1>9. OnDisk'
  <2>1. known' \subseteq DOMAIN info'
    BY <1>1, <1>4
  <2>2. \A u \in UnwoundSoon' : info'[u] = "bad"
    BY <1>1, <1>2, <1>5 DEF Books, OnDisk
  <2> QED
    BY <1>1, <1>3, <1>4, <1>5, <1>8, <2>1, <2>2 DEF Books, OnDisk
<1>10. InMemory'
  <2>1. Pending(Mortal)' \subseteq known'
    BY <1>1, <1>4, <1>8
  <2>2. FinalSoon' \subseteq known'
    BY <1>1, <1>2, <1>3, <1>5, SoonIs
  <2>3. \A x \in known' : info'[x] # "bad"
    BY <1>1, <1>3 DEF StandsOnBad
  <2> QED
    BY <1>1, <1>2, <2>1, <2>2, <2>3 DEF InMemory
<1>11. ToWrite' /\ ForCause'
  BY <1>1, <1>2 DEF ToWrite, ForCause
<1> QED
  BY <1>7, <1>9, <1>10, <1>11 DEF Books

\* A start fails for the two reasons there are.
LEMMA StartsUnless ==
  ASSUME WeakInv, Books, job = {}, ~StandsOnBad, ~PendsApplied
  PROVE  Starts
<1>1. PICK P, F, U, S : P = patch[Mortal] /\ F = FinalSoon /\ U = UnwoundSoon /\ S = StoreSoon
  OBVIOUS
<1>2. Whole(P, topStable[Mortal], F, U, S) /\ DOMAIN P = Pending(Mortal) /\ S = store[Mortal]
      /\ F = final[Mortal]
  BY <1>1, SoonIs DEF Books, WholeSoon, Pending
<1>3. ToRun = DOMAIN P /\ pendingKeys = DOMAIN P
  BY <1>2, MainDagDecided
<1>4. \A a \in DOMAIN P : made[a].txns \cap S = {}
  BY <1>2, <1>3 DEF PendsApplied, TxnsOf
<1>5. Rebuilt = P
  BY <1>1, <1>2, <1>4, RebuiltSame
<1>6. \A b \in MainDag : info[b] # "bad"
  BY DEF StandsOnBad
<1>7. ASSUME NEW b \in DOMAIN P
      PROVE  /\ info[b] # "final"
             /\ ~ConflictAmong(P, made[b].parents)
             /\ Spendable(Mortal, Merged(P, made[b].parents), made[b].txns)
  <2>1. info[b] # "final"
    <3>1. b \notin FinalOnDisk /\ b \in DOMAIN info
      BY <1>2 DEF Whole, Sound, Books, OnDisk, InMemory
    <3> QED
      BY <3>1 DEF FinalOnDisk
  <2>2. Upon(P, b, P[b], S) /\ Exact(P, b, P[b], U, S) /\ Fits(P, b, P[b], S, TxnsOf(F \cup U))
    BY <1>2 DEF Whole, Neat, Sound, AllFit
  <2>3. /\ \A u \in ParentsIn(DOMAIN P, b) : P[u] \subseteq P[b] /\ P[u] \cap made[b].txns = {}
        /\ NoConflict(P[b] \cup S) /\ made[b].txns \subseteq P[b]
    BY <1>4, <2>2 DEF Upon, Exact, Fits
  <2>4. ~ConflictAmong(P, made[b].parents)
    BY <2>3 DEF ConflictAmong, Conflict, NoConflict, ParentsIn
  <2>5. PICK base : base = Merged(P, made[b].parents)
    OBVIOUS
  <2>6. base \subseteq P[b] /\ base \cap made[b].txns = {}
    BY <2>3, <2>5 DEF Merged, ParentsIn
  <2>7. Spendable(Mortal, base, made[b].txns)
    <3> SUFFICES ASSUME NEW t \in made[b].txns,
                        NEW u \in base \cup S \cup (made[b].txns \ {t})
                 PROVE  InputOf[t] # InputOf[u]
      BY <1>2 DEF Spendable
    <3>1. t # u /\ t \in P[b] \cup S /\ u \in P[b] \cup S
      BY <1>4, <2>3, <2>6
    <3> QED
      BY <2>3, <3>1 DEF NoConflict
  <2> QED
    BY <2>1, <2>4, <2>5, <2>7
<1> QED
  BY <1>3, <1>5, <1>6, <1>7 DEF Starts

LEMMA FailToStartBooks ==
  ASSUME WeakInv, Books, FailToStart
  PROVE  Books'
<1>1. /\ status = "down" /\ ~Starts
      /\ UNCHANGED <<vars, known, queue, job, info, lastApplied, pendingKeys, crashes, torn>>
  BY DEF FailToStart
<1>2. /\ made' = made /\ patch' = patch /\ topStable' = topStable /\ final' = final
      /\ unwound' = unwound /\ store' = store /\ bad' = bad /\ info' = info
      /\ known' = known /\ pendingKeys' = pendingKeys /\ lastApplied' = lastApplied
      /\ queue' = queue /\ job' = job
  BY <1>1 DEF vars, nodeVars
<1>3. FinalSoon' = FinalSoon /\ UnwoundSoon' = UnwoundSoon /\ StoreSoon' = StoreSoon
  BY <1>2 DEF FinalSoon, UnwoundSoon, StoreSoon
<1>4. Ordered /\ Ordered' /\ Block' = Block
  BY <1>2, MortalTables DEF Ordered, Block
<1>5. WholeSoon'
  <2>1. Same(topStable[Mortal])
    BY <1>2, <1>3 DEF Same
  <2> QED
    BY <1>2, <1>4, <2>1, SameWhole
<1>6. /\ Pending(Mortal)' = Pending(Mortal) /\ Decided' = Decided /\ Applied' = Applied
      /\ FinalOnDisk' = FinalOnDisk
  BY <1>2, <1>3 DEF Pending, Decided, Applied, FinalOnDisk
<1>7. OnDisk'
  BY <1>2, <1>3, <1>6 DEF Books, OnDisk
<1>8. InMemory'
  BY <1>2, <1>3, <1>6 DEF Books, InMemory
<1>9. job = {}
  BY <1>1 DEF WeakInv, Work
<1>10. ToWrite'
  BY <1>2, <1>9 DEF ToWrite
<1>11. ForCause'
  <2>1. StandsOnBad \/ PendsApplied
    BY <1>1, <1>9, StartsUnless
  <2>2. MainDag' = MainDag /\ TxnsOf(pendingKeys)' = TxnsOf(pendingKeys)
    BY <1>2, <1>4, StillMainDag
  <2> QED
    BY <1>2, <2>1, <2>2 DEF ForCause, StandsOnBad, PendsApplied
<1> QED
  BY <1>5, <1>7, <1>8, <1>10, <1>11 DEF Books

-----------------------------------------------------------------------------
(***************************************************************************)
(* The inductive invariant, and what follows from it.                      *)
(***************************************************************************)
LEMMA IdleBooks ==
  ASSUME WeakInv, Books, UNCHANGED allVars
  PROVE  Books'
<1>1. /\ made' = made /\ patch' = patch /\ topStable' = topStable /\ final' = final
      /\ unwound' = unwound /\ store' = store /\ bad' = bad /\ info' = info
      /\ known' = known /\ pendingKeys' = pendingKeys /\ lastApplied' = lastApplied
      /\ queue' = queue /\ job' = job /\ status' = status
  BY DEF allVars, vars, nodeVars, restartVars
<1>2. FinalSoon' = FinalSoon /\ UnwoundSoon' = UnwoundSoon /\ StoreSoon' = StoreSoon
  BY <1>1 DEF FinalSoon, UnwoundSoon, StoreSoon
<1>3. Ordered /\ Ordered' /\ Block' = Block
  BY <1>1, MortalTables DEF Ordered, Block
<1>4. WholeSoon'
  <2>1. Same(topStable[Mortal])
    BY <1>1, <1>2 DEF Same
  <2> QED
    BY <1>1, <1>3, <2>1, SameWhole
<1>5. /\ Pending(Mortal)' = Pending(Mortal) /\ Decided' = Decided /\ Applied' = Applied
      /\ FinalOnDisk' = FinalOnDisk
  BY <1>1, <1>2 DEF Pending, Decided, Applied, FinalOnDisk
<1>6. OnDisk' /\ InMemory'
  BY <1>1, <1>2, <1>5 DEF Books, OnDisk, InMemory
<1>7. ToWrite'
  <2>1. TxnsOf(FinalSoon \cup unwound[Mortal])' = TxnsOf(FinalSoon \cup unwound[Mortal])
    BY <1>1, <1>2 DEF TxnsOf
  <2> QED
    BY <1>1, <1>2, <2>1 DEF Books, ToWrite
<1>8. ForCause'
  <2>1. MainDag' = MainDag /\ TxnsOf(pendingKeys)' = TxnsOf(pendingKeys)
    BY <1>1, <1>3, StillMainDag
  <2> QED
    BY <1>1, <2>1 DEF Books, ForCause, StandsOnBad, PendsApplied
<1> QED
  BY <1>4, <1>6, <1>7, <1>8 DEF Books

\* A node that was torn stays so.
LEMMA TornStays ==
  ASSUME WeakInv, [NextRestart]_allVars, ~torn'
  PROVE  ~torn
  BY DEF WeakInv, Work, NextRestart, Others, HearOf, Recall, Execute, WriteLastApplied,
     WriteFinal, WritePatch, WriteBad, WritePending, Crash, StartAgain, FailToStart,
     allVars, restartVars

LEMMA BooksSteps ==
  ASSUME WeakInv, Books, [NextRestart]_allVars, ~torn'
  PROVE  Books'
<1>1. CASE Others
  BY <1>1, OthersBooks
<1>2. CASE HearOf
  BY <1>2, HearOfBooks
<1>3. CASE Recall
  BY <1>3, RecallBooks
<1>4. CASE Execute
  BY <1>4, ExecuteBooks
<1>5. CASE WriteLastApplied
  BY <1>5, WriteLastAppliedBooks
<1>6. CASE WriteFinal
  BY <1>6, WriteFinalBooks
<1>7. CASE WritePatch
  BY <1>7, WritePatchBooks
<1>8. CASE WriteBad
  BY <1>8, WriteBadBooks
<1>9. CASE WritePending
  BY <1>9, WritePendingBooks
<1>10. CASE Crash
  BY <1>10, CrashBooks
<1>11. CASE StartAgain
  BY <1>11, StartAgainBooks
<1>12. CASE FailToStart
  BY <1>12, FailToStartBooks
<1>13. CASE UNCHANGED allVars
  BY <1>13, IdleBooks
<1> QED
  BY <1>1, <1>2, <1>3, <1>4, <1>5, <1>6, <1>7, <1>8, <1>9, <1>10, <1>11, <1>12, <1>13
     DEF NextRestart

LEMMA RestartSteps == RestartInv /\ [NextRestart]_allVars => RestartInv'
<1> SUFFICES ASSUME RestartInv, [NextRestart]_allVars PROVE RestartInv'
  OBVIOUS
<1>1. WeakInv /\ WeakInv'
  BY WeakSteps DEF RestartInv
<1>2. ASSUME ~torn' PROVE Books'
  <2>1. ~torn
    BY <1>1, <1>2, TornStays
  <2>2. Books
    BY <2>1 DEF RestartInv
  <2> QED
    BY <1>1, <1>2, <2>2, BooksSteps
<1> QED
  BY <1>1, <1>2 DEF RestartInv

LEMMA RestartHolds == SpecRestart => []RestartInv
  BY BooksStart, RestartSteps, PTL DEF SpecRestart

\* What is under the last applied blocks is applied, whatever was rolled back and as
\* long as no crash has cut an acceptance (updateLastAppliedBlocks).
THEOREM AppliedUpToLast == SpecRestart => []LastAppliedIsApplied
<1>1. RestartInv => LastAppliedIsApplied
  <2> SUFFICES ASSUME RestartInv, Idle, ~torn
               PROVE  TxnsOf(UNION {Below(Block, b) : b \in Applied}) \subseteq store[Mortal]
    BY DEF LastAppliedIsApplied
  <2>1. Books /\ job = {}
    BY DEF RestartInv, Idle
  <2>2. Settled(FinalSoon, UnwoundSoon, StoreSoon) /\ StoreSoon = store[Mortal]
    BY <2>1, SoonSound, SoonIs
  <2>3. Applied \subseteq FinalSoon
    BY <2>1 DEF Books, OnDisk
  <2>4. \A b \in Applied : TxnsOf(Below(Block, b)) \subseteq store[Mortal]
    BY <2>2, <2>3 DEF Settled
  <2> QED
    BY <2>4 DEF TxnsOf
<1> QED
  BY <1>1, RestartHolds, PTL

\* A node that stopped between two acceptances can be started again, but for a block
\* rolled back under a pending one and for a transaction applied with another block
\* (_rebuildBlockDb).
THEOREM StartsButForTwo == SpecRestart => []StartsWhenWhole
<1>1. RestartInv => StartsWhenWhole
  BY DEF RestartInv, Books, ForCause, StartsWhenWhole, AlwaysStarts
<1> QED
  BY <1>1, RestartHolds, PTL

\* Nothing is applied before its block is marked final on disk, if that block was not
\* rolled back (_processFinalityResults).
THEOREM FinalBeforeApplied == SpecRestart => StoresWhatIsFinal
<1>1. RestartInv /\ [NextRestart]_allVars
        => [torn \/ store'[Mortal] \ store[Mortal]
                      \subseteq TxnsOf(FinalOnDisk \cup unwound[Mortal])]_allVars
  <2> SUFFICES ASSUME RestartInv, [NextRestart]_allVars, ~torn
               PROVE  store'[Mortal] \ store[Mortal]
                        \subseteq TxnsOf(FinalOnDisk \cup unwound[Mortal])
    OBVIOUS
  <2>1. WeakInv /\ Books
    BY DEF RestartInv
  <2>2. CASE WritePatch
    <3>1. PICK j \in At("final") : j.stable = {} /\ store' = Of(store, store[Mortal] \cup j.apply)
      BY <2>2 DEF WritePatch
    <3>2. job = {j} /\ j \in job /\ j.stage = "final"
      BY <2>1, <3>1 DEF At, WeakInv, Work
    <3>3. store'[Mortal] = store[Mortal] \cup j.apply
      BY <2>1, <3>1, MortalTables, OfIs
    <3>4. FinalSoon = FinalOnDisk
      BY <2>1, <3>1, <3>2, SoonIs DEF Books, OnDisk
    <3>5. j.apply \subseteq TxnsOf(FinalSoon \cup unwound[Mortal])
      BY <2>1, <3>2 DEF Books, ToWrite
    <3> QED
      BY <3>3, <3>4, <3>5
  <2>3. CASE Others
    <3>1. store'[Mortal] = store[Mortal]
      BY <2>1, <2>3, OthersLeave DEF LeavesMortal
    <3> QED
      BY <3>1
  <2>4. CASE ~WritePatch /\ ~Others
    <3>1. store' = store
      BY <2>4 DEF NextRestart, HearOf, Recall, Execute, WriteLastApplied, WriteFinal,
         WriteBad, WritePending, Crash, StartAgain, FailToStart, allVars, vars, nodeVars, disk
    <3> QED
      BY <3>1
  <2> QED
    BY <2>2, <2>3, <2>4
<1> QED
  BY <1>1, RestartHolds, PTL DEF SpecRestart, StoresWhatIsFinal

\* Started again after a stop between two acceptances, and with all that was final under
\* what it starts from, a node has the graph it had (_buildMainDag, _rebuildPending).
THEOREM GraphRestored == SpecRestart => RestoresGraph
<1>1. RestartInv /\ [NextRestart]_allVars
        => [status = "down" /\ status' = "up" /\ ~torn'
              => patch'[Mortal] = patch[Mortal] /\ final'[Mortal] = final[Mortal]]_allVars
  <2> SUFFICES ASSUME RestartInv, [NextRestart]_allVars,
                      status = "down", status' = "up", ~torn'
               PROVE  patch'[Mortal] = patch[Mortal] /\ final'[Mortal] = final[Mortal]
    OBVIOUS
  <2>1. WeakInv /\ ~torn
    BY TornStays DEF RestartInv
  <2>2. Books
    BY <2>1 DEF RestartInv
  <2>3. StartAgain
    BY DEF NextRestart, Others, HearOf, Recall, Execute, WriteLastApplied, WriteFinal,
       WritePatch, WriteBad, WritePending, Idle, At, Crash, FailToStart, allVars, restartVars
  <2> QED
    BY <2>1, <2>2, <2>3, StartsSame
<1> QED
  BY <1>1, RestartHolds, PTL DEF SpecRestart, RestoresGraph

-----------------------------------------------------------------------------
(***************************************************************************)
(* At every node.                                                          *)
(***************************************************************************)
\* A step of the mortal node touches nothing of the others' patches.
LEMMA MortalNeat ==
  ASSUME WeakInv', NeatIn(Steady), MortalMoves
  PROVE  NeatIn(Steady)'
<1>1. /\ \A n \in Steady : patch'[n] = patch[n] /\ store'[n] = store[n]
      /\ made' = made /\ building' = building /\ stale' = stale
  BY DEF MortalMoves, OthersKeep, Steady
<1>2. AccountIn(Steady)'
  BY DEF WeakInv
<1>3. \A n \in Steady : NeatAt(n)'
  <2> SUFFICES ASSUME NEW n \in Steady PROVE NeatAt(n)'
    OBVIOUS
  <2>1. NeatAt(n) /\ SoundAt(n) /\ n \in Nodes
    BY SteadyHoused DEF NeatIn, AccountIn, Housed
  <2> QED
    BY <1>1, <2>1, IdleNeat
<1>4. ASSUME NEW c \in Conciliums, NEW k \in building[c]
      PROVE  Upon(patch[Home[c]], k.block, k.patch, {})'
  <2>1. Home[c] \in Steady
    BY SteadyHoused DEF Housed
  <2>2. Upon(patch[Home[c]], k.block, k.patch, {})
    BY DEF NeatIn
  <2> QED
    BY <1>1, <2>1, <2>2 DEF Upon, NoConflict, ParentsIn
<1> QED
  BY <1>1, <1>2, <1>3, <1>4 DEF NeatIn

SteadyNeat == WeakInv /\ NeatIn(Steady)

LEMMA SteadyStarts == InitRestart => SteadyNeat
<1> SUFFICES ASSUME InitRestart PROVE NeatIn(Steady)
  BY WeakStarts DEF SteadyNeat
<1>1. NeatInv /\ AccountIn(Steady)
  BY NeatStarts, WeakStarts DEF InitRestart, WeakInv
<1> QED
  BY <1>1, SteadyHoused DEF NeatInv, NeatIn

LEMMA SteadySteps == SteadyNeat /\ [NextRestart]_allVars => SteadyNeat'
<1> SUFFICES ASSUME SteadyNeat, [NextRestart]_allVars PROVE NeatIn(Steady)'
  BY WeakSteps DEF SteadyNeat
<1>1. WeakInv /\ WeakInv' /\ NeatIn(Steady)
  BY WeakSteps DEF SteadyNeat
<1>2. Housed(Steady)
  BY SteadyHoused
<1>3. CASE Others
  <2>1. CASE \E c \in Conciliums : CreateBlock(c) \/ CommitBlock(c)
    BY <1>1, <1>2, <2>1, NeatCreate, NeatCommit
  <2>2. CASE \E n \in Nodes \ {Mortal} : ReceiveBlock(n)
    BY <1>1, <1>2, <2>2, NeatReceive DEF Steady
  <2> QED
    BY <1>3, <2>1, <2>2 DEF Others
<1>4. CASE ~Others
  <2>1. MortalMoves
    <3>1. CASE UNCHANGED allVars
      <4>1. UNCHANGED vars
        BY <3>1 DEF allVars
      <4> QED
        BY <1>1, <4>1, Moves DEF Updates, vars, nodeVars
    <3> QED
      BY <1>1, <1>4, <3>1, HearOfWeak, RecallWeak, ExecuteWeak, WriteLastAppliedWeak,
         WriteFinalWeak, WritePatchWeak, WriteBadWeak, WritePendingWeak, CrashWeak,
         StartAgainWeak, FailToStartWeak DEF NextRestart
  <2> QED
    BY <1>1, <2>1, MortalNeat
<1> QED
  BY <1>3, <1>4

LEMMA SteadyHolds == SpecRestart => []SteadyNeat
<1>1. SteadyNeat /\ [NextRestart]_allVars => SteadyNeat'
  BY SteadySteps
<1> QED
  BY <1>1, SteadyStarts, PTL DEF SpecRestart

LEMMA NeatApplies ==
  ASSUME NEW P, Descending(DOMAIN P), NEW S, Neat(P, S), NEW S2, S2 \subseteq S
  PROVE  \A b \in DOMAIN P : /\ ~Conflict(P[b], S2)
                             /\ \A a \in Below(DOMAIN P, b) : P[a] \subseteq P[b]
<1>1. \A v \in DOMAIN P : \A u \in ParentsIn(DOMAIN P, v) : P[u] \subseteq P[v] \cup {}
  BY DEF Neat, Upon
<1>2. \A b \in DOMAIN P : \A a \in Below(DOMAIN P, b) : P[a] \subseteq P[b] \cup {}
  BY <1>1, FlowsUp
<1>3. \A b \in DOMAIN P : ~Conflict(P[b], S2)
  BY DEF Neat, Upon, NoConflict, Conflict
<1> QED
  BY <1>2, <1>3

\* Whatever a node that no crash has torn wrote, was stopped at and started from, what is
\* pending can be applied, and no output is spent twice, at it and, where no commit came
\* with a stale patch, at the others (_rebuildPending, checkFinality).
THEOREM PendingAppliesAfterRestart == SpecRestart => []PendingAppliesWhole
<1>1. ASSUME SteadyNeat, RestartInv, ~torn
      PROVE  PendingApplies /\ SpentOnce
  <2>1. ASSUME NEW n \in Nodes
        PROVE  \E S : /\ Neat(patch[n], S) /\ (n \notin stale => store[n] \subseteq S)
                      /\ Descending(DOMAIN patch[n])
    <3>1. Ordered
      BY <1>1 DEF RestartInv, WeakInv, AccountIn
    <3>2. CASE n = Mortal
      <4>1. Books /\ WeakInv
        BY <1>1 DEF RestartInv
      <4>2. /\ Neat(patch[Mortal], StoreSoon) /\ store[Mortal] \subseteq StoreSoon
            /\ DOMAIN patch[Mortal] \subseteq Block
        BY <4>1, SoonSound DEF StoreSoon, Pending
      <4>3. Descending(DOMAIN patch[Mortal])
        BY <3>1, <4>2, BlocksDescend
      <4> QED
        BY <3>2, <4>2, <4>3
    <3>3. CASE n \in Steady
      <4>1. /\ Neat(patch[n], {}) /\ SoundAt(n)
            /\ n \notin stale => Neat(patch[n], store[n])
        BY <1>1, <3>3 DEF SteadyNeat, NeatIn, NeatAt, AccountIn
      <4>2. Descending(DOMAIN patch[n])
        BY <3>1, <4>1, BlocksDescend DEF SoundAt, Sound
      <4> QED
        BY <4>1, <4>2
    <3> QED
      BY <3>2, <3>3 DEF Steady
  <2>2. SpentOnce
    BY <2>1 DEF SpentOnce, Neat, NoConflict
  <2>3. PendingApplies
    <3> SUFFICES ASSUME NEW n \in Nodes, NEW b \in Pending(n)
                 PROVE  /\ n \notin stale => ~Conflict(patch[n][b], store[n])
                        /\ \A a \in Below(Pending(n), b) : patch[n][a] \subseteq patch[n][b]
      BY DEF PendingApplies
    <3>0. PICK P, S2 : P = patch[n] /\ S2 = IF n \in stale THEN {} ELSE store[n]
      OBVIOUS
    <3>1. PICK S : Neat(P, S) /\ S2 \subseteq S /\ Descending(DOMAIN P)
      BY <2>1, <3>0
    <3>2. \A v \in DOMAIN P : /\ ~Conflict(P[v], S2)
                              /\ \A a \in Below(DOMAIN P, v) : P[a] \subseteq P[v]
      BY <3>1, NeatApplies
    <3> QED
      BY <3>0, <3>2 DEF Pending
  <2> QED
    BY <2>2, <2>3
<1>2. SteadyNeat /\ RestartInv => PendingAppliesWhole
  BY <1>1 DEF PendingAppliesWhole
<1> QED
  BY <1>2, SteadyHolds, RestartHolds, PTL

=============================================================================
