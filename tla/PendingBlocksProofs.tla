-------------------------- MODULE PendingBlocksProofs --------------------------
(***************************************************************************)
(* Lemmas about the operators of PendingBlocks: paths, what is below a     *)
(* block, tips, merging and what is stable.  The operators recur on        *)
(* parents, which have lower numbers, so a least counterexample takes the  *)
(* place of an induction.                                                  *)
(***************************************************************************)
EXTENDS PendingBlocks, FiniteSetTheorems, WellFoundedInduction, TLAPS

\* A graph of blocks in the order of their numbers.
Descending(V) == V \subseteq Nat /\ \A v \in V : \A u \in ParentsIn(V, v) : u < v

\* D goes down: with a block it has the parents of the block.
DownClosed(V, D) == \A d \in D \cap V : ParentsIn(V, d) \subseteq D

LEMMA LeastNat ==
  ASSUME NEW T \in SUBSET Nat, T # {}
  PROVE  \E n \in T : \A m \in T : n <= m
<1>1. \E n \in T : \A m \in T : <<m, n>> \notin OpToRel(<, Nat)
  BY NatLessThanWellFounded, WFMin, Zenon
<1>2. \A n \in T, m \in T : <<m, n>> \notin OpToRel(<, Nat) => n <= m
  BY DEF OpToRel
<1> QED
  BY <1>1, <1>2

LEMMA GreatestNat ==
  ASSUME NEW N \in Nat, NEW T \in SUBSET (0..N), T # {}
  PROVE  \E n \in T : \A m \in T : m <= n
<1> DEFINE S == {N - n : n \in T}
<1>0. \A n \in T : n \in Nat /\ n <= N /\ N - n \in Nat
  OBVIOUS
<1>1. S \in SUBSET Nat /\ S # {}
  BY <1>0
<1>2. PICK d \in S : \A e \in S : d <= e
  BY <1>1, LeastNat
<1>3. PICK n \in T : d = N - n
  BY <1>2
<1>4. ASSUME NEW m \in T PROVE m <= n
  <2>1. N - m \in S
    OBVIOUS
  <2>2. d <= N - m
    BY <1>2, <2>1
  <2> QED
    BY <1>0, <1>3, <2>2
<1> QED
  BY <1>4

-----------------------------------------------------------------------------
(***************************************************************************)
(* Paths.  PathsDown is defined by a function that recurs on the parents;  *)
(* there is one: what it returns is told by what the paths look like.      *)
(***************************************************************************)
IsPaths(V, f) ==
  f = [v \in V |->
         IF ParentsIn(V, v) = {} THEN {<<v>>}
         ELSE {<<v>> \o p : p \in UNION {f[u] : u \in ParentsIn(V, v)}}]

Descends(V, p) ==
  /\ \A i \in 1..(Len(p) - 1) : p[i + 1] \in ParentsIn(V, p[i])
  /\ ParentsIn(V, p[Len(p)]) = {}

PathsFrom(V, v) == {p \in Seq(V) : Len(p) > 0 /\ p[1] = v /\ Descends(V, p)}

\* At the bottom.
LEMMA PathFromBottom == ASSUME NEW V, NEW v \in V, ParentsIn(V, v) = {} PROVE PathsFrom(V, v) = {<<v>>}
<1>1. <<v>> \in PathsFrom(V, v)
  BY DEF PathsFrom, Descends
<1>2. ASSUME NEW p \in PathsFrom(V, v) PROVE p = <<v>>
  <2>1. p \in Seq(V) /\ Len(p) > 0 /\ p[1] = v /\ Descends(V, p)
    BY DEF PathsFrom
  <2>0. Len(p) \in Nat /\ Len(p) > 0
    BY <2>1
  <2>2. Len(p) = 1
    <3>1. ASSUME Len(p) > 1 PROVE FALSE
      <4>1. 1 \in 1..(Len(p) - 1)
        BY <2>0, <3>1
      <4>2. p[1 + 1] \in ParentsIn(V, p[1])
        BY <2>1, <4>1 DEF Descends
      <4> QED BY <2>1, <4>2
    <3>2. \A k \in Nat : k > 0 /\ ~(k > 1) => k = 1
      OBVIOUS
    <3> QED BY <2>0, <3>1, <3>2, Zenon
  <2> QED BY <2>1, <2>2
<1> QED BY <1>1, <1>2

\* From a block down to a parent and on.
LEMMA PathsFromAbove == ASSUME NEW V, NEW v \in V, ParentsIn(V, v) # {}
  PROVE PathsFrom(V, v) = {<<v>> \o p : p \in UNION {PathsFrom(V, u) : u \in ParentsIn(V, v)}}
<1>1. ASSUME NEW u \in ParentsIn(V, v), NEW p \in PathsFrom(V, u) PROVE <<v>> \o p \in PathsFrom(V, v)
  <2>1. p \in Seq(V) /\ Len(p) > 0 /\ p[1] = u /\ Descends(V, p)
    BY DEF PathsFrom
  <2> DEFINE q == <<v>> \o p
  <2>2. q \in Seq(V) /\ Len(q) = Len(p) + 1 /\ q[1] = v /\ \A i \in 1..Len(p) : q[i + 1] = p[i]
    BY <2>1
  <2> HIDE DEF q
  <2>3. \A i \in 1..(Len(q) - 1) : q[i + 1] \in ParentsIn(V, q[i])
    <3> SUFFICES ASSUME NEW i \in 1..Len(p) PROVE q[i + 1] \in ParentsIn(V, q[i])
      BY <2>1, <2>2
    <3>1. CASE i = 1
      BY <2>1, <2>2, <3>1
    <3>2. CASE i # 1
      <4>1. i - 1 \in 1..(Len(p) - 1) /\ i - 1 \in 1..Len(p) /\ (i - 1) + 1 = i
        BY <2>1, <3>2
      <4>2. p[(i - 1) + 1] \in ParentsIn(V, p[i - 1])
        BY <2>1, <4>1 DEF Descends
      <4>3. q[i + 1] = p[i] /\ q[(i - 1) + 1] = p[i - 1]
        BY <2>2, <4>1
      <4> QED BY <4>1, <4>2, <4>3
    <3> QED BY <3>1, <3>2
  <2>4. ParentsIn(V, q[Len(q)]) = {}
    BY <2>1, <2>2 DEF Descends
  <2>5. q \in PathsFrom(V, v)
    BY <2>1, <2>2, <2>3, <2>4 DEF PathsFrom, Descends
  <2> QED BY <2>5 DEF q
<1>2. ASSUME NEW q \in PathsFrom(V, v)
      PROVE  \E u \in ParentsIn(V, v) : \E p \in PathsFrom(V, u) : q = <<v>> \o p
  <2>1. q \in Seq(V) /\ Len(q) > 0 /\ q[1] = v /\ Descends(V, q)
    BY DEF PathsFrom
  <2>2. Len(q) > 1
    BY <2>1 DEF Descends
  <2> DEFINE p == Tail(q)
  <2>3. p \in Seq(V) /\ Len(p) = Len(q) - 1 /\ \A i \in 1..(Len(q) - 1) : p[i] = q[i + 1]
    BY <2>1, <2>2
  <2>4. q = <<v>> \o p
    BY <2>1, <2>2
  <2> HIDE DEF p
  <2>5. p[1] \in ParentsIn(V, v)
    BY <2>1, <2>2, <2>3 DEF Descends
  <2>6. \A i \in 1..(Len(p) - 1) : p[i + 1] \in ParentsIn(V, p[i])
    <3> SUFFICES ASSUME NEW i \in 1..(Len(p) - 1) PROVE p[i + 1] \in ParentsIn(V, p[i])
      OBVIOUS
    <3>1. i \in 1..(Len(q) - 1) /\ i + 1 \in 1..(Len(q) - 1)
      BY <2>1, <2>2, <2>3
    <3>2. q[(i + 1) + 1] \in ParentsIn(V, q[i + 1])
      BY <2>1, <3>1 DEF Descends
    <3> QED BY <2>3, <3>1, <3>2
  <2>7. ParentsIn(V, p[Len(p)]) = {}
    BY <2>1, <2>2, <2>3 DEF Descends
  <2>9. Len(p) > 0
    BY <2>2, <2>3, <2>1
  <2>8. p \in PathsFrom(V, p[1])
    BY <2>3, <2>6, <2>7, <2>9 DEF PathsFrom, Descends
  <2> QED BY <2>4, <2>5, <2>8
<1> QED BY <1>1, <1>2

LEMMA PathsExist == ASSUME NEW V PROVE \E f : IsPaths(V, f)
<1> DEFINE f == [v \in V |-> PathsFrom(V, v)]
<1>1. \A v \in V : \A u \in ParentsIn(V, v) : f[u] = PathsFrom(V, u)
  BY DEF ParentsIn
<1>2. \A v \in V : f[v] =  IF ParentsIn(V, v) = {} THEN {<<v>>}
        ELSE {<<v>> \o p : p \in UNION {f[u] : u \in ParentsIn(V, v)}}
  <2> TAKE v \in V
  <2>0. f[v] = PathsFrom(V, v)
    OBVIOUS
  <2>1. {f[u] : u \in ParentsIn(V, v)} = {PathsFrom(V, u) : u \in ParentsIn(V, v)}
    BY <1>1
  <2> HIDE DEF f
  <2>2. CASE ParentsIn(V, v) = {}
    BY <2>0, <2>2, PathFromBottom
  <2>3. CASE ParentsIn(V, v) # {}
    <3>1. f[v] = {<<v>> \o p : p \in UNION {PathsFrom(V, u) : u \in ParentsIn(V, v)}}
      BY <2>0, <2>3, PathsFromAbove
    <3> QED BY <2>1, <2>3, <3>1, Zenon
  <2> QED BY <2>2, <2>3
<1>3. f = [v \in V |-> f[v]]
  OBVIOUS
<1> HIDE DEF f
<1>4. f = [v \in V |->
        IF ParentsIn(V, v) = {} THEN {<<v>>}
        ELSE {<<v>> \o p : p \in UNION {f[u] : u \in ParentsIn(V, v)}}]
  BY <1>2, <1>3
<1> QED BY <1>4 DEF IsPaths

\* The recursion of PathsDown.
LEMMA PathsRecur == ASSUME NEW V, NEW v \in V PROVE PathsDown(V, v) = 
        IF ParentsIn(V, v) = {} THEN {<<v>>}
        ELSE {<<v>> \o p : p \in UNION {PathsDown(V, u) : u \in ParentsIn(V, v)}}
<1> DEFINE f == CHOOSE g : IsPaths(V, g)
<1>1. IsPaths(V, f)
  BY PathsExist, Zenon
<1>2. \A b : PathsDown(V, b) = f[b]
  BY DEF PathsDown, IsPaths
<1> HIDE DEF f
<1>3. f[v] = IF ParentsIn(V, v) = {} THEN {<<v>>}
        ELSE {<<v>> \o p : p \in UNION {f[u] : u \in ParentsIn(V, v)}}
  BY <1>1 DEF IsPaths
<1>4. {f[u] : u \in ParentsIn(V, v)} = {PathsDown(V, u) : u \in ParentsIn(V, v)}
  BY <1>2
<1> QED BY <1>2, <1>3, <1>4
LEMMA PathsAreSeqs ==
  ASSUME NEW V, Descending(V), NEW b \in V
  PROVE  /\ PathsDown(V, b) # {}
         /\ \A p \in PathsDown(V, b) : p \in Seq(V) /\ Len(p) > 0
<1> DEFINE Fine(v) == /\ PathsDown(V, v) # {}
                      /\ \A p \in PathsDown(V, v) : p \in Seq(V) /\ Len(p) > 0
           T == {v \in V : ~Fine(v)}
<1>1. ASSUME NEW v \in V, \A u \in ParentsIn(V, v) : Fine(u) PROVE Fine(v)
  <2>1. CASE ParentsIn(V, v) = {}
    <3>1. PathsDown(V, v) = {<<v>>}
      BY <2>1, PathsRecur
    <3> QED
      BY <3>1
  <2>2. CASE ParentsIn(V, v) # {}
    <3>1. PathsDown(V, v) =
            {<<v>> \o p : p \in UNION {PathsDown(V, u) : u \in ParentsIn(V, v)}}
      BY <2>2, PathsRecur
    <3>2. \A q \in PathsDown(V, v) : \E p \in Seq(V) : q = <<v>> \o p
      BY <1>1, <3>1
    <3>3. \A p \in Seq(V) : <<v>> \o p \in Seq(V) /\ Len(<<v>> \o p) > 0
      OBVIOUS
    <3>4. PathsDown(V, v) # {}
      BY <1>1, <2>2, <3>1
    <3> QED
      BY <3>2, <3>3, <3>4
  <2> QED
    BY <2>1, <2>2
<1>2. T = {}
  <2>1. SUFFICES ASSUME T # {} PROVE FALSE
    OBVIOUS
  <2>2. T \in SUBSET Nat
    BY DEF Descending
  <2>3. PICK v \in T : \A u \in T : v <= u
    BY <2>1, <2>2, LeastNat
  <2>4. \A u \in ParentsIn(V, v) : u \in V /\ u < v /\ u \in Nat /\ v \in Nat
    BY DEF Descending, ParentsIn
  <2>5. \A u \in ParentsIn(V, v) : Fine(u)
    BY <2>3, <2>4
  <2> HIDE DEF Fine
  <2> QED
    BY <1>1, <2>3, <2>5
<1> QED
  BY <1>2

-----------------------------------------------------------------------------
(***************************************************************************)
(* What is below a block.                                                  *)
(***************************************************************************)
\* A block, and what is below its parents.
LEMMA BelowRecurs ==
  ASSUME NEW V, Descending(V), NEW b \in V
  PROVE  Below(V, b) = {b} \cup UNION {Below(V, u) : u \in ParentsIn(V, b)}
<1>1. \A p \in Seq(V) : ToSet(<<b>> \o p) = {b} \cup ToSet(p)
  <2> TAKE p \in Seq(V)
  <2> DEFINE q == <<b>> \o p
  <2>1. /\ q \in Seq(V) /\ Len(q) = Len(p) + 1 /\ q[1] = b
        /\ \A i \in 1..Len(p) : q[i + 1] = p[i]
        /\ DOMAIN q = 1..(Len(p) + 1) /\ DOMAIN p = 1..Len(p) /\ Len(p) \in Nat
    OBVIOUS
  <2> HIDE DEF q
  <2>2. ASSUME NEW x \in ToSet(q) PROVE x \in {b} \cup ToSet(p)
    <3>1. PICK i \in 1..(Len(p) + 1) : x = q[i]
      BY <2>1, <2>2 DEF ToSet
    <3>2. CASE i = 1
      BY <2>1, <3>1, <3>2
    <3>3. CASE i # 1
      <4>1. i - 1 \in 1..Len(p) /\ (i - 1) + 1 = i
        BY <2>1, <3>3
      <4>2. x = p[i - 1]
        BY <2>1, <3>1, <4>1
      <4> QED
        BY <2>1, <4>1, <4>2 DEF ToSet
    <3> QED
      BY <3>2, <3>3
  <2>3. b \in ToSet(q)
    BY <2>1 DEF ToSet
  <2>4. ASSUME NEW x \in ToSet(p) PROVE x \in ToSet(q)
    <3>1. PICK i \in 1..Len(p) : x = p[i]
      BY <2>1 DEF ToSet
    <3>2. i + 1 \in DOMAIN q /\ x = q[i + 1]
      BY <2>1, <3>1
    <3> QED
      BY <3>2 DEF ToSet
  <2> QED
    BY <2>2, <2>3, <2>4 DEF q
<1>2. CASE ParentsIn(V, b) = {}
  <2>1. PathsDown(V, b) = {<<b>>}
    BY <1>2, PathsRecur
  <2>2. ToSet(<<b>>) = {b}
    BY DEF ToSet
  <2> QED
    BY <1>2, <2>1, <2>2 DEF Below
<1>3. CASE ParentsIn(V, b) # {}
  <2>1. PathsDown(V, b) =
          {<<b>> \o p : p \in UNION {PathsDown(V, u) : u \in ParentsIn(V, b)}}
    BY <1>3, PathsRecur
  <2>2. \A u \in ParentsIn(V, b) : /\ PathsDown(V, u) # {}
                                   /\ PathsDown(V, u) \subseteq Seq(V)
    BY PathsAreSeqs DEF ParentsIn
  <2>3. ASSUME NEW x \in Below(V, b)
        PROVE  x \in {b} \cup UNION {Below(V, u) : u \in ParentsIn(V, b)}
    <3>1. PICK q \in PathsDown(V, b) : x \in ToSet(q)
      BY DEF Below
    <3>5. PICK u \in ParentsIn(V, b) : \E p \in PathsDown(V, u) : q = <<b>> \o p
      BY <2>1
    <3>2. PICK p \in PathsDown(V, u) : q = <<b>> \o p
      BY <3>5
    <3>3. x \in {b} \cup ToSet(p)
      BY <1>1, <2>2, <3>1, <3>2
    <3>4. ToSet(p) \subseteq Below(V, u)
      BY DEF Below
    <3> QED
      BY <3>3, <3>4
  <2>4. ASSUME NEW u \in ParentsIn(V, b), NEW p \in PathsDown(V, u)
        PROVE  {b} \cup ToSet(p) \subseteq Below(V, b)
    <3>1. <<b>> \o p \in PathsDown(V, b)
      BY <2>1
    <3>2. ToSet(<<b>> \o p) = {b} \cup ToSet(p)
      BY <1>1, <2>2
    <3> QED
      BY <3>1, <3>2 DEF Below
  <2>5. b \in Below(V, b)
    BY <1>3, <2>2, <2>4
  <2>6. \A u \in ParentsIn(V, b) : Below(V, u) \subseteq Below(V, b)
    BY <2>4 DEF Below
  <2> QED
    BY <2>3, <2>5, <2>6
<1> QED
  BY <1>2, <1>3

\* What holds of a block as soon as it holds of its parents, holds of all.
LEMMA BelowIn ==
  ASSUME NEW V, Descending(V)
  PROVE  \A b \in V : b \in Below(V, b) /\ Below(V, b) \subseteq V
<1> DEFINE T == {b \in V : ~(Below(V, b) \subseteq V)}
<1>1. T = {}
  <2>1. SUFFICES ASSUME T # {} PROVE FALSE
    OBVIOUS
  <2>2. T \in SUBSET Nat
    BY DEF Descending
  <2>3. PICK v \in T : \A u \in T : v <= u
    BY <2>1, <2>2, LeastNat
  <2>4. \A u \in ParentsIn(V, v) : u \in V /\ u < v /\ u \in Nat /\ v \in Nat
    BY DEF Descending, ParentsIn
  <2>5. \A u \in ParentsIn(V, v) : Below(V, u) \subseteq V
    BY <2>3, <2>4
  <2> QED
    BY <2>3, <2>5, BelowRecurs
<1> QED
  BY <1>1, BelowRecurs

\* What is below a block below b is below b.
LEMMA BelowBelow ==
  ASSUME NEW V, Descending(V)
  PROVE  \A b \in V : \A a \in Below(V, b) : Below(V, a) \subseteq Below(V, b)
<1> DEFINE Fine(b) == \A a \in Below(V, b) : Below(V, a) \subseteq Below(V, b)
           T == {b \in V : ~Fine(b)}
<1>1. T = {}
  <2>1. SUFFICES ASSUME T # {} PROVE FALSE
    OBVIOUS
  <2>2. T \in SUBSET Nat
    BY DEF Descending
  <2>3. PICK v \in T : \A u \in T : v <= u
    BY <2>1, <2>2, LeastNat
  <2>4. \A u \in ParentsIn(V, v) : u \in V /\ u < v /\ u \in Nat /\ v \in Nat
    BY DEF Descending, ParentsIn
  <2>5. \A u \in ParentsIn(V, v) : Fine(u)
    BY <2>3, <2>4
  <2>6. Below(V, v) = {v} \cup UNION {Below(V, u) : u \in ParentsIn(V, v)}
    BY BelowRecurs
  <2>7. Fine(v)
    BY <2>5, <2>6
  <2> QED
    BY <2>3, <2>7
<1> QED
  BY <1>1

\* With a block below b its parents are.
LEMMA ParentsBelow ==
  ASSUME NEW V, Descending(V), NEW b \in V
  PROVE  DownClosed(V, Below(V, b))
<1> SUFFICES ASSUME NEW a \in Below(V, b) PROVE ParentsIn(V, a) \subseteq Below(V, b)
  BY DEF DownClosed
<1>1. a \in V /\ Below(V, a) \subseteq Below(V, b)
  BY BelowIn, BelowBelow
<1>2. \A u \in ParentsIn(V, a) : u \in V /\ u \in Below(V, u)
  BY BelowIn DEF ParentsIn
<1> QED
  BY <1>1, <1>2, BelowRecurs

\* A set that goes down holds what is below its blocks.
LEMMA DownClosedBelow ==
  ASSUME NEW V, Descending(V), NEW D, DownClosed(V, D)
  PROVE  \A b \in V \cap D : Below(V, b) \subseteq D
<1> DEFINE T == {b \in V \cap D : ~(Below(V, b) \subseteq D)}
<1>1. T = {}
  <2>1. SUFFICES ASSUME T # {} PROVE FALSE
    OBVIOUS
  <2>2. T \in SUBSET Nat
    BY DEF Descending
  <2>3. PICK v \in T : \A u \in T : v <= u
    BY <2>1, <2>2, LeastNat
  <2>4. \A u \in ParentsIn(V, v) : u \in V \cap D /\ u < v /\ u \in Nat /\ v \in Nat
    BY DEF Descending, ParentsIn, DownClosed
  <2>5. \A u \in ParentsIn(V, v) : Below(V, u) \subseteq D
    BY <2>3, <2>4
  <2> QED
    BY <2>3, <2>5, BelowRecurs
<1> QED
  BY <1>1

\* What every block takes over from its parents, but for S, it has from all below it.
LEMMA FlowsUp ==
  ASSUME NEW V, Descending(V), NEW f, NEW S,
         \A v \in V : \A u \in ParentsIn(V, v) : f[u] \subseteq f[v] \cup S
  PROVE  \A b \in V : \A a \in Below(V, b) : f[a] \subseteq f[b] \cup S
<1> DEFINE Fine(b) == \A a \in Below(V, b) : f[a] \subseteq f[b] \cup S
           T == {b \in V : ~Fine(b)}
<1>1. T = {}
  <2>1. SUFFICES ASSUME T # {} PROVE FALSE
    OBVIOUS
  <2>2. T \in SUBSET Nat
    BY DEF Descending
  <2>3. PICK v \in T : \A u \in T : v <= u
    BY <2>1, <2>2, LeastNat
  <2>4. \A u \in ParentsIn(V, v) : u \in V /\ u < v /\ u \in Nat /\ v \in Nat
    BY DEF Descending, ParentsIn
  <2>5. \A u \in ParentsIn(V, v) : Fine(u)
    BY <2>3, <2>4
  <2>6. Below(V, v) = {v} \cup UNION {Below(V, u) : u \in ParentsIn(V, v)}
    BY BelowRecurs
  <2>7. Fine(v)
    BY <2>5, <2>6
  <2> QED
    BY <2>3, <2>7
<1> QED
  BY <1>1

\* Over every block of a finite graph there is a tip.
LEMMA TipAbove ==
  ASSUME NEW N \in Nat, NEW V \in SUBSET (0..N), Descending(V), NEW v \in V
  PROVE  \E w \in Tips(V) : v \in Below(V, w)
<1> DEFINE T == {w \in V : v \in Below(V, w)}
<1>1. v \in T /\ T \in SUBSET (0..N)
  BY BelowIn
<1>2. PICK w \in T : \A u \in T : u <= w
  BY <1>1, GreatestNat
<1>3. ASSUME NEW u \in V, w \in made[u].parents PROVE FALSE
  <2>1. w \in ParentsIn(V, u) /\ w < u /\ u \in Nat /\ w \in Nat
    BY <1>3 DEF ParentsIn, Descending
  <2>2. Below(V, w) \subseteq Below(V, u)
    BY <2>1, BelowRecurs
  <2>3. u \in T
    BY <2>2
  <2> QED
    BY <1>2, <2>1, <2>3
<1>4. w \in Tips(V)
  BY <1>3 DEF Tips
<1> QED
  BY <1>4

\* What a block has beyond its own and K it has from its parents, so from those below.
ComesFrom(V, f, g, K) ==
  \A v \in V : \A t \in f[v] :
    t \in g[v] \cup K \/ \E u \in ParentsIn(V, v) : t \in f[u]

LEMMA FlowsDown ==
  ASSUME NEW V, Descending(V), NEW f, NEW g, NEW K, ComesFrom(V, f, g, K)
  PROVE  \A b \in V : \A t \in f[b] : t \in K \/ \E a \in Below(V, b) : t \in g[a]
<1> DEFINE Fine(b) == \A t \in f[b] : t \in K \/ \E a \in Below(V, b) : t \in g[a]
           T == {b \in V : ~Fine(b)}
<1>1. T = {}
  <2>1. SUFFICES ASSUME T # {} PROVE FALSE
    OBVIOUS
  <2>2. T \in SUBSET Nat
    BY DEF Descending
  <2>3. PICK v \in T : \A u \in T : v <= u
    BY <2>1, <2>2, LeastNat
  <2>4. \A u \in ParentsIn(V, v) : u \in V /\ u < v /\ u \in Nat /\ v \in Nat
    BY DEF Descending, ParentsIn
  <2>5. \A u \in ParentsIn(V, v) : Fine(u)
    BY <2>3, <2>4
  <2>6. Below(V, v) = {v} \cup UNION {Below(V, u) : u \in ParentsIn(V, v)}
    BY BelowRecurs
  <2>7. \A t \in f[v] : t \in g[v] \cup K \/ \E u \in ParentsIn(V, v) : t \in f[u]
    BY <2>3 DEF ComesFrom
  <2>8. Fine(v)
    BY <2>5, <2>6, <2>7
  <2> QED
    BY <2>3, <2>8
<1> QED
  BY <1>1

\* A union of sets that go down goes down.
LEMMA UnionDownClosed ==
  ASSUME NEW V, Descending(V), NEW tops \in SUBSET V,
         NEW all, all = UNION {Below(V, b) : b \in tops}
  PROVE  all \subseteq V /\ tops \subseteq all /\ DownClosed(V, all)
<1>1. all \subseteq V /\ tops \subseteq all
  BY BelowIn
<1>2. ASSUME NEW d \in all \cap V PROVE ParentsIn(V, d) \subseteq all
  <2>1. PICK b \in tops : d \in Below(V, b)
    OBVIOUS
  <2>2. ParentsIn(V, d) \subseteq Below(V, b)
    BY <2>1, ParentsBelow DEF DownClosed
  <2> QED
    BY <2>2
<1> QED
  BY <1>1, <1>2 DEF DownClosed

-----------------------------------------------------------------------------
(***************************************************************************)
(* What becomes stable, what is rolled back, and what is merged.           *)
(***************************************************************************)
\* The top stable blocks are below the block that makes them so.
LEMMA TopStableBelow ==
  ASSUME NEW V, Descending(V), NEW b \in V
  PROVE  FindTopStable(V, b) \subseteq Below(V, b)
<1> SUFFICES ASSUME NEW p \in PathsDown(V, b), NEW t \in StableOnPath(p)
             PROVE  t \in ToSet(p)
  BY DEF FindTopStable, Below
<1>1. p \in Seq(V)
  BY PathsAreSeqs
<1> DEFINE enough == {k \in DOMAIN p :
             WitnessesSeen(p, k) >= MajorityOf(Cardinality(Conciliums))}
<1>2. enough # {} /\ t = p[Min(enough)]
  BY DEF StableOnPath
<1>3. enough \in SUBSET Nat /\ enough \subseteq DOMAIN p
  BY <1>1
<1> HIDE DEF enough
<1>4. Min(enough) \in enough
  <2>1. \E n \in enough : \A m \in enough : n <= m
    BY <1>2, <1>3, LeastNat
  <2> QED
    BY <2>1 DEF Min
<1> QED
  BY <1>2, <1>3, <1>4 DEF ToSet

\* What becomes stable goes down and holds the top stable blocks.
LEMMA StableGoesDown ==
  ASSUME NEW V, Descending(V), NEW b \in V
  PROVE  /\ FindTopStable(V, b) \subseteq FindAlsoStable(V, FindTopStable(V, b))
         /\ FindAlsoStable(V, FindTopStable(V, b)) \subseteq V
         /\ DownClosed(V, FindAlsoStable(V, FindTopStable(V, b)))
<1> DEFINE tops == FindTopStable(V, b)
<1>1. tops \in SUBSET V
  BY TopStableBelow, BelowIn
<1>2. FindAlsoStable(V, tops) = UNION {Below(V, t) : t \in tops}
  BY DEF FindAlsoStable
<1> HIDE DEF tops
<1>3. /\ FindAlsoStable(V, tops) \subseteq V /\ tops \subseteq FindAlsoStable(V, tops)
      /\ DownClosed(V, FindAlsoStable(V, tops))
  BY <1>1, <1>2, UnionDownClosed
<1> QED
  BY <1>3 DEF tops

\* What is rolled back goes down and holds the tips that conflict, but for the new block.
LEMMA RollbackGoesDown ==
  ASSUME NEW V, Descending(V), NEW patches, NEW b, NEW apply,
         NEW rollback, rollback = ConflictingBranches(V, patches, b, apply)
  PROVE  /\ rollback \subseteq V /\ DownClosed(V, rollback)
         /\ \A v \in Tips(V) : Conflict(patches[v], apply) => v = b \/ v \in rollback
<1> DEFINE tips == {v \in Tips(V) \ {b} : Conflict(patches[v], apply)}
<1>1. tips \in SUBSET V
  BY DEF Tips
<1>2. rollback = UNION {Below(V, w) : w \in tips}
  BY DEF ConflictingBranches
<1> HIDE DEF tips
<1>3. rollback \subseteq V /\ tips \subseteq rollback /\ DownClosed(V, rollback)
  BY <1>1, <1>2, UnionDownClosed
<1> QED
  BY <1>3 DEF tips

\* A part of a graph in order is in order.
LEMMA PartDescends ==
  ASSUME NEW V, Descending(V), NEW U \in SUBSET V
  PROVE  Descending(U)
  BY DEF Descending, ParentsIn

-----------------------------------------------------------------------------
(***************************************************************************)
(* MergeInOrder is defined by a function that recurs on the position.      *)
(***************************************************************************)
OneMore(patches, B, b) == IF ConflictAmong(patches, B \cup {b}) THEN B ELSE B \cup {b}

Merges(patches, s, n, f) ==
  f = [k \in 0..n |-> IF k = 0 THEN {} ELSE OneMore(patches, f[k - 1], s[k])]

LEMMA MergesExist ==
  ASSUME NEW patches, NEW s, NEW n \in Nat
  PROVE  \E f : Merges(patches, s, n, f)
<1> DEFINE T == {m \in Nat : ~\E f : Merges(patches, s, m, f)}
<1>1. T = {}
  <2>1. SUFFICES ASSUME T # {} PROVE FALSE
    OBVIOUS
  <2>2. PICK m \in T : \A i \in T : m <= i
    BY <2>1, LeastNat
  <2>3. CASE m = 0
    <3> DEFINE f == [k \in 0..0 |-> {}]
    <3>1. f = [k \in 0..0 |-> IF k = 0 THEN {} ELSE OneMore(patches, f[k - 1], s[k])]
      OBVIOUS
    <3>2. Merges(patches, s, 0, f)
      BY <3>1 DEF Merges
    <3> QED
      BY <2>2, <2>3, <3>2
  <2>4. CASE m # 0
    <3>1. m - 1 \in Nat /\ m - 1 \notin T
      BY <2>2, <2>4
    <3>2. PICK f : Merges(patches, s, m - 1, f)
      BY <3>1
    <3>3. \A k \in 0..(m - 1) :
            f[k] = IF k = 0 THEN {} ELSE OneMore(patches, f[k - 1], s[k])
      BY <3>2 DEF Merges
    <3> DEFINE g == [k \in 0..m |-> IF k = m THEN OneMore(patches, f[m - 1], s[m]) ELSE f[k]]
    <3>4. \A k \in 0..m :
            g[k] = IF k = 0 THEN {} ELSE OneMore(patches, g[k - 1], s[k])
      <4> TAKE k \in 0..m
      <4>1. CASE k = m
        <5>1. g[k] = OneMore(patches, f[m - 1], s[m])
          BY <4>1
        <5>2. m - 1 \in 0..m /\ m - 1 # m /\ g[m - 1] = f[m - 1]
          BY <2>4
        <5> QED
          BY <2>4, <4>1, <5>1, <5>2
      <4>2. CASE k = 0
        <5>1. g[k] = f[k] /\ k \in 0..(m - 1)
          BY <2>4, <4>2
        <5> QED
          BY <3>3, <4>2, <5>1
      <4>3. CASE k # m /\ k # 0
        <5>1. k \in 0..(m - 1) /\ k - 1 \in 0..m /\ k - 1 # m
          BY <4>3
        <5>2. g[k] = f[k] /\ g[k - 1] = f[k - 1]
          BY <4>3, <5>1
        <5> QED
          BY <3>3, <4>3, <5>1, <5>2
      <4> QED
        BY <4>1, <4>2, <4>3
    <3>5. g = [k \in 0..m |-> g[k]]
      OBVIOUS
    <3> HIDE DEF g
    <3>6. g = [k \in 0..m |-> IF k = 0 THEN {} ELSE OneMore(patches, g[k - 1], s[k])]
      BY <3>4, <3>5
    <3>7. Merges(patches, s, m, g)
      BY <3>6 DEF Merges
    <3> QED
      BY <2>2, <3>7
  <2> QED
    BY <2>3, <2>4
<1> QED
  BY <1>1

\* Some of the blocks of the sequence, which do not conflict.
LEMMA MergeInOrderIs ==
  ASSUME NEW patches, NEW S, NEW s \in Seq(S)
  PROVE  /\ MergeInOrder(patches, s) \subseteq S
         /\ ~ConflictAmong(patches, MergeInOrder(patches, s))
<1> DEFINE f == CHOOSE g : Merges(patches, s, Len(s), g)
<1>0. Len(s) \in Nat
  OBVIOUS
<1>1. Merges(patches, s, Len(s), f)
  BY <1>0, MergesExist, Zenon
<1>2. MergeInOrder(patches, s) = f[Len(s)]
  BY DEF MergeInOrder, Merges, OneMore
<1> HIDE DEF f
<1>3. f[0] = {} /\ \A k \in 1..Len(s) : f[k] = OneMore(patches, f[k - 1], s[k])
  BY <1>1 DEF Merges
<1> DEFINE T == {k \in 0..Len(s) : ~(f[k] \subseteq S /\ ~ConflictAmong(patches, f[k]))}
<1>4. T = {}
  <2>1. SUFFICES ASSUME T # {} PROVE FALSE
    OBVIOUS
  <2>0. T \in SUBSET Nat
    BY <1>0
  <2>2. PICK m \in T : \A i \in T : m <= i
    BY <2>0, <2>1, LeastNat
  <2>3. CASE m = 0
    BY <1>3, <2>2, <2>3 DEF ConflictAmong
  <2>4. CASE m # 0
    <3>1. m \in 1..Len(s) /\ m - 1 \in 0..Len(s) /\ m - 1 \notin T
      BY <2>2, <2>4
    <3>2. f[m] = OneMore(patches, f[m - 1], s[m]) /\ s[m] \in S
      BY <1>3, <3>1
    <3> QED
      BY <2>2, <3>1, <3>2 DEF OneMore
  <2> QED
    BY <2>3, <2>4
<1> QED
  BY <1>2, <1>4

\* The parents of a new block are tips, or the last top stable blocks; they do not
\* conflict.
LEMMA BestParentsAre ==
  ASSUME NEW V, IsFiniteSet(V), NEW patches, NEW c, NEW topStable,
         NEW B \in BestParents(V, patches, c, topStable)
  PROVE  \/ V = {} /\ B = topStable
         \/ B \subseteq V /\ ~ConflictAmong(patches, B)
<1>1. CASE V = {}
  BY <1>1 DEF BestParents
<1>2. CASE V # {}
  <2>1. PICK s \in SortTips(V, c) : B = MergeInOrder(patches, s)
    BY <1>2 DEF BestParents
  <2>2. s \in [1..Cardinality(Tips(V)) -> Tips(V)]
    BY DEF SortTips, SetToSeqs
  <2>3. Tips(V) \subseteq V /\ Cardinality(Tips(V)) \in Nat
    BY FS_Subset, FS_CardinalityType DEF Tips
  <2>4. s \in Seq(Tips(V))
    BY <2>2, <2>3
  <2> QED
    BY <2>1, <2>3, <2>4, MergeInOrderIs
<1> QED
  BY <1>1, <1>2

-----------------------------------------------------------------------------
(***************************************************************************)
(* What is final is told by the blocks alone: what lies at the end of a    *)
(* way down on which a majority of the conciliums is seen.                 *)
(***************************************************************************)
\* A way down, from block to parent; it may end anywhere.
Way(V, p) ==
  /\ p \in Seq(V) /\ Len(p) > 0
  /\ \A i \in 1..(Len(p) - 1) : p[i + 1] \in ParentsIn(V, p[i])

SeesEnough(p, k) == WitnessesSeen(p, k) >= MajorityOf(Cardinality(Conciliums))

Supported(E) == {a \in E : \E p : Way(E, p) /\ SeesEnough(p, Len(p)) /\ a = p[Len(p)]}

OfConciliums(E) == \A v \in E : made[v].concilium \in Conciliums

\* The paths are the ways that go on to the end.
LEMMA PathsAre ==
  ASSUME NEW V, Descending(V)
  PROVE  \A b \in V : PathsDown(V, b) = PathsFrom(V, b)
<1> DEFINE Fine(b) == PathsDown(V, b) = PathsFrom(V, b)
           T == {b \in V : ~Fine(b)}
<1>1. ASSUME NEW v \in V, \A u \in ParentsIn(V, v) : Fine(u) PROVE Fine(v)
  <2>1. CASE ParentsIn(V, v) = {}
    BY <2>1, PathsRecur, PathFromBottom
  <2>2. CASE ParentsIn(V, v) # {}
    <3>1. {PathsDown(V, u) : u \in ParentsIn(V, v)} = {PathsFrom(V, u) : u \in ParentsIn(V, v)}
      BY <1>1
    <3>2. PathsDown(V, v) =
            {<<v>> \o p : p \in UNION {PathsDown(V, u) : u \in ParentsIn(V, v)}}
      BY <2>2, PathsRecur
    <3>3. PathsFrom(V, v) =
            {<<v>> \o p : p \in UNION {PathsFrom(V, u) : u \in ParentsIn(V, v)}}
      BY <2>2, PathsFromAbove
    <3> QED
      BY <3>1, <3>2, <3>3
  <2> QED
    BY <2>1, <2>2
<1>2. T = {}
  <2>1. SUFFICES ASSUME T # {} PROVE FALSE
    OBVIOUS
  <2>2. T \in SUBSET Nat
    BY DEF Descending
  <2>3. PICK v \in T : \A u \in T : v <= u
    BY <2>1, <2>2, LeastNat
  <2>4. \A u \in ParentsIn(V, v) : u \in V /\ u < v /\ u \in Nat /\ v \in Nat
    BY DEF Descending, ParentsIn
  <2>5. \A u \in ParentsIn(V, v) : Fine(u)
    BY <2>3, <2>4
  <2> HIDE DEF Fine
  <2> QED
    BY <1>1, <2>3, <2>5
<1> QED
  BY <1>2

\* Every way is the beginning of a path.
LEMMA WayGoesOn ==
  ASSUME NEW V, Descending(V), NEW p, Way(V, p)
  PROVE  \E q \in PathsDown(V, p[1]) :
           Len(p) <= Len(q) /\ \A i \in 1..Len(p) : q[i] = p[i]
<1>1. PICK n \in Nat : n = Len(p) /\ n > 0
  BY DEF Way
<1>2. \A i \in 1..n : p[i] \in V
  BY <1>1 DEF Way
<1>3. PICK r : r \in PathsDown(V, p[n])
  <2>1. p[n] \in V
    BY <1>1, <1>2
  <2>2. PathsDown(V, p[n]) # {}
    BY <2>1, PathsAreSeqs
  <2> QED
    BY <2>2
<1>4. r \in Seq(V) /\ Len(r) > 0 /\ r[1] = p[n] /\ Descends(V, r)
  BY <1>1, <1>2, <1>3, PathsAre DEF PathsFrom
<1>5. PICK m \in Nat : m = Len(r) /\ m > 0
  BY <1>4
<1> DEFINE q == [i \in 1..(n + m - 1) |-> IF i <= n THEN p[i] ELSE r[i - n + 1]]
<1>6. n + m - 1 \in Nat /\ n + m - 1 > 0 /\ n <= n + m - 1
  BY <1>1, <1>5
<1>7. \A i \in 1..m : r[i] \in V
  BY <1>4, <1>5
<1>8. q \in Seq(V) /\ Len(q) = n + m - 1
  <2>1. \A i \in 1..(n + m - 1) : q[i] \in V
    BY <1>2, <1>7
  <2> QED
    BY <1>6, <2>1
<1>9. \A i \in 1..n : q[i] = p[i]
  BY <1>6
<1>10. \A i \in n..(n + m - 1) : q[i] = r[i - n + 1]
  BY <1>1, <1>4, <1>5
<1> HIDE DEF q
<1>11. ASSUME NEW i \in 1..(Len(q) - 1) PROVE q[i + 1] \in ParentsIn(V, q[i])
  <2>1. CASE i < n
    BY <1>1, <1>8, <1>9, <2>1 DEF Way
  <2>2. CASE i >= n
    <3>1. q[i] = r[i - n + 1] /\ q[i + 1] = r[(i - n + 1) + 1]
      BY <1>1, <1>5, <1>8, <1>10, <2>2
    <3>2. i - n + 1 \in 1..(Len(r) - 1)
      BY <1>5, <1>8, <2>2
    <3> QED
      BY <1>4, <3>1, <3>2 DEF Descends
  <2> QED
    BY <1>8, <2>1, <2>2
<1>12. q[Len(q)] = r[Len(r)]
  BY <1>1, <1>5, <1>6, <1>8, <1>10
<1>13. q \in PathsFrom(V, p[1])
  BY <1>1, <1>4, <1>6, <1>8, <1>9, <1>11, <1>12 DEF PathsFrom, Descends
<1>14. p[1] \in V
  BY <1>1, <1>2
<1>15. q \in PathsDown(V, p[1])
  BY <1>13, <1>14, PathsAre
<1> QED
  BY <1>1, <1>6, <1>8, <1>9, <1>15

\* A way that enters a set which goes down stays in it.
LEMMA WayStays ==
  ASSUME NEW V, NEW p, Way(V, p), NEW D, DownClosed(V, D),
         NEW k \in 1..Len(p), p[k] \in D
  PROVE  p[Len(p)] \in D
<1>1. PICK n \in Nat : n = Len(p) /\ k \in 1..n
  BY DEF Way
<1> DEFINE T == {i \in k..n : p[i] \notin D}
<1>2. SUFFICES ASSUME T # {} PROVE FALSE
  BY <1>1
<1>3. T \in SUBSET Nat
  BY <1>1
<1>4. PICK i \in T : \A j \in T : i <= j
  BY <1>2, <1>3, LeastNat
<1>5. i > k /\ i - 1 \in k..n /\ i - 1 \in 1..(n - 1) /\ (i - 1) + 1 = i
  BY <1>1, <1>4
<1>6. p[i - 1] \in D /\ p[i - 1] \in V
  BY <1>1, <1>4, <1>5 DEF Way
<1>7. p[(i - 1) + 1] \in ParentsIn(V, p[i - 1])
  BY <1>1, <1>5 DEF Way
<1> QED
  BY <1>4, <1>5, <1>6, <1>7 DEF DownClosed

LEMMA LeastOf ==
  ASSUME NEW T \in SUBSET Nat, NEW k \in T
  PROVE  Min(T) \in T /\ Min(T) <= k
<1>1. \E n \in T : \A m \in T : n <= m
  BY LeastNat
<1> QED
  BY <1>1 DEF Min

\* More blocks, more witnesses.
LEMMA SeesMore ==
  ASSUME NEW E, OfConciliums(E), NEW A, NEW B, A \subseteq B, B \subseteq E
  PROVE  Cardinality(WitnessesOf(A)) <= Cardinality(WitnessesOf(B))
<1>1. WitnessesOf(A) \subseteq WitnessesOf(B) /\ WitnessesOf(B) \subseteq Conciliums
  BY DEF WitnessesOf, OfConciliums
<1>2. IsFiniteSet(WitnessesOf(B))
  BY <1>1, PendingAssumption, FS_Subset
<1> QED
  BY <1>1, <1>2, FS_Subset

LEMMA MajorityIs == MajorityOf(Cardinality(Conciliums)) \in Nat /\ MajorityOf(Cardinality(Conciliums)) > 0
<1>1. Cardinality(Conciliums) \in Nat
  BY PendingAssumption, FS_CardinalityType
<1> QED
  BY <1>1 DEF MajorityOf

\* What is supported goes down.
LEMMA SupportGoesDown ==
  ASSUME NEW E, OfConciliums(E)
  PROVE  Supported(E) \subseteq E /\ DownClosed(E, Supported(E))
<1>1. SUFFICES ASSUME NEW a \in Supported(E), NEW u \in ParentsIn(E, a) PROVE u \in Supported(E)
  BY DEF DownClosed, Supported
<1>2. PICK p : Way(E, p) /\ SeesEnough(p, Len(p)) /\ a = p[Len(p)]
  BY DEF Supported
<1>3. PICK n \in Nat : n = Len(p) /\ n > 0
  BY <1>2 DEF Way
<1>4. u \in E
  BY DEF ParentsIn
<1>5. PICK q : q = Append(p, u)
  OBVIOUS
<1>6. q \in Seq(E) /\ Len(q) = n + 1 /\ q[n + 1] = u /\ \A i \in 1..n : q[i] = p[i]
  BY <1>2, <1>3, <1>4, <1>5 DEF Way
<1>7. ASSUME NEW i \in 1..(Len(q) - 1) PROVE q[i + 1] \in ParentsIn(E, q[i])
  <2>1. CASE i = n
    BY <1>2, <1>3, <1>6, <2>1
  <2>2. CASE i < n
    <3>1. q[i] = p[i] /\ q[i + 1] = p[i + 1] /\ i \in 1..(Len(p) - 1)
      BY <1>3, <1>6, <2>2
    <3> QED
      BY <1>2, <3>1 DEF Way
  <2> QED
    BY <1>3, <1>6, <2>1, <2>2
<1>8. Way(E, q)
  BY <1>3, <1>6, <1>7 DEF Way
<1>9. SeesEnough(q, Len(q))
  <2>1. PICK A, B : A = {p[i] : i \in 1..Len(p)} /\ B = {q[i] : i \in 1..Len(q)}
    OBVIOUS
  <2>2. A \subseteq B /\ B \subseteq E
    BY <1>3, <1>6, <2>1
  <2>3. Cardinality(WitnessesOf(A)) <= Cardinality(WitnessesOf(B))
    BY <2>2, SeesMore
  <2>4. WitnessesSeen(p, Len(p)) <= WitnessesSeen(q, Len(q))
    BY <2>1, <2>3 DEF WitnessesSeen
  <2>5. IsFiniteSet(WitnessesOf(A)) /\ IsFiniteSet(WitnessesOf(B))
    <3>1. WitnessesOf(A) \subseteq Conciliums /\ WitnessesOf(B) \subseteq Conciliums
      BY <2>2 DEF WitnessesOf, OfConciliums
    <3> QED
      BY <3>1, PendingAssumption, FS_Subset
  <2>6. WitnessesSeen(p, Len(p)) \in Nat /\ WitnessesSeen(q, Len(q)) \in Nat
    BY <2>1, <2>5, FS_CardinalityType DEF WitnessesSeen
  <2> QED
    BY <1>2, <2>4, <2>6, MajorityIs DEF SeesEnough
<1> QED
  BY <1>4, <1>6, <1>8, <1>9 DEF Supported

\* The top stable blocks: each of them is where a way down from b has seen enough.
LEMMA TopStableIs ==
  ASSUME NEW V, Descending(V), NEW b \in V
  PROVE  /\ \A t \in FindTopStable(V, b) : t \in V /\
              \E p : Way(V, p) /\ p[1] = b /\ SeesEnough(p, Len(p)) /\ t = p[Len(p)]
         /\ \A p : Way(V, p) /\ p[1] = b /\ SeesEnough(p, Len(p))
              => \E k \in 1..Len(p) : p[k] \in FindTopStable(V, b)
<1>1. ASSUME NEW t \in FindTopStable(V, b)
      PROVE  t \in V /\ \E p : Way(V, p) /\ p[1] = b /\ SeesEnough(p, Len(p)) /\ t = p[Len(p)]
  <2>1. PICK q \in PathsDown(V, b) : t \in StableOnPath(q)
    BY DEF FindTopStable
  <2>2. q \in Seq(V) /\ Len(q) > 0 /\ q[1] = b /\ Descends(V, q)
    BY <2>1, PathsAre DEF PathsFrom
  <2> DEFINE enough == {k \in DOMAIN q :
               WitnessesSeen(q, k) >= MajorityOf(Cardinality(Conciliums))}
  <2>3. enough # {} /\ t = q[Min(enough)]
    BY <2>1 DEF StableOnPath
  <2>4. enough \in SUBSET Nat
    BY <2>2
  <2>5. PICK m : m = Min(enough) /\ m \in enough
    BY <2>3, <2>4, LeastOf
  <2>6. m \in 1..Len(q) /\ SeesEnough(q, m)
    BY <2>2, <2>5 DEF SeesEnough
  <2> DEFINE p == SubSeq(q, 1, m)
  <2>7. p \in Seq(V) /\ Len(p) = m /\ \A i \in 1..m : p[i] = q[i]
    BY <2>2, <2>6
  <2> HIDE DEF p, enough
  <2>8. \A i \in 1..(Len(p) - 1) : p[i + 1] \in ParentsIn(V, p[i])
    BY <2>2, <2>6, <2>7 DEF Descends
  <2>9. {p[i] : i \in 1..m} = {q[i] : i \in 1..m}
    BY <2>7
  <2>10. SeesEnough(p, Len(p))
    BY <2>6, <2>7, <2>9 DEF SeesEnough, WitnessesSeen
  <2>11. Way(V, p) /\ p[1] = b /\ p[Len(p)] = t /\ t \in V
    BY <2>2, <2>3, <2>5, <2>6, <2>7, <2>8 DEF Way
  <2> QED
    BY <2>10, <2>11
<1>2. ASSUME NEW p, Way(V, p), p[1] = b, SeesEnough(p, Len(p))
      PROVE  \E k \in 1..Len(p) : p[k] \in FindTopStable(V, b)
  <2>1. PICK q \in PathsDown(V, b) : Len(p) <= Len(q) /\ \A i \in 1..Len(p) : q[i] = p[i]
    BY <1>2, WayGoesOn
  <2>2. q \in Seq(V) /\ Len(q) \in Nat /\ Len(p) \in Nat /\ Len(p) > 0
    BY <1>2, <2>1, PathsAre DEF PathsFrom, Way
  <2> DEFINE enough == {k \in DOMAIN q :
               WitnessesSeen(q, k) >= MajorityOf(Cardinality(Conciliums))}
  <2>3. {q[i] : i \in 1..Len(p)} = {p[i] : i \in 1..Len(p)}
    BY <2>1
  <2>4. Len(p) \in enough
    <3>1. WitnessesSeen(q, Len(p)) = WitnessesSeen(p, Len(p))
      BY <2>3 DEF WitnessesSeen
    <3>2. Len(p) \in DOMAIN q
      BY <2>1, <2>2
    <3> QED
      BY <1>2, <3>1, <3>2 DEF SeesEnough
  <2>5. enough \in SUBSET Nat /\ enough \subseteq 1..Len(q)
    BY <2>2
  <2>6. Min(enough) \in enough /\ Min(enough) <= Len(p)
    BY <2>4, <2>5, LeastOf
  <2>7. PICK m : m = Min(enough) /\ m \in 1..Len(p)
    <3> HIDE DEF enough
    <3>1. PICK m : m = Min(enough)
      OBVIOUS
    <3>2. m \in 1..Len(q) /\ m <= Len(p)
      BY <2>5, <2>6, <3>1
    <3>3. m \in 1..Len(p)
      BY <2>2, <3>2
    <3> QED
      BY <3>1, <3>3
  <2>8. q[m] \in StableOnPath(q)
    BY <2>4, <2>7 DEF StableOnPath
  <2>9. q[m] \in FindTopStable(V, b)
    BY <2>1, <2>8 DEF FindTopStable
  <2> QED
    BY <2>1, <2>7, <2>9
<1> QED
  BY <1>1, <1>2

LEMMA WayWider ==
  ASSUME NEW E, NEW V \in SUBSET E, NEW p, Way(V, p)
  PROVE  Way(E, p)
<1>1. p \in Seq(E)
  <2>1. PICK n \in Nat : n = Len(p)
    BY DEF Way
  <2> QED
    BY <2>1 DEF Way
<1> QED
  BY <1>1 DEF Way, ParentsIn

\* All of a way is in a part of the graph: it is a way of that part.
LEMMA WayWithin ==
  ASSUME NEW E, NEW p, Way(E, p), NEW V, \A i \in 1..Len(p) : p[i] \in V
  PROVE  Way(V, p)
<1>1. PICK n \in Nat : n = Len(p)
  BY DEF Way
<1>2. p \in Seq(V)
  BY <1>1 DEF Way
<1>3. ASSUME NEW i \in 1..(Len(p) - 1) PROVE p[i + 1] \in ParentsIn(V, p[i])
  <2>1. i + 1 \in 1..Len(p)
    BY <1>1
  <2> QED
    BY <2>1 DEF Way, ParentsIn
<1> QED
  BY <1>2, <1>3 DEF Way

(***************************************************************************)
(* A block b is added, on which none stands: what has been supported and   *)
(* what becomes stable with the top stable blocks is what is supported.    *)
(***************************************************************************)
LEMMA SupportGrows ==
  ASSUME NEW E, NEW b, b \notin E, NEW E2, E2 = E \cup {b},
         Descending(E2), OfConciliums(E2), \A v \in E2 : b \notin made[v].parents,
         NEW V, NEW F, V \cup F = E2, V \cap F = {}, b \in V, F = Supported(E)
  PROVE  Supported(E2) = F \cup FindAlsoStable(V, FindTopStable(V, b))
<1>0. PICK tops, stable : tops = FindTopStable(V, b) /\ stable = FindAlsoStable(V, tops)
  OBVIOUS
<1>1. Descending(V) /\ V \subseteq E2 /\ E \subseteq E2
  BY PartDescends
<1>2. DownClosed(E2, F) /\ F \subseteq E2
  <2>1. DownClosed(E, F) /\ F \subseteq E
    <3>1. OfConciliums(E)
      BY DEF OfConciliums
    <3> QED
      BY <3>1, SupportGoesDown
  <2> QED
    BY <2>1 DEF DownClosed, ParentsIn
<1>3. stable \subseteq V /\ DownClosed(V, stable) /\ tops \subseteq stable
  BY <1>0, <1>1, StableGoesDown
<1>4. ASSUME NEW a \in Supported(E2) PROVE a \in F \cup stable
  <2>1. PICK p : Way(E2, p) /\ SeesEnough(p, Len(p)) /\ a = p[Len(p)]
    BY DEF Supported
  <2>2. PICK n \in Nat : n = Len(p) /\ n > 0
    BY <2>1 DEF Way
  <2>3. \A i \in 1..n : p[i] \in E2
    BY <2>1, <2>2 DEF Way
  <2>4. \A i \in 2..n : p[i] # b
    <3>1. ASSUME NEW i \in 2..n PROVE p[i] # b
      <4>1. i - 1 \in 1..(Len(p) - 1) /\ (i - 1) + 1 = i /\ i - 1 \in 1..n
        BY <2>2
      <4>2. p[i] \in ParentsIn(E2, p[i - 1])
        BY <2>1, <4>1 DEF Way
      <4> QED
        BY <2>3, <4>1, <4>2 DEF ParentsIn
    <3> QED
      BY <3>1
  <2>5. CASE p[1] # b
    <3>1. \A i \in 1..Len(p) : p[i] \in E
      BY <2>2, <2>3, <2>4, <2>5
    <3>2. Way(E, p)
      BY <2>1, <3>1, WayWithin
    <3>3. p[Len(p)] \in E
      BY <2>2, <3>1
    <3> QED
      BY <2>1, <3>2, <3>3 DEF Supported
  <2>6. CASE p[1] = b /\ \E k \in 1..Len(p) : p[k] \in F
    BY <1>2, <2>1, <2>6, WayStays
  <2>7. CASE p[1] = b /\ \A k \in 1..Len(p) : p[k] \notin F
    <3>1. \A i \in 1..Len(p) : p[i] \in V
      BY <2>2, <2>3, <2>7
    <3>2. Way(V, p)
      BY <2>1, <3>1, WayWithin
    <3>3. PICK k \in 1..Len(p) : p[k] \in tops
      BY <1>0, <1>1, <2>1, <2>7, <3>2, TopStableIs
    <3> QED
      BY <1>3, <2>1, <3>2, <3>3, WayStays
  <2> QED
    BY <2>5, <2>6, <2>7
<1>5. Supported(E2) \subseteq E2 /\ DownClosed(E2, Supported(E2))
  BY SupportGoesDown
<1>6. F \subseteq Supported(E2)
  <2>1. ASSUME NEW a \in Supported(E) PROVE a \in Supported(E2)
    <3>1. PICK p : a \in E /\ Way(E, p) /\ SeesEnough(p, Len(p)) /\ a = p[Len(p)]
      BY DEF Supported
    <3>2. Way(E2, p)
      BY <1>1, <3>1, WayWider
    <3> QED
      BY <1>1, <3>1, <3>2 DEF Supported
  <2> QED
    BY <2>1
<1>7. tops \subseteq Supported(E2)
  <2>1. ASSUME NEW t \in tops PROVE t \in Supported(E2)
    <3>1. PICK p : t \in V /\ Way(V, p) /\ SeesEnough(p, Len(p)) /\ t = p[Len(p)]
      BY <1>0, <1>1, TopStableIs
    <3>2. Way(E2, p)
      BY <1>1, <3>1, WayWider
    <3> QED
      BY <1>1, <3>1, <3>2 DEF Supported
  <2> QED
    BY <2>1
<1>8. stable \subseteq Supported(E2)
  <2>1. DownClosed(V, Supported(E2))
    BY <1>1, <1>5 DEF DownClosed, ParentsIn
  <2>2. \A t \in tops : Below(V, t) \subseteq Supported(E2)
    BY <1>1, <1>3, <1>7, <2>1, DownClosedBelow
  <2> QED
    BY <1>0, <2>2 DEF FindAlsoStable
<1> QED
  BY <1>0, <1>4, <1>6, <1>8

\* Making a block does not touch the ways there were.
LEMMA StillSupported ==
  ASSUME NEW E, \A v \in E : made'[v] = made[v]
  PROVE  Supported(E)' = Supported(E)
<1>1. ASSUME NEW p, NEW i \in 1..Len(p), p \in Seq(E), Len(p) > 0
      PROVE  p[i] \in E
  BY <1>1
<1>2. \A p : Way(E, p)' <=> Way(E, p)
  <2> TAKE p
  <2>1. ASSUME p \in Seq(E) PROVE \A i \in 1..(Len(p) - 1) : ParentsIn(E, p[i])' = ParentsIn(E, p[i])
    <3>1. Len(p) \in Nat /\ \A i \in 1..Len(p) : p[i] \in E
      BY <2>1
    <3> QED
      BY <3>1 DEF ParentsIn
  <2> QED
    BY <2>1 DEF Way
<1>3. ASSUME NEW p, Way(E, p) PROVE SeesEnough(p, Len(p))' <=> SeesEnough(p, Len(p))
  <2>1. Len(p) \in Nat /\ \A i \in 1..Len(p) : p[i] \in E
    BY <1>3 DEF Way
  <2>2. WitnessesOf({p[i] : i \in 1..Len(p)})' = WitnessesOf({p[i] : i \in 1..Len(p)})
    BY <2>1 DEF WitnessesOf
  <2> QED
    BY <2>2 DEF SeesEnough, WitnessesSeen
<1> QED
  BY <1>2, <1>3 DEF Supported
=============================================================================
