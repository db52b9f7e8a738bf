--------------------------- MODULE ConciliumProofs ---------------------------
(***************************************************************************)
(* Theorems about the weights of a concilium: two quorums have a witness   *)
(* in common.  A sum is defined by a function that recurs on the sets; it  *)
(* is the number of units in what is weighed, and sets of units are        *)
(* counted with the theorems on finite sets.                               *)
(***************************************************************************)
EXTENDS Concilium, FiniteSetTheorems, WellFoundedInduction, TLAPS

\* Each member of S with every unit of its weight.
Units(wt, S) == {p \in S \X Nat : p[2] \in 1..wt[p[1]]}

\* f sums the weights of the subsets of S.
IsSum(wt, S, f) ==
  f = [s \in SUBSET S |->
         IF s = {} THEN 0
         ELSE wt[CHOOSE x \in s : TRUE] + f[s \ {CHOOSE x \in s : TRUE}]]

Weights == [w \in Witness |-> WitnessWeight(w)]

LEMMA Members ==
  /\ N \in Nat \ {0} /\ IsPoS \in BOOLEAN /\ ConfQuorum \in 0..N
  /\ Shares \in [Witness -> Nat \ {0}]
  /\ Addresses \in [Witness -> Witness]
  /\ \A i, j \in Witness : Addresses[i] = Addresses[j] => i = j
  /\ IsFiniteSet(Witness) /\ Cardinality(Witness) = N
<1>1. N \in Nat \ {0} /\ IsPoS \in BOOLEAN /\ ConfQuorum \in 0..N
  BY ConciliumAssumption DEF ConciliumAssumption
<1>2. /\ Shares \in [Witness -> Nat \ {0}]
      /\ Addresses \in [Witness -> Witness]
      /\ \A i, j \in Witness : Addresses[i] = Addresses[j] => i = j
  BY ConciliumAssumption DEF ConciliumAssumption
<1>3. IsFiniteSet(1..N) /\ Cardinality(1..N) = N
  BY <1>1, FS_Interval
<1> QED
  BY <1>1, <1>2, <1>3 DEF Witness

-----------------------------------------------------------------------------
(***************************************************************************)
(* Sums.                                                                   *)
(***************************************************************************)
\* With a member a set gets its units.
LEMMA UnitsOfMore ==
  ASSUME NEW wt \in [Witness -> Nat], NEW s \in SUBSET Witness, NEW x \in s,
         IsFiniteSet(Units(wt, s \ {x}))
  PROVE  /\ IsFiniteSet(Units(wt, s))
         /\ Cardinality(Units(wt, s)) = wt[x] + Cardinality(Units(wt, s \ {x}))
<1> DEFINE own == {x} \X (1..wt[x])
           rest == Units(wt, s \ {x})
<1>1. IsFiniteSet(own) /\ Cardinality(own) = wt[x]
  <2>1. IsFiniteSet(1..wt[x]) /\ Cardinality(1..wt[x]) = wt[x] /\ wt[x] \in Nat
    BY FS_Interval
  <2>2. IsFiniteSet({x}) /\ Cardinality({x}) = 1
    BY FS_Singleton
  <2>3. IsFiniteSet(own) /\ Cardinality(own) = Cardinality({x}) * Cardinality(1..wt[x])
    BY <2>1, <2>2, FS_Product
  <2> QED
    BY <2>1, <2>2, <2>3
<1>2. Units(wt, s) = own \cup rest
  BY DEF Units
<1>3. own \cap rest = {}
  BY DEF Units
<1>4. Cardinality(rest) \in Nat
  BY FS_CardinalityType
<1> HIDE DEF own, rest
<1>5. /\ IsFiniteSet(own \cup rest)
      /\ Cardinality(own \cup rest)
           = Cardinality(own) + Cardinality(rest) - Cardinality(own \cap rest)
  BY <1>1, FS_Union DEF rest
<1>6. Cardinality({}) = 0
  BY FS_EmptySet
<1> QED
  BY <1>1, <1>2, <1>3, <1>4, <1>5, <1>6 DEF rest

\* A set that lacks what its proper subsets have is not there: induction on the subsets.
LEMMA LeastSubset ==
  ASSUME NEW T \in SUBSET (SUBSET Witness), T # {}
  PROVE  \E s \in T : \A x \in s : s \ {x} \notin T
<1>1. T \subseteq FiniteSubsetsOf(Witness)
  BY Members, FS_Subset DEF FiniteSubsetsOf
<1>2. IsWellFoundedOn(StrictSubsetOrdering(Witness), FiniteSubsetsOf(Witness))
  BY FS_StrictSubsetOrderingWellFounded
<1>3. PICK s \in T : \A y \in T : <<y, s>> \notin StrictSubsetOrdering(Witness)
  BY <1>1, <1>2, WFMin, Zenon
<1>4. \A x \in s : <<s \ {x}, s>> \in StrictSubsetOrdering(Witness)
  BY DEF StrictSubsetOrdering
<1> QED
  BY <1>3, <1>4

LEMMA UnitsFinite ==
  ASSUME NEW wt \in [Witness -> Nat], NEW S \in SUBSET Witness
  PROVE  IsFiniteSet(Units(wt, S)) /\ Cardinality(Units(wt, S)) \in Nat
<1> DEFINE T == {s \in SUBSET Witness : ~IsFiniteSet(Units(wt, s))}
<1>1. T = {}
  <2>1. SUFFICES ASSUME T # {} PROVE FALSE
    OBVIOUS
  <2>2. PICK s \in T : \A x \in s : s \ {x} \notin T
    BY <2>1, LeastSubset
  <2>3. CASE s = {}
    <3>1. Units(wt, {}) = {}
      BY DEF Units
    <3> QED
      BY <2>2, <2>3, <3>1, FS_EmptySet
  <2>4. CASE s # {}
    <3>1. PICK x \in s : TRUE
      BY <2>4
    <3>2. IsFiniteSet(Units(wt, s \ {x}))
      BY <2>2
    <3> QED
      BY <2>2, <3>2, UnitsOfMore
  <2> QED
    BY <2>3, <2>4
<1> QED
  BY <1>1, FS_CardinalityType

\* A sum counts the units.
LEMMA SumIs ==
  ASSUME NEW wt \in [Witness -> Nat], NEW S \in SUBSET Witness,
         NEW f, IsSum(wt, S, f)
  PROVE  f[S] = Cardinality(Units(wt, S))
<1> DEFINE T == {s \in SUBSET S : f[s] # Cardinality(Units(wt, s))}
<1>1. T = {}
  <2>1. SUFFICES ASSUME T # {} PROVE FALSE
    OBVIOUS
  <2>2. T \in SUBSET (SUBSET Witness)
    OBVIOUS
  <2>3. PICK s \in T : \A x \in s : s \ {x} \notin T
    BY <2>1, <2>2, LeastSubset
  <2>4. CASE s = {}
    <3>1. Units(wt, {}) = {}
      BY DEF Units
    <3>2. f[{}] = 0
      BY DEF IsSum
    <3> QED
      BY <2>3, <2>4, <3>1, <3>2, FS_EmptySet
  <2>5. CASE s # {}
    <3> DEFINE x == CHOOSE y \in s : TRUE
    <3>1. x \in s
      BY <2>5
    <3>2. f[s] = wt[x] + f[s \ {x}]
      BY <2>3, <2>5 DEF IsSum
    <3> HIDE DEF x
    <3>3. f[s \ {x}] = Cardinality(Units(wt, s \ {x}))
      BY <2>3, <3>1
    <3>4. Cardinality(Units(wt, s)) = wt[x] + Cardinality(Units(wt, s \ {x}))
      BY <3>1, UnitsFinite, UnitsOfMore
    <3> QED
      BY <2>3, <3>2, <3>3, <3>4
  <2> QED
    BY <2>4, <2>5
<1> QED
  BY <1>1

\* There is a sum.
LEMMA SumExists ==
  ASSUME NEW wt \in [Witness -> Nat], NEW S \in SUBSET Witness
  PROVE  \E f : IsSum(wt, S, f)
<1> DEFINE f == [s \in SUBSET S |-> Cardinality(Units(wt, s))]
<1>1. ASSUME NEW s \in SUBSET S
      PROVE  f[s] = IF s = {} THEN 0
                    ELSE wt[CHOOSE x \in s : TRUE] + f[s \ {CHOOSE x \in s : TRUE}]
  <2>1. CASE s = {}
    <3>1. Units(wt, {}) = {}
      BY DEF Units
    <3> QED
      BY <2>1, <3>1, FS_EmptySet
  <2>2. CASE s # {}
    <3> DEFINE x == CHOOSE y \in s : TRUE
    <3>1. x \in s
      BY <2>2
    <3> HIDE DEF x
    <3>2. Cardinality(Units(wt, s)) = wt[x] + Cardinality(Units(wt, s \ {x}))
      BY <3>1, UnitsFinite, UnitsOfMore
    <3>3. f[s] = wt[x] + f[s \ {x}]
      BY <3>2
    <3> QED
      BY <2>2, <3>3 DEF x
  <2> QED
    BY <2>1, <2>2
<1> HIDE DEF f
<1>2. f = [s \in SUBSET S |-> f[s]]
  BY DEF f
<1>3. IsSum(wt, S, f)
  BY <1>1, <1>2 DEF IsSum
<1> QED
  BY <1>3

-----------------------------------------------------------------------------
(***************************************************************************)
(* Weights and shares.                                                     *)
(***************************************************************************)
\* Every member has one place in the list, and its weight is a number.
LEMMA Places ==
  /\ \A w \in Witness : Position(w) \in Witness /\ Addresses[Position(w)] = w
  /\ Weights \in [Witness -> Nat]
<1>1. Addresses \in Injection(Witness, Witness)
  BY Members DEF Injection, IsInjective
<1>2. Addresses \in Surjection(Witness, Witness)
  BY <1>1, Members, FS_Injection
<1>3. ASSUME NEW w \in Witness
      PROVE  Position(w) \in Witness /\ Addresses[Position(w)] = w
  <2>1. \E i \in Witness : Addresses[i] = w
    BY <1>2 DEF Surjection
  <2> QED
    BY <2>1 DEF Position
<1>4. \A w \in Witness : WitnessWeight(w) \in Nat
  BY <1>3, Members DEF WitnessWeight
<1> QED
  BY <1>3, <1>4 DEF Weights

LEMMA WeightIs ==
  ASSUME NEW S \in SUBSET Witness
  PROVE  WeightOf(S) = Cardinality(Units(Weights, S))
<1> DEFINE Is(g) == g = [s \in SUBSET S |->
                           IF s = {} THEN 0
                           ELSE WitnessWeight(CHOOSE x \in s : TRUE)
                                  + g[s \ {CHOOSE x \in s : TRUE}]]
           f == CHOOSE g : Is(g)
<1>1. \A g : Is(g) <=> IsSum(Weights, S, g)
  <2>1. \A s \in SUBSET S : s # {} =>
          WitnessWeight(CHOOSE x \in s : TRUE) = Weights[CHOOSE x \in s : TRUE]
    BY DEF Weights
  <2> QED
    BY <2>1 DEF IsSum
<1>2. \E g : Is(g)
  <2>1. \E g : IsSum(Weights, S, g)
    BY Places, SumExists
  <2> HIDE DEF Is
  <2> QED
    BY <1>1, <2>1
<1>3. WeightOf(S) = f[S]
  BY DEF WeightOf, MapThenSumSet, MapThenFoldSet
<1> HIDE DEF Is
<1>4. Is(f)
  BY <1>2
<1> HIDE DEF f
<1> QED
  BY <1>1, <1>3, <1>4, Places, SumIs

LEMMA SharesAre ==
  ASSUME NEW S \in SUBSET Witness
  PROVE  SharesOf(S) = Cardinality(Units(Shares, S))
<1> DEFINE f == CHOOSE g : IsSum(Shares, S, g)
<1>1. Shares \in [Witness -> Nat]
  BY Members
<1>2. IsSum(Shares, S, f)
  BY <1>1, SumExists, Zenon
<1>3. SharesOf(S) = f[S]
  BY DEF SharesOf, MapThenSumSet, MapThenFoldSet, IsSum
<1> HIDE DEF f
<1> QED
  BY <1>1, <1>2, <1>3, SumIs

\* Two groups with nobody in common weigh no more than the concilium.
LEMMA ApartWeigh ==
  ASSUME NEW S \in SUBSET Witness, NEW T \in SUBSET Witness, S \cap T = {}
  PROVE  /\ WeightOf(S) \in Nat /\ WeightOf(T) \in Nat /\ WeightOf(Witness) \in Nat
         /\ WeightOf(S) + WeightOf(T) <= WeightOf(Witness)
<1> DEFINE U(s) == Units(Weights, s)
<1>1. \A s \in SUBSET Witness :
        WeightOf(s) = Cardinality(U(s)) /\ IsFiniteSet(U(s)) /\ Cardinality(U(s)) \in Nat
  BY WeightIs, Places, UnitsFinite
<1>2. U(S) \cap U(T) = {} /\ U(S) \cup U(T) \in SUBSET U(Witness)
  BY DEF Units
<1> HIDE DEF U
<1>3. Cardinality(U(S) \cup U(T)) = Cardinality(U(S)) + Cardinality(U(T)) - Cardinality({})
  BY <1>1, <1>2, FS_Union
<1>4. Cardinality(U(S) \cup U(T)) <= Cardinality(U(Witness))
  <2>1. IsFiniteSet(U(Witness))
    BY <1>1
  <2> QED
    BY <1>2, <2>1, FS_Subset
<1>5. Cardinality({}) = 0
  BY FS_EmptySet
<1>6. /\ Cardinality(U(S)) \in Nat /\ WeightOf(S) = Cardinality(U(S))
      /\ Cardinality(U(T)) \in Nat /\ WeightOf(T) = Cardinality(U(T))
      /\ Cardinality(U(Witness)) \in Nat /\ WeightOf(Witness) = Cardinality(U(Witness))
  BY <1>1
<1> QED
  BY <1>3, <1>4, <1>5, <1>6

\* The members weigh one each, or twice the shares there are.
LEMMA WholeWeight ==
  /\ ~IsPoS => WeightOf(Witness) = N
  /\ IsPoS => WeightOf(Witness) <= 2 * TotalShares
  /\ TotalShares \in Nat \ {0}
<1>1. ASSUME ~IsPoS PROVE WeightOf(Witness) = N
  <2>1. \A w \in Witness : Weights[w] = 1
    BY <1>1 DEF Weights, WitnessWeight
  <2>2. Units(Weights, Witness) = Witness \X {1}
    BY <2>1 DEF Units
  <2>3. IsFiniteSet({1}) /\ Cardinality({1}) = 1
    BY FS_Singleton
  <2>4. Cardinality(Witness \X {1}) = Cardinality(Witness) * Cardinality({1})
    BY <2>3, Members, FS_Product
  <2>5. Cardinality(Units(Weights, Witness)) = N
    BY <2>2, <2>3, <2>4, Members
  <2> QED
    BY <2>5, WeightIs
<1>2. ASSUME IsPoS PROVE WeightOf(Witness) <= 2 * TotalShares
  <2> DEFINE A == Units(Weights, Witness)
             B == Units(Shares, Witness) \X {0, 1}
             f == [p \in A |-> <<<<Position(p[1]), (p[2] + 1) \div 2>>, p[2] % 2>>]
  <2>1. \A w \in Witness : Weights[w] = 2 * Shares[Position(w)]
    BY <1>2 DEF Weights, WitnessWeight
  <2>2. f \in [A -> B]
    <3> SUFFICES ASSUME NEW p \in A
                 PROVE  <<<<Position(p[1]), (p[2] + 1) \div 2>>, p[2] % 2>> \in B
      OBVIOUS
    <3> DEFINE i == Position(p[1])
               k == p[2]
               m == Shares[i]
    <3>1. i \in Witness /\ m \in Nat /\ k \in 1..(2 * m)
      BY <2>1, Places, Members DEF Units
    <3> HIDE DEF i, k, m
    <3>2. (k + 1) \div 2 \in 1..m /\ k % 2 \in {0, 1}
      BY <3>1
    <3> QED
      BY <3>1, <3>2 DEF Units, i, k, m
  <2>3. ASSUME NEW p \in A, NEW q \in A, f[p] = f[q]
        PROVE  p = q
    <3>1. /\ p = <<p[1], p[2]>> /\ p[1] \in Witness /\ p[2] \in Nat
          /\ q = <<q[1], q[2]>> /\ q[1] \in Witness /\ q[2] \in Nat
      BY DEF Units
    <3>2. /\ Position(p[1]) = Position(q[1])
          /\ (p[2] + 1) \div 2 = (q[2] + 1) \div 2 /\ p[2] % 2 = q[2] % 2
      BY <2>3
    <3>3. p[1] = q[1]
      BY <3>1, <3>2, Places
    <3>4. p[2] = q[2]
      BY <3>1, <3>2
    <3> QED
      BY <3>1, <3>3, <3>4
  <2>4. f \in Injection(A, B)
    BY <2>2, <2>3 DEF Injection, IsInjective
  <2>5. IsFiniteSet(B) /\ Cardinality(B) = 2 * TotalShares
    <3>1. /\ IsFiniteSet(Units(Shares, Witness))
          /\ Cardinality(Units(Shares, Witness)) \in Nat
          /\ TotalShares = Cardinality(Units(Shares, Witness))
      BY Members, UnitsFinite, SharesAre DEF TotalShares
    <3>2. IsFiniteSet({0, 1}) /\ Cardinality({0, 1}) = 2
      <4>0. IsFiniteSet({0}) /\ 1 \notin {0}
        BY FS_Singleton
      <4>1. IsFiniteSet({0} \cup {1}) /\ Cardinality({0} \cup {1}) = Cardinality({0}) + 1
        BY <4>0, FS_AddElement
      <4>2. {0} \cup {1} = {0, 1}
        OBVIOUS
      <4> QED
        BY <4>1, <4>2, FS_Singleton
    <3>3. /\ IsFiniteSet(B)
          /\ Cardinality(B) = Cardinality(Units(Shares, Witness)) * Cardinality({0, 1})
      BY <3>1, <3>2, FS_Product
    <3> QED
      BY <3>1, <3>2, <3>3
  <2> HIDE DEF f, B
  <2>6. Cardinality(A) <= Cardinality(B)
    BY <2>4, <2>5, FS_Injection
  <2> QED
    BY <2>5, <2>6, WeightIs
<1>3. TotalShares \in Nat \ {0}
  <2>1. /\ IsFiniteSet(Units(Shares, Witness))
        /\ Cardinality(Units(Shares, Witness)) \in Nat
        /\ TotalShares = Cardinality(Units(Shares, Witness))
    BY Members, UnitsFinite, SharesAre DEF TotalShares
  <2>2. <<1, 1>> \in Units(Shares, Witness)
    <3>1. 1 \in Witness /\ Shares[1] \in Nat \ {0}
      BY Members DEF Witness
    <3>2. <<1, 1>> \in Witness \X Nat /\ 1 \in 1..Shares[1]
      BY <3>1
    <3> QED
      BY <3>2 DEF Units
  <2> QED
    BY <2>1, <2>2, FS_EmptySet
<1> QED
  BY <1>1, <1>2, <1>3

\* Who is alone is a quorum.
LEMMA AloneIsQuorum ==
  ASSUME N = 1
  PROVE  Witness = {1} /\ WeightOf(Witness) \in Nat /\ WeightOf(Witness) >= Quorum
<1>1. Witness = {1} /\ 1 \in Witness
  BY DEF Witness
<1>2. ASSUME NEW wt \in [Witness -> Nat]
      PROVE  Cardinality(Units(wt, Witness)) = wt[1]
  <2>1. Witness \ {1} = {} /\ Units(wt, {}) = {}
    BY <1>1 DEF Units
  <2>2. Cardinality(Units(wt, Witness)) = wt[1] + Cardinality(Units(wt, Witness \ {1}))
    BY <1>1, UnitsFinite, UnitsOfMore
  <2> QED
    BY <1>1, <2>1, <2>2, FS_EmptySet
<1>3. WeightOf(Witness) = WitnessWeight(1)
  BY <1>1, <1>2, Places, WeightIs DEF Weights
<1>4. TotalShares = Shares[1] /\ Shares[1] \in Nat
  BY <1>1, <1>2, Members, SharesAre DEF TotalShares
<1>5. Position(1) = 1
  BY <1>1, Places
<1> QED
  BY <1>1, <1>3, <1>4, <1>5, Members DEF Quorum, WitnessWeight

-----------------------------------------------------------------------------
\* Two quorums have a witness in common, for any members and any stakes: the quorum of
\* a proof-of-stake concilium and the default of a round-robin one are more than half
\* of the weight (getQuorum).  One that a definition brings along may be anything; it
\* has to be a majority.
THEOREM QuorumsMeet ==
  ASSUME ~IsPoS /\ ConfQuorum # 0 => 2 * ConfQuorum > N,
         NEW S \in SUBSET Witness, NEW T \in SUBSET Witness,
         WeightOf(S) >= Quorum, WeightOf(T) >= Quorum
  PROVE  S \cap T # {}
<1> SUFFICES ASSUME S \cap T = {}
             PROVE  FALSE
  OBVIOUS
<1>1. /\ WeightOf(S) \in Nat /\ WeightOf(T) \in Nat /\ WeightOf(Witness) \in Nat
      /\ WeightOf(S) + WeightOf(T) <= WeightOf(Witness)
  BY ApartWeigh
<1>2. CASE IsPoS
  <2>1. Quorum \in Int /\ 2 * Quorum > 2 * TotalShares
    BY <1>2, WholeWeight DEF Quorum
  <2> QED
    BY <1>1, <1>2, <2>1, WholeWeight
<1>3. CASE ~IsPoS
  <2>1. Quorum \in Int /\ 2 * Quorum > N
    BY <1>3, Members DEF Quorum
  <2> QED
    BY <1>1, <1>3, <2>1, WholeWeight, Members
<1> QED
  BY <1>2, <1>3

=============================================================================
