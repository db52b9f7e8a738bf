------------------------------ MODULE Concilium ------------------------------
(***************************************************************************)
(* A concilium: the group of witnesses that votes for blocks together      *)
(* (src/conciliums).  This module holds its definition (members, weights,  *)
(* quorum) and the round counters BftConsensus drives: which round it is   *)
(* and whose turn it is to propose.                                        *)
(*                                                                         *)
(* Witnesses are the positions of their addresses in the sorted list       *)
(* BftConsensus keeps (_arrAddresses); Addresses is the order in which the *)
(* definition lists them, the one proposers are taken from.                *)
(***************************************************************************)
EXTENDS Integers, Sequences, FiniteSetsExt

CONSTANTS
  N,            \* getMembersCount()
  Addresses,    \* getAddresses(): a permutation of 1..N
  IsPoS,        \* proof of stake (TRUE) or round robin (FALSE)
  Shares,       \* _arrShares: the stake of each listed member (all 1 for RR)
  ConfQuorum,   \* _data.quorum of a RR definition, 0 when it has none
  SeqLength     \* _nSeqLength: rounds before the counters start over

Witness == 1..N

ASSUME ConciliumAssumption ==
  /\ N \in Nat \ {0}
  /\ Addresses \in [Witness -> Witness]
  /\ \A i, j \in Witness : Addresses[i] = Addresses[j] => i = j
  /\ IsPoS \in BOOLEAN
  /\ Shares \in [Witness -> Nat \ {0}]
  /\ ConfQuorum \in 0..N
  /\ SeqLength \in Nat \ {0}

-----------------------------------------------------------------------------
(***************************************************************************)
(* Weights and quorum.  A PoS weight is share/total and its quorum         *)
(* (total/2 + 1)/total; both are kept as integers, scaled by 2*total.      *)
(***************************************************************************)
SharesOf(I) == MapThenSumSet(LAMBDA i : Shares[i], I)

TotalShares == SharesOf(Witness)

Position(w) == CHOOSE i \in Witness : Addresses[i] = w

WitnessWeight(w) == IF IsPoS THEN 2 * Shares[Position(w)] ELSE 1

Quorum ==
  CASE IsPoS /\ N = 1       -> 2 * TotalShares
    [] IsPoS /\ N # 1       -> TotalShares + 2
    [] ~IsPoS /\ ConfQuorum # 0 -> ConfQuorum
    [] OTHER                -> N \div 2 + 1

\* The weight of a set of witnesses, the sum _majority accumulates.
WeightOf(S) == MapThenSumSet(WitnessWeight, S)

-----------------------------------------------------------------------------
(***************************************************************************)
(* The round counters.  seed is set whenever blocks become final, at any   *)
(* moment; base is the seed the running sequence of rounds started from.   *)
(***************************************************************************)
Rounds == [seed : Nat, base : Nat, local : 0..(SeqLength - 1)]

InitRounds(c) == [seed |-> c.seed, base |-> c.seed, local |-> 0]

\* Mutant: one round too many before the sequence starts over.
NextRoundLate(c) ==
  IF c.local >= SeqLength THEN InitRounds(c) ELSE [c EXCEPT !.local = @ + 1]

NextRound(c) ==
  IF c.local + 1 >= SeqLength THEN InitRounds(c)
                              ELSE [c EXCEPT !.local = @ + 1]

ChangeSeed(c, seed) == [c EXCEPT !.seed = seed]

GetRound(c) == c.base + c.local

Distance(a, b) == IF a >= b THEN a - b ELSE b - a

\* Mutant: the sequence starts over, the agreed round is not looked at.
AdjustRoundToBase(c, roundNo) == InitRounds(c)

AdjustRound(c, roundNo) ==
  LET d == IF c.base = 0 /\ c.seed # 0 THEN InitRounds(c) ELSE c
      diff == Distance(roundNo, d.base)
  IN  IF diff < SeqLength THEN [d EXCEPT !.local = diff] ELSE d

(***************************************************************************)
(* The proposer of a round.  Round robin takes the members in turn.  PoS   *)
(* gives every member as many of the TotalShares slots as it has shares    *)
(* and walks the slots with the line 1289x + 3559.                         *)
(***************************************************************************)
FindIdxByRound(slot) ==
  LET s == slot % TotalShares
  IN  CHOOSE i \in Witness : /\ SharesOf(1..(i - 1)) <= s
                             /\ s < SharesOf(1..i)

GetSlot(x) == 1289 * x + 3559

ProposerOf(round) ==
  IF IsPoS THEN Addresses[FindIdxByRound(GetSlot(round))]
           ELSE Addresses[(round % N) + 1]

\* Mutant: the base of the sequence is left out.
GetProposerAddressOfLocal(c) == ProposerOf(c.local)

GetProposerAddress(c) == ProposerOf(GetRound(c))

=============================================================================
