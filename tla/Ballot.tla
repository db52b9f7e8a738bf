-------------------------------- MODULE Ballot --------------------------------
(***************************************************************************)
(* What the consensus of a concilium promises, with nothing of how: blocks *)
(* are voted for, votes are never taken back, and a witness commits a      *)
(* block only with the signatures of a quorum that voted for it, having    *)
(* voted for it too.  It does not promise one block per parent: a witness  *)
(* whose round failed is free to vote for another block.                   *)
(***************************************************************************)
EXTENDS Sequences

CONSTANTS
  Voters,     \* the witnesses that run
  Proposals,  \* the blocks there may be
  Quorums     \* the sets of voters that are a quorum

VARIABLES
  votes,    \* votes[w]: the blocks w has voted for
  ledger    \* ledger[w]: what w has committed, in order, with the signers

ballotVars == <<votes, ledger>>

BallotInit ==
  /\ votes = [w \in Voters |-> {}]
  /\ ledger = [w \in Voters |-> << >>]

CastVote(w, b) ==
  /\ votes' = [votes EXCEPT ![w] = @ \cup {b}]
  /\ UNCHANGED ledger

CommitWith(w, b, signers) ==
  /\ b \in votes[w]
  /\ \A i \in signers : b \in votes[i]
  /\ ledger' = [ledger EXCEPT ![w] = Append(@, [block |-> b, signers |-> signers])]
  /\ UNCHANGED votes

BallotNext ==
  \E w \in Voters : \E b \in Proposals :
    \/ CastVote(w, b)
    \/ \E signers \in Quorums : CommitWith(w, b, signers)

BallotSpec == BallotInit /\ [][BallotNext]_ballotVars

=============================================================================
