------------------------------ MODULE MCFinality ------------------------------
(***************************************************************************)
(* Small networks for TLC.                                                 *)
(***************************************************************************)
EXTENDS Finality

\* Every concilium has a transaction; the first two spend one output.
TxnPerConcilium == Conciliums
FirstTwoCollide == [t \in Conciliums |-> IF t = 2 THEN 1 ELSE t]
\* Two outputs: 1 and 4 are spent by the first concilium, each in a race.
TwoRaces == <<1, 1, 2, 2>>
TwoRacesOf == <<1, 2, 3, 1>>
FourTxns == 1..4

OwnTxn == [t \in Conciliums |-> t]

\* Every concilium runs on a node of its own.
OwnHome == [c \in Conciliums |-> c]

=============================================================================
