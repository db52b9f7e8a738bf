------------------------------ MODULE MCMempool ------------------------------
(***************************************************************************)
(* A witness of the first of three conciliums, for TLC.                    *)
(***************************************************************************)
EXTENDS Mempool

\* 1 and 3 race for an output, 2 may be in a block with 1, 4 spends what 3 pays.
FourTxns == 1..4
Inputs == <<"a", "b", "a", "of3">>
Creators == <<0, 0, 0, 3>>
Concilia == <<1, 1, 2, 3>>

=============================================================================
