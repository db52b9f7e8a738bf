------------------------------- MODULE MCWallet -------------------------------
(***************************************************************************)
(* Two addresses and two transactions, for TLC.                            *)
(***************************************************************************)
EXTENDS Wallet

\* 1 pays both, 2 spends an output of 1 and pays the other address.
TwoTxns == 1..2
Receivers == <<{"own", "user"}, {"user"}>>
SpendsOne == <<{}, {<<1, "own">>}>>

=============================================================================
