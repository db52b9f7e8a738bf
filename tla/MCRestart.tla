------------------------------ MODULE MCRestart ------------------------------
(***************************************************************************)
(* Two nodes of witnesses and one that crashes, for TLC.                   *)
(***************************************************************************)
EXTENDS Restart

\* Conciliums 1 and 2 share a node.  Two transactions are of concilium 3, the second of
\* them spends the output that the one of concilium 1 spends.
TwoHomes == <<1, 1, 2>>
OfThreeAndOne == <<3, 3, 1>>
SecondThirdCollide == <<1, 2, 2>>
=============================================================================
