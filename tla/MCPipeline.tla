------------------------------ MODULE MCPipeline ------------------------------
(***************************************************************************)
(* A small graph of blocks and two peers, for TLC.                         *)
(***************************************************************************)
EXTENDS Pipeline, TLC

\* A fork that is joined; when 2 is invalid so is 3, which stands on it.
Join == <<{0}, {0}, {1, 2}>> @@ (0 :> {})

\* The first peer has all, the second the invalid branch alone.
AllHeld == [p \in Peers |-> IF p = 1 THEN Blocks ELSE {0, 2}]

=============================================================================
