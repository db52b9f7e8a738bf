-------------------------------- MODULE MCBft --------------------------------
(***************************************************************************)
(* Small conciliums for TLC.                                               *)
(***************************************************************************)
EXTENDS Bft

\* Members are listed in the order of their addresses.
InOrder == [i \in 1..N |-> i]
Equal == [i \in 1..N |-> 1]
\* PoS: the first member holds a quorum by itself when there are two.
HeavyFirst == [i \in 1..N |-> IF i = 1 THEN 3 ELSE 1]

Everyone == 1..N
\* The first in the list of proposers is dead.
WithoutFirst == 2..N

FullMesh == {{w, v} : w, v \in Live} \ {{w} : w \in Live}
\* Witness 2 hears everyone, 1 and 3 hear each other only through it.
Line == {{w, w + 1} : w \in 1..(N - 1)}

SameSeed == [b \in 0..MaxBlocks |-> 0]
\* Seeds are sums of the bytes of a hash: further apart than a sequence of rounds.
FarSeeds == [b \in 0..MaxBlocks |-> 500 + 700 * b]

\* consensusTimeouts of config/prod.conf.js, in units of 10 seconds.
ProdTimeouts == [p \in Phases |-> IF p \in {"ROUND_CHANGE", "VOTE_BLOCK"} THEN 2 ELSE 3]

=============================================================================
