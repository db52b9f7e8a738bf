-------------------------------- MODULE Ledger --------------------------------
(***************************************************************************)
(* What finality promises to the users of the network: transactions are    *)
(* applied for good, node after node, and no two that spend one output are *)
(* ever applied, not even by two different nodes.                          *)
(***************************************************************************)
CONSTANTS Replicas, Transactions, Input

VARIABLE applied   \* applied[n]: the transactions n has applied

LedgerInit == applied = [n \in Replicas |-> {}]

Compatible(T) == \A t, u \in T : Input[t] = Input[u] => t = u

Apply(n, T) ==
  /\ Compatible(T \cup UNION {applied[m] : m \in Replicas})
  /\ applied' = [applied EXCEPT ![n] = @ \cup T]

LedgerNext == \E n \in Replicas : \E T \in SUBSET Transactions : Apply(n, T)

LedgerSpec == LedgerInit /\ [][LedgerNext]_applied

=============================================================================
