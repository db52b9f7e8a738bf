-------------------------------- MODULE Patch --------------------------------
(***************************************************************************)
(* PatchDB (src/storage/patch.js): what the blocks of a branch change,     *)
(* kept beside the storage until they are final.                           *)
(*                                                                         *)
(* coins[h] holds the unspent outputs of transaction h with their amounts, *)
(* spent[<<h, i>>] the transaction that spends output i of h, level[c] how *)
(* many blocks of concilium c the patch comes from.  The data of a         *)
(* contract say how often each transaction has changed them.  Contracts    *)
(* are addressed by name, each belongs to a concilium.                     *)
(***************************************************************************)
EXTENDS Integers, SequencesExt

CONSTANT ConciliumOfContract   \* per address: getConciliumId() of the contract

Empty == [k \in {} |-> k]   \* an empty map
NoPatch == [coins |-> Empty, spent |-> Empty, level |-> Empty,
            contracts |-> Empty, receipts |-> Empty, concilium |-> 0]

At(f, k, default) == IF k \in DOMAIN f THEN f[k] ELSE default
Less(f, K) == Restrict(f, DOMAIN f \ K)

-----------------------------------------------------------------------------
(***************************************************************************)
(* One patch.                                                              *)
(***************************************************************************)
\* spendCoins: of the patch's own version of the outputs, or of the given one
SpendCoins(p, outputs, h, i, t) ==
  [p EXCEPT !.coins = (h :> Less(At(@, h, outputs), {i})) @@ @,
            !.spent = (<<h, i>> :> t) @@ @]

CreateCoins(p, h, i, amount) ==
  [p EXCEPT !.coins = (h :> ((i :> amount) @@ At(@, h, Empty))) @@ @]

SetUtxo(p, h, outputs) == [p EXCEPT !.coins = (h :> outputs) @@ @]

SpentOutputs(p, h) == {i \in {o[2] : o \in DOMAIN p.spent} : <<h, i>> \in DOMAIN p.spent}

SetConciliumId(p, c) ==
  [p EXCEPT !.concilium = c, !.level = (c :> At(@, c, 0) + 1) @@ @]

\* setContract: of a contract that is in the patch already only the data are taken.
SetContract(p, addr, contract) ==
  [p EXCEPT !.contracts =
     (addr :> IF addr \in DOMAIN @ THEN [@[addr] EXCEPT !.data = contract.data]
                                   ELSE contract) @@ @]

\* setReceipt, TxReceipt.merge
SetReceipt(p, t, r) ==
  [p EXCEPT !.receipts =
     (t :> IF t \notin DOMAIN @ THEN r
           ELSE [ok |-> @[t].ok /\ r.ok, used |-> r.used,
                 internal |-> @[t].internal \cup r.internal]) @@ @]

-----------------------------------------------------------------------------
(***************************************************************************)
(* p.merge(q): what both left unspent stays unspent.                       *)
(***************************************************************************)
\* Mutant: two spendings of one output always collide.
MergeFailsOnSame(p, q) ==
  \E o \in DOMAIN p.spent \cap DOMAIN q.spent : o[1] \in DOMAIN p.coins \cap DOMAIN q.coins

\* "unexpected fork", "Patch merge: conflict", "Tx Collision detected"
MergeFails(p, q) ==
  \/ p.concilium # 0 /\ p.concilium = q.concilium /\ p.level[p.concilium] = q.level[p.concilium]
  \/ \E o \in DOMAIN p.spent \cap DOMAIN q.spent :
       o[1] \in DOMAIN p.coins \cap DOMAIN q.coins /\ p.spent[o] # q.spent[o]
  \/ \E t \in DOMAIN p.receipts \cap DOMAIN q.receipts : p.receipts[t] # q.receipts[t]

MergeCoins(p, q) ==
  [h \in DOMAIN p.coins \cup DOMAIN q.coins |->
     IF h \notin DOMAIN q.coins THEN p.coins[h]
     ELSE Restrict(q.coins[h],
                   DOMAIN q.coins[h] \cap DOMAIN At(p.coins, h, q.coins[h]))]

\* "for same concilium: the highest level will win"; no level compares as no.
PatchWins(p, q, addr) ==
  LET c == ConciliumOfContract[addr]
  IN  c \in DOMAIN p.level \cap DOMAIN q.level /\ q.level[c] >= p.level[c]

\* Mutant: the levels are not looked at.
MergeContractsFirst(p, q, prefer) ==
  IF prefer THEN q.contracts @@ p.contracts ELSE p.contracts @@ q.contracts

MergeContracts(p, q, prefer) ==
  [addr \in DOMAIN p.contracts \cup DOMAIN q.contracts |->
     IF addr \in DOMAIN q.contracts
        /\ (addr \notin DOMAIN p.contracts \/ prefer \/ PatchWins(p, q, addr))
       THEN q.contracts[addr] ELSE p.contracts[addr]]

Merge(p, q, prefer) ==
  [coins |-> MergeCoins(p, q),
   spent |-> q.spent @@ p.spent,
   level |-> [c \in DOMAIN p.level \cup DOMAIN q.level |->
                Max({At(p.level, c, 0), At(q.level, c, 0)})],
   contracts |-> MergeContracts(p, q, prefer),
   receipts |-> q.receipts @@ p.receipts,
   concilium |-> 0]

-----------------------------------------------------------------------------
(***************************************************************************)
(* p.purge(q): q has been applied to the storage.                          *)
(***************************************************************************)
\* UTXO.equals and _spendingTnxsEqual
Unchanged(p, q, h) ==
  /\ p.coins[h] = q.coins[h]
  /\ SpentOutputs(p, h) = SpentOutputs(q, h)
  /\ \A i \in SpentOutputs(p, h) : p.spent[<<h, i>>] = q.spent[<<h, i>>]

\* Only the data of two contracts are compared.
SameContract(p, q, addr) == p.contracts[addr].data = q.contracts[addr].data

\* Mutant: outputs that are spent on disk stay in the patch.
PurgeCoinsEqual(p, q, kept) == Restrict(p.coins, kept)

PurgeCoins(p, q, kept) ==
  [h \in kept |-> Less(p.coins[h],
                       IF h \in DOMAIN q.coins THEN SpentOutputs(q, h) ELSE {})]

Purged(p, q) ==
  LET both == DOMAIN p.coins \cap DOMAIN q.coins
      kept == DOMAIN p.coins \ {h \in both : Unchanged(p, q, h)}
      late == {o \in DOMAIN q.spent :
                 o[1] \in kept \cap both /\ o[2] \in DOMAIN p.coins[o[1]]}
  IN  [p EXCEPT
         !.coins = PurgeCoins(p, q, kept),
         !.spent = Restrict(q.spent, late)
                     @@ Restrict(@, {o \in DOMAIN @ : o[1] \in kept}),
         !.contracts = Less(@, {addr \in DOMAIN @ \cap DOMAIN q.contracts :
                                  SameContract(p, q, addr)}),
         !.receipts = Less(@, DOMAIN q.receipts)]

=============================================================================
