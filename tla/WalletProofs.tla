---------------------------- MODULE WalletProofs ----------------------------
(***************************************************************************)
(* Proofs about Wallet, for every set of addresses and transactions.       *)
(***************************************************************************)
EXTENDS Wallet, FiniteSetTheorems, TLAPS

\* What a table of watched addresses is, and who is where.
IsWallet(w) == w = [addresses |-> w.addresses, last |-> w.last]

Shape ==
  /\ IsWallet(wallet) /\ IsWallet(stored)
  /\ call = [u \in Callers |-> call[u]]

\* From the watching of an address to the end of the index
Busy == \E u \in Callers : call[u].stage \in {"erase", "flush", "scan", "write"}

\* The inductive invariant: who builds the index has the watched addresses in memory, and
\* somebody who has to load them finds them on disk.
WatchInv ==
  /\ Shape
  /\ Busy => kept \subseteq wallet.addresses
  /\ kept \subseteq Loaded.addresses
  /\ WatchIsKept

-----------------------------------------------------------------------------
\* At the start nothing is watched.
LEMMA InitWatch == Init => WatchInv
  BY DEF Init, WatchInv, Shape, IsWallet, WatchIsKept, Busy, Unread, Started, Idle, Callers, At

\* Watching an address loads the table and adds to it, in memory and on disk.
LEMMA WatchAdds ==
  ASSUME WatchInv, NEW a \in Addresses, Watch(a)
  PROVE  /\ IsWallet(wallet') /\ IsWallet(stored')
         /\ kept' \subseteq wallet'.addresses /\ kept' \subseteq stored'.addresses
  BY DEF WatchInv, Shape, IsWallet, Watch, FlushAddresses, Loaded

\* New outputs change no address.
LEMMA WriteKeeps ==
  ASSUME NEW w, NEW found, IsWallet(w), IsWallet(stored), WriteNewUtxos(w, found)
  PROVE  /\ IsWallet(wallet') /\ IsWallet(stored')
         /\ wallet'.addresses = w.addresses /\ stored'.addresses = stored.addresses
  BY DEF IsWallet, WriteNewUtxos

\* Every step keeps the invariant.
LEMMA StepWatch == WatchInv /\ [Next]_vars => WatchInv'
<1> SUFFICES ASSUME WatchInv, [Next]_vars PROVE WatchInv'
  OBVIOUS
<1> USE DEF WatchInv
<1>1. ASSUME NEW T \in SUBSET Txns, ApplyToWallet(T) PROVE WatchInv'
  <2>1. IsWallet(Loaded)
    BY DEF Shape, Loaded
  <2>2. PICK found : WriteNewUtxos(Loaded, found)
    BY <1>1 DEF ApplyToWallet
  <2>3. /\ IsWallet(wallet') /\ IsWallet(stored')
        /\ wallet'.addresses = Loaded.addresses /\ stored'.addresses = stored.addresses
    BY <2>1, <2>2, WriteKeeps DEF Shape
  <2>4. kept' = kept /\ call' = call
    BY <1>1 DEF ApplyToWallet
  <2>5. kept' \subseteq wallet'.addresses
    BY <2>3, <2>4
  <2>6. kept' \subseteq Loaded'.addresses
    BY <2>3, <2>4, <2>5 DEF Loaded, Unread
  <2> QED
    BY <2>3, <2>4, <2>5, <2>6 DEF Shape, Busy, WatchIsKept, At
<1>2. ASSUME ApplyBatch \/ CloseDb \/ OpenDb \/ ListNext \/ EndList
      PROVE  WatchInv'
  <2>1. wallet' = wallet /\ stored' = stored /\ kept' = kept /\ call' = call
    BY <1>2 DEF ApplyBatch, CloseDb, OpenDb, ListNext, EndList, disk
  <2> QED
    BY <2>1 DEF Shape, IsWallet, Busy, Loaded, WatchIsKept, At
<1>3. ASSUME NEW a \in Addresses, StartList(a) PROVE WatchInv'
  <2>1. wallet' = Loaded /\ stored' = stored /\ kept' = kept /\ call' = call
    BY <1>3 DEF StartList, disk
  <2> QED
    BY <2>1 DEF Shape, IsWallet, Busy, Loaded, WatchIsKept, At
<1>4. ASSUME NEW a \in Addresses, WatchAddress(a) PROVE WatchInv'
  <2>1. PICK stage \in {"idle", "erase"} : Goes("rpc", stage, {})
    BY <1>4 DEF WatchAddress
  <2>2. call' = [u \in Callers |-> call'[u]]
    BY <2>1 DEF Goes, Shape
  <2>3. /\ IsWallet(wallet') /\ IsWallet(stored')
        /\ kept' \subseteq wallet'.addresses /\ kept' \subseteq stored'.addresses
    BY <1>4, WatchAdds DEF WatchAddress
  <2> QED
    BY <2>2, <2>3 DEF Shape, Loaded, WatchIsKept
<1>5. ASSUME EnsureWalletIndex PROVE WatchInv'
  <2>1. call' = [u \in Callers |-> call'[u]]
    BY <1>5 DEF EnsureWalletIndex, Goes, Shape
  <2>2. CASE Watch(Own)
    <3>1. /\ IsWallet(wallet') /\ IsWallet(stored')
          /\ kept' \subseteq wallet'.addresses /\ kept' \subseteq stored'.addresses
      BY <2>2, WatchAdds, WalletAssumption
    <3> QED
      BY <2>1, <3>1 DEF Shape, Loaded, WatchIsKept
  <2>3. CASE wallet' = Loaded /\ UNCHANGED <<stored, kept>>
    <3>1. (\E u \in Callers : At(u, "flush")) => (\E u \in Callers : At(u, "flush"))'
      BY <1>5 DEF EnsureWalletIndex, Goes, Shape, At, Callers
    <3> QED
      BY <2>1, <2>3, <3>1 DEF Shape, IsWallet, Loaded, WatchIsKept
  <2> QED
    BY <1>5, <2>2, <2>3 DEF EnsureWalletIndex
<1>6. ASSUME NEW u \in Callers, Erase(u) PROVE WatchInv'
  <2>1. /\ call' = [v \in Callers |-> call'[v]] /\ call'[u].stage = "flush"
        /\ wallet' = wallet /\ kept' = kept /\ stored' = [addresses |-> {}, last |-> 0]
    BY <1>6 DEF Erase, Goes, Shape
  <2>2. kept \subseteq wallet.addresses
    BY <1>6 DEF Erase, Busy, At
  <2> QED
    BY <2>1, <2>2 DEF Shape, IsWallet, Loaded, Unread, WatchIsKept, At
<1>7. ASSUME NEW u \in Callers, Flush(u) PROVE WatchInv'
  <2>1. /\ call' = [v \in Callers |-> call'[v]]
        /\ wallet' = wallet /\ kept' = kept
    BY <1>7 DEF Flush, Goes, Shape
  <2>2. kept \subseteq wallet.addresses
    BY <1>7 DEF Flush, Busy, At
  <2>3. IsWallet(stored') /\ stored'.addresses = wallet.addresses
    BY <1>7 DEF Flush, FlushAddresses, Shape, IsWallet
  <2> QED
    BY <2>1, <2>2, <2>3 DEF Shape, IsWallet, Loaded, WatchIsKept
<1>8. ASSUME NEW u \in Callers, Scan(u) \/ ScanFails(u) PROVE WatchInv'
  <2>1. /\ call' = [v \in Callers |-> call'[v]]
        /\ wallet' = wallet /\ stored' = stored /\ kept' = kept
    BY <1>8 DEF Scan, ScanFails, Goes, Shape, disk
  <2>2. kept \subseteq wallet.addresses
    BY <1>8 DEF Scan, ScanFails, Busy, At
  <2>3. (\E v \in Callers : At(v, "flush")) => (\E v \in Callers : At(v, "flush"))'
    BY <1>8 DEF Scan, ScanFails, Goes, Shape, At
  <2> QED
    BY <2>1, <2>2, <2>3 DEF Shape, IsWallet, Loaded, WatchIsKept
<1>9. ASSUME NEW u \in Callers, Write(u) PROVE WatchInv'
  <2>1. call' = [v \in Callers |-> call'[v]] /\ kept' = kept
    BY <1>9 DEF Write, Goes, Shape
  <2>2. kept \subseteq wallet.addresses
    BY <1>9 DEF Write, Busy, At
  <2>3. /\ IsWallet(wallet') /\ IsWallet(stored')
        /\ wallet'.addresses = wallet.addresses /\ stored'.addresses = stored.addresses
    BY <1>9, WriteKeeps DEF Write, Shape
  <2>4. (\E v \in Callers : At(v, "flush")) => (\E v \in Callers : At(v, "flush"))'
    BY <1>9 DEF Write, Goes, Shape, At
  <2> QED
    BY <2>1, <2>2, <2>3, <2>4 DEF Shape, Loaded, Unread, WatchIsKept
<1>10. ASSUME Crash PROVE WatchInv'
  <2>1. /\ wallet' = Unread /\ stored' = stored
        /\ call' = Started
        /\ kept' = IF \E u \in Callers : At(u, "flush") THEN {} ELSE kept
    BY <1>10 DEF Crash, disk
  <2>2. kept' \subseteq stored'.addresses
    BY <2>1 DEF WatchIsKept
  <2>3. Shape' /\ ~Busy'
    BY <2>1 DEF Shape, IsWallet, Unread, Started, Busy, Idle, Callers
  <2> QED
    BY <2>1, <2>2, <2>3 DEF Loaded, WatchIsKept
<1>11. CASE UNCHANGED vars
  BY <1>11 DEF vars, disk, Shape, IsWallet, Busy, Loaded, WatchIsKept, At
<1> QED
  BY <1>1, <1>2, <1>3, <1>4, <1>5, <1>6, <1>7, <1>8, <1>9, <1>10, <1>11 DEF Next

\* No watched address is forgotten, through any applying, listing, indexing and crash
\* but one right after walletReIndex has erased the table (walletWatchAddress).
THEOREM WatchKept == Spec => []WatchIsKept
<1>1. WatchInv => WatchIsKept
  BY DEF WatchInv
<1> QED
  BY <1>1, InitWatch, StepWatch, PTL DEF Spec

-----------------------------------------------------------------------------
(***************************************************************************)
(* The index.                                                              *)
(***************************************************************************)
Outputs == Txns \X Addresses
Stages == {"own", "idle", "erase", "flush", "scan", "write"}

IndexShape ==
  /\ applied \in SUBSET Txns /\ applying \in SUBSET Txns
  /\ stored \in [addresses : SUBSET Addresses, last : Nat]
  /\ wallet = Unread \/ wallet \in [addresses : SUBSET Addresses, last : Nat]
  /\ due \in SUBSET Outputs
  /\ call \in [Callers -> [stage : Stages, found : SUBSET Outputs]]
  /\ DOMAIN records \subseteq 1..stored.last
  /\ \A n \in DOMAIN records : records[n] \in Outputs

\* A number once given is not given again, and who builds the index has read the table.
Numbering ==
  /\ stored.last <= Loaded.last
  /\ Busy \/ list # {} => wallet # Unread

\* The table in memory and the one on disk agree but right after an erasure.
Tables ==
  /\ (\A u \in Callers : ~At(u, "flush")) => Loaded.addresses = stored.addresses
  /\ \A o \in due : o[2] \in Loaded.addresses

IsListing(l) == l = [addr |-> l.addr, seen |-> l.seen, missed |-> l.missed, left |-> l.left]

\* A listing goes through records that are all there, or have all been erased since.
Listing(l) ==
  /\ IsListing(l)
  /\ l.left \in SUBSET (Nat \X Txns) /\ l.missed \in SUBSET Nat
  /\ \A r \in l.left : r[1] <= wallet.last /\ r[1] \notin l.missed
  /\ \A n \in l.missed : n <= wallet.last
  /\ \A r, q \in l.left : r[1] = q[1] => r = q
  /\ \/ \A r \in l.left : r[1] \in DOMAIN records /\ records[r[1]] = <<r[2], l.addr>>
     \/ \A r \in l.left : r[1] \notin DOMAIN records
  /\ \A n \in l.missed \cap DOMAIN records : records[n][2] = l.addr

\* It leaves a record of an output, or is still to come to the first one.
Spares(l, o) ==
  \/ \E n \in DOMAIN records : /\ records[n] = o /\ n \notin l.missed
                               /\ \A r \in l.left : r[1] # n
  \/ /\ o[1] \notin l.seen
     /\ \E r \in l.left : r[2] = o[1] /\ r[1] \in DOMAIN records /\ records[r[1]] = o

Recorded(o) ==
  /\ \E n \in DOMAIN records : records[n] = o
  /\ \A l \in list : Spares(l, o)

ToBeWritten(o) == \E u \in Callers : At(u, "write") /\ o \in call[u].found

\* An output that is left in the chain state, or will be when the patch is applied
Live(o) ==
  \/ o[1] \in applied /\ o[2] \in Left(applied, o[1])
  \/ o[1] \in applying /\ o[2] \in Left(applied \cup applying, o[1])

\* The records are gone till they have been scanned for.
Gone == \E u \in Callers : At(u, "flush") \/ At(u, "scan")

Covered == \A o \in due : Live(o) => Gone \/ Recorded(o) \/ ToBeWritten(o)

IndexInv ==
  /\ IndexShape
  /\ Numbering
  /\ Tables
  /\ \A l \in list : Listing(l)
  /\ Covered

\* What is found is written whole.
LEMMA SeqOnto ==
  ASSUME NEW S, IsFiniteSet(S)
  PROVE  /\ Len(SetToSeq(S)) \in Nat
         /\ \A i \in 1..Len(SetToSeq(S)) : SetToSeq(S)[i] \in S
         /\ \A x \in S : \E i \in 1..Len(SetToSeq(S)) : SetToSeq(S)[i] = x
<1> DEFINE k == Cardinality(S)
           s == SetToSeq(S)
<1>1. k \in Nat /\ ExistsBijection(1..k, S)
  BY FS_CardinalityType
<1>2. \E f \in [1..k -> S] : IsInjective(f)
  BY <1>1 DEF ExistsBijection, Bijection, Injection
<1>3. s \in [1..k -> S] /\ IsInjective(s)
  BY <1>2 DEF SetToSeq
<1>4. s \in Injection(1..k, S)
  BY <1>3 DEF Injection
<1>5. Cardinality(1..k) = k
  BY <1>1, FS_Interval
<1>6. s \in Surjection(1..k, S)
  BY <1>4, <1>5, FS_Injection
<1>7. Len(s) = k
  BY <1>1, <1>3
<1> HIDE DEF s, k
<1>8. \A x \in S : \E i \in 1..k : s[i] = x
  BY <1>6 DEF Surjection
<1> QED
  BY <1>1, <1>3, <1>7, <1>8 DEF s

\* The numbers are new, and every output found has one of them.
LEMMA WriteAdds ==
  ASSUME IndexShape, NEW w \in [addresses : SUBSET Addresses, last : Nat],
         NEW found \in SUBSET Outputs, stored.last <= w.last, WriteNewUtxos(w, found)
  PROVE  /\ wallet' \in [addresses : SUBSET Addresses, last : Nat]
         /\ stored' \in [addresses : SUBSET Addresses, last : Nat]
         /\ wallet'.addresses = w.addresses /\ stored'.addresses = stored.addresses
         /\ stored'.last = wallet'.last /\ wallet'.last >= w.last
         /\ DOMAIN records \subseteq DOMAIN records'
         /\ \A n \in DOMAIN records : n <= w.last /\ records'[n] = records[n]
         /\ \A n \in DOMAIN records' \ DOMAIN records : n > w.last
         /\ DOMAIN records' \subseteq 1..stored'.last
         /\ \A n \in DOMAIN records' : records'[n] \in Outputs
         /\ \A o \in found : \E n \in DOMAIN records' : records'[n] = o /\ n > w.last
<1> DEFINE s == SetToSeq(found)
           next == w.last + Len(s)
<1>1. IsFiniteSet(found)
  BY WalletAssumption, FS_Product, FS_Subset DEF Outputs
<1>2. /\ Len(s) \in Nat /\ \A i \in 1..Len(s) : s[i] \in found
      /\ \A x \in found : \E i \in 1..Len(s) : s[i] = x
  BY <1>1, SeqOnto
<1>3. /\ records' = [n \in (w.last + 1)..next \cup DOMAIN records |->
                       IF n \in (w.last + 1)..next THEN s[n - w.last] ELSE records[n]]
      /\ wallet' = [w EXCEPT !.last = next]
      /\ stored' = [stored EXCEPT !.last = next]
  BY DEF WriteNewUtxos
<1> HIDE DEF s
<1>4. w.last \in Nat /\ stored.last \in Nat /\ next \in Nat /\ next >= w.last
  BY <1>2 DEF IndexShape
<1>5. /\ wallet' \in [addresses : SUBSET Addresses, last : Nat]
      /\ stored' \in [addresses : SUBSET Addresses, last : Nat]
      /\ wallet'.addresses = w.addresses /\ stored'.addresses = stored.addresses
      /\ stored'.last = next /\ wallet'.last = next
  BY <1>3, <1>4 DEF IndexShape
<1>6. \A n \in DOMAIN records : n \in Nat /\ 1 <= n /\ n <= w.last /\ n \notin (w.last + 1)..next
  BY <1>4 DEF IndexShape
<1>7. /\ DOMAIN records' = (w.last + 1)..next \cup DOMAIN records
      /\ \A n \in DOMAIN records : records'[n] = records[n]
      /\ \A n \in (w.last + 1)..next : records'[n] = s[n - w.last]
  BY <1>3, <1>6
<1>8. \A n \in (w.last + 1)..next : n > w.last /\ n - w.last \in 1..Len(s)
  BY <1>2, <1>4
<1>9. DOMAIN records' \subseteq 1..next
  BY <1>4, <1>6, <1>7
<1>10. \A n \in DOMAIN records' : records'[n] \in Outputs
  BY <1>2, <1>7, <1>8 DEF IndexShape
<1>11. ASSUME NEW o \in found PROVE \E n \in DOMAIN records' : records'[n] = o /\ n > w.last
  <2>1. PICK i \in 1..Len(s) : s[i] = o
    BY <1>2
  <2>2. w.last + i \in (w.last + 1)..next /\ (w.last + i) - w.last = i /\ w.last + i > w.last
    BY <1>2, <1>4
  <2> QED
    BY <1>7, <2>1, <2>2
<1> QED
  BY <1>4, <1>5, <1>6, <1>7, <1>8, <1>9, <1>10, <1>11

\* A table that was read has a number.
LEMMA LoadedIs ==
  ASSUME IndexShape, Numbering
  PROVE  /\ Loaded \in [addresses : SUBSET Addresses, last : Nat]
         /\ stored.last <= Loaded.last
         /\ Busy \/ list # {} => Loaded = wallet
BY DEF IndexShape, Numbering, Loaded

LEMMA StartedIs ==
  /\ Started \in [Callers -> [stage : Stages, found : SUBSET Outputs]]
  /\ \A u \in Callers : Started[u].stage \in {"own", "idle"}
<1>1. [Idle EXCEPT !.stage = "own"] = [stage |-> "own", found |-> {}]
  BY DEF Idle
<1> QED
  BY <1>1 DEF Started, Idle, Stages

LEMMA InitIndex == Init => IndexInv
<1> SUFFICES ASSUME Init PROVE IndexInv
  OBVIOUS
<1> USE DEF Init
<1>1. \A u \in Callers : call[u].stage \in {"own", "idle"}
  BY StartedIs
<1>2. call \in [Callers -> [stage : Stages, found : SUBSET Outputs]]
  BY StartedIs
<1>3. DOMAIN records = {}
  OBVIOUS
<1>4. IndexShape
  BY <1>2, <1>3 DEF IndexShape
<1>5. Numbering /\ Tables
  BY <1>1 DEF Numbering, Tables, Busy, Loaded
<1> QED
  BY <1>4, <1>5 DEF IndexInv, Covered

\* New records disturb no listing, and what they hold is recorded.
LEMMA WriteRecords ==
  ASSUME IndexInv, NEW found \in SUBSET Outputs, WriteNewUtxos(Loaded, found), list' = list
  PROVE  /\ \A l \in list : Listing(l)'
         /\ \A o : o \in found \/ Recorded(o) => Recorded(o)'
<1>1. /\ Loaded \in [addresses : SUBSET Addresses, last : Nat] /\ stored.last <= Loaded.last
      /\ list # {} => Loaded = wallet
  BY LoadedIs DEF IndexInv
<1>2. /\ wallet'.last >= Loaded.last
      /\ DOMAIN records \subseteq DOMAIN records'
      /\ \A n \in DOMAIN records : n <= Loaded.last /\ records'[n] = records[n]
      /\ \A n \in DOMAIN records' \ DOMAIN records : n > Loaded.last
      /\ DOMAIN records' \subseteq Nat
      /\ \A o \in found : \E n \in DOMAIN records' : records'[n] = o /\ n > Loaded.last
  BY <1>1, WriteAdds DEF IndexInv
<1>3. wallet'.last \in Nat
  BY <1>1, WriteAdds DEF IndexInv
<1>4. ASSUME NEW l \in list PROVE Listing(l)'
  <2>1. Listing(l) /\ Loaded = wallet /\ wallet.last \in Nat
    BY <1>1, <1>4 DEF IndexInv
  <2>2. /\ \A r \in l.left : r[1] \in Nat /\ r[1] <= wallet'.last
        /\ \A n \in l.missed : n \in Nat /\ n <= wallet'.last
    BY <1>2, <1>3, <2>1 DEF Listing
  <2>3. \A n \in DOMAIN records' : (n \in l.missed \/ \E r \in l.left : r[1] = n)
                                      => n \in DOMAIN records /\ records'[n] = records[n]
    BY <1>1, <1>2, <2>1 DEF Listing
  <2>4. \/ \A r \in l.left : r[1] \in DOMAIN records' /\ records'[r[1]] = <<r[2], l.addr>>
        \/ \A r \in l.left : r[1] \notin DOMAIN records'
    BY <1>2, <2>1, <2>3 DEF Listing
  <2>5. \A n \in l.missed \cap DOMAIN records' : records'[n][2] = l.addr
    BY <1>2, <2>1, <2>3 DEF Listing
  <2> QED
    BY <2>1, <2>2, <2>4, <2>5 DEF Listing
<1>5. ASSUME NEW o, Recorded(o) PROVE Recorded(o)'
  <2>1. \A l \in list : Spares(l, o)'
    BY <1>2, <1>5 DEF Recorded, Spares
  <2> QED
    BY <1>2, <1>5, <2>1 DEF Recorded
<1>6. ASSUME NEW o \in found PROVE Recorded(o)'
  <2>1. PICK n \in DOMAIN records' : records'[n] = o /\ n > Loaded.last
    BY <1>2
  <2>2. ASSUME NEW l \in list PROVE Spares(l, o)'
    <3>1. Listing(l) /\ Loaded = wallet /\ wallet.last \in Nat /\ n \in Nat
      BY <1>1, <1>2, <2>1, <2>2 DEF IndexInv
    <3>2. n \notin l.missed /\ \A r \in l.left : r[1] # n
      BY <2>1, <3>1 DEF Listing
    <3> QED
      BY <2>1, <3>2 DEF Spares
  <2> QED
    BY <2>1, <2>2 DEF Recorded
<1> QED
  BY <1>4, <1>5, <1>6

\* What remains when more is applied was there before.
LEMMA LeftShrinks ==
  ASSUME NEW T, NEW U, NEW t, NEW a \in Left(T \cup U, t)
  PROVE  a \in Left(T, t)
BY DEF Left

\* A patch goes into the index.
LEMMA ApplyToWalletKeeps ==
  ASSUME IndexInv, NEW T \in SUBSET Txns, ApplyToWallet(T)
  PROVE  IndexInv'
<1> DEFINE found == Owned(Loaded, Coins(T), applied \cup T)
<1> USE DEF IndexInv
<1>1. /\ Loaded \in [addresses : SUBSET Addresses, last : Nat]
      /\ stored.last <= Loaded.last
      /\ Busy \/ list # {} => Loaded = wallet
  BY LoadedIs
<1>2. /\ WriteNewUtxos(Loaded, found) /\ due' = due \cup found
      /\ applying' = T /\ applying = {} /\ T \cap applied = {}
      /\ applied' = applied /\ open' = open /\ list' = list /\ call' = call
      /\ kept' = kept /\ faults' = faults
  BY DEF ApplyToWallet
<1>3. Coins(T) \subseteq Txns
  BY WalletAssumption DEF Coins
<1>4. found \in SUBSET Outputs /\ \A o \in found : o[2] \in Loaded.addresses
  BY <1>1, <1>3 DEF Owned, Outputs
<1> HIDE DEF found
<1>5. /\ wallet' \in [addresses : SUBSET Addresses, last : Nat]
      /\ stored' \in [addresses : SUBSET Addresses, last : Nat]
      /\ wallet'.addresses = Loaded.addresses /\ stored'.addresses = stored.addresses
      /\ stored'.last = wallet'.last
      /\ DOMAIN records' \subseteq 1..stored'.last
      /\ \A n \in DOMAIN records' : records'[n] \in Outputs
  BY <1>1, <1>2, <1>4, WriteAdds
<1>6. IndexShape'
  BY <1>2, <1>4, <1>5 DEF IndexShape
<1>7. wallet' # Unread /\ Loaded' = wallet'
  BY <1>5 DEF Unread, Loaded
<1>8. Numbering'
  BY <1>5, <1>7 DEF Numbering
<1>9. Tables'
  BY <1>2, <1>4, <1>5, <1>7 DEF Tables, At
<1>10. /\ \A l \in list' : Listing(l)'
       /\ \A o : o \in found \/ Recorded(o) => Recorded(o)'
  BY <1>2, <1>4, WriteRecords
<1>11. Covered'
  <2>1. SUFFICES ASSUME NEW o \in due', Live(o)', ~Gone', o \notin found, ~ToBeWritten(o)'
                 PROVE  Recorded(o)
    BY <1>10 DEF Covered
  <2>2. o \in due /\ ~Gone /\ ~ToBeWritten(o)
    BY <1>2, <2>1 DEF Gone, ToBeWritten, At
  <2>3. Live(o)
    <3>1. CASE o[1] \in applied /\ o[2] \in Left(applied, o[1])
      BY <3>1 DEF Live
    <3>2. CASE o[1] \in T /\ o[2] \in Left(applied \cup T, o[1])
      <4>1. o[2] \in Loaded.addresses /\ o = <<o[1], o[2]>>
        BY <2>2 DEF Tables, IndexShape, Outputs
      <4>2. o \in found
        BY <3>2, <4>1 DEF found, Owned, Coins
      <4> QED
        BY <2>1, <4>2
    <3> QED
      BY <1>2, <2>1, <3>1, <3>2 DEF Live
  <2> QED
    BY <2>2, <2>3 DEF Covered
<1> QED
  BY <1>6, <1>8, <1>9, <1>10, <1>11

\* The chain state moves, or is closed or opened.
LEMMA ChainKeeps ==
  ASSUME IndexInv, ApplyBatch \/ CloseDb \/ OpenDb
  PROVE  IndexInv'
<1> USE DEF IndexInv
<1>1. /\ records' = records /\ stored' = stored /\ wallet' = wallet /\ list' = list
      /\ call' = call /\ due' = due
      /\ \/ applied' = applied /\ applying' = applying
         \/ applied' = applied \cup applying /\ applying' = {}
  BY DEF ApplyBatch, CloseDb, OpenDb, disk
<1>2. IndexShape'
  BY <1>1 DEF IndexShape
<1>3. Numbering' /\ Tables' /\ \A l \in list' : Listing(l)'
  BY <1>1 DEF Numbering, Tables, Listing, Busy, Loaded, At
<1>4. \A o : Live(o)' => Live(o)
  BY <1>1, LeftShrinks DEF Live
<1>5. \A o : (Gone \/ Recorded(o) \/ ToBeWritten(o)) => (Gone \/ Recorded(o) \/ ToBeWritten(o))'
  BY <1>1 DEF Gone, Recorded, ToBeWritten, Spares, At
<1> QED
  BY <1>1, <1>2, <1>3, <1>4, <1>5 DEF Covered

\* A listing starts from all the records of its address.
LEMMA StartListKeeps ==
  ASSUME IndexInv, NEW a \in Addresses, StartList(a)
  PROVE  IndexInv'
<1> DEFINE left == {<<n, records[n][1]>> : n \in {m \in DOMAIN records : records[m][2] = a}}
<1> USE DEF IndexInv
<1>1. /\ Loaded \in [addresses : SUBSET Addresses, last : Nat]
      /\ stored.last <= Loaded.last
  BY LoadedIs
<1>2. /\ records' = records /\ stored' = stored /\ applied' = applied /\ applying' = applying
      /\ call' = call /\ due' = due /\ wallet' = Loaded
  BY DEF StartList, disk
<1>3. PICK l : /\ l = [addr |-> a, seen |-> {}, missed |-> {}, left |-> left]
               /\ list' = {l}
  BY DEF StartList
<1>4. \A n \in DOMAIN records : /\ n \in Nat /\ n <= Loaded.last
                                /\ records[n] \in Outputs
                                /\ records[n] = <<records[n][1], records[n][2]>>
                                /\ records[n][1] \in Txns
  BY <1>1 DEF IndexShape, Outputs
<1>5. \A r \in left : /\ r \in Nat \X Txns /\ r[1] \in DOMAIN records
                      /\ records[r[1]] = <<r[2], a>> /\ r = <<r[1], records[r[1]][1]>>
                      /\ r[1] <= Loaded.last
  BY <1>4
<1>6. \A n \in DOMAIN records : records[n][2] = a => <<n, records[n][1]>> \in left
  OBVIOUS
<1> HIDE DEF left
<1>7. wallet' # Unread /\ Loaded' = Loaded
  BY <1>1, <1>2 DEF Unread, Loaded
<1>8. IndexShape'
  BY <1>1, <1>2 DEF IndexShape
<1>9. Numbering' /\ Tables'
  BY <1>1, <1>2, <1>3, <1>7 DEF Numbering, Tables, At
<1>10. Listing(l)'
  <2>1. IsListing(l)
    BY <1>3 DEF IsListing
  <2> QED
    BY <1>2, <1>3, <1>5, <2>1 DEF Listing
<1>11. ASSUME NEW o, Recorded(o) PROVE Recorded(o)'
  <2>1. PICK n \in DOMAIN records : records[n] = o
    BY <1>11 DEF Recorded
  <2>2. CASE o[2] = a
    <3>1. <<n, o[1]>> \in left
      BY <1>6, <2>1, <2>2
    <3>2. Spares(l, o)'
      BY <1>2, <1>3, <2>1, <3>1 DEF Spares
    <3> QED
      BY <1>2, <1>3, <2>1, <3>2 DEF Recorded
  <2>3. CASE o[2] # a
    <3>1. \A r \in left : r[1] # n
      BY <1>5, <2>1, <2>3
    <3>2. Spares(l, o)'
      BY <1>2, <1>3, <2>1, <3>1 DEF Spares
    <3> QED
      BY <1>2, <1>3, <2>1, <3>2 DEF Recorded
  <2> QED
    BY <2>2, <2>3
<1>12. Covered'
  BY <1>2, <1>11 DEF Covered, Live, Gone, ToBeWritten, At
<1> QED
  BY <1>3, <1>8, <1>9, <1>10, <1>12

Updated(l, left, seen, missed) ==
  [l EXCEPT !.left = left, !.seen = seen, !.missed = missed]

LEMMA ListingUpdate ==
  ASSUME NEW l, NEW left, NEW seen, NEW missed, IsListing(l)
  PROVE  /\ IsListing(Updated(l, left, seen, missed))
         /\ Updated(l, left, seen, missed).addr = l.addr
         /\ Updated(l, left, seen, missed).left = left
         /\ Updated(l, left, seen, missed).seen = seen
         /\ Updated(l, left, seen, missed).missed = missed
<1> DEFINE a == [l EXCEPT !.left = left]
           b == [a EXCEPT !.seen = seen]
           c == [b EXCEPT !.missed = missed]
<1>1. a = [addr |-> l.addr, seen |-> l.seen, missed |-> l.missed, left |-> left]
  BY DEF IsListing
<1> HIDE DEF a
<1>2. b = [addr |-> l.addr, seen |-> seen, missed |-> l.missed, left |-> left]
  BY <1>1
<1> HIDE DEF b
<1>3. c = [addr |-> l.addr, seen |-> seen, missed |-> missed, left |-> left]
  BY <1>2
<1>4. Updated(l, left, seen, missed) = c
  BY DEF a, b, c, Updated
<1> HIDE DEF c
<1> QED
  BY <1>3, <1>4 DEF IsListing

\* The listing gives up a record only if its output is not there, is recorded before, or is
\* not due any more.
LEMMA ListNextKeeps ==
  ASSUME IndexInv, ListNext
  PROVE  IndexInv'
<1> USE DEF IndexInv
<1>1. /\ records' = records /\ stored' = stored /\ applied' = applied /\ applying' = applying
      /\ call' = call /\ wallet' = wallet
  BY DEF ListNext, disk
<1>2. PICK l \in list : \E r \in l.left :
        /\ list' = {[l EXCEPT !.left = @ \ {r}, !.seen = @ \cup {r[2]},
                       !.missed = IF r[2] \in l.seen \/ ~HasOutput(r[2], l.addr)
                                    THEN @ \cup {r[1]} ELSE @]}
        /\ due' = IF r[2] \notin l.seen /\ (r[2] \in applying \/ ~open)
                    THEN due \ {<<r[2], l.addr>>} ELSE due
  BY DEF ListNext
<1>3. PICK r \in l.left :
        /\ list' = {[l EXCEPT !.left = @ \ {r}, !.seen = @ \cup {r[2]},
                       !.missed = IF r[2] \in l.seen \/ ~HasOutput(r[2], l.addr)
                                    THEN @ \cup {r[1]} ELSE @]}
        /\ due' = IF r[2] \notin l.seen /\ (r[2] \in applying \/ ~open)
                    THEN due \ {<<r[2], l.addr>>} ELSE due
  BY <1>2
<1>4. Listing(l)
  BY <1>2
<1> DEFINE missed == IF r[2] \in l.seen \/ ~HasOutput(r[2], l.addr)
                       THEN l.missed \cup {r[1]} ELSE l.missed
<1>5. PICK k : k = Updated(l, l.left \ {r}, l.seen \cup {r[2]}, missed) /\ list' = {k}
  BY <1>3 DEF Updated
<1>6. /\ IsListing(k)
      /\ k.addr = l.addr /\ k.left = l.left \ {r} /\ k.seen = l.seen \cup {r[2]}
      /\ k.missed \in {l.missed, l.missed \cup {r[1]}}
      /\ r[2] \notin l.seen /\ HasOutput(r[2], l.addr) => k.missed = l.missed
  <2>1. /\ missed \in {l.missed, l.missed \cup {r[1]}}
        /\ r[2] \notin l.seen /\ HasOutput(r[2], l.addr) => missed = l.missed
    OBVIOUS
  <2>2. IsListing(l)
    BY <1>4 DEF Listing
  <2> HIDE DEF missed
  <2>3. /\ IsListing(k) /\ k.addr = l.addr /\ k.left = l.left \ {r}
        /\ k.seen = l.seen \cup {r[2]} /\ k.missed = missed
    BY <1>5, <2>2, ListingUpdate
  <2> QED
    BY <2>1, <2>3
<1>7. /\ r \in Nat \X Txns /\ r[1] \in Nat /\ r[1] <= wallet.last
      /\ \A q \in k.left : q[1] # r[1]
  BY <1>3, <1>4, <1>6 DEF Listing
<1>8. Listing(k)'
  <2>1. \A n \in k.missed \cap DOMAIN records : records[n][2] = k.addr
    BY <1>3, <1>4, <1>6 DEF Listing
  <2> QED
    BY <1>1, <1>4, <1>6, <1>7, <2>1 DEF Listing
<1>9. due' \subseteq due /\ IndexShape'
  BY <1>1, <1>3 DEF IndexShape
<1>10. Numbering' /\ Tables'
  BY <1>1, <1>2, <1>9 DEF Numbering, Tables, Busy, Loaded, At
<1>11. ASSUME NEW o \in due', Live(o), Recorded(o) PROVE Spares(k, o)
  <2>1. Spares(l, o)
    BY <1>2, <1>11 DEF Recorded
  <2>2. CASE \E n \in DOMAIN records : /\ records[n] = o /\ n \notin l.missed
                                       /\ \A q \in l.left : q[1] # n
    BY <1>3, <1>6, <2>2 DEF Spares
  <2>3. CASE /\ o[1] \notin l.seen
             /\ \E q \in l.left : q[2] = o[1] /\ q[1] \in DOMAIN records /\ records[q[1]] = o
    <3>1. PICK q \in l.left : q[2] = o[1] /\ q[1] \in DOMAIN records /\ records[q[1]] = o
      BY <2>3
    <3>2. r[1] \in DOMAIN records /\ records[r[1]] = <<r[2], l.addr>> /\ o[2] = l.addr
      BY <1>3, <1>4, <3>1 DEF Listing
    <3>3. CASE r[2] # o[1]
      BY <1>6, <2>3, <3>1, <3>3 DEF Spares
    <3>4. CASE r[2] = o[1]
      <4>1. o = <<r[2], l.addr>>
        BY <1>9, <3>2, <3>4 DEF IndexShape, Outputs
      <4>2. r[2] \notin applying /\ open
        BY <1>3, <2>3, <3>4, <4>1
      <4>3. HasOutput(r[2], l.addr)
        BY <1>11, <3>2, <3>4, <4>2 DEF HasOutput, Live
      <4>4. r[1] \notin k.missed
        BY <1>3, <1>4, <1>6, <2>3, <3>4, <4>3 DEF Listing
      <4> QED
        BY <1>7, <3>2, <4>1, <4>4 DEF Spares
    <3> QED
      BY <3>3, <3>4
  <2> QED
    BY <2>1, <2>2, <2>3 DEF Spares
<1>12. Covered'
  <2>1. SUFFICES ASSUME NEW o \in due', Live(o), ~Gone, ~ToBeWritten(o) PROVE Recorded(o)'
    BY <1>1 DEF Covered, Live, Gone, ToBeWritten, At
  <2>2. Recorded(o)
    BY <1>9, <2>1 DEF Covered
  <2>3. Spares(k, o)
    BY <1>11, <2>1, <2>2
  <2> QED
    BY <1>1, <1>5, <2>2, <2>3 DEF Recorded, Spares
<1> QED
  BY <1>5, <1>8, <1>9, <1>10, <1>12

\* The records it gave up are cleaned up.
LEMMA EndListKeeps ==
  ASSUME IndexInv, EndList
  PROVE  IndexInv'
<1> USE DEF IndexInv
<1>1. /\ stored' = stored /\ applied' = applied /\ applying' = applying
      /\ call' = call /\ wallet' = wallet /\ due' = due /\ list' = {}
  BY DEF EndList, disk
<1>2. PICK l \in list : l.left = {} /\ records' = CleanupMissed(l.missed)
  BY DEF EndList
<1>3. /\ DOMAIN records' = DOMAIN records \ l.missed
      /\ \A n \in DOMAIN records' : records'[n] = records[n]
  BY <1>2 DEF CleanupMissed
<1>4. IndexShape' /\ Numbering' /\ Tables'
  BY <1>1, <1>3 DEF IndexShape, Numbering, Tables, Busy, Loaded, At
<1>5. ASSUME NEW o, Recorded(o) PROVE Recorded(o)'
  <2>1. Spares(l, o)
    BY <1>5 DEF Recorded
  <2>2. \E n \in DOMAIN records : records[n] = o /\ n \notin l.missed
    BY <1>2, <2>1 DEF Spares
  <2> QED
    BY <1>1, <1>3, <2>2 DEF Recorded
<1>6. Covered'
  BY <1>1, <1>5 DEF Covered, Live, Gone, ToBeWritten, At
<1> QED
  BY <1>1, <1>4, <1>6

\* One caller moves.
LEMMA GoesIs ==
  ASSUME IndexShape, NEW u \in Callers, NEW stage \in Stages, NEW found \in SUBSET Outputs,
         Goes(u, stage, found)
  PROVE  /\ call' \in [Callers -> [stage : Stages, found : SUBSET Outputs]]
         /\ call'[u].stage = stage /\ call'[u].found = found
         /\ \A v \in Callers \ {u} : call'[v] = call[v]
BY DEF IndexShape, Goes

\* Who starts to watch an address, or finds it watched, has read the table.
LEMMA TableKeeps ==
  ASSUME IndexInv, NEW u \in Callers, NEW stage \in {"idle", "erase"}, Goes(u, stage, {}),
         ~At(u, "flush"), ~At(u, "scan"), ~At(u, "write"),
         (\E a \in Addresses : Watch(a)) \/ (wallet' = Loaded /\ stored' = stored),
         records' = records, applied' = applied, applying' = applying, list' = list, due' = due
  PROVE  IndexInv'
<1> USE DEF IndexInv
<1>1. /\ Loaded \in [addresses : SUBSET Addresses, last : Nat]
      /\ stored.last <= Loaded.last
      /\ list # {} => Loaded = wallet
      /\ stored \in [addresses : SUBSET Addresses, last : Nat]
  BY LoadedIs DEF IndexShape
<1>2. /\ wallet' \in [addresses : SUBSET Addresses, last : Nat]
      /\ stored' \in [addresses : SUBSET Addresses, last : Nat]
      /\ wallet'.last = Loaded.last /\ stored'.last = stored.last
      /\ Loaded.addresses \subseteq wallet'.addresses
      /\ \/ stored'.addresses = wallet'.addresses
         \/ wallet'.addresses = Loaded.addresses /\ stored'.addresses = stored.addresses
  BY <1>1 DEF Watch, FlushAddresses
<1>3. /\ call' \in [Callers -> [stage : Stages, found : SUBSET Outputs]]
      /\ call'[u].stage = stage
      /\ \A v \in Callers \ {u} : call'[v] = call[v]
  BY GoesIs DEF Stages
<1>4. \A st \in {"flush", "scan", "write"}, v \in Callers :
        At(v, st)' <=> At(v, st) /\ v # u
  BY <1>3 DEF At
<1>5. wallet' # Unread /\ Loaded' = wallet'
  BY <1>2 DEF Unread, Loaded
<1>6. IndexShape'
  BY <1>2, <1>3 DEF IndexShape
<1>7. Numbering'
  BY <1>1, <1>2, <1>5 DEF Numbering
<1>8. Tables'
  <2>1. (\A v \in Callers : ~At(v, "flush")') => Loaded'.addresses = stored'.addresses
    BY <1>2, <1>4, <1>5 DEF Tables
  <2> QED
    BY <1>2, <1>5, <2>1 DEF Tables
<1>9. ASSUME NEW l \in list' PROVE Listing(l)'
  <2>1. Listing(l) /\ wallet'.last = wallet.last
    BY <1>1, <1>2, <1>9
  <2> QED
    BY <2>1 DEF Listing
<1>10. Covered'
  <2>1. \A o \in due : /\ Live(o)' => Live(o)
                       /\ Gone => Gone'
                       /\ Recorded(o) => Recorded(o)'
    BY <1>4 DEF Live, Gone, Recorded, Spares
  <2>2. ASSUME NEW o, ToBeWritten(o) PROVE ToBeWritten(o)'
    <3>1. PICK v \in Callers : At(v, "write") /\ o \in call[v].found
      BY <2>2 DEF ToBeWritten
    <3>2. v # u
      BY <3>1
    <3> QED
      BY <1>3, <3>1, <3>2 DEF ToBeWritten, At
  <2> QED
    BY <2>1, <2>2 DEF Covered
<1> QED
  BY <1>6, <1>7, <1>8, <1>9, <1>10

\* All records go; those who list find none of them again.
LEMMA EraseKeeps ==
  ASSUME IndexInv, NEW u \in Callers, Erase(u)
  PROVE  IndexInv'
<1> USE DEF IndexInv
<1>1. /\ applied' = applied /\ applying' = applying /\ list' = list /\ due' = due
      /\ wallet' = wallet /\ stored' = [addresses |-> {}, last |-> 0]
      /\ Goes(u, "flush", {})
  BY DEF Erase
<1>2. DOMAIN records' = {}
  BY DEF Erase
<1>3. wallet # Unread /\ Loaded = wallet /\ Loaded' = wallet
  BY <1>1 DEF Erase, Numbering, Busy, At, Loaded
<1>4. wallet \in [addresses : SUBSET Addresses, last : Nat]
  BY <1>3 DEF IndexShape
<1>5. /\ call' \in [Callers -> [stage : Stages, found : SUBSET Outputs]]
      /\ call'[u].stage = "flush"
      /\ \A v \in Callers \ {u} : call'[v] = call[v]
  BY <1>1, GoesIs DEF Stages
<1>6. At(u, "flush")'
  BY <1>5 DEF At
<1>7. IndexShape'
  BY <1>1, <1>2, <1>5 DEF IndexShape
<1>8. Numbering'
  BY <1>1, <1>3, <1>4 DEF Numbering
<1>9. Tables'
  BY <1>1, <1>3, <1>6 DEF Tables
<1>10. ASSUME NEW l \in list' PROVE Listing(l)'
  BY <1>1, <1>2, <1>10 DEF Listing
<1>11. Covered'
  BY <1>6 DEF Covered, Gone
<1> QED
  BY <1>7, <1>8, <1>9, <1>10, <1>11

\* The addresses are back on disk.
LEMMA FlushKeeps ==
  ASSUME IndexInv, NEW u \in Callers, Flush(u)
  PROVE  IndexInv'
<1> USE DEF IndexInv
<1>1. /\ applied' = applied /\ applying' = applying /\ list' = list /\ due' = due
      /\ wallet' = wallet /\ records' = records
      /\ stored' = [stored EXCEPT !.addresses = wallet.addresses]
      /\ Goes(u, "scan", {})
  BY DEF Flush, FlushAddresses
<1>2. wallet # Unread /\ Loaded = wallet /\ Loaded' = wallet
  BY <1>1 DEF Flush, Numbering, Busy, At, Loaded
<1>3. /\ wallet \in [addresses : SUBSET Addresses, last : Nat]
      /\ stored' \in [addresses : SUBSET Addresses, last : Nat]
      /\ stored'.addresses = wallet.addresses /\ stored'.last = stored.last
  BY <1>1, <1>2 DEF IndexShape
<1>4. /\ call' \in [Callers -> [stage : Stages, found : SUBSET Outputs]]
      /\ call'[u].stage = "scan"
      /\ \A v \in Callers \ {u} : call'[v] = call[v]
  BY <1>1, GoesIs DEF Stages
<1>5. At(u, "scan")'
  BY <1>4 DEF At
<1>6. IndexShape'
  BY <1>1, <1>3, <1>4 DEF IndexShape
<1>7. Numbering'
  BY <1>1, <1>2, <1>3 DEF Numbering
<1>8. Tables'
  BY <1>1, <1>2, <1>3 DEF Tables
<1>9. ASSUME NEW l \in list' PROVE Listing(l)'
  BY <1>1, <1>9 DEF Listing
<1>10. Covered'
  BY <1>5 DEF Covered, Gone
<1> QED
  BY <1>6, <1>7, <1>8, <1>9, <1>10

\* What is left in the chain state is found; what is being applied is not due any more.
LEMMA ScanKeeps ==
  ASSUME IndexInv, NEW u \in Callers, Scan(u)
  PROVE  IndexInv'
<1> DEFINE found == Owned(wallet, applied, applied)
<1> USE DEF IndexInv
<1>1. /\ applied' = applied /\ applying' = applying /\ list' = list
      /\ wallet' = wallet /\ records' = records /\ stored' = stored
      /\ due' = {o \in due : o[1] \notin applying} \cup found
      /\ Goes(u, "write", found) /\ At(u, "scan")
  BY DEF Scan, disk
<1>2. wallet # Unread /\ Loaded = wallet /\ Loaded' = wallet
  BY <1>1 DEF Numbering, Busy, At, Loaded
<1>3. wallet \in [addresses : SUBSET Addresses, last : Nat]
  BY <1>2 DEF IndexShape
<1>4. found \in SUBSET Outputs /\ \A o \in found : o[2] \in wallet.addresses
  BY <1>3 DEF Owned, Outputs, IndexShape
<1>5. /\ call' \in [Callers -> [stage : Stages, found : SUBSET Outputs]]
      /\ call'[u].stage = "write" /\ call'[u].found = found
      /\ \A v \in Callers \ {u} : call'[v] = call[v]
  BY <1>1, <1>4, GoesIs DEF Stages
<1>6. IndexShape'
  BY <1>1, <1>4, <1>5 DEF IndexShape
<1>7. Numbering'
  BY <1>1, <1>2 DEF Numbering
<1>8. Tables'
  <2>1. (\A v \in Callers : ~At(v, "flush")') => \A v \in Callers : ~At(v, "flush")
    BY <1>1, <1>5 DEF At
  <2> QED
    BY <1>1, <1>2, <1>4, <2>1 DEF Tables
<1>9. ASSUME NEW l \in list' PROVE Listing(l)'
  BY <1>1, <1>9 DEF Listing
<1>10. ASSUME NEW o \in due', Live(o)' PROVE o \in found
  <2>1. SUFFICES ASSUME o \in due, o[1] \notin applying PROVE o \in found
    BY <1>1
  <2>2. o[1] \in applied /\ o[2] \in Left(applied, o[1])
    BY <1>1, <1>10, <2>1 DEF Live
  <2>3. o[2] \in wallet.addresses /\ o = <<o[1], o[2]>>
    BY <1>2, <2>1 DEF Tables, IndexShape, Outputs
  <2> QED
    BY <2>2, <2>3 DEF Owned
<1>11. Covered'
  BY <1>5, <1>10 DEF Covered, ToBeWritten, At
<1> QED
  BY <1>6, <1>7, <1>8, <1>9, <1>11

\* The index stays empty, and nothing is due.
LEMMA ScanFailsKeeps ==
  ASSUME IndexInv, NEW u \in Callers, ScanFails(u)
  PROVE  IndexInv'
<1> USE DEF IndexInv
<1>1. /\ applied' = applied /\ applying' = applying /\ list' = list
      /\ wallet' = wallet /\ records' = records /\ stored' = stored
      /\ due' = {} /\ Goes(u, "idle", {}) /\ At(u, "scan")
  BY DEF ScanFails, disk
<1>2. wallet # Unread
  BY <1>1 DEF Numbering, Busy, At
<1>3. /\ call' \in [Callers -> [stage : Stages, found : SUBSET Outputs]]
      /\ call'[u].stage = "idle"
      /\ \A v \in Callers \ {u} : call'[v] = call[v]
  BY <1>1, GoesIs DEF Stages
<1>4. IndexShape'
  BY <1>1, <1>3 DEF IndexShape
<1>5. Numbering'
  BY <1>1, <1>2 DEF Numbering, Loaded
<1>6. Tables'
  <2>1. (\A v \in Callers : ~At(v, "flush")') => \A v \in Callers : ~At(v, "flush")
    BY <1>1, <1>3 DEF At
  <2> QED
    BY <1>1, <2>1 DEF Tables, Loaded
<1>7. ASSUME NEW l \in list' PROVE Listing(l)'
  BY <1>1, <1>7 DEF Listing
<1>8. Covered'
  BY <1>1 DEF Covered
<1> QED
  BY <1>4, <1>5, <1>6, <1>7, <1>8

\* What was found is recorded.
LEMMA WriteKeepsIndex ==
  ASSUME IndexInv, NEW u \in Callers, Write(u)
  PROVE  IndexInv'
<1> DEFINE found == call[u].found
<1> USE DEF IndexInv
<1>1. /\ applied' = applied /\ applying' = applying /\ list' = list /\ due' = due
      /\ WriteNewUtxos(wallet, found) /\ Goes(u, "idle", {}) /\ At(u, "write")
  BY DEF Write
<1>2. wallet # Unread /\ Loaded = wallet
  BY <1>1 DEF Numbering, Busy, At, Loaded
<1>3. /\ wallet \in [addresses : SUBSET Addresses, last : Nat]
      /\ stored.last <= wallet.last /\ found \in SUBSET Outputs
  BY <1>2 DEF IndexShape, Numbering
<1>4. /\ wallet' \in [addresses : SUBSET Addresses, last : Nat]
      /\ stored' \in [addresses : SUBSET Addresses, last : Nat]
      /\ wallet'.addresses = wallet.addresses /\ stored'.addresses = stored.addresses
      /\ stored'.last = wallet'.last
      /\ DOMAIN records' \subseteq 1..stored'.last
      /\ \A n \in DOMAIN records' : records'[n] \in Outputs
  BY <1>1, <1>3, WriteAdds
<1>5. /\ call' \in [Callers -> [stage : Stages, found : SUBSET Outputs]]
      /\ call'[u].stage = "idle"
      /\ \A v \in Callers \ {u} : call'[v] = call[v]
  BY <1>1, GoesIs DEF Stages
<1>6. wallet' # Unread /\ Loaded' = wallet'
  BY <1>4 DEF Unread, Loaded
<1>7. IndexShape'
  BY <1>1, <1>4, <1>5 DEF IndexShape
<1>8. Numbering'
  BY <1>4, <1>6 DEF Numbering
<1>9. Tables'
  <2>1. (\A v \in Callers : ~At(v, "flush")') => \A v \in Callers : ~At(v, "flush")
    BY <1>1, <1>5 DEF At
  <2> QED
    BY <1>1, <1>2, <1>4, <1>6, <2>1 DEF Tables
<1>10. /\ \A l \in list' : Listing(l)'
       /\ \A o : o \in found \/ Recorded(o) => Recorded(o)'
  BY <1>1, <1>2, <1>3, WriteRecords
<1>11. Covered'
  <2>1. Gone => Gone'
    BY <1>1, <1>5 DEF Gone, At
  <2>2. ASSUME NEW o, ToBeWritten(o) PROVE o \in found \/ ToBeWritten(o)'
    BY <1>5, <2>2 DEF ToBeWritten, At
  <2>3. \A o : Live(o)' => Live(o)
    BY <1>1 DEF Live
  <2> QED
    BY <1>1, <1>10, <2>1, <2>2, <2>3 DEF Covered
<1> QED
  BY <1>7, <1>8, <1>9, <1>10, <1>11

\* What was in memory is gone.
LEMMA CrashKeeps ==
  ASSUME IndexInv, Crash
  PROVE  IndexInv'
<1> USE DEF IndexInv
<1>1. /\ applied' = applied /\ applying' = {} /\ list' = {} /\ wallet' = Unread
      /\ records' = records /\ stored' = stored /\ call' = Started
      /\ due' = IF Erased THEN {} ELSE due
  BY DEF Crash, disk
<1>2. IndexShape'
  BY <1>1, StartedIs DEF IndexShape
<1>3. Loaded' = stored
  BY <1>1 DEF Loaded
<1>4. ~Busy'
  BY <1>1, StartedIs DEF Busy
<1>5. Numbering'
  BY <1>1, <1>2, <1>3, <1>4 DEF Numbering, IndexShape
<1>6. Tables'
  BY <1>1, <1>3 DEF Tables, Erased, At
<1>7. Covered'
  <2>1. SUFFICES ASSUME NEW o \in due', Live(o)' PROVE Recorded(o)'
    BY DEF Covered
  <2>2. ~Erased /\ o \in due /\ Live(o)
    BY <1>1, <2>1 DEF Live
  <2>3. Recorded(o)
    BY <2>2 DEF Covered, Gone, ToBeWritten, Erased, At
  <2> QED
    BY <1>1, <2>3 DEF Recorded
<1> QED
  BY <1>1, <1>2, <1>5, <1>6, <1>7

\* Every step keeps the invariant.
LEMMA StepIndex == IndexInv /\ [Next]_vars => IndexInv'
<1> SUFFICES ASSUME IndexInv, [Next]_vars PROVE IndexInv'
  OBVIOUS
<1>1. ASSUME NEW T \in SUBSET Txns, ApplyToWallet(T) PROVE IndexInv'
  BY <1>1, ApplyToWalletKeeps
<1>2. CASE ApplyBatch \/ CloseDb \/ OpenDb
  BY <1>2, ChainKeeps
<1>3. ASSUME NEW a \in Addresses, StartList(a) PROVE IndexInv'
  BY <1>3, StartListKeeps
<1>4. ASSUME NEW a \in Addresses, WatchAddress(a) PROVE IndexInv'
  <2>1. PICK stage \in {"idle", "erase"} : Goes("rpc", stage, {})
    BY <1>4 DEF WatchAddress
  <2>2. /\ "rpc" \in Callers /\ Watch(a)
        /\ ~At("rpc", "flush") /\ ~At("rpc", "scan") /\ ~At("rpc", "write")
        /\ records' = records /\ applied' = applied /\ applying' = applying
        /\ list' = list /\ due' = due
    BY <1>4 DEF WatchAddress, At, Callers
  <2> QED
    BY <2>1, <2>2, TableKeeps
<1>5. CASE EnsureWalletIndex
  <2>1. /\ "start" \in Callers /\ Goes("start", "erase", {})
        /\ (\E a \in Addresses : Watch(a)) \/ (wallet' = Loaded /\ stored' = stored)
        /\ ~At("start", "flush") /\ ~At("start", "scan") /\ ~At("start", "write")
        /\ records' = records /\ applied' = applied /\ applying' = applying
        /\ list' = list /\ due' = due
    BY <1>5, WalletAssumption DEF EnsureWalletIndex, At, Callers
  <2> QED
    BY <2>1, TableKeeps
<1>6. ASSUME NEW u \in Callers, Erase(u) \/ Flush(u) PROVE IndexInv'
  BY <1>6, EraseKeeps, FlushKeeps
<1>7. ASSUME NEW u \in Callers, Scan(u) \/ ScanFails(u) \/ Write(u) PROVE IndexInv'
  BY <1>7, ScanKeeps, ScanFailsKeeps, WriteKeepsIndex
<1>8. CASE ListNext \/ EndList
  BY <1>8, ListNextKeeps, EndListKeeps
<1>9. CASE Crash
  BY <1>9, CrashKeeps
<1>10. CASE UNCHANGED vars
  <2>1. /\ applied' = applied /\ applying' = applying /\ list' = list /\ due' = due
        /\ wallet' = wallet /\ records' = records /\ stored' = stored /\ call' = call
    BY <1>10 DEF vars, disk
  <2>2. IndexShape' /\ Numbering' /\ Tables' /\ \A l \in list' : Listing(l)'
    BY <2>1 DEF IndexInv, IndexShape, Numbering, Tables, Listing, Busy, Loaded, At
  <2>3. Covered'
    BY <2>1 DEF IndexInv, Covered, Live, Gone, Recorded, Spares, ToBeWritten, At
  <2> QED
    BY <2>2, <2>3 DEF IndexInv
<1> QED
  BY <1>1, <1>2, <1>3, <1>4, <1>5, <1>6, <1>7, <1>8, <1>9, <1>10 DEF Next

\* An unspent output of a watched address that has to be in the index is in it, whatever is
\* applied, listed, cleaned up, watched and indexed anew at once, and through crashes
\* (walletListUnspent, _walletCheckUtxos, _walletCleanupMissed, walletReIndex).
THEOREM IndexComplete == Spec => []IndexIsComplete
<1>1. IndexInv => IndexIsComplete
  BY DEF IndexInv, IndexIsComplete, Covered, Live, Gone, Recorded, ToBeWritten, Erased, At
<1> QED
  BY <1>1, InitIndex, StepIndex, PTL DEF Spec

=============================================================================
