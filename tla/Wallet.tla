-------------------------------- MODULE Wallet --------------------------------
(***************************************************************************)
(* The wallet index of the storage (src/storage/persistentStorage.js):     *)
(* which outputs belong to the addresses a node watches.  It lies in a     *)
(* data base of its own.                                                   *)
(*                                                                         *)
(* Patches of final blocks are applied, addresses are watched, the index   *)
(* is read and built anew, all at once: every await that another call may  *)
(* use is a step.  The node is that of a witness with an RPC.  An output   *)
(* is a transaction and the address it pays.                               *)
(***************************************************************************)
EXTENDS Integers, FiniteSets, SequencesExt

CONSTANTS
  Addresses,
  Txns,
  PaysTo,      \* PaysTo[t]: the addresses t has outputs for
  Spends,      \* Spends[t]: the outputs t spends, as pairs
  Own,         \* the address of the witness
  MaxFaults    \* bound: crashes, and times the chain state is closed and opened

ASSUME WalletAssumption ==
  /\ IsFiniteSet(Addresses) /\ IsFiniteSet(Txns)
  /\ PaysTo \in [Txns -> SUBSET Addresses]
  /\ Spends \in [Txns -> SUBSET (Txns \X Addresses)]
  /\ Own \in Addresses
  /\ MaxFaults \in Nat

\* On disk:
VARIABLES
  applied,   \* the transactions the chain state has come to
  records,   \* WALLET_PREFIX: numbered outputs, which may be gone or twice there
  stored     \* WALLET_ADDRESSES and WALLET_AUTOINCREMENT
\* In memory:
VARIABLES
  wallet,    \* _arrStrWalletAddresses and _nWalletAutoincrement, or Unread
  open,      \* FALSE while _reInitMainDb has the chain state closed
  applying,  \* the transactions of a patch that is in the index and not in the chain state
  list,      \* the listing under way, a set of one or none
  call,      \* call[u]: how far the start or a user is with watching and indexing
\* Remembered:
  due,       \* the outputs the index has to have
  kept,      \* the addresses that are watched for good
  faults     \* how many crashes and reopenings there were

disk == <<applied, records, stored>>
vars == <<disk, wallet, open, applying, list, call, due, kept, faults>>

Callers == {"start", "rpc"}
Unread == [addresses |-> {}, last |-> -1]
Idle == [stage |-> "idle", found |-> {}]

At(u, stage) == call[u].stage = stage
Goes(u, stage, found) == call' = [call EXCEPT ![u] = [stage |-> stage, found |-> found]]

\* _ensureWalletIndex runs at the start.
Started == [u \in Callers |-> IF u = "start" THEN [Idle EXCEPT !.stage = "own"] ELSE Idle]

Init ==
  /\ applied = {} /\ records = << >> /\ stored = [addresses |-> {}, last |-> 0]
  /\ wallet = Unread /\ open = TRUE /\ applying = {} /\ list = {}
  /\ call = Started
  /\ due = {} /\ kept = {}
  /\ faults = 0

-----------------------------------------------------------------------------
\* The outputs of t that are left in a chain state that has come to T
Left(T, t) == {a \in PaysTo[t] : \A u \in T : <<t, a>> \notin Spends[u]}

\* The coins of a patch: what it creates, and what is left of what it spends from
Coins(T) == T \cup {o[1] : o \in UNION {Spends[u] : u \in T}}

\* getUtxo, which takes no lock and says of a closed data base that nothing is there
HasOutput(t, a) == open /\ t \in applied /\ a \in Left(applied, t)

\* _ensureWalletInitialized
Loaded == IF wallet = Unread THEN stored ELSE wallet

\* _walletWriteNewUtxosBatch: what is found gets the next numbers.
WriteNewUtxos(w, found) ==
  LET s == SetToSeq(found)
      next == w.last + Len(s)
  IN  /\ records' = [n \in (w.last + 1)..next \cup DOMAIN records |->
                       IF n \in (w.last + 1)..next THEN s[n - w.last] ELSE records[n]]
      /\ wallet' = [w EXCEPT !.last = next]
      /\ stored' = [stored EXCEPT !.last = next]

Owned(w, T, after) ==
  {o \in T \X w.addresses : o[2] \in Left(after, o[1])}

-----------------------------------------------------------------------------
(***************************************************************************)
(* applyPatch: first the index, then the chain state.                      *)
(***************************************************************************)
\* _walletCheckUtxos
ApplyToWallet(T) ==
  /\ open /\ applying = {}
  /\ T # {} /\ T \cap applied = {}
  /\ \A o \in UNION {Spends[u] : u \in T} : o[1] \in applied \cup T
  /\ LET found == Owned(Loaded, Coins(T), applied \cup T)
     IN  /\ WriteNewUtxos(Loaded, found)
         /\ due' = due \cup found
  /\ applying' = T
  /\ UNCHANGED <<applied, open, list, call, kept, faults>>

ApplyBatch ==
  /\ applying # {}
  /\ applied' = applied \cup applying
  /\ applying' = {}
  /\ UNCHANGED <<records, stored, wallet, open, list, call, due, kept, faults>>

\* _fixMainDb, _reInitMainDb: waits for the locks of applyPatch.
CloseDb ==
  /\ open /\ applying = {} /\ faults < MaxFaults
  /\ open' = FALSE /\ faults' = faults + 1
  /\ UNCHANGED <<disk, wallet, applying, list, call, due, kept>>

OpenDb ==
  /\ ~open
  /\ open' = TRUE
  /\ UNCHANGED <<disk, wallet, applying, list, call, due, kept, faults>>

-----------------------------------------------------------------------------
(***************************************************************************)
(* walletListUnspent: the records of an address, one after the other.      *)
(***************************************************************************)
\* _walletReadAddressRecords
StartList(a) ==
  /\ list = {} /\ a \in Loaded.addresses
  /\ wallet' = Loaded
  /\ list' = {[addr |-> a, seen |-> {}, missed |-> {},
               left |-> {<<n, records[n][1]>> : n \in {m \in DOMAIN records : records[m][2] = a}}]}
  /\ UNCHANGED <<disk, open, applying, call, due, kept, faults>>

\* What is there twice, or not there, is to be cleaned up.  Who reads what is just
\* being applied, or while the chain state is closed, is told that it is not there.
ListNext ==
  /\ \E l \in list : \E r \in l.left :
       LET t == r[2]
           twice == t \in l.seen
       IN  /\ \A q \in l.left : r[1] <= q[1]
           /\ list' = {[l EXCEPT !.left = @ \ {r}, !.seen = @ \cup {t},
                          !.missed = IF twice \/ ~HasOutput(t, l.addr)
                                       THEN @ \cup {r[1]} ELSE @]}
           /\ due' = IF ~twice /\ (t \in applying \/ ~open)
                       THEN due \ {<<t, l.addr>>} ELSE due
  /\ UNCHANGED <<disk, wallet, open, applying, call, kept, faults>>

\* Mutant: of what is there twice nothing stays.
CleanupAll(missed) ==
  [n \in {m \in DOMAIN records \ missed :
            \A k \in missed \cap DOMAIN records : records[k] # records[m]} |-> records[n]]

\* _walletCleanupMissed
CleanupMissed(missed) == [n \in DOMAIN records \ missed |-> records[n]]

EndList ==
  /\ \E l \in list : l.left = {} /\ records' = CleanupMissed(l.missed)
  /\ list' = {}
  /\ UNCHANGED <<applied, stored, wallet, open, applying, call, due, kept, faults>>

-----------------------------------------------------------------------------
(***************************************************************************)
(* Watching an address, and building the index anew.                       *)
(***************************************************************************)
\* Mutant: an address is watched in memory.
FlushLater(w) == stored' = stored

\* _walletFlushAddresses
FlushAddresses(w) == stored' = [stored EXCEPT !.addresses = w.addresses]

\* walletWatchAddress
Watch(a) ==
  LET w == [Loaded EXCEPT !.addresses = @ \cup {a}]
  IN  /\ a \notin Loaded.addresses
      /\ wallet' = w
      /\ FlushAddresses(w)
      /\ kept' = kept \cup {a}

\* _ensureWalletIndex: that the address is watched already is no error here.
EnsureWalletIndex ==
  /\ At("start", "own")
  /\ \/ Watch(Own)
     \/ /\ Own \in Loaded.addresses
        /\ wallet' = Loaded /\ UNCHANGED <<stored, kept>>
  /\ Goes("start", "erase", {})
  /\ UNCHANGED <<applied, records, open, applying, list, due, faults>>

WatchAddress(a) ==
  /\ At("rpc", "idle")
  /\ Watch(a)
  /\ \E stage \in {"idle", "erase"} : Goes("rpc", stage, {})
  /\ UNCHANGED <<applied, records, open, applying, list, due, faults>>

\* walletReIndex: the addresses and the number go with the records
Erase(u) ==
  /\ At(u, "erase")
  /\ records' = << >> /\ stored' = [addresses |-> {}, last |-> 0]
  /\ Goes(u, "flush", {})
  /\ UNCHANGED <<applied, wallet, open, applying, list, due, kept, faults>>

Flush(u) ==
  /\ At(u, "flush")
  /\ FlushAddresses(wallet)
  /\ Goes(u, "scan", {})
  /\ UNCHANGED <<applied, records, wallet, open, applying, list, due, kept, faults>>

\* What is just being applied is not in the chain state yet.
Scan(u) ==
  /\ At(u, "scan") /\ open
  /\ LET found == Owned(wallet, applied, applied)
     IN  /\ Goes(u, "write", found)
         /\ due' = {o \in due : o[1] \notin applying} \cup found
  /\ UNCHANGED <<disk, wallet, open, applying, list, kept, faults>>

\* A closed data base can not be read: the index stays as empty as it is.
ScanFails(u) ==
  /\ At(u, "scan") /\ ~open
  /\ Goes(u, "idle", {})
  /\ due' = {}
  /\ UNCHANGED <<disk, wallet, open, applying, list, kept, faults>>

Write(u) ==
  /\ At(u, "write")
  /\ WriteNewUtxos(wallet, call[u].found)
  /\ Goes(u, "idle", {})
  /\ UNCHANGED <<applied, open, applying, list, due, kept, faults>>

-----------------------------------------------------------------------------
Erased == \E u \in Callers : call[u].stage \in {"flush", "scan", "write"}

\* The process dies.  In the middle of walletReIndex the index is lost, and right
\* after its first step the addresses.
Crash ==
  /\ faults < MaxFaults /\ faults' = faults + 1
  /\ wallet' = Unread /\ open' = TRUE
  /\ applying' = {} /\ list' = {} /\ call' = Started
  /\ due' = IF Erased THEN {} ELSE due
  /\ kept' = IF \E u \in Callers : At(u, "flush") THEN {} ELSE kept
  /\ UNCHANGED disk

Next ==
  \/ \E T \in SUBSET Txns : ApplyToWallet(T)
  \/ ApplyBatch \/ CloseDb \/ OpenDb
  \/ \E a \in Addresses : StartList(a) \/ WatchAddress(a)
  \/ ListNext \/ EndList
  \/ EnsureWalletIndex
  \/ \E u \in Callers : Erase(u) \/ Flush(u) \/ Scan(u) \/ ScanFails(u) \/ Write(u)
  \/ Crash

Spec == Init /\ [][Next]_vars

-----------------------------------------------------------------------------
(***************************************************************************)
(* Properties.                                                             *)
(***************************************************************************)
\* "UTXO that have coins of strAddress" (walletListUnspent): an unspent output of a
\* watched address that was applied since, or found by a re-indexing, is in the index,
\* whatever is applied, listed, cleaned up, watched and indexed anew at once, and through
\* crashes.  Not so one that was read for while it was being applied or the chain state
\* was closed, which is the way to lose it, and what a re-indexing was interrupted at.
IndexIsComplete ==
  ~Erased =>
    \A o \in due :
      o[1] \in applied /\ o[2] \in Left(applied, o[1])
        => \E n \in DOMAIN records : records[n] = o

\* An address that is watched stays so, also through crashes, unless a crash comes right
\* after walletReIndex has erased it (walletWatchAddress).
WatchIsKept == (\A u \in Callers : ~At(u, "flush")) => kept \subseteq stored.addresses

=============================================================================
