-------------------------------- MODULE Restart --------------------------------
(***************************************************************************)
(* A node that crashes and starts again: what it keeps in its data base    *)
(* (src/storage/persistentStorage.js), the order in which accepting a      *)
(* block writes it, and how the memory is built from it at the start       *)
(* (_rebuildBlockDb, src/node/node.js).                                    *)
(*                                                                         *)
(* The other nodes are those of Finality.  The mortal one is no witness.   *)
(* Its acceptance of a block is cut at every write, a write is atomic.     *)
(***************************************************************************)
EXTENDS Finality

CONSTANTS
  Mortal,         \* the node that crashes
  CrashAnywhere,  \* FALSE: it stops only between two acceptances
  MaxCrashes      \* bound: crashes

ASSUME RestartAssumption ==
  /\ Mortal \in Nodes /\ \A c \in Conciliums : Home[c] # Mortal
  /\ CrashAnywhere \in BOOLEAN
  /\ MaxCrashes \in Nat

\* In memory, besides the graph:
VARIABLES
  status,       \* "up", "down", or "broken" when it can not start again
  known,        \* the blocks in _mainDag
  queue,        \* _mapBlocksToExec: those that wait to be executed
  job           \* the acceptance under way: what is left of it to write
\* On disk, besides the applied transactions:
VARIABLES
  info,         \* BLOCK_INFO_PREFIX: the state of every stored block
  lastApplied,  \* LAST_APPLIED_BLOCKS: the last block of each concilium, or Genesis
  pendingKeys,  \* PENDING_BLOCKS
  crashes,
  torn          \* remembers a crash in the middle of an acceptance, or a start
                \* after which blocks that are final on disk are not in _mainDag

disk == <<info, lastApplied, pendingKeys, store>>
restartVars == <<status, known, queue, job, info, lastApplied, pendingKeys,
                 crashes, torn>>
allVars == <<vars, restartVars>>

InitRestart ==
  /\ Init
  /\ status = "up" /\ known = {} /\ queue = {} /\ job = {}
  /\ info = << >>
  /\ lastApplied = [c \in Conciliums |-> Genesis]
  /\ pendingKeys = {}
  /\ crashes = 0 /\ torn = FALSE

Applied == {lastApplied[c] : c \in Conciliums} \ {Genesis}

FinalOnDisk == {b \in DOMAIN info : info[b] = "final"}

Idle == status = "up" /\ job = {}

\* EXCEPT for the mortal node
Of(f, value) == [f EXCEPT ![Mortal] = value]

-----------------------------------------------------------------------------
(***************************************************************************)
(* Blocks come in.                                                         *)
(***************************************************************************)
\* _handleArrivedBlock: a block that is neither in _mainDag nor stored
HearOf ==
  /\ Idle
  /\ \E b \in UNION {Pending(m) \cup final[m] : m \in Nodes \ {Mortal}} :
       /\ b \notin known \cup DOMAIN info
       /\ known' = known \cup {b}
       /\ queue' = queue \cup {b}
       /\ info' = [a \in DOMAIN info \cup {b} |-> IF a = b THEN "inFlight" ELSE info[a]]
  /\ UNCHANGED <<vars, status, job, lastApplied, pendingKeys, crashes, torn>>

\* _blockProcessorProcessParents: a waiting block wants its parents executed, also
\* one that is stored but not in _mainDag.  One that was found bad is not stored.
Recall ==
  /\ Idle
  /\ \E b \in queue : \E a \in (made[b].parents \cap DOMAIN info) \ Executed(Mortal) :
       /\ a \notin queue /\ info[a] # "bad"
       /\ known' = known \cup {a}
       /\ queue' = queue \cup {a}
  /\ UNCHANGED <<vars, status, job, disk, crashes, torn>>

-----------------------------------------------------------------------------
(***************************************************************************)
(* _acceptBlock, write by write.                                           *)
(***************************************************************************)
BlockBad(b) ==
  /\ bad' = Of(bad, bad[Mortal] \cup {b})
  /\ info' = [info EXCEPT ![b] = "bad"]

\* addBlock and checkFinality, in memory; when the latter throws the block stays there
Accept(b, p) ==
  LET patches == AddBlock(patch[Mortal], b, p)
      tops == FindTopStable(DOMAIN patches, b)
      r == CheckFinality(b, patches, tops)
  IN  IF AcceptFails(Mortal, b, p)
        THEN /\ patch' = Of(patch, patches)
             /\ BlockBad(b)
             /\ UNCHANGED <<topStable, job>>
      ELSE IF tops = {}
        THEN /\ patch' = Of(patch, patches)
             /\ job' = {[block |-> b, stage |-> "pending", tops |-> {},
                         stable |-> {}, apply |-> {}, rollback |-> {}]}
             /\ UNCHANGED <<topStable, bad, info>>
        ELSE /\ patch' = Of(patch, r.patches)
             /\ topStable' = Of(topStable, tops)
             /\ job' = {[block |-> b, stage |-> "last", tops |-> tops,
                         stable |-> r.stable, apply |-> r.apply, rollback |-> r.rollback]}
             /\ UNCHANGED <<bad, info>>

Fails(b) ==
  LET base == Merged(patch[Mortal], made[b].parents)
  IN  \/ made[b].parents \cap bad[Mortal] # {}
      \/ ConflictAmong(patch[Mortal], made[b].parents)
      \/ ~Spendable(Mortal, base, made[b].txns)

Children(b) ==
  {a \in known : b \in made[a].parents} \ (Executed(Mortal) \cup bad[Mortal])

\* _processBlock, _blockProcessorExecBlock
Execute ==
  /\ Idle
  /\ \E b \in queue :
       /\ made[b].parents \subseteq Executed(Mortal) \cup bad[Mortal]
       /\ IF Fails(b)
            THEN /\ BlockBad(b)
                 /\ UNCHANGED <<patch, topStable, job>>
            ELSE Accept(b, Merged(patch[Mortal], made[b].parents) \cup made[b].txns)
       /\ queue' = (queue \ {b}) \cup Children(b)
  /\ UNCHANGED <<made, building, stale, final, unwound, store, status, known,
                 lastApplied, pendingKeys, crashes, torn>>

\* The job at hand, and the job it becomes.
At(stage) == {j \in job : status = "up" /\ j.stage = stage}
Then(j, stage) == job' = {[j EXCEPT !.stage = stage]}

\* _updateLastAppliedBlocks: asks _mainDag for the block it was written with before.
WriteLastApplied ==
  /\ \E j \in At("last") :
       \/ /\ Applied \subseteq known
          /\ lastApplied' \in
               {f \in [Conciliums -> j.tops \cup Applied \cup {Genesis}] :
                  \A c \in Conciliums :
                    LET own == {t \in j.tops : made[t].concilium = c}
                    IN  IF own = {} THEN f[c] = lastApplied[c] ELSE f[c] \in own}
          /\ Then(j, "final")
          /\ UNCHANGED <<bad, info>>
       \/ /\ ~(Applied \subseteq known)
          /\ BlockBad(j.block)
          /\ job' = {}
          /\ UNCHANGED lastApplied
  /\ UNCHANGED <<made, building, stale, patch, topStable, final, unwound, store,
                 status, known, queue, pendingKeys, crashes, torn>>

\* saveBlockInfo of one block after the other
WriteFinal ==
  /\ \E j \in At("final") : \E b \in j.stable :
       /\ final' = Of(final, final[Mortal] \cup {b})
       /\ info' = [info EXCEPT ![b] = "final"]
       /\ job' = {[j EXCEPT !.stable = @ \ {b}]}
  /\ UNCHANGED <<made, building, stale, patch, topStable, bad, unwound, store,
                 status, known, queue, lastApplied, pendingKeys, crashes, torn>>

\* Mutant: does not wait until all the blocks are marked.
WritePatchEarly ==
  /\ \E j \in At("final") :
       /\ store' = Of(store, store[Mortal] \cup j.apply)
       /\ unwound' = Of(unwound, unwound[Mortal] \cup j.rollback)
       /\ known' = known \ j.rollback
       /\ Then(j, "bad")
  /\ UNCHANGED <<made, building, stale, patch, topStable, final, bad, status, queue, info,
                 lastApplied, pendingKeys, crashes, torn>>

\* applyPatch, a batch; then _unwindBlock, in memory
WritePatch ==
  /\ \E j \in At("final") :
       /\ j.stable = {}
       /\ store' = Of(store, store[Mortal] \cup j.apply)
       /\ unwound' = Of(unwound, unwound[Mortal] \cup j.rollback)
       /\ known' = known \ j.rollback
       /\ Then(j, "bad")
  /\ UNCHANGED <<made, building, stale, patch, topStable, final, bad, status, queue, info,
                 lastApplied, pendingKeys, crashes, torn>>

\* removeBadBlocks, one after the other
WriteBad ==
  /\ \E j \in At("bad") : \E b \in j.rollback :
       /\ info' = [info EXCEPT ![b] = "bad"]
       /\ job' = {[j EXCEPT !.rollback = @ \ {b}]}
  /\ UNCHANGED <<vars, status, known, queue, lastApplied, pendingKeys, crashes, torn>>

\* updatePendingBlocks
WritePending ==
  /\ \E j \in At("bad") \cup At("pending") : j.rollback = {}
  /\ pendingKeys' = Pending(Mortal)
  /\ job' = {}
  /\ UNCHANGED <<vars, status, known, queue, info, lastApplied, crashes, torn>>

-----------------------------------------------------------------------------
(***************************************************************************)
(* Crash and start.                                                        *)
(***************************************************************************)
\* gracefulShutdown waits for nothing either.
Crash ==
  /\ status = "up" /\ (CrashAnywhere \/ job = {})
  /\ crashes < MaxCrashes
  /\ crashes' = crashes + 1
  /\ torn' = (torn \/ job # {})
  /\ status' = "down"
  /\ job' = {}
  /\ queue' = {}
  /\ UNCHANGED <<vars, known, info, lastApplied, pendingKeys>>

\* _buildMainDag: all that is under the pending blocks, or under the last applied
MainDag ==
  UNION {Below(Block, b) : b \in IF pendingKeys # {} THEN pendingKeys ELSE Applied}

\* _rebuildPending: pending blocks are executed again, but for the last applied.
ToRun == pendingKeys \ Applied

\* Mutant: a block is executed without what it stands on.
RebuiltAlone == [b \in ToRun |-> made[b].txns]

\* Mutant: all blocks are executed upon one patch.
RebuiltTogether == [b \in ToRun |-> UNION {made[a].txns : a \in ToRun}]

Rebuilt ==
  LET run[b \in ToRun] == made[b].txns \cup UNION {run[a] : a \in ParentsIn(ToRun, b)}
  IN  run

\* No exception: a bad block, one that is final already, one that fails.
Starts ==
  /\ \A b \in MainDag : info[b] # "bad"
  /\ \A b \in ToRun :
       /\ info[b] # "final"
       /\ ~ConflictAmong(Rebuilt, made[b].parents)
       /\ Spendable(Mortal, Merged(Rebuilt, made[b].parents), made[b].txns)

StartAgain ==
  /\ status = "down" /\ Starts
  /\ status' = "up"
  /\ known' = MainDag
  /\ patch' = Of(patch, Rebuilt)
  /\ topStable' = Of(topStable, IF Applied = {} THEN {Genesis} ELSE Applied)
  /\ final' = Of(final, {b \in MainDag : info[b] = "final"})
  /\ bad' = Of(bad, {})
  /\ torn' = (torn \/ ~(FinalOnDisk \subseteq MainDag))
  /\ UNCHANGED <<made, building, stale, unwound, queue, job, disk, crashes>>

FailToStart ==
  /\ status = "down" /\ ~Starts
  /\ status' = "broken"
  /\ UNCHANGED <<vars, known, queue, job, info, lastApplied, pendingKeys, crashes, torn>>

-----------------------------------------------------------------------------
Others ==
  /\ \/ \E c \in Conciliums : CreateBlock(c) \/ CommitBlock(c)
     \/ \E n \in Nodes \ {Mortal} : ReceiveBlock(n)
  /\ UNCHANGED restartVars

NextRestart ==
  \/ Others
  \/ HearOf \/ Recall \/ Execute
  \/ WriteLastApplied \/ WriteFinal \/ WritePatch \/ WriteBad \/ WritePending
  \/ Crash \/ StartAgain \/ FailToStart

SpecRestart == InitRestart /\ [][NextRestart]_allVars

-----------------------------------------------------------------------------
(***************************************************************************)
(* Properties.                                                             *)
(***************************************************************************)
Job == [block : Block, stage : {"last", "final", "bad", "pending"},
        tops : SUBSET Block, stable : SUBSET Block, apply : SUBSET Txns,
        rollback : SUBSET Block]

\* What is in memory and on disk is about blocks there are (_mainDag, BlockInfo).
TypeOKRestart ==
  /\ TypeOK
  /\ status \in {"up", "down", "broken"}
  /\ {known, queue} \subseteq SUBSET Block
  /\ job \subseteq Job /\ Cardinality(job) <= 1
  /\ DOMAIN info \subseteq Block
  /\ \A b \in DOMAIN info : info[b] \in {"inFlight", "final", "bad"}
  /\ lastApplied \in [Conciliums -> Block \cup {Genesis}]
  /\ pendingKeys \in SUBSET Block
  /\ crashes \in 0..MaxCrashes
  /\ torn \in BOOLEAN

\* As long as no crash tore an acceptance, but at whichever write the next one comes:
\* nothing is applied before the block it came with is on disk as final, but for what came
\* with a block rolled back before, so that the crash leaves no spendings that no block
\* accounts for (_processFinalityResults).
StoresWhatIsFinal ==
  [][torn \/ store'[Mortal] \ store[Mortal]
               \subseteq TxnsOf(FinalOnDisk \cup unwound[Mortal])]_allVars

\* When it stopped between two acceptances and starts with all that was final, a node
\* comes back with the graph it had, block by block and patch by patch, and with the
\* same blocks final (_buildMainDag, _rebuildPending, patch.purge).
RestoresGraph ==
  [][status = "down" /\ status' = "up" /\ ~torn'
       => patch'[Mortal] = patch[Mortal] /\ final'[Mortal] = final[Mortal]]_allVars

\* A node that crashed can be started again (_rebuildPending).
AlwaysStarts == status # "broken"

\* A block that was rolled back is under one that is pending.
StandsOnBad == \E b \in MainDag : info[b] = "bad"

\* A pending block holds what has been applied with another.
PendsApplied == \E t \in TxnsOf(pendingKeys) : t \in store[Mortal]

\* A node that never crashed in the middle of an acceptance can be started again, but
\* for two reasons (_buildMainDag, _rebuildPending).
StartsWhenWhole == ~torn /\ ~StandsOnBad /\ ~PendsApplied => AlwaysStarts

\* "the block hashes up to which the database represents the unspent transaction
\* outputs": what is under the last applied blocks is applied (updateLastAppliedBlocks).
LastAppliedIsApplied ==
  Idle /\ ~torn => TxnsOf(UNION {Below(Block, b) : b \in Applied}) \subseteq store[Mortal]

\* What is pending can be applied and nothing is applied that spends an output twice, at
\* the node that crashes as long as no crash has torn it, and at the others but for those
\* where a commit came with a stale patch (_rebuildPending, checkFinality).
PendingAppliesWhole == ~torn => PendingApplies /\ SpentOnce

=============================================================================
