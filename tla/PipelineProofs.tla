---------------------------- MODULE PipelineProofs ----------------------------
(***************************************************************************)
(* Proofs about Pipeline, for every graph of blocks, every set of peers    *)
(* and whatever they hold.                                                 *)
(***************************************************************************)
EXTENDS Pipeline, FiniteSetTheorems, WellFoundedInduction, TLAPS

States == {"none", "inFlight", "bad"}

\* A block is queued or being executed, or a parent it lacks is known of.
OnItsWay(b) ==
  \/ b \in DOMAIN toExec \/ \E j \in executing : j.block = b
  \/ \E a \in Parents[b] \ executed : Known(a) \/ a \in DOMAIN unknown

\* The inductive invariant: only what is stored is queued, so that a block that waits for
\* a queued one waits for one that is stored.
QueueInv ==
  /\ holds \in [Peers -> SUBSET Blocks]
  /\ info \in [Blocks -> States]
  /\ executed \subseteq Blocks
  /\ \A j \in executing : j.block \in Blocks
  /\ \A b \in DOMAIN toExec : b \in Blocks /\ Known(b)
  /\ NothingForgotten

\* What is being executed has its parents executed, none of them bad, and is bad only when
\* it fails of itself.
ExecutingInOrder ==
  \A j \in executing :
    /\ \A a \in Parents[j.block] : a \in executed /\ info[a] = "inFlight"
    /\ info[j.block] = "inFlight" \/ (info[j.block] = "bad" /\ j.block \in Faulty)

ExecutedIsKnown == \A b \in executed : Known(b)

\* With QueueInv inductive: nobody finds fault with a block on executed ones but itself,
\* and what is executed is not processed as one that is new.
OrderInv == QueueInv /\ ExecutingInOrder /\ ExecutedInOrder /\ ExecutedIsKnown

\* What the invariants are about.
queueVars == <<holds, info, executed, toExec, unknown, executing>>

-----------------------------------------------------------------------------
\* Genesis and the order of the parents, as far as the proofs use them.
LEMMA ParentsAreBlocks == ASSUME NEW b \in Blocks PROVE Parents[b] \subseteq Blocks
  BY PipelineAssumption

\* Nothing is stored at the start.
LEMMA InitQueue == Init => QueueInv
  BY PipelineAssumption DEF Init, QueueInv, NothingForgotten, States

\* A step that changes nothing of this keeps it.
LEMMA QueueUnchanged == QueueInv /\ UNCHANGED queueVars => QueueInv'
  BY DEF QueueInv, NothingForgotten, Known, queueVars

-----------------------------------------------------------------------------
\* Processing a block that is stored, or is just now: it fails, or is executed, or waits
\* for a parent which is then queued or marked as unknown.
LEMMA ProcessKeeps ==
  ASSUME QueueInv, NEW b \in Blocks, NEW p, NEW by, NEW STATE of, NEW STATE missing,
         of = [info EXCEPT ![b] = "inFlight"],
         \A c \in DOMAIN unknown : c = b \/ c \in DOMAIN missing,
         ProcessBlock(b, p, by, of, missing), executed' = executed, holds' = holds
  PROVE  QueueInv'
<1> USE DEF QueueInv
<1>1. /\ of \in [Blocks -> States] /\ of[b] = "inFlight"
      /\ \A c \in Blocks : c # b => of[c] = info[c]
  BY DEF States
<1>2. Parents[b] \subseteq Blocks
  BY ParentsAreBlocks
<1>3. CASE Refuse(b, p, by, of) /\ unknown' = missing
  <2>1. info' = [of EXCEPT ![b] = "bad"] /\ executing' = executing
    BY <1>3 DEF Refuse
  <2>2. DOMAIN toExec \ {b} \subseteq DOMAIN toExec' /\ DOMAIN toExec' \subseteq DOMAIN toExec
    BY <1>3 DEF Refuse, Without
  <2>3. /\ info' \in [Blocks -> States] /\ info'[b] = "bad"
        /\ \A c \in Blocks : c # b => info'[c] = info[c]
    BY <1>1, <2>1 DEF States
  <2> QED
    BY <1>3, <2>1, <2>2, <2>3 DEF NothingForgotten, Known
<1>4. CASE StartExec(b, p, by, of) /\ unknown' = missing
  <2>1. info' = of
    BY <1>4 DEF StartExec
  <2>2. /\ \A c \in DOMAIN toExec : c # b => c \in DOMAIN toExec'
        /\ DOMAIN toExec' \subseteq DOMAIN toExec
        /\ executing \subseteq executing'
        /\ \A j \in executing' : j \in executing \/ j.block = b
        /\ b \in executed \/ \E j \in executing' : j.block = b
    <3>1. CASE b \in executed
      BY <1>4, <3>1 DEF StartExec, Without
    <3>2. CASE b \notin executed
      <4> DEFINE job == [block |-> b, peer |-> p, by |-> by]
      <4>1. executing' = executing \cup {job} /\ toExec' = toExec
        BY <1>4, <3>2 DEF StartExec
      <4>2. job.block = b
        OBVIOUS
      <4> HIDE DEF job
      <4> QED
        BY <4>1, <4>2
    <3> QED
      BY <3>1, <3>2
  <2> QED
    BY <1>1, <1>4, <2>1, <2>2 DEF NothingForgotten, Known
<1>5. CASE Await(b, p, by, of, missing)
  <2> DEFINE unexecuted == Parents[b] \ executed
             queue == Queued(toExec, {b}, p, of)
             lacking == {a \in unexecuted : a \notin DOMAIN queue /\ of[a] = "none"}
             longer == Queued(queue, unexecuted \ lacking, p, of)
  <2>1. PICK a \in unexecuted : of[a] # "bad"
    BY <1>5 DEF Await
  <2>2. /\ info' = of /\ executing' = executing
        /\ toExec' = IF by = "worker" THEN Without(longer, b) ELSE longer
        /\ unknown' = Due(missing, lacking, p)
    BY <1>5 DEF Await
  <2>3. DOMAIN queue = DOMAIN toExec \cup {b}
    BY <1>1 DEF Queued, Due
  <2>4. DOMAIN longer = DOMAIN queue \cup {c \in unexecuted \ lacking : of[c] # "bad"}
    BY DEF Queued, Due
  <2>5. /\ \A c \in DOMAIN toExec : c # b => c \in DOMAIN toExec'
        /\ DOMAIN toExec' \subseteq DOMAIN longer
    BY <2>2, <2>3, <2>4 DEF Without
  <2>6. DOMAIN unknown' = lacking \cup DOMAIN missing
    BY <2>2 DEF Due
  <2>7. \A c \in DOMAIN longer : c \in Blocks /\ of[c] # "none"
    BY <1>1, <1>2, <2>3, <2>4 DEF Known
  <2>8. of[a] # "none" \/ a \in DOMAIN unknown'
    BY <1>1, <1>2, <2>1, <2>3, <2>6 DEF Known
  <2>9. ASSUME NEW c \in Blocks \ executed, of[c] = "inFlight" PROVE OnItsWay(c)'
    <3>1. CASE c = b
      BY <2>1, <2>2, <2>8, <3>1 DEF OnItsWay, Known
    <3>2. CASE c # b
      <4>1. OnItsWay(c)
        BY <1>1, <2>9, <3>2 DEF NothingForgotten, OnItsWay
      <4>2. \A d \in Parents[c] : d \in Blocks
        BY ParentsAreBlocks
      <4> QED
        BY <1>1, <2>2, <2>5, <2>6, <3>2, <4>1, <4>2 DEF OnItsWay, Known
    <3> QED
      BY <3>1, <3>2
  <2> HIDE DEF unexecuted, queue, lacking, longer
  <2> QED
    BY <1>1, <2>2, <2>5, <2>7, <2>9 DEF NothingForgotten, OnItsWay, Known
<1> QED
  BY <1>3, <1>4, <1>5 DEF ProcessBlock

\* A block that arrives is no longer unknown; the one that fails verification is bad.
LEMMA HandleBlockKeeps ==
  ASSUME QueueInv, NEW p \in Peers, HandleBlock(p)
  PROVE  QueueInv'
<1>1. PICK b \in {a \in holds[p] : <<p, a>> \in asked} :
        /\ \/ UNCHANGED blockVars
           \/ /\ \/ FailVerification(b, p)
                 \/ ProcessBlock(b, p, "net", [info EXCEPT ![b] = "inFlight"],
                                 Without(unknown, b))
              /\ executed' = executed
        /\ holds' = holds
  BY DEF HandleBlock, blockVars
<1>2. b \in Blocks
  BY <1>1 DEF QueueInv
<1>3. CASE UNCHANGED blockVars
  BY <1>1, <1>3, QueueUnchanged DEF blockVars, queueVars
<1>4. CASE FailVerification(b, p) /\ executed' = executed
  <2>1. /\ info' = [info EXCEPT ![b] = "bad"]
        /\ UNCHANGED <<executed, toExec, unknown, executing>>
    BY <1>4 DEF FailVerification
  <2>2. /\ info' \in [Blocks -> States] /\ info'[b] = "bad"
        /\ \A c \in Blocks : c # b => info'[c] = info[c]
    BY <1>2, <2>1 DEF QueueInv, States
  <2> QED
    BY <1>1, <2>1, <2>2 DEF QueueInv, NothingForgotten, Known
<1>5. CASE /\ ProcessBlock(b, p, "net", [info EXCEPT ![b] = "inFlight"], Without(unknown, b))
           /\ executed' = executed
  <2>1. \A c \in DOMAIN unknown : c = b \/ c \in DOMAIN Without(unknown, b)
    BY DEF Without
  <2> QED
    BY <1>1, <1>2, <1>5, <2>1, ProcessKeeps
<1> QED
  BY <1>1, <1>3, <1>4, <1>5

\* The worker takes a bad block off its queue, or processes one.
LEMMA WorkOffKeeps == QueueInv /\ WorkOff => QueueInv'
<1> SUFFICES ASSUME QueueInv, WorkOff PROVE QueueInv'
  OBVIOUS
<1>1. PICK b \in DOMAIN toExec :
        /\ IF info[b] = "bad"
             THEN /\ toExec' = Without(toExec, b)
                  /\ UNCHANGED <<info, unknown, executing, blamed>>
             ELSE ProcessBlock(b, toExec[b], "worker", info, unknown)
        /\ executed' = executed /\ holds' = holds
  BY DEF WorkOff, netVars
<1>2. CASE info[b] = "bad"
  <2>1. /\ UNCHANGED <<info, unknown, executing>>
        /\ DOMAIN toExec' = DOMAIN toExec \ {b}
    BY <1>1, <1>2 DEF Without
  <2> QED
    BY <1>1, <1>2, <2>1 DEF QueueInv, NothingForgotten, Known
<1>3. CASE info[b] # "bad"
  <2>1. b \in Blocks /\ info[b] = "inFlight" /\ info = [info EXCEPT ![b] = "inFlight"]
    BY <1>3 DEF QueueInv, Known, States
  <2> QED
    BY <1>1, <1>3, <2>1, ProcessKeeps
<1> QED
  BY <1>2, <1>3

\* What stands on a block that was executed, or failed, is queued.
LEMMA FinishExecKeeps == QueueInv /\ FinishExec => QueueInv'
<1> SUFFICES ASSUME QueueInv, FinishExec PROVE QueueInv'
  OBVIOUS
<1> DEFINE children(b) == {c \in Blocks : b \in Parents[c] /\ Known(c)}
           queue(b, p) == Queued(toExec, children(b), p, info)
<1>1. PICK j \in executing, o \in Results :
        /\ o \in Outcomes(j.block)
        /\ executing' = executing \ {j}
        /\ executed' = IF o = "failed" THEN executed ELSE executed \cup {j.block}
        /\ info' = IF o = "accepted" THEN info ELSE [info EXCEPT ![j.block] = "bad"]
        /\ toExec' = IF j.by = "worker" THEN Without(queue(j.block, j.peer), j.block)
                                        ELSE queue(j.block, j.peer)
        /\ unknown' = unknown /\ holds' = holds
  BY DEF FinishExec, Outcomes, netVars
<1> DEFINE b == j.block
<1>2. /\ b \in Blocks
      /\ b \in executed' \/ info'[b] = "bad"
      /\ info' \in [Blocks -> States]
      /\ \A c \in Blocks : c # b => info'[c] = info[c]
      /\ \A c \in Blocks : info[c] # "none" => info'[c] # "none"
      /\ executed \subseteq executed' /\ executed' \subseteq executed \cup {b}
  BY <1>1 DEF QueueInv, States
<1>3. DOMAIN queue(b, j.peer) = DOMAIN toExec \cup {c \in children(b) : info[c] # "bad"}
  BY DEF Queued, Due
<1>4. /\ \A c \in DOMAIN toExec \cup {d \in children(b) : info[d] # "bad"} :
           c # b => c \in DOMAIN toExec'
      /\ DOMAIN toExec' \subseteq DOMAIN queue(b, j.peer)
  BY <1>1, <1>3 DEF Without
<1>5. \A c \in DOMAIN toExec' : c \in Blocks /\ info'[c] # "none"
  BY <1>2, <1>3, <1>4 DEF QueueInv, Known
<1>6. ASSUME NEW c \in Blocks \ executed', info'[c] = "inFlight"
      PROVE  OnItsWay(c)'
  <2>1. c # b /\ c \notin executed /\ info[c] = "inFlight"
    BY <1>2, <1>6
  <2>2. CASE c \in DOMAIN toExec
    BY <1>4, <2>1, <2>2 DEF OnItsWay
  <2>3. CASE \E k \in executing : k.block = c
    BY <1>1, <2>1, <2>3 DEF OnItsWay
  <2>4. CASE \E a \in Parents[c] \ executed : Known(a) \/ a \in DOMAIN unknown
    <3>1. PICK a \in Parents[c] \ executed : Known(a) \/ a \in DOMAIN unknown
      BY <2>4
    <3>2. a \in Blocks
      BY ParentsAreBlocks
    <3>3. CASE a = b
      BY <1>4, <2>1, <3>1, <3>3 DEF OnItsWay, Known
    <3>4. CASE a # b
      BY <1>1, <1>2, <3>1, <3>2, <3>4 DEF OnItsWay, Known
    <3> QED
      BY <3>3, <3>4
  <2> QED
    BY <2>1, <2>2, <2>3, <2>4 DEF QueueInv, NothingForgotten
<1> QED
  BY <1>1, <1>2, <1>5, <1>6 DEF QueueInv, NothingForgotten, OnItsWay, Known

\* Every step keeps the invariant.
LEMMA StepQueue == QueueInv /\ [Next]_vars => QueueInv'
<1> SUFFICES ASSUME QueueInv, [Next]_vars PROVE QueueInv'
  OBVIOUS
<1>1. ASSUME NEW p \in Peers, HandleBlock(p) PROVE QueueInv'
  BY <1>1, HandleBlockKeeps
<1>2. CASE WorkOff
  BY <1>2, WorkOffKeeps
<1>3. CASE FinishExec
  BY <1>3, FinishExecKeeps
<1>4. ASSUME NEW p \in Peers, PeerAccepts(p) PROVE QueueInv'
  BY <1>4 DEF PeerAccepts, QueueInv, NothingForgotten, Known, blockVars
<1>5. ASSUME NEW p \in Peers,
             \/ HandleInv(p) \/ PeerHasNot(p) \/ PeerAnswers(p) \/ Connect(p)
             \/ Disconnect(p) \/ GiveUpQuery(p)
      PROVE  QueueInv'
  <2>1. UNCHANGED queueVars
    BY <1>5 DEF HandleInv, PeerHasNot, PeerAnswers, Connect, Disconnect, GiveUpQuery,
         queueVars, blockVars, netVars
  <2> QED
    BY <2>1, QueueUnchanged
<1>6. CASE StartWorker \/ AskForBlocks \/ GiveUpRequest
  <2>1. UNCHANGED queueVars
    BY <1>6 DEF StartWorker, AskForBlocks, GiveUpRequest, queueVars, blockVars, netVars
  <2> QED
    BY <2>1, QueueUnchanged
<1>7. CASE UNCHANGED vars
  BY <1>7, QueueUnchanged DEF vars, queueVars, blockVars, netVars
<1> QED
  BY <1>1, <1>2, <1>3, <1>4, <1>5, <1>6, <1>7 DEF Next, Handle, Answer, Worker

\* No stored block is forgotten, whatever the graph, the peers and what they hold
\* (_processBlock, _blockProcessorExecBlock, _blockProcessor).
THEOREM NoneForgotten == Spec => []NothingForgotten
<1>1. QueueInv => NothingForgotten
  BY DEF QueueInv
<1> QED
  BY InitQueue, StepQueue, <1>1, PTL DEF Spec

-----------------------------------------------------------------------------
\* Nothing is executed at the start.
LEMMA InitOrder == Init => OrderInv
  BY InitQueue DEF Init, OrderInv, ExecutingInOrder, ExecutedInOrder, ExecutedIsKnown

\* A step that changes nothing of this keeps it.
LEMMA OrderUnchanged ==
  OrderInv /\ QueueInv' /\ UNCHANGED <<info, executed, executing>> => OrderInv'
  BY DEF OrderInv, ExecutingInOrder, ExecutedInOrder, ExecutedIsKnown, Known

\* An execution that fails is of a block that is not executed and fails of itself.
LEMMA OutcomesAre ==
  ASSUME NEW b, NEW o \in Outcomes(b)
  PROVE  /\ o # "accepted" => b \in Faulty /\ b \notin executed
         /\ o # "failed" => b \in executed \/ b \notin Invalid
  BY DEF Outcomes

\* Processing starts an execution when the parents are executed, and refuses a block for
\* a parent that is not.
LEMMA ProcessInOrder ==
  ASSUME OrderInv, QueueInv', NEW b \in Blocks, NEW p, NEW by, NEW STATE of, NEW STATE missing,
         of = [info EXCEPT ![b] = "inFlight"], info[b] # "bad",
         ProcessBlock(b, p, by, of, missing), executed' = executed
  PROVE  OrderInv'
<1> USE DEF OrderInv, ExecutingInOrder, ExecutedInOrder, ExecutedIsKnown, Known
<1>1. /\ of \in [Blocks -> States] /\ of[b] = "inFlight"
      /\ \A c \in Blocks : c # b => of[c] = info[c]
      /\ info[b] \in {"none", "inFlight"}
  BY DEF QueueInv, States
<1>2. /\ executed \subseteq Blocks /\ \A j \in executing : j.block \in Blocks
      /\ \A c \in Blocks : Parents[c] \subseteq Blocks
  BY ParentsAreBlocks DEF QueueInv
<1>3. /\ \A c \in executed :
           /\ of[c] # "none" /\ of[c] = "bad" => c \in Contested
           /\ \A a \in Parents[c] : a \in executed /\ of[a] = "inFlight"
      /\ \A j \in executing :
           /\ of[j.block] = "inFlight" \/ (of[j.block] = "bad" /\ j.block \in Faulty)
           /\ \A a \in Parents[j.block] : a \in executed /\ of[a] = "inFlight"
  BY <1>1, <1>2
<1>4. CASE Refuse(b, p, by, of)
  <2>1. ~(\A a \in Parents[b] : a \in executed /\ of[a] = "inFlight")
    BY <1>4 DEF Refuse
  <2>2. b \notin executed /\ \A j \in executing : j.block # b
    BY <1>3, <2>1
  <2>3. executing' = executing /\ \A c \in Blocks : c # b => info'[c] = of[c]
    BY <1>1, <1>4 DEF Refuse
  <2> QED
    BY <1>2, <1>3, <2>2, <2>3
<1>5. CASE StartExec(b, p, by, of)
  <2> DEFINE job == [block |-> b, peer |-> p, by |-> by]
  <2>1. /\ info' = of
        /\ \A a \in Parents[b] : a \in executed /\ of[a] # "bad"
        /\ executing' = executing \/ executing' = executing \cup {job}
    BY <1>5 DEF StartExec
  <2>2. \A a \in Parents[b] : a \in executed /\ of[a] = "inFlight"
    BY <1>1, <1>2, <1>3, <2>1 DEF States
  <2>3. job.block = b
    OBVIOUS
  <2> HIDE DEF job
  <2> QED
    BY <1>1, <1>3, <2>1, <2>2, <2>3
<1>6. CASE Await(b, p, by, of, missing)
  <2>1. info' = of /\ executing' = executing
    BY <1>6 DEF Await
  <2> QED
    BY <1>3, <2>1
<1> QED
  BY <1>4, <1>5, <1>6 DEF ProcessBlock

\* A block that has just arrived is neither executed nor being executed.
LEMMA HandleBlockInOrder ==
  ASSUME OrderInv, QueueInv', NEW p \in Peers, HandleBlock(p)
  PROVE  OrderInv'
<1>1. PICK b \in {a \in holds[p] : <<p, a>> \in asked} :
        \/ UNCHANGED blockVars
        \/ /\ ~Known(b)
           /\ \/ FailVerification(b, p)
              \/ ProcessBlock(b, p, "net", [info EXCEPT ![b] = "inFlight"],
                              Without(unknown, b))
           /\ executed' = executed
  BY DEF HandleBlock, blockVars
<1>2. b \in Blocks
  BY <1>1 DEF OrderInv, QueueInv
<1>3. CASE UNCHANGED blockVars
  BY <1>3, OrderUnchanged DEF blockVars
<1>4. CASE ~Known(b) /\ FailVerification(b, p) /\ executed' = executed
  <2>1. b \notin executed /\ \A j \in executing : j.block # b
    BY <1>4 DEF OrderInv, ExecutingInOrder, ExecutedIsKnown, Known
  <2>2. executing' = executing /\ \A c \in Blocks : c # b => info'[c] = info[c]
    BY <1>4 DEF FailVerification, OrderInv, QueueInv
  <2>3. \A j \in executing : j.block \in Blocks /\ Parents[j.block] \subseteq Blocks
    BY ParentsAreBlocks DEF OrderInv, QueueInv
  <2>4. executed \subseteq Blocks
    BY DEF OrderInv, QueueInv
  <2> QED
    BY <1>4, <2>1, <2>2, <2>3, <2>4
       DEF OrderInv, ExecutingInOrder, ExecutedInOrder, ExecutedIsKnown, Known
<1>5. CASE /\ ~Known(b) /\ executed' = executed
           /\ ProcessBlock(b, p, "net", [info EXCEPT ![b] = "inFlight"], Without(unknown, b))
  BY <1>2, <1>5, ProcessInOrder DEF Known
<1> QED
  BY <1>1, <1>3, <1>4, <1>5

\* So the worker, with a block it takes off its queue.
LEMMA WorkOffInOrder == OrderInv /\ QueueInv' /\ WorkOff => OrderInv'
<1> SUFFICES ASSUME OrderInv, QueueInv', WorkOff PROVE OrderInv'
  OBVIOUS
<1>1. PICK b \in DOMAIN toExec :
        /\ IF info[b] = "bad" THEN UNCHANGED <<info, executing>>
             ELSE ProcessBlock(b, toExec[b], "worker", info, unknown)
        /\ executed' = executed
  BY DEF WorkOff
<1>2. CASE info[b] = "bad"
  BY <1>1, <1>2, OrderUnchanged
<1>3. CASE info[b] # "bad"
  <2>1. b \in Blocks /\ info = [info EXCEPT ![b] = "inFlight"]
    BY <1>3 DEF OrderInv, QueueInv, Known, States
  <2> QED
    BY <1>1, <1>3, <2>1, ProcessInOrder
<1> QED
  BY <1>2, <1>3

\* The end of an execution: what becomes bad was not executed, so nothing is on it.
LEMMA FinishExecInOrder == OrderInv /\ QueueInv' /\ FinishExec => OrderInv'
<1> SUFFICES ASSUME OrderInv, QueueInv', FinishExec PROVE OrderInv'
  OBVIOUS
<1> USE DEF OrderInv, ExecutingInOrder, ExecutedInOrder, ExecutedIsKnown, Known
<1>1. PICK j \in executing, o \in Results :
        /\ o \in Outcomes(j.block)
        /\ executing' = executing \ {j}
        /\ executed' = IF o = "failed" THEN executed ELSE executed \cup {j.block}
        /\ info' = IF o = "accepted" THEN info ELSE [info EXCEPT ![j.block] = "bad"]
  BY DEF FinishExec, Outcomes
<1>2. /\ executed \subseteq Blocks /\ \A k \in executing : k.block \in Blocks
      /\ \A c \in Blocks : Parents[c] \subseteq Blocks
      /\ info \in [Blocks -> States]
  BY ParentsAreBlocks DEF QueueInv
<1>3. CASE o = "accepted"
  <2>1. info' = info /\ executed' = executed \cup {j.block}
    BY <1>1, <1>3
  <2>2. j.block \in executed \/ j.block \notin Invalid
    BY <1>1, <1>3, OutcomesAre
  <2> QED
    BY <1>1, <1>2, <2>1, <2>2 DEF Faulty
<1>4. CASE o # "accepted"
  <2>1. /\ j.block \in Faulty /\ j.block \notin executed
        /\ o # "failed" => j.block \notin Invalid
    BY <1>1, <1>4, OutcomesAre
  <2>2. info'[j.block] = "bad" /\ \A c \in Blocks : c # j.block => info'[c] = info[c]
    BY <1>1, <1>2, <1>4
  <2>3. executed' = executed \/ (j.block \notin Invalid /\ executed' = executed \cup {j.block})
    BY <1>1, <2>1
  <2>4. ExecutingInOrder'
    BY <1>1, <1>2, <2>1, <2>2, <2>3
  <2>5. ExecutedInOrder' /\ ExecutedIsKnown'
    BY <1>1, <1>2, <2>1, <2>2, <2>3 DEF Faulty
  <2> QED
    BY <2>4, <2>5
<1> QED
  BY <1>3, <1>4

\* Every step keeps the order.
LEMMA StepOrder == OrderInv /\ [Next]_vars => OrderInv'
<1> SUFFICES ASSUME OrderInv, [Next]_vars PROVE OrderInv'
  OBVIOUS
<1>1. QueueInv'
  BY StepQueue DEF OrderInv
<1>2. ASSUME NEW p \in Peers, HandleBlock(p) PROVE OrderInv'
  BY <1>1, <1>2, HandleBlockInOrder
<1>3. CASE WorkOff \/ FinishExec
  BY <1>1, <1>3, WorkOffInOrder, FinishExecInOrder
<1>4. ASSUME NEW p \in Peers,
             \/ HandleInv(p) \/ PeerHasNot(p) \/ PeerAnswers(p) \/ PeerAccepts(p)
             \/ Connect(p) \/ Disconnect(p) \/ GiveUpQuery(p)
      PROVE  OrderInv'
  <2>1. UNCHANGED <<info, executed, executing>>
    BY <1>4 DEF HandleInv, PeerHasNot, PeerAnswers, PeerAccepts, Connect, Disconnect,
         GiveUpQuery, blockVars
  <2> QED
    BY <1>1, <2>1, OrderUnchanged
<1>5. CASE StartWorker \/ AskForBlocks \/ GiveUpRequest \/ UNCHANGED vars
  <2>1. UNCHANGED <<info, executed, executing>>
    BY <1>5 DEF StartWorker, AskForBlocks, GiveUpRequest, vars, blockVars
  <2> QED
    BY <1>1, <2>1, OrderUnchanged
<1> QED
  BY <1>2, <1>3, <1>4, <1>5 DEF Next, Handle, Answer, Worker

\* Blocks are executed after their parents, none on a bad one, and no invalid one; what is
\* executed and bad failed of itself.  So whatever the graph, the order in which peers send
\* it and the acceptances that fail (_canExecuteBlock, _blockProcessorExecBlock).
THEOREM InOrder == Spec => []ExecutedInOrder
<1>1. OrderInv => ExecutedInOrder
  BY DEF OrderInv
<1> QED
  BY InitOrder, StepOrder, <1>1, PTL DEF Spec

-----------------------------------------------------------------------------
\* What is asked for is remembered as requested, unless it is late, and only what is late
\* is asked of two peers at once.
AskInv ==
  \A p \in Peers, b \in Blocks :
    <<p, b>> \in asked =>
      /\ b \in requested \cup late
      /\ \A q \in Peers : <<q, b>> \in asked => q = p \/ b \in late

\* What AskedOnce says of a step.
AskedForCause ==
  \A b \in Blocks :
    (\E p \in Peers : <<p, b>> \in asked' \ asked)
      => /\ ~Known(b)
         /\ UnderWay(b) => b \in late

\* A step that asks for the blocks of B, each of one peer, and forgets no request.
Asks(B, to) ==
  /\ \A p \in Peers, b \in Blocks : <<p, b>> \in asked' \ asked => b \in B /\ p = to[b]
  /\ requested \cup B \subseteq requested'
  /\ late' = late

\* Nothing is asked for that is requested or stored already.
LEMMA AskingIsNew ==
  ASSUME AskInv, NEW B, NEW to, Asks(B, to), \A b \in B : b \notin requested /\ ~Known(b)
  PROVE  AskInv' /\ AskedForCause
<1>1. \A p \in Peers, b \in Blocks : b \in B /\ <<p, b>> \in asked => b \in late
  BY DEF AskInv
<1>2. AskInv'
  BY <1>1 DEF AskInv, Asks
<1> QED
  BY <1>1, <1>2 DEF UnderWay, Asks, AskedForCause

\* A step that asks for nothing: a request goes when it is given up or answered.
LEMMA NotAsking ==
  ASSUME AskInv, asked' \subseteq asked, late \subseteq late',
         \A p \in Peers, b \in Blocks :
           <<p, b>> \in asked' => b \in requested' \cup late' \/ b \notin requested
  PROVE  AskInv' /\ AskedForCause
  BY DEF AskInv, AskedForCause

\* A block that arrives was asked of one peer, unless it is late.
LEMMA HandleBlockAsks ==
  ASSUME AskInv, NEW p \in Peers, HandleBlock(p)
  PROVE  AskInv' /\ AskedForCause
<1>1. PICK b \in {a \in holds[p] : <<p, a>> \in asked} :
        /\ asked' = asked \ {<<p, b>>}
        /\ requested' = requested \/ requested' = requested \ {b}
        /\ late' = late
  BY DEF HandleBlock, FailVerification
<1>2. \A q \in Peers, c \in Blocks :
        <<q, c>> \in asked' => c \in requested' \cup late' \/ c \notin requested
  BY <1>1 DEF AskInv
<1> QED
  BY <1>1, <1>2, NotAsking

\* The worker requests each block of one peer.
LEMMA AskForBlocksAsks ==
  ASSUME AskInv, AskForBlocks
  PROVE  AskInv' /\ AskedForCause
<1>1. late' = late
  BY DEF AskForBlocks
<1>2. CASE connected = {}
  <2>1. asked' = asked /\ requested' = requested
    BY <1>2 DEF AskForBlocks
  <2> QED
    BY <1>1, <2>1, NotAsking DEF AskInv
<1>3. CASE connected # {}
  <2>1. PICK B \in Batches, other \in connected :
          /\ asked' = asked \cup
               {<<IF Connected(unknown[b]) THEN unknown[b] ELSE other, b>> : b \in B}
          /\ requested' = requested \cup B
    BY <1>3 DEF AskForBlocks, RequestBlocks
  <2> DEFINE to == [b \in B |-> IF Connected(unknown[b]) THEN unknown[b] ELSE other]
  <2>2. \A b \in B : b \notin requested /\ ~Known(b)
    BY DEF Batches, ToRequest
  <2>3. Asks(B, to)
    BY <1>1, <2>1 DEF Asks
  <2> HIDE DEF to
  <2> QED
    BY <2>2, <2>3, AskingIsNew
<1> QED
  BY <1>2, <1>3

\* Every step keeps the invariant and asks for cause.
LEMMA StepAsks == AskInv /\ [Next]_vars => AskInv' /\ [AskedForCause]_vars
<1> SUFFICES ASSUME AskInv, [Next]_vars PROVE AskInv' /\ AskedForCause
  OBVIOUS
<1>1. ASSUME NEW p \in Peers, HandleInv(p) PROVE AskInv' /\ AskedForCause
  <2>1. PICK m \in invs :
          LET new == {b \in m.hashes : b \notin requested /\ ~Known(b)}
          IN  /\ asked' = asked \cup GetData(p, new)
              /\ requested' = requested \cup new
              /\ late' = late
    BY <1>1 DEF HandleInv
  <2> DEFINE new == {b \in m.hashes : b \notin requested /\ ~Known(b)}
             to == [b \in new |-> p]
  <2>2. Asks(new, to)
    BY <2>1 DEF Asks, GetData
  <2>3. \A b \in new : b \notin requested /\ ~Known(b)
    OBVIOUS
  <2> HIDE DEF new, to
  <2> QED
    BY <2>2, <2>3, AskingIsNew
<1>2. ASSUME NEW p \in Peers, Connect(p) PROVE AskInv' /\ AskedForCause
  <2>1. CASE Known(Genesis)
    <3>1. asked' = asked /\ requested' = requested /\ late' = late
      BY <1>2, <2>1 DEF Connect
    <3> QED
      BY <3>1, NotAsking DEF AskInv
  <2>2. CASE ~Known(Genesis)
    <3> DEFINE B == {Genesis} \ requested
               to == [b \in B |-> p]
    <3>1. /\ asked' = asked \cup GetData(p, B)
          /\ requested' = requested \cup {Genesis} /\ late' = late
      BY <1>2, <2>2 DEF Connect
    <3>2. Asks(B, to)
      BY <3>1 DEF Asks, GetData
    <3>3. \A b \in B : b \notin requested /\ ~Known(b)
      BY <2>2
    <3> HIDE DEF B, to
    <3> QED
      BY <3>2, <3>3, AskingIsNew
  <2> QED
    BY <2>1, <2>2
<1>3. ASSUME NEW p \in Peers, HandleBlock(p) PROVE AskInv' /\ AskedForCause
  BY <1>3, HandleBlockAsks
<1>4. CASE AskForBlocks
  BY <1>4, AskForBlocksAsks
<1>5. CASE GiveUpRequest
  <2>1. PICK b \in requested :
          /\ requested' = requested \ {b}
          /\ late' = IF UnderWay(b) THEN late \cup {b} ELSE late
          /\ asked' = asked
    BY <1>5 DEF GiveUpRequest
  <2>2. \A q \in Peers, c \in Blocks : <<q, c>> \in asked' => c \in requested' \cup late'
    BY <2>1 DEF AskInv, UnderWay
  <2> QED
    BY <2>1, <2>2, NotAsking
<1>6. ASSUME NEW p \in Peers,
             \/ PeerHasNot(p) \/ PeerAnswers(p) \/ PeerAccepts(p) \/ Disconnect(p)
             \/ GiveUpQuery(p)
      PROVE  AskInv' /\ AskedForCause
  <2>1. asked' \subseteq asked /\ requested' = requested /\ late' = late
    BY <1>6 DEF PeerHasNot, PeerAnswers, PeerAccepts, Disconnect, GiveUpQuery, netVars
  <2> QED
    BY <2>1, NotAsking DEF AskInv
<1>7. CASE StartWorker \/ WorkOff \/ FinishExec \/ UNCHANGED vars
  <2>1. asked' = asked /\ requested' = requested /\ late' = late
    BY <1>7 DEF StartWorker, WorkOff, FinishExec, vars, netVars
  <2> QED
    BY <2>1, NotAsking DEF AskInv
<1> QED
  BY <1>1, <1>2, <1>3, <1>4, <1>5, <1>6, <1>7 DEF Next, Handle, Answer, Worker

\* No block is asked for twice but after its request was given up, and none that is
\* stored (RequestCache, _handleInvMessage, _createMapBlockPeer).
THEOREM OnceAsked == Spec => AskedOnce
<1>1. Init => AskInv
  BY DEF Init, AskInv
<1> QED
  BY <1>1, StepAsks, PTL DEF Spec, AskedOnce, AskedForCause

-----------------------------------------------------------------------------
(***************************************************************************)
(* The blocks that are tainted.  Tainted is defined by a function that     *)
(* recurs on the parents; that there is one follows from the least set of  *)
(* blocks with Faulty and the children of its members.                    *)
(***************************************************************************)
IsTaint(f) == f = [b \in Blocks |-> b \in Faulty \/ \E a \in Parents[b] : f[a]]

ClosedUpwards(S) ==
  /\ Faulty \subseteq S
  /\ \A b \in Blocks : (\E a \in Parents[b] : a \in S) => b \in S

LeastClosed == {b \in Blocks : \A S \in SUBSET Blocks : ClosedUpwards(S) => b \in S}

LEMMA LeastIsClosed == ClosedUpwards(LeastClosed) /\ LeastClosed \subseteq Blocks
<1>1. Faulty \subseteq Blocks
  BY PipelineAssumption
<1>2. ASSUME NEW b \in Blocks, NEW a \in Parents[b], a \in LeastClosed,
             NEW S \in SUBSET Blocks, ClosedUpwards(S)
      PROVE  b \in S
  BY <1>2 DEF ClosedUpwards, LeastClosed
<1> QED
  BY <1>1, <1>2 DEF ClosedUpwards, LeastClosed

\* Without b the set is not closed, so b has a reason to be in it.
LEMMA LeastHasReasons ==
  \A b \in LeastClosed : b \in Faulty \/ \E a \in Parents[b] : a \in LeastClosed
<1> SUFFICES ASSUME NEW b \in LeastClosed, b \notin Faulty,
                    \A a \in Parents[b] : a \notin LeastClosed
             PROVE  FALSE
  OBVIOUS
<1> DEFINE S == LeastClosed \ {b}
<1>1. ClosedUpwards(S) /\ S \subseteq Blocks
  BY LeastIsClosed DEF ClosedUpwards
<1> QED
  BY <1>1 DEF LeastClosed

LEMMA TaintExists == \E f : IsTaint(f)
<1> DEFINE f == [b \in Blocks |-> b \in LeastClosed]
<1>1. ASSUME NEW b \in Blocks PROVE f[b] = (b \in Faulty \/ \E a \in Parents[b] : f[a])
  <2>1. \A a \in Parents[b] : f[a] = (a \in LeastClosed)
    BY ParentsAreBlocks, Zenon
  <2>2. (b \in LeastClosed) = (b \in Faulty \/ \E a \in Parents[b] : a \in LeastClosed)
    BY LeastIsClosed, LeastHasReasons DEF ClosedUpwards
  <2>3. f[b] = (b \in LeastClosed)
    BY Zenon
  <2> HIDE DEF f
  <2>4. (\E a \in Parents[b] : f[a]) <=> (\E a \in Parents[b] : a \in LeastClosed)
    BY <2>1, Zenon
  <2>5. (b \in LeastClosed) = (b \in Faulty \/ \E a \in Parents[b] : f[a])
    BY <2>2, <2>4
  <2> QED
    BY <2>3, <2>5, Zenon
<1>2. f = [b \in Blocks |-> f[b]]
  BY Zenon
<1> HIDE DEF f
<1>3. f = [b \in Blocks |-> b \in Faulty \/ \E a \in Parents[b] : f[a]]
  BY <1>1, <1>2, Zenon
<1> QED
  BY <1>3 DEF IsTaint

\* A block is tainted when it fails of itself or a parent of it is tainted.
LEMMA TaintedRecurs ==
  \A b \in Blocks : b \in Tainted <=> b \in Faulty \/ \E a \in Parents[b] : a \in Tainted
<1> DEFINE f == CHOOSE g : IsTaint(g)
<1>1. Tainted = {b \in Blocks : f[b]}
  BY DEF Tainted, Over, IsTaint
<1>2. IsTaint(f)
  BY TaintExists, Zenon
<1>3. \A b \in Blocks : b \in Tainted <=> f[b]
  BY <1>1, Zenon
<1> HIDE DEF f
<1>4. \A b \in Blocks : f[b] <=> (b \in Faulty \/ \E a \in Parents[b] : f[a])
  BY <1>2, Zenon DEF IsTaint
<1> QED
  BY <1>3, <1>4, ParentsAreBlocks, Zenon

-----------------------------------------------------------------------------
\* What is known to be bad is tainted, and what is late is what comes unasked.
BlameInv ==
  /\ QueueInv /\ AskInv
  /\ \A b \in Blocks : info[b] = "bad" => b \in Tainted

\* What BlamedForCause says of a step.
CauseToBlame ==
  blamed' # blamed =>
    \E b \in Blocks :
      \/ b \in Tainted /\ info[b] # "bad" /\ info'[b] = "bad"
      \/ b \in Tainted /\ \E j \in executing \ executing' : j.block = b
      \/ b \in late /\ \E p \in Peers : <<p, b>> \in asked \ asked'

\* Only a block with a bad parent is refused, and a peer blamed for it.
LEMMA ProcessBlames ==
  ASSUME BlameInv, QueueInv', AskInv', NEW b \in Blocks, NEW p, NEW by, NEW STATE of,
         NEW STATE missing, of = [info EXCEPT ![b] = "inFlight"], info[b] # "bad",
         ProcessBlock(b, p, by, of, missing)
  PROVE  BlameInv' /\ CauseToBlame
<1>1. \A c \in Blocks : of[c] = "bad" => c \in Tainted /\ c # b
  BY DEF BlameInv, QueueInv
<1>2. CASE Refuse(b, p, by, of)
  <2>1. b \in Tainted
    BY <1>1, <1>2, TaintedRecurs, ParentsAreBlocks DEF Refuse
  <2>2. of \in [Blocks -> States]
    BY DEF BlameInv, QueueInv, States
  <2>3. info' = [of EXCEPT ![b] = "bad"]
    BY <1>2 DEF Refuse
  <2>4. info'[b] = "bad" /\ \A c \in Blocks : c # b => info'[c] = of[c]
    BY <2>2, <2>3
  <2>5. \A c \in Blocks : info'[c] = "bad" => c \in Tainted
    BY <1>1, <2>1, <2>4
  <2> QED
    BY <2>1, <2>4, <2>5 DEF BlameInv, CauseToBlame
<1>3. CASE StartExec(b, p, by, of) \/ Await(b, p, by, of, missing)
  <2>1. info' = of /\ blamed' = blamed
    BY <1>3 DEF StartExec, Await
  <2> QED
    BY <1>1, <2>1 DEF BlameInv, CauseToBlame
<1> QED
  BY <1>2, <1>3 DEF ProcessBlock

LEMMA StepBlames == BlameInv /\ [Next]_vars => BlameInv' /\ [CauseToBlame]_vars
<1> SUFFICES ASSUME BlameInv, [Next]_vars PROVE BlameInv' /\ CauseToBlame
  OBVIOUS
<1>1. QueueInv' /\ AskInv'
  BY StepQueue, StepAsks DEF BlameInv
<1>2. ASSUME NEW p \in Peers, HandleBlock(p) PROVE BlameInv' /\ CauseToBlame
  <2>1. PICK b \in {a \in holds[p] : <<p, a>> \in asked} :
          /\ asked' = asked \ {<<p, b>>}
          /\ IF b \notin requested THEN info' = info
             ELSE IF Known(b) THEN UNCHANGED <<info, blamed>>
             ELSE \/ FailVerification(b, p)
                  \/ ProcessBlock(b, p, "net", [info EXCEPT ![b] = "inFlight"],
                                  Without(unknown, b))
    BY <1>2 DEF HandleBlock, blockVars
  <2>2. b \in Blocks
    BY DEF BlameInv, QueueInv
  <2>3. CASE b \notin requested
    <3>1. b \in late
      BY <2>2, <2>3 DEF BlameInv, AskInv
    <3> QED
      BY <1>1, <2>1, <2>2, <2>3, <3>1 DEF BlameInv, CauseToBlame
  <2>4. CASE b \in requested /\ Known(b)
    BY <1>1, <2>1, <2>4 DEF BlameInv, CauseToBlame
  <2>5. CASE ~Known(b) /\ FailVerification(b, p)
    <3>1. info' = [info EXCEPT ![b] = "bad"] /\ b \in Tainted
      BY <2>2, <2>5, TaintedRecurs DEF FailVerification, Faulty
    <3>2. info'[b] = "bad" /\ \A c \in Blocks : c # b => info'[c] = info[c]
      BY <2>2, <3>1 DEF BlameInv, QueueInv
    <3>3. info[b] # "bad"
      BY <2>5 DEF Known
    <3> QED
      BY <1>1, <2>2, <3>1, <3>2, <3>3 DEF BlameInv, CauseToBlame
  <2>6. CASE /\ ~Known(b)
             /\ ProcessBlock(b, p, "net", [info EXCEPT ![b] = "inFlight"],
                             Without(unknown, b))
    BY <1>1, <2>2, <2>6, ProcessBlames DEF Known
  <2> QED
    BY <2>1, <2>3, <2>4, <2>5, <2>6
<1>3. CASE WorkOff
  <2>1. PICK b \in DOMAIN toExec :
          IF info[b] = "bad" THEN UNCHANGED <<info, blamed>>
          ELSE ProcessBlock(b, toExec[b], "worker", info, unknown)
    BY <1>3 DEF WorkOff
  <2>2. CASE info[b] = "bad"
    BY <1>1, <2>1, <2>2 DEF BlameInv, CauseToBlame
  <2>3. CASE info[b] # "bad"
    <3>1. b \in Blocks /\ info = [info EXCEPT ![b] = "inFlight"]
      BY <2>3 DEF BlameInv, QueueInv, Known, States
    <3> QED
      BY <1>1, <2>1, <2>3, <3>1, ProcessBlames
  <2> QED
    BY <2>2, <2>3
<1>4. CASE FinishExec
  <2>1. PICK j \in executing, o \in Results :
          /\ o \in Outcomes(j.block)
          /\ executing' = executing \ {j}
          /\ info' = IF o = "accepted" THEN info ELSE [info EXCEPT ![j.block] = "bad"]
          /\ blamed' = IF o = "accepted" THEN blamed ELSE blamed \cup {j.peer}
    BY <1>4 DEF FinishExec, Outcomes
  <2>2. j.block \in Blocks
    BY DEF BlameInv, QueueInv
  <2>3. CASE o # "accepted"
    <3>1. j.block \in Tainted /\ \A c \in Blocks : c # j.block => info'[c] = info[c]
      BY <2>1, <2>2, <2>3, OutcomesAre, TaintedRecurs DEF BlameInv, QueueInv
    <3>2. j \in executing \ executing'
      BY <2>1
    <3> QED
      BY <1>1, <2>2, <3>1, <3>2 DEF BlameInv, CauseToBlame
  <2>4. CASE o = "accepted"
    BY <1>1, <2>1, <2>4 DEF BlameInv, CauseToBlame
  <2> QED
    BY <2>3, <2>4
<1>5. ASSUME NEW p \in Peers,
             \/ HandleInv(p) \/ PeerHasNot(p) \/ PeerAnswers(p) \/ PeerAccepts(p)
             \/ Connect(p) \/ Disconnect(p) \/ GiveUpQuery(p)
      PROVE  BlameInv' /\ CauseToBlame
  <2>1. info' = info /\ blamed' = blamed
    BY <1>5 DEF HandleInv, PeerHasNot, PeerAnswers, PeerAccepts, Connect, Disconnect,
         GiveUpQuery, blockVars, peerVars
  <2> QED
    BY <1>1, <2>1 DEF BlameInv, CauseToBlame
<1>6. CASE StartWorker \/ AskForBlocks \/ GiveUpRequest \/ UNCHANGED vars
  <2>1. info' = info /\ blamed' = blamed
    BY <1>6 DEF StartWorker, AskForBlocks, GiveUpRequest, vars, blockVars, peerVars
  <2> QED
    BY <1>1, <2>1 DEF BlameInv, CauseToBlame
<1> QED
  BY <1>2, <1>3, <1>4, <1>5, <1>6 DEF Next, Handle, Answer, Worker

\* A peer is blamed for a block that is bad or stands on a bad one, or for an answer that
\* came late, and for nothing else (misbehave in _handleBlockMessage, _processBlock and
\* _blockProcessorExecBlock).
THEOREM Blamed == Spec => BlamedForCause
<1>1. Init => BlameInv
  BY InitQueue DEF Init, BlameInv, AskInv
<1> QED
  BY <1>1, StepBlames, PTL DEF Spec, BlamedForCause, CauseToBlame

-----------------------------------------------------------------------------
(***************************************************************************)
(* What a peer answers to MSG_GET_BLOCKS is about blocks there are: the    *)
(* levels it adds exist, stay blocks and come to an end.                   *)
(***************************************************************************)
LEMMA LeastNumber ==
  ASSUME NEW T \in SUBSET Nat, T # {}
  PROVE  \E n \in T : \A m \in T : n <= m
<1>1. \E n \in T : \A m \in T : <<m, n>> \notin OpToRel(<, Nat)
  BY NatLessThanWellFounded, WFMin, Zenon
<1>2. \A n \in T, m \in T : <<m, n>> \notin OpToRel(<, Nat) => n <= m
  BY DEF OpToRel
<1> QED
  BY <1>1, <1>2

\* One level more: the children of what there is.
Grown(S, base, B) == B \cup (DirectChildren(S, base \cup B) \ base)

\* f has the first n levels.
Levels(S, base, start, n, f) ==
  f = [i \in 0..n |-> IF i = 0 THEN start ELSE Grown(S, base, f[i - 1])]

LEMMA LevelsExist ==
  ASSUME NEW S, NEW base, NEW start, NEW n \in Nat
  PROVE  \E f : Levels(S, base, start, n, f)
<1> DEFINE T == {m \in Nat : ~\E f : Levels(S, base, start, m, f)}
<1> SUFFICES ASSUME T # {} PROVE FALSE
  OBVIOUS
<1>1. PICK m \in T : \A i \in T : m <= i
  BY LeastNumber
<1>2. CASE m = 0
  <2> DEFINE f == [i \in 0..0 |-> start]
  <2>1. f = [i \in 0..0 |-> IF i = 0 THEN start ELSE Grown(S, base, f[i - 1])]
    OBVIOUS
  <2>2. Levels(S, base, start, 0, f)
    BY <2>1 DEF Levels
  <2> QED
    BY <1>1, <1>2, <2>2
<1>3. CASE m # 0
  <2>1. m - 1 \in Nat /\ m - 1 \notin T
    BY <1>1, <1>3
  <2>2. PICK f : Levels(S, base, start, m - 1, f)
    BY <2>1
  <2>3. \A i \in 0..(m - 1) : f[i] = IF i = 0 THEN start ELSE Grown(S, base, f[i - 1])
    BY <2>2 DEF Levels
  <2> DEFINE g == [i \in 0..m |-> IF i = m THEN Grown(S, base, f[m - 1]) ELSE f[i]]
  <2>4. \A i \in 0..m : g[i] = IF i = 0 THEN start ELSE Grown(S, base, g[i - 1])
    <3> TAKE i \in 0..m
    <3>1. CASE i = m
      <4>1. g[i] = Grown(S, base, f[m - 1])
        BY <3>1
      <4>2. m - 1 \in 0..m /\ m - 1 # m /\ g[m - 1] = f[m - 1]
        BY <1>3
      <4> QED
        BY <1>3, <3>1, <4>1, <4>2
    <3>2. CASE i = 0
      <4>1. g[i] = f[i] /\ i \in 0..(m - 1)
        BY <1>3, <3>2
      <4> QED
        BY <2>3, <3>2, <4>1
    <3>3. CASE i # m /\ i # 0
      <4>1. i \in 0..(m - 1) /\ i - 1 \in 0..m /\ i - 1 # m
        BY <3>3
      <4>2. g[i] = f[i] /\ g[i - 1] = f[i - 1]
        BY <3>3, <4>1
      <4> QED
        BY <2>3, <3>3, <4>1, <4>2
    <3> QED
      BY <3>1, <3>2, <3>3
  <2>5. g = [i \in 0..m |-> g[i]]
    OBVIOUS
  <2> HIDE DEF g
  <2>6. g = [i \in 0..m |-> IF i = 0 THEN start ELSE Grown(S, base, g[i - 1])]
    BY <2>4, <2>5
  <2>7. Levels(S, base, start, m, g)
    BY <2>6 DEF Levels
  <2> QED
    BY <1>1, <2>7
<1> QED
  BY <1>2, <1>3

LEMMA LevelsAre ==
  ASSUME NEW S \in SUBSET Blocks, NEW base, NEW start \in SUBSET Blocks, NEW n \in Nat,
         NEW f, Levels(S, base, start, n, f)
  PROVE  \A i \in 0..n : /\ f[i] \in SUBSET Blocks
                         /\ i # 0 => f[i - 1] \subseteq f[i]
<1>1. \A i \in 0..n : f[i] = IF i = 0 THEN start ELSE Grown(S, base, f[i - 1])
  BY DEF Levels
<1>2. \A B : B \subseteq Grown(S, base, B) /\ Grown(S, base, B) \subseteq B \cup S
  BY DEF Grown, DirectChildren
<1> DEFINE T == {i \in 0..n : ~(f[i] \subseteq Blocks)}
<1>3. T = {}
  <2> SUFFICES ASSUME T # {} PROVE FALSE
    OBVIOUS
  <2>0. T \in SUBSET Nat
    OBVIOUS
  <2>1. PICK m \in T : \A i \in T : m <= i
    BY <2>0, LeastNumber, Zenon
  <2>2. m # 0
    BY <1>1, <2>1
  <2>3. m - 1 \in 0..n /\ m - 1 \notin T
    BY <2>1, <2>2
  <2>4. f[m] = Grown(S, base, f[m - 1])
    BY <1>1, <2>2
  <2> QED
    BY <1>2, <2>3, <2>4
<1> QED
  BY <1>1, <1>2, <1>3

\* There are more levels than blocks, so one of them adds nothing.
LEMMA LevelsEnd ==
  ASSUME NEW S \in SUBSET Blocks, NEW base, NEW start \in SUBSET Blocks,
         NEW f, Levels(S, base, start, Last + 2, f)
  PROVE  \E i \in 1..(Last + 2) : f[i] = f[i - 1]
<1> SUFFICES ASSUME \A i \in 1..(Last + 2) : f[i] # f[i - 1] PROVE FALSE
  OBVIOUS
<1>1. Last \in Nat
  BY PipelineAssumption
<1>2. \A i \in 0..(Last + 2) : /\ f[i] \in SUBSET Blocks
                               /\ i # 0 => f[i - 1] \subseteq f[i]
  <2>1. Last + 2 \in Nat
    BY <1>1
  <2> QED
    BY <2>1, LevelsAre, Zenon
<1>3. IsFiniteSet(Blocks) /\ Cardinality(Blocks) = Last + 1
  BY <1>1, FS_Interval DEF Blocks
<1>4. \A i \in 0..(Last + 2) : /\ IsFiniteSet(f[i]) /\ Cardinality(f[i]) \in Nat
                               /\ Cardinality(f[i]) <= Last + 1
  BY <1>2, <1>3, FS_Subset, FS_CardinalityType
<1> DEFINE T == {i \in 0..(Last + 2) : Cardinality(f[i]) < i}
<1>5. Last + 2 \in T
  BY <1>1, <1>4
<1>6. PICK m \in T : \A i \in T : m <= i
  <2>1. T \in SUBSET Nat /\ T # {}
    BY <1>1, <1>5
  <2> QED
    BY <2>1, LeastNumber, Zenon
<1>7. m # 0
  BY <1>4, <1>6
<1>8. /\ m - 1 \in 0..(Last + 2) /\ m - 1 \notin T
      /\ m \in 1..(Last + 2) /\ m \in 0..(Last + 2)
  BY <1>1, <1>6, <1>7
<1>9. f[m - 1] \in SUBSET f[m] /\ f[m - 1] # f[m]
  BY <1>2, <1>7, <1>8
<1>10. /\ Cardinality(f[m - 1]) <= Cardinality(f[m])
       /\ Cardinality(f[m - 1]) # Cardinality(f[m])
  BY <1>4, <1>8, <1>9, FS_Subset
<1>11. ~(Cardinality(f[m - 1]) < m - 1)
  BY <1>8
<1>12. Cardinality(f[m]) < m
  BY <1>6
<1>13. Cardinality(f[m]) \in Nat /\ Cardinality(f[m - 1]) \in Nat
  BY <1>4, <1>8
<1> QED
  BY <1>1, <1>8, <1>10, <1>11, <1>12, <1>13

LEMMA AnswersAreBlocks ==
  ASSUME NEW S \in SUBSET Blocks, NEW hashes, NEW B \in BlocksFromLastKnown(S, hashes)
  PROVE  B \in SUBSET Blocks
<1> DEFINE base == IF hashes \cap S = {} THEN {Genesis} ELSE hashes \cap S
           start == IF hashes \cap S = {} THEN {Genesis} ELSE {}
           f == CHOOSE g : Levels(S, base, start, Last + 2, g)
           Ends(i) == \/ Cardinality(f[i]) >= MaxBlocksInv
                      \/ f[i] = f[i - 1]
           n == CHOOSE i \in 1..(Last + 2) :
                  /\ Ends(i)
                  /\ \A j \in 1..(i - 1) : /\ Cardinality(f[j]) < MaxBlocksInv
                                           /\ f[j] # f[j - 1]
           room == MaxBlocksInv + 1 - Cardinality(f[n - 1])
<1>1. BlocksFromLastKnown(S, hashes) =
        IF Cardinality(f[n]) <= MaxBlocksInv + 1 THEN {f[n]}
        ELSE {f[n - 1] \cup T : T \in kSubset(room, f[n] \ f[n - 1])}
  BY DEF BlocksFromLastKnown, Levels, Grown
<1>2. /\ Last \in Nat /\ MaxBlocksInv \in Nat /\ Last + 2 \in Nat
      /\ start \in SUBSET Blocks
  BY PipelineAssumption DEF Blocks, Genesis
<1>3. Levels(S, base, start, Last + 2, f)
  <2>1. \E g : Levels(S, base, start, Last + 2, g)
    BY <1>2, LevelsExist
  <2> QED
    BY <2>1, Zenon
<1> HIDE DEF base, start, f
<1>4. \A i \in 0..(Last + 2) : f[i] \in SUBSET Blocks
  <2>1. \A i \in 0..(Last + 2) : /\ f[i] \in SUBSET Blocks
                                 /\ i # 0 => f[i - 1] \subseteq f[i]
    BY <1>2, <1>3, LevelsAre, Zenon
  <2> QED
    BY <2>1
<1>5. \A i \in 0..(Last + 2) : Cardinality(f[i]) \in Nat
  <2>1. IsFiniteSet(Blocks)
    BY <1>2, FS_Interval DEF Blocks
  <2> QED
    BY <1>4, <2>1, FS_Subset, FS_CardinalityType
<1>6. \E i \in 1..(Last + 2) : f[i] = f[i - 1]
  BY <1>2, <1>3, LevelsEnd
<1>7. n \in 1..(Last + 2)
  <2> DEFINE E == {i \in 1..(Last + 2) : Ends(i)}
  <2>1. E # {} /\ E \in SUBSET Nat
    BY <1>6
  <2>2. PICK m \in E : \A i \in E : m <= i
    BY <2>1, LeastNumber
  <2>3. ASSUME NEW j \in 1..(m - 1)
        PROVE  Cardinality(f[j]) < MaxBlocksInv /\ f[j] # f[j - 1]
    <3>1. j \in 1..(Last + 2) /\ ~(m <= j)
      BY <1>2, <2>2
    <3>2. ~Ends(j)
      BY <2>2, <3>1
    <3>3. Cardinality(f[j]) \in Nat
      BY <1>2, <1>5, <3>1
    <3> QED
      BY <1>2, <3>2, <3>3
  <2>4. \E i \in 1..(Last + 2) :
          /\ Ends(i)
          /\ \A j \in 1..(i - 1) : /\ Cardinality(f[j]) < MaxBlocksInv
                                   /\ f[j] # f[j - 1]
    BY <2>2, <2>3
  <2> HIDE DEF Ends
  <2> QED
    BY <2>4, Zenon
<1> HIDE DEF n
<1>8. n \in 0..(Last + 2) /\ n - 1 \in 0..(Last + 2)
  BY <1>2, <1>7
<1>9. f[n] \in SUBSET Blocks /\ f[n - 1] \in SUBSET Blocks
  BY <1>4, <1>8
<1> HIDE DEF room
<1>10. \A T \in kSubset(room, f[n] \ f[n - 1]) : T \subseteq f[n]
  BY DEF kSubset
<1>11. CASE Cardinality(f[n]) <= MaxBlocksInv + 1
  BY <1>1, <1>9, <1>11
<1>12. CASE ~(Cardinality(f[n]) <= MaxBlocksInv + 1)
  <2>1. PICK T \in kSubset(room, f[n] \ f[n - 1]) : B = f[n - 1] \cup T
    BY <1>1, <1>12, Zenon
  <2> QED
    BY <1>9, <1>10, <2>1
<1> QED
  BY <1>11, <1>12

-----------------------------------------------------------------------------
(***************************************************************************)
(* Types.                                                                  *)
(***************************************************************************)
ToPeers(f) == \A b \in DOMAIN f : b \in Blocks /\ f[b] \in Peers

BlockTypes ==
  /\ info \in [Blocks -> States] /\ executed \in SUBSET Blocks
  /\ ToPeers(toExec) /\ ToPeers(unknown)
  /\ executing \subseteq [block : Blocks, peer : Peers, by : {"net", "worker"}]
  /\ working \in BOOLEAN

PeerTypes ==
  /\ connected \subseteq Peers /\ ahead \subseteq Peers /\ asking \subseteq Peers
  /\ blamed \subseteq Peers /\ singles \in [Peers -> 0..(MaxSingles + 1)]

NetTypes ==
  /\ requested \subseteq Blocks /\ holds \in [Peers -> SUBSET Blocks]
  /\ queries \subseteq Message /\ invs \subseteq Message /\ asked \subseteq Peers \X Blocks

FaultTypes ==
  /\ late \in SUBSET Blocks /\ disconnects \in Nat
  /\ disconnects + Cardinality(late) <= MaxFaults

\* TypeOK, and that connections lost and late answers are counted apart.
TypeInv == BlockTypes /\ PeerTypes /\ NetTypes /\ FaultTypes

LEMMA LateIsFinite ==
  ASSUME NEW B \in SUBSET Blocks
  PROVE  IsFiniteSet(B) /\ Cardinality(B) \in Nat
<1>1. IsFiniteSet(Blocks)
  BY PipelineAssumption, FS_Interval DEF Blocks
<1> QED
  BY <1>1, FS_Subset, FS_CardinalityType

LEMMA TypeInvIs == TypeInv => TypeOK
<1> SUFFICES ASSUME TypeInv PROVE TypeOK
  OBVIOUS
<1>1. MaxFaults \in Nat /\ Cardinality(late) \in Nat
  BY PipelineAssumption, LateIsFinite DEF TypeInv, FaultTypes
<1> QED
  BY <1>1 DEF TypeInv, BlockTypes, PeerTypes, NetTypes, FaultTypes, TypeOK, ToPeers, States

LEMMA InitTypes == Init => TypeInv
<1> SUFFICES ASSUME Init PROVE TypeInv
  OBVIOUS
<1>1. Cardinality({}) = 0
  BY FS_EmptySet
<1>2. MaxSingles \in Nat /\ MaxFaults \in Nat /\ FirstHeld \in [Peers -> SUBSET Blocks]
  BY PipelineAssumption
<1>3. BlockTypes
  <2>1. \A b : b \notin DOMAIN << >>
    OBVIOUS
  <2>2. ToPeers(toExec) /\ ToPeers(unknown)
    BY <2>1 DEF Init, ToPeers
  <2> QED
    BY <2>2 DEF Init, BlockTypes, States
<1> QED
  BY <1>1, <1>2, <1>3 DEF Init, TypeInv, PeerTypes, NetTypes, FaultTypes

\* The maps from blocks to peers.
LEMMA MapsStay ==
  ASSUME NEW f, ToPeers(f)
  PROVE  /\ \A b : ToPeers(Without(f, b))
         /\ \A B \in SUBSET Blocks, p \in Peers :
              ToPeers(Due(f, B, p)) /\ \A of : ToPeers(Queued(f, B, p, of))
<1>1. \A b : ToPeers(Without(f, b))
  BY DEF ToPeers, Without
<1>2. ASSUME NEW B \in SUBSET Blocks, NEW p \in Peers PROVE ToPeers(Due(f, B, p))
  BY DEF ToPeers, Due
<1>3. ASSUME NEW B \in SUBSET Blocks, NEW p \in Peers, NEW of
      PROVE  ToPeers(Queued(f, B, p, of))
  <2>1. {b \in B : of[b] # "bad"} \in SUBSET Blocks
    OBVIOUS
  <2> QED
    BY <1>2, <2>1 DEF Queued
<1> QED
  BY <1>1, <1>2, <1>3

LEMMA ProcessTypes ==
  ASSUME BlockTypes, PeerTypes, NEW b \in Blocks, NEW p \in Peers,
         NEW by \in {"net", "worker"}, NEW STATE of, NEW STATE missing,
         of \in [Blocks -> States], ToPeers(missing),
         ProcessBlock(b, p, by, of, missing),
         executed' = executed, working' = working
  PROVE  BlockTypes' /\ blamed' \subseteq Peers
<1>1. /\ ToPeers(toExec) /\ info \in [Blocks -> States] /\ blamed \subseteq Peers
      /\ executing \subseteq [block : Blocks, peer : Peers, by : {"net", "worker"}]
      /\ Parents[b] \subseteq Blocks
  BY ParentsAreBlocks DEF BlockTypes, PeerTypes
<1>2. CASE Refuse(b, p, by, of) /\ unknown' = missing
  <2>1. info' \in [Blocks -> States]
    BY <1>2 DEF Refuse, States
  <2>2. ToPeers(toExec')
    BY <1>1, <1>2, MapsStay DEF Refuse
  <2>3. ToPeers(unknown') /\ executing' = executing /\ blamed' \subseteq Peers
    BY <1>1, <1>2 DEF Refuse
  <2> QED
    BY <2>1, <2>2, <2>3 DEF BlockTypes, ToPeers
<1>3. CASE StartExec(b, p, by, of) /\ unknown' = missing
  <2>1. info' = of /\ ToPeers(unknown') /\ blamed' = blamed
    BY <1>3 DEF StartExec
  <2>2. ToPeers(toExec')
    BY <1>1, <1>3, MapsStay DEF StartExec
  <2>3. executing' \subseteq [block : Blocks, peer : Peers, by : {"net", "worker"}]
    BY <1>1, <1>3 DEF StartExec
  <2> QED
    BY <1>1, <2>1, <2>2, <2>3 DEF BlockTypes, ToPeers
<1>4. CASE Await(b, p, by, of, missing)
  <2> DEFINE unexecuted == Parents[b] \ executed
             queue == Queued(toExec, {b}, p, of)
             lacking == {a \in unexecuted : a \notin DOMAIN queue /\ of[a] = "none"}
             longer == Queued(queue, unexecuted \ lacking, p, of)
  <2>1. /\ info' = of /\ executing' = executing /\ blamed' = blamed
        /\ toExec' = IF by = "worker" THEN Without(longer, b) ELSE longer
        /\ unknown' = Due(missing, lacking, p)
    BY <1>4 DEF Await
  <2>2. /\ {b} \in SUBSET Blocks /\ lacking \in SUBSET Blocks
        /\ unexecuted \ lacking \in SUBSET Blocks
    BY <1>1
  <2>3. ToPeers(queue)
    BY <1>1, <2>2, MapsStay
  <2> HIDE DEF queue, unexecuted, lacking
  <2>4. ToPeers(longer)
    BY <2>2, <2>3, MapsStay
  <2> HIDE DEF longer
  <2>5. ToPeers(toExec') /\ ToPeers(unknown')
    BY <2>1, <2>2, <2>4, MapsStay
  <2> QED
    BY <1>1, <2>1, <2>5 DEF BlockTypes, ToPeers
<1> QED
  BY <1>2, <1>3, <1>4 DEF ProcessBlock

LEMMA HandleBlockTypes ==
  ASSUME TypeInv, NEW p \in Peers, HandleBlock(p)
  PROVE  TypeInv'
<1>1. /\ <<connected, ahead, asking, singles, holds, queries, invs, late, disconnects>>'
           = <<connected, ahead, asking, singles, holds, queries, invs, late, disconnects>>
  BY DEF HandleBlock
<1>2. PICK b \in {a \in holds[p] : <<p, a>> \in asked} :
        /\ asked' = asked \ {<<p, b>>}
        /\ IF b \notin requested
             THEN blamed' = blamed \cup {p} /\ UNCHANGED <<blockVars, requested>>
           ELSE IF Known(b) THEN UNCHANGED <<blockVars, requested, blamed>>
           ELSE /\ \/ FailVerification(b, p)
                   \/ /\ requested' = requested \ {b}
                      /\ ProcessBlock(b, p, "net", [info EXCEPT ![b] = "inFlight"],
                                      Without(unknown, b))
                /\ UNCHANGED <<executed, working>>
  BY DEF HandleBlock
<1>3. b \in Blocks
  BY <1>2 DEF TypeInv, NetTypes
<1>4. BlockTypes' /\ blamed' \subseteq Peers /\ requested' \subseteq requested
  <2>1. CASE b \notin requested \/ Known(b)
    BY <1>2, <2>1 DEF TypeInv, BlockTypes, PeerTypes, blockVars, ToPeers
  <2>2. CASE FailVerification(b, p) /\ UNCHANGED <<executed, working>>
    BY <1>3, <2>2 DEF FailVerification, TypeInv, BlockTypes, PeerTypes, ToPeers, States
  <2>3. CASE /\ requested' = requested \ {b}
             /\ ProcessBlock(b, p, "net", [info EXCEPT ![b] = "inFlight"],
                             Without(unknown, b))
             /\ UNCHANGED <<executed, working>>
    <3>1. /\ [info EXCEPT ![b] = "inFlight"] \in [Blocks -> States]
          /\ ToPeers(unknown)
      BY DEF TypeInv, BlockTypes, States
    <3>2. ToPeers(Without(unknown, b))
      BY <3>1, MapsStay
    <3>3. BlockTypes' /\ blamed' \subseteq Peers
      BY <1>3, <2>3, <3>1, <3>2, ProcessTypes DEF TypeInv
    <3> QED
      BY <2>3, <3>3
  <2> QED
    BY <1>2, <2>1, <2>2, <2>3
<1> QED
  BY <1>1, <1>2, <1>4 DEF TypeInv, PeerTypes, NetTypes, FaultTypes

LEMMA WorkOffTypes ==
  ASSUME TypeInv, WorkOff
  PROVE  TypeInv'
<1>1. /\ <<executed, working, requested, connected, ahead, asking, singles>>'
           = <<executed, working, requested, connected, ahead, asking, singles>>
      /\ UNCHANGED netVars
  BY DEF WorkOff
<1>2. PICK b \in DOMAIN toExec :
        IF info[b] = "bad"
          THEN /\ toExec' = Without(toExec, b)
               /\ UNCHANGED <<info, unknown, executing, blamed>>
          ELSE ProcessBlock(b, toExec[b], "worker", info, unknown)
  BY DEF WorkOff
<1>3. /\ b \in Blocks /\ toExec[b] \in Peers
      /\ ToPeers(toExec) /\ ToPeers(unknown) /\ info \in [Blocks -> States]
  BY DEF TypeInv, BlockTypes, ToPeers
<1>4. BlockTypes' /\ blamed' \subseteq Peers
  <2>1. CASE info[b] = "bad"
    <3>1. ToPeers(toExec')
      BY <1>2, <1>3, <2>1, MapsStay
    <3> QED
      BY <1>1, <1>2, <2>1, <3>1 DEF TypeInv, BlockTypes, PeerTypes, ToPeers
  <2>2. CASE info[b] # "bad"
    <3>1. ProcessBlock(b, toExec[b], "worker", info, unknown)
      BY <1>2, <2>2
    <3> QED
      BY <1>1, <1>3, <3>1, ProcessTypes DEF TypeInv
  <2> QED
    BY <2>1, <2>2
<1> QED
  BY <1>1, <1>4 DEF TypeInv, PeerTypes, NetTypes, FaultTypes, netVars

LEMMA FinishExecTypes ==
  ASSUME TypeInv, FinishExec
  PROVE  TypeInv'
<1>1. /\ <<unknown, working, requested, connected, ahead, asking, singles>>'
           = <<unknown, working, requested, connected, ahead, asking, singles>>
      /\ UNCHANGED netVars
  BY DEF FinishExec
<1> DEFINE children(b) == {c \in Blocks : b \in Parents[c] /\ Known(c)}
           queue(j) == Queued(toExec, children(j.block), j.peer, info)
<1>2. PICK j \in executing :
        /\ executing' = executing \ {j}
        /\ executed' = executed \/ executed' = executed \cup {j.block}
        /\ info' = info \/ info' = [info EXCEPT ![j.block] = "bad"]
        /\ blamed' = blamed \/ blamed' = blamed \cup {j.peer}
        /\ toExec' = IF j.by = "worker" THEN Without(queue(j), j.block) ELSE queue(j)
  BY DEF FinishExec
<1>3. /\ j.block \in Blocks /\ j.peer \in Peers /\ ToPeers(toExec)
      /\ children(j.block) \in SUBSET Blocks
  BY DEF TypeInv, BlockTypes
<1> HIDE DEF children
<1>4. ToPeers(queue(j))
  BY <1>3, MapsStay
<1> HIDE DEF queue
<1>5. ToPeers(toExec')
  BY <1>2, <1>4, MapsStay
<1>6. BlockTypes'
  BY <1>1, <1>2, <1>3, <1>5 DEF TypeInv, BlockTypes, ToPeers, States
<1> QED
  BY <1>1, <1>2, <1>3, <1>6 DEF TypeInv, PeerTypes, NetTypes, FaultTypes, netVars

\* What a peer of P is counted stays within the limit.
LEMMA CountsStay ==
  ASSUME NEW s \in [Peers -> 0..(MaxSingles + 1)], NEW P
  PROVE  [p \in Peers |-> IF p \in P /\ s[p] <= MaxSingles THEN s[p] + 1 ELSE s[p]]
           \in [Peers -> 0..(MaxSingles + 1)]
  BY PipelineAssumption

LEMMA HandleInvTypes ==
  ASSUME TypeInv, NEW p \in Peers, HandleInv(p)
  PROVE  TypeInv'
<1> DEFINE new(m) == {b \in m.hashes : b \notin requested /\ ~Known(b)}
           counted(m) == CountSingles(IF Cardinality(new(m)) = 1 THEN {p} ELSE {})
<1>1. PICK m \in invs :
        /\ asked' = asked \cup GetData(p, new(m))
        /\ requested' = requested \cup new(m)
        /\ invs' = invs \ {m}
        /\ asking' = asking \ {p} \/ asking' = asking
        /\ ahead' = ahead \cup {p} \/ ahead' = ahead \ {p} \/ ahead' = ahead
        /\ singles' = counted(m) \/ singles' = singles
        /\ UNCHANGED <<blockVars, connected, blamed, holds, queries, late, disconnects>>
  BY DEF HandleInv
<1>2. new(m) \subseteq Blocks
  BY DEF TypeInv, NetTypes, Message
<1> HIDE DEF new
<1>3. singles' \in [Peers -> 0..(MaxSingles + 1)]
  BY <1>1, CountsStay DEF CountSingles, TypeInv, PeerTypes
<1> HIDE DEF counted
<1>4. BlockTypes' /\ FaultTypes'
  BY <1>1 DEF TypeInv, BlockTypes, FaultTypes, blockVars, ToPeers
<1>5. NetTypes'
  BY <1>1, <1>2 DEF TypeInv, NetTypes, GetData
<1>6. PeerTypes'
  BY <1>1, <1>3 DEF TypeInv, PeerTypes
<1> QED
  BY <1>4, <1>5, <1>6 DEF TypeInv

\* What the node asks for is blocks there are.
LEMMA QueriesAreMessages ==
  ASSUME executed \subseteq Blocks, NEW P \in SUBSET Peers
  PROVE  GetBlocks(P) \subseteq Message
<1>1. \A b \in executed : Parents[b] \subseteq Blocks
  BY ParentsAreBlocks
<1>2. LastKnown \subseteq Blocks
  BY <1>1 DEF LastKnown
<1> QED
  BY <1>2 DEF GetBlocks, Message

LEMMA ConnectTypes ==
  ASSUME TypeInv, NEW p \in Peers, Connect(p)
  PROVE  TypeInv'
<1>1. /\ connected' = connected \cup {p}
      /\ UNCHANGED <<blockVars, blamed, holds, invs, late, disconnects>>
      /\ queries' = queries \/ queries' = queries \cup GetBlocks({p})
      /\ asking' = asking \/ asking' = asking \cup {p}
      /\ singles' = singles \/ singles' = [singles EXCEPT ![p] = 0]
      /\ asked' = asked \/ asked' = asked \cup GetData(p, {Genesis} \ requested)
      /\ requested' = requested \/ requested' = requested \cup {Genesis}
      /\ ahead' = ahead \/ ahead' = ahead \cup {p}
  BY DEF Connect
<1>2. GetBlocks({p}) \subseteq Message
  BY QueriesAreMessages DEF TypeInv, BlockTypes
<1>3. Genesis \in Blocks /\ MaxSingles \in Nat
  BY PipelineAssumption DEF Blocks, Genesis
<1>4. BlockTypes' /\ FaultTypes'
  BY <1>1 DEF TypeInv, BlockTypes, FaultTypes, blockVars, ToPeers
<1>5. NetTypes'
  BY <1>1, <1>2, <1>3 DEF TypeInv, NetTypes, GetData
<1>6. PeerTypes'
  BY <1>1, <1>3 DEF TypeInv, PeerTypes
<1> QED
  BY <1>4, <1>5, <1>6 DEF TypeInv

LEMMA AskForBlocksTypes ==
  ASSUME TypeInv, AskForBlocks
  PROVE  TypeInv'
<1>1. /\ UNCHANGED <<info, executed, toExec, unknown, executing, connected, blamed,
                     holds, invs, late, disconnects>>
      /\ working' = FALSE
  BY DEF AskForBlocks
<1>2. PICK P \in SUBSET (ahead \cap connected) :
        /\ QueryPeers(P)
        /\ IF connected = {} THEN UNCHANGED <<asked, requested, singles, ahead>>
           ELSE RequestBlocks(P)
  BY DEF AskForBlocks
<1>3. P \in SUBSET Peers
  BY DEF TypeInv, PeerTypes
<1>4. queries' \subseteq Message /\ asking' \subseteq Peers
  <2>1. GetBlocks(P) \subseteq Message
    BY <1>3, QueriesAreMessages DEF TypeInv, BlockTypes
  <2> QED
    BY <1>2, <1>3, <2>1 DEF QueryPeers, TypeInv, PeerTypes, NetTypes
<1>5. /\ asked' \subseteq Peers \X Blocks /\ requested' \subseteq Blocks
      /\ singles' \in [Peers -> 0..(MaxSingles + 1)] /\ ahead' \subseteq Peers
  <2>1. CASE connected = {}
    BY <1>2, <2>1 DEF TypeInv, PeerTypes, NetTypes
  <2>2. CASE connected # {}
    <3> DEFINE to(b, other) == IF Connected(unknown[b]) THEN unknown[b] ELSE other
               reset == [p \in Peers |-> IF p \in P THEN 0 ELSE singles[p]]
               targets(B, other) == {to(b, other) : b \in B}
    <3>1. PICK B \in Batches, other \in connected :
            /\ asked' = asked \cup {<<to(b, other), b>> : b \in B}
            /\ requested' = requested \cup B
            /\ singles' = [p \in Peers |->
                             IF p \in targets(B, other) /\ reset[p] <= MaxSingles
                               THEN reset[p] + 1 ELSE reset[p]]
            /\ ahead' = ahead \cup {p \in targets(B, other) : singles'[p] > MaxSingles}
      BY <1>2, <2>2 DEF RequestBlocks
    <3>2. B \subseteq Blocks
      BY DEF Batches, ToRequest, TypeInv, BlockTypes, ToPeers
    <3>3. \A b \in B : to(b, other) \in Peers
      BY DEF TypeInv, PeerTypes, Connected
    <3>4. reset \in [Peers -> 0..(MaxSingles + 1)]
      BY PipelineAssumption DEF TypeInv, PeerTypes
    <3> HIDE DEF reset, to
    <3>5. targets(B, other) \subseteq Peers
      BY <3>3
    <3> HIDE DEF targets
    <3>6. singles' \in [Peers -> 0..(MaxSingles + 1)]
      BY <3>1, <3>4, CountsStay
    <3>7. ahead' \subseteq Peers
      BY <3>1, <3>5 DEF TypeInv, PeerTypes
    <3>8. asked' \subseteq Peers \X Blocks /\ requested' \subseteq Blocks
      BY <3>1, <3>2, <3>3 DEF TypeInv, NetTypes
    <3> QED
      BY <3>6, <3>7, <3>8
  <2> QED
    BY <2>1, <2>2
<1>6. BlockTypes' /\ FaultTypes'
  BY <1>1 DEF TypeInv, BlockTypes, FaultTypes, ToPeers
<1>7. NetTypes' /\ PeerTypes'
  BY <1>1, <1>4, <1>5 DEF TypeInv, NetTypes, PeerTypes
<1> QED
  BY <1>6, <1>7 DEF TypeInv

\* A request is given up late, or a connection lost, while faults are left.
LEMMA FaultsTypes ==
  ASSUME TypeInv, GiveUpRequest \/ \E p \in Peers : Disconnect(p)
  PROVE  TypeInv'
<1>1. /\ late \in SUBSET Blocks /\ disconnects \in Nat /\ MaxFaults \in Nat
      /\ MaxSingles \in Nat
      /\ IsFiniteSet(late) /\ Cardinality(late) \in Nat
      /\ disconnects + Cardinality(late) <= MaxFaults
  BY PipelineAssumption, LateIsFinite DEF TypeInv, FaultTypes
<1>2. CASE GiveUpRequest
  <2>1. PICK b \in requested :
          /\ UnderWay(b) => disconnects + Cardinality(late) < MaxFaults
          /\ requested' = requested \ {b}
          /\ late' = IF UnderWay(b) THEN late \cup {b} ELSE late
    BY <1>2 DEF GiveUpRequest
  <2>2. UNCHANGED <<blockVars, peerVars, holds, queries, invs, asked, disconnects>>
    BY <1>2 DEF GiveUpRequest
  <2>3. /\ Cardinality(late \cup {b}) \in Nat
        /\ Cardinality(late \cup {b}) <= Cardinality(late) + 1
    <3>1. Cardinality(late \cup {b}) =
            IF b \in late THEN Cardinality(late) ELSE Cardinality(late) + 1
      BY <1>1, FS_AddElement, Zenon
    <3> QED
      BY <1>1, <3>1
  <2>4. b \in Blocks
    BY DEF TypeInv, NetTypes
  <2>5. FaultTypes'
    BY <1>1, <2>1, <2>2, <2>3, <2>4 DEF FaultTypes
  <2>6. BlockTypes' /\ PeerTypes'
    BY <2>2 DEF TypeInv, BlockTypes, PeerTypes, blockVars, peerVars, ToPeers
  <2>7. NetTypes'
    BY <2>1, <2>2 DEF TypeInv, NetTypes
  <2> QED
    BY <2>5, <2>6, <2>7 DEF TypeInv
<1>3. ASSUME NEW p \in Peers, Disconnect(p) PROVE TypeInv'
  <2>1. /\ disconnects + Cardinality(late) < MaxFaults /\ disconnects' = disconnects + 1
        /\ connected' = connected \ {p} /\ singles' = [singles EXCEPT ![p] = 0]
        /\ queries' \subseteq queries /\ invs' \subseteq invs /\ asked' \subseteq asked
        /\ UNCHANGED <<blockVars, requested, ahead, asking, blamed, holds, late>>
    BY <1>3 DEF Disconnect
  <2>2. FaultTypes'
    BY <1>1, <2>1 DEF FaultTypes
  <2>3. BlockTypes'
    BY <2>1 DEF TypeInv, BlockTypes, blockVars, ToPeers
  <2>4. PeerTypes' /\ NetTypes'
    BY <1>1, <2>1 DEF TypeInv, PeerTypes, NetTypes
  <2> QED
    BY <2>2, <2>3, <2>4 DEF TypeInv
<1> QED
  BY <1>2, <1>3

\* A peer informs of blocks there are.
LEMMA PeerTells ==
  ASSUME TypeInv, NEW p \in Peers, PeerAnswers(p) \/ PeerAccepts(p)
  PROVE  TypeInv'
<1>1. UNCHANGED <<blockVars, requested, peerVars, asked, late, disconnects>>
  BY DEF PeerAnswers, PeerAccepts
<1>2. holds[p] \in SUBSET Blocks
  BY DEF TypeInv, NetTypes
<1>3. CASE PeerAnswers(p)
  <2>1. PICK q \in queries : \E B \in BlocksFromLastKnown(holds[p], q.hashes) :
          /\ queries' = queries \ {q}
          /\ invs' = invs \cup [peer : {p}, hashes : {B}]
    BY <1>3 DEF PeerAnswers
  <2>2. PICK B \in BlocksFromLastKnown(holds[p], q.hashes) :
          /\ queries' = queries \ {q}
          /\ invs' = invs \cup [peer : {p}, hashes : {B}]
    BY <2>1
  <2>3. B \in SUBSET Blocks
    BY <1>2, AnswersAreBlocks
  <2>4. holds' = holds
    BY <1>3 DEF PeerAnswers
  <2> QED
    BY <1>1, <2>2, <2>3, <2>4
       DEF TypeInv, BlockTypes, PeerTypes, NetTypes, FaultTypes, blockVars, peerVars, ToPeers,
           Message
<1>4. CASE PeerAccepts(p)
  <2>1. PICK b \in Blocks :
          /\ holds' = [holds EXCEPT ![p] = @ \cup {b}]
          /\ invs' = IF Connected(p) THEN invs \cup [peer : {p}, hashes : {{b}}] ELSE invs
    BY <1>4 DEF PeerAccepts
  <2>2. queries' = queries
    BY <1>4 DEF PeerAccepts
  <2> QED
    BY <1>1, <2>1, <2>2
       DEF TypeInv, BlockTypes, PeerTypes, NetTypes, FaultTypes, blockVars, peerVars, ToPeers,
           Message
<1> QED
  BY <1>3, <1>4

LEMMA StepTypes == TypeInv /\ [Next]_vars => TypeInv'
<1> SUFFICES ASSUME TypeInv, [Next]_vars PROVE TypeInv'
  OBVIOUS
<1> USE DEF TypeInv
<1>1. ASSUME NEW p \in Peers, PeerHasNot(p) PROVE TypeInv'
  <2>1. /\ UNCHANGED <<blockVars, requested, peerVars, holds, queries, invs, late,
                       disconnects>>
        /\ asked' \subseteq asked
    BY <1>1 DEF PeerHasNot
  <2> QED
    BY <2>1 DEF BlockTypes, PeerTypes, NetTypes, FaultTypes, blockVars, peerVars, ToPeers
<1>2. ASSUME NEW p \in Peers, GiveUpQuery(p) PROVE TypeInv'
  <2>1. /\ UNCHANGED <<blockVars, requested, connected, ahead, singles, blamed, netVars>>
        /\ asking' \subseteq asking
    BY <1>2 DEF GiveUpQuery
  <2> QED
    BY <2>1 DEF BlockTypes, PeerTypes, NetTypes, FaultTypes, blockVars, netVars, ToPeers
<1>3. CASE StartWorker
  <2>1. /\ working' = TRUE
        /\ UNCHANGED <<info, executed, toExec, unknown, executing, requested, peerVars,
                       netVars>>
    BY <1>3 DEF StartWorker
  <2> QED
    BY <2>1 DEF BlockTypes, PeerTypes, NetTypes, FaultTypes, peerVars, netVars, ToPeers
<1>4. CASE UNCHANGED vars
  BY <1>4 DEF BlockTypes, PeerTypes, NetTypes, FaultTypes, vars, blockVars, peerVars, netVars,
              ToPeers
<1> HIDE DEF TypeInv
<1> QED
  BY <1>1, <1>2, <1>3, <1>4, HandleBlockTypes, WorkOffTypes, FinishExecTypes, HandleInvTypes,
     ConnectTypes, AskForBlocksTypes, FaultsTypes, PeerTells
     DEF Next, Handle, Answer, Worker

\* What the node queues, marks, requests and counts is about blocks and peers there are,
\* whatever peers answer, and no more faults happen than the bound lets (_createMapBlockPeer,
\* _getBlocksFromLastKnown, singleBlockRequested).
THEOREM PipeTypeCorrect == Spec => []TypeOK
<1> QED
  BY InitTypes, StepTypes, TypeInvIs, PTL DEF Spec
=============================================================================
